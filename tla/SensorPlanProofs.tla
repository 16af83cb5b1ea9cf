-------------------------- MODULE SensorPlanProofs --------------------------
(***************************************************************************)
(* The safety properties of SensorPlan, for any number of deliveries,      *)
(* sweepers, targets and addresses.                                        *)
(***************************************************************************)
EXTENDS SensorPlanTypes

-----------------------------------------------------------------------------
(* What a step does to the units that are done *)

Done == {u \in Unit : unit[u].status = "done"}
DoneStays == Done' = Done /\ mirror' = mirror

\* A report is stored: the only way a unit becomes done.
Stores(q) ==
  /\ job.status = "awaiting_sensor" /\ job' = job
  /\ unit[q.unit] = [status |-> "pending", attempts |-> command[q.by].attempt]
  /\ request' = request \ {q}
  /\ \E status \in {"done", "failed"} : Store(q.unit, status)

\* An UPDATE of the status of units that are not done.
LEMMA SetUnitsDoneStays ==
  ASSUME TypeInv, NEW from, "done" \notin from, NEW to \in UnitStatus \ {"done"},
         unit' = SetUnits(from, to)
  PROVE  Done' = Done
<1>1. ASSUME NEW u \in Unit PROVE unit'[u].status = "done" <=> unit[u].status = "done"
  <2>0. unit[u] \in [status: UnitStatus, attempts: Nat]
    BY DEF TypeInv, TypeOK
  <2>1. CASE unit[u].status \in from
    BY <2>0, <2>1 DEF SetUnits
  <2>2. CASE unit[u].status \notin from
    BY <2>2 DEF SetUnits
  <2> QED BY <2>1, <2>2
<1> QED BY <1>1 DEF Done

LEMMA DeliveryDoneStays ==
  ASSUME TypeInv, NEW m \in Delivery, DeliveryStep(m)
  PROVE  Done' = Done
<1>0. unit \in [Unit -> [status: UnitStatus, attempts: Nat]]
  BY DEF TypeInv, TypeOK
<1>1. ASSUME NEW t \in Target, ExpandTarget(m, t) PROVE Done' = Done
  <2>1. PICK refused \in SUBSET Unit :
          unit' = [u \in Unit |-> IF TargetOf[u] # t THEN unit[u]
                                  ELSE [unit[u] EXCEPT !.status =
                                          IF u \in refused THEN "failed" ELSE "pending"]]
    BY <1>1 DEF ExpandTarget, UnitsOf
  <2>2. ASSUME NEW u \in Unit PROVE unit'[u].status = "done" <=> unit[u].status = "done"
    <3>1. CASE TargetOf[u] = t
      <4>1. unit[u].status = "absent"
        BY <1>1, <3>1 DEF ExpandTarget, UnitsOf
      <4>2. unit'[u].status \in {"failed", "pending"}
        BY <1>0, <2>1, <3>1
      <4> QED BY <4>1, <4>2
    <3>2. CASE TargetOf[u] # t
      BY <2>1, <3>2
    <3> QED BY <3>1, <3>2
  <2> QED BY <2>2 DEF Done
<1>2. ASSUME Reauthorize(m) PROVE Done' = Done
  <2>1. PICK refused \in SUBSET Pending :
          unit' = [u \in Unit |-> IF u \in refused THEN [unit[u] EXCEPT !.status = "failed"]
                                                   ELSE unit[u]]
    BY <1>2, SensorUnitAssumption DEF Reauthorize, Pending
  <2>2. ASSUME NEW u \in Unit PROVE unit'[u].status = "done" <=> unit[u].status = "done"
    <3>1. CASE u \in refused
      <4>1. unit[u].status = "pending"
        BY <2>1, <3>1 DEF Pending
      <4>2. unit'[u].status = "failed"
        BY <1>0, <2>1, <3>1
      <4> QED BY <4>1, <4>2
    <3>2. CASE u \notin refused
      BY <2>1, <3>2
    <3> QED BY <3>1, <3>2
  <2> QED BY <2>2 DEF Done
<1>3. ASSUME DispatchCommand(m) PROVE Done' = Done
  <2>1. unit' = [u \in Unit |-> IF u \in Pending THEN [unit[u] EXCEPT !.attempts = NextAttempt]
                                                 ELSE unit[u]]
    BY <1>3 DEF DispatchCommand
  <2>2. ASSUME NEW u \in Unit PROVE unit'[u].status = unit[u].status
    BY <1>0, <2>1
  <2> QED BY <2>2 DEF Done
<1>4. CASE UNCHANGED unit
  BY <1>4 DEF Done
<1> QED
  BY <1>1, <1>2, <1>3, <1>4
  DEF DeliveryStep, TakeDelivery, RateLimited, LeaveDispatch, CannotDispatch, FailDispatch,
      CloseFailedDispatch, rows

LEMMA StoreStep ==
  ASSUME TypeInv, [Next]_sensorVars
  PROVE  DoneStays \/ \E q \in request : Stores(q)
<1>1. CASE UNCHANGED <<unit, mirror>>
  BY <1>1 DEF DoneStays, Done
<1>2. ASSUME NEW m \in Delivery, DeliveryStep(m) PROVE DoneStays
  BY <1>2, DeliverySteps, DeliveryDoneStays DEF DoneStays
<1>3. ASSUME NEW d \in Dispatch, SensorStep(d) PROVE DoneStays
  <2>1. mirror' = mirror
    BY <1>3, SensorSteps
  <2>2. UNCHANGED unit \/ unit' = SetUnits({"pending"}, "failed")
    BY <1>3, SensorSteps DEF CompleteJob
  <2>3. "done" \notin {"pending"} /\ "failed" \in UnitStatus \ {"done"}
    BY DEF UnitStatus
  <2>4. unit' = SetUnits({"pending"}, "failed") => Done' = Done
    BY <2>3, SetUnitsDoneStays
  <2> QED BY <2>1, <2>2, <2>4 DEF DoneStays, Done
<1>4. ASSUME NEW q \in request, RenewLease(q) \/ RecordUnit(q) \/ LoseRequest(q)
      PROVE  DoneStays \/ Stores(q)
  <2>1. CASE RecordUnit(q)
    BY <2>1 DEF RecordUnit, Stores, DoneStays, Done
  <2> QED BY <1>4, <2>1, RequestSteps DEF DoneStays, Done
<1>5. CASE CancelStep
  <2>1. UNCHANGED unit \/ unit' = SetUnits({"pending"}, "cancelled")
    BY <1>5
    DEF CancelStep, CancelJob, CancelTargets, CancelUnits, RevokeDispatch, TellSensor, CancelLost,
        rows
  <2>2. "done" \notin {"pending"} /\ "cancelled" \in UnitStatus \ {"done"}
    BY DEF UnitStatus
  <2>3. unit' = SetUnits({"pending"}, "cancelled") => Done' = Done
    BY <2>2, SetUnitsDoneStays
  <2> QED BY <1>5, <2>1, <2>3, CancelSteps DEF DoneStays, Done
<1>6. CASE RequeueJobForRetry
  <2>1. "done" \notin UnitStatus \ {"absent", "done"} /\ "pending" \in UnitStatus \ {"done"}
    BY DEF UnitStatus
  <2> QED BY <1>6, <2>1, SetUnitsDoneStays DEF RequeueJobForRetry, DoneStays
<1> QED
  BY <1>1, <1>2, <1>3, <1>4, <1>5, <1>6, SweepSteps, OtherSteps
  DEF Next, ServeRequest, rows, sensorVars

\* What a stored report does to its own row and to the others.
LEMMA StoresFacts ==
  ASSUME TypeInv, NEW q \in request, Stores(q)
  PROVE  /\ q.unit \in Unit /\ q.by \in Dispatch
         /\ unit[q.unit].status = "pending" /\ unit'[q.unit].status \in {"done", "failed"}
         /\ mirror'[q.unit] = IF unit'[q.unit].status = "done" /\ q.unit \notin Silent
                              THEN mirror[q.unit] + 1 ELSE mirror[q.unit]
         /\ \A u \in Unit \ {q.unit} : unit'[u] = unit[u] /\ mirror'[u] = mirror[u]
<1>0. /\ q.unit \in Unit /\ q.by \in Dispatch
      /\ unit \in [Unit -> [status: UnitStatus, attempts: Nat]] /\ mirror \in [Unit -> Nat]
  BY DEF TypeInv, TypeOK
<1>1. PICK status \in {"done", "failed"} : Store(q.unit, status)
  BY DEF Stores
<1>2. unit' = [unit EXCEPT ![q.unit].status = status]
  BY <1>1 DEF Store
<1>3. unit'[q.unit].status = status /\ \A u \in Unit \ {q.unit} : unit'[u] = unit[u]
  BY <1>0, <1>2
<1>4. unit[q.unit].status = "pending"
  BY DEF Stores
<1>5. mirror' = IF status = "done" /\ q.unit \notin Silent
                THEN [mirror EXCEPT ![q.unit] = @ + 1] ELSE mirror
  BY <1>1 DEF Store
<1>6. /\ mirror'[q.unit] = IF status = "done" /\ q.unit \notin Silent
                           THEN mirror[q.unit] + 1 ELSE mirror[q.unit]
      /\ \A u \in Unit \ {q.unit} : mirror'[u] = mirror[u]
  BY <1>0, <1>5
<1> QED BY <1>0, <1>3, <1>4, <1>6

LEMMA StoredOnceStep ==
  ASSUME TypeInv, StoredOnce, [Next]_sensorVars
  PROVE  StoredOnce'
<1>1. CASE DoneStays
  <2>1. \A u \in Unit : unit'[u].status = "done" <=> unit[u].status = "done"
    BY <1>1 DEF DoneStays, Done
  <2> QED BY <1>1, <2>1 DEF StoredOnce, DoneStays
<1>2. ASSUME NEW q \in request, Stores(q) PROVE StoredOnce'
  <2>1. ASSUME NEW u \in Unit
        PROVE  mirror'[u] = IF unit'[u].status = "done" /\ u \notin Silent THEN 1 ELSE 0
    <3>1. CASE u = q.unit
      BY <1>2, <3>1, StoresFacts DEF StoredOnce
    <3>2. CASE u # q.unit
      BY <1>2, <3>2, StoresFacts DEF StoredOnce
    <3> QED BY <3>1, <3>2
  <2> QED BY <2>1 DEF StoredOnce
<1> QED BY <1>1, <1>2, StoreStep

\* Every host's findings enter the ingestion queue exactly once, with its `done`
\* (recordSensorUnit), whatever is lost, repeated or late.
THEOREM FindingsStoredOnce == Spec => []StoredOnce
<1>1. Init => StoredOnce
  BY DEF Init, StoredOnce
<1>2. TypeInv /\ StoredOnce /\ [Next]_sensorVars => StoredOnce'
  BY StoredOnceStep
<1> QED BY <1>1, <1>2, TypeInvHolds, PTL DEF Spec

\* recordSensorUnit stores nothing unless the job still awaits the sensor when the
\* report's second transaction reads it.
THEOREM EndedStoresNothing == Spec => NothingStoredAfterEnd
<1> DEFINE Quiet == job.status # "awaiting_sensor"
                      => \A u \in Unit : unit'[u].status = "done" => unit[u].status = "done"
<1>1. TypeInv /\ [Next]_sensorVars => Quiet
  <2> SUFFICES ASSUME TypeInv, [Next]_sensorVars PROVE Quiet
    OBVIOUS
  <2>1. DoneStays => Quiet
    BY DEF DoneStays, Done
  <2>2. ASSUME NEW q \in request, Stores(q) PROVE Quiet
    BY <2>2 DEF Stores
  <2> QED BY <2>1, <2>2, StoreStep
<1>2. TypeInv /\ [Next]_sensorVars => [Quiet]_sensorVars
  BY <1>1
<1> QED BY <1>2, TypeInvHolds, PTL DEF Spec, NothingStoredAfterEnd

-----------------------------------------------------------------------------
(* The status of the job, and ScanLedger *)

JobStays == job'.status = job.status
JobMove ==
  \/ job.status = "queued" /\ job'.status = "awaiting_sensor"
  \/ job.status \notin Terminal /\ job'.status \in Terminal
  \/ job.status = "failed" /\ job'.status = "queued"

LEMMA JobStep ==
  ASSUME TypeInv, [Next]_sensorVars
  PROVE  JobStays \/ JobMove
<1>0. /\ job \in [status: JobStatus, fresh: BOOLEAN]
      /\ \A d \in Dispatch : run[d].verdict \in {"completed", "failed"}
  BY DEF TypeInv, TypeOK
<1>1. \A f \in BOOLEAN : job' = [job EXCEPT !.fresh = f] => JobStays
  BY <1>0 DEF JobStays
<1>2. \A to \in JobStatus : MoveJob(to) => job'.status = to
  BY DEF MoveJob
<1>3. UNCHANGED job => JobStays
  BY DEF JobStays
<1>4. {"queued", "failed", "awaiting_sensor", "completed", "cancelled"} \subseteq JobStatus
  BY DEF JobStatus, Terminal
<1>5. ASSUME NEW m \in Delivery, DeliveryStep(m) PROVE JobStays \/ JobMove
  BY <1>2, <1>3, <1>4, <1>5
  DEF DeliveryStep, TakeDelivery, RateLimited, ExpandTarget, Reauthorize, DispatchCommand,
      LeaveDispatch, CannotDispatch, FailDispatch, CloseFailedDispatch, rows, JobMove, NotTerminal,
      Terminal
<1>6. ASSUME NEW d \in Dispatch, SensorStep(d) PROVE JobStays \/ JobMove
  <2>1. CASE CompleteJob(d)
    <3>1. CASE job.status = "awaiting_sensor"
      <4>1. MoveJob(run[d].verdict)
        BY <2>1, <3>1 DEF CompleteJob
      <4>2. job'.status = run[d].verdict
        BY <1>0, <1>2, <1>4, <4>1
      <4> QED BY <1>0, <3>1, <4>2 DEF JobMove, Terminal
    <3>2. CASE job.status # "awaiting_sensor"
      BY <2>1, <3>2, <1>3 DEF CompleteJob
    <3> QED BY <3>1, <3>2
  <2> QED BY <1>3, <1>6, <2>1, SensorSteps
<1>7. ASSUME NEW q \in request, RenewLease(q) \/ RecordUnit(q) \/ LoseRequest(q) PROVE JobStays
  <2>1. CASE RenewLease(q)
    BY <1>1, <1>3, <2>1 DEF RenewLease
  <2> QED BY <1>3, <1>7, <2>1, RequestSteps
<1>8. ASSUME NEW s \in Sweeper, SweepStep(s) PROVE JobStays \/ JobMove
  BY <1>2, <1>3, <1>4, <1>8
  DEF SweepStep, FindStale, WithdrawStale, FailStale, CloseStale, SettleStale, rows, JobMove,
      NotTerminal, Terminal
<1>9. CASE CancelStep
  BY <1>2, <1>3, <1>4, <1>9
  DEF CancelStep, CancelJob, CancelTargets, CancelUnits, RevokeDispatch, TellSensor, CancelLost,
      rows, JobMove, NotTerminal, Terminal
<1>10. CASE RequeueJobForRetry
  BY <1>2, <1>4, <1>10 DEF RequeueJobForRetry, JobMove, JobStays
<1>11. CASE LapseProgress
  BY <1>1, <1>11 DEF LapseProgress
<1>12. ASSUME NEW d \in Dispatch, CollectCommand(d) \/ Ping(d) PROVE JobStays
  BY <1>1, <1>3, <1>12 DEF CollectCommand, Ping
<1> QED
  BY <1>3, <1>5, <1>6, <1>7, <1>8, <1>9, <1>10, <1>11, <1>12, OtherSteps
  DEF Next, ServeRequest, rows, sensorVars

\* Every step queues once what it makes done.
LEMMA FinishStep ==
  ASSUME TypeInv, [Next]_sensorVars
  PROVE  /\ Done \subseteq Done' /\ Done' \subseteq Unit
         /\ \E found \in SUBSET (Done' \ Done) :
              mirror' = [u \in Unit |-> IF u \in found THEN mirror[u] + 1 ELSE mirror[u]]
<1>1. ASSUME NEW u \in Unit
      PROVE  /\ u \in Done => u \in Done'
             /\ \/ mirror'[u] = mirror[u]
                \/ u \notin Done /\ u \in Done' /\ mirror'[u] = mirror[u] + 1
  <2>1. CASE DoneStays
    BY <2>1 DEF DoneStays
  <2>2. ASSUME NEW q \in request, Stores(q)
        PROVE  /\ u \in Done => u \in Done'
               /\ \/ mirror'[u] = mirror[u]
                  \/ u \notin Done /\ u \in Done' /\ mirror'[u] = mirror[u] + 1
    <3>1. CASE u = q.unit
      BY <2>2, <3>1, StoresFacts DEF Done
    <3>2. CASE u # q.unit
      BY <2>2, <3>2, StoresFacts DEF Done
    <3> QED BY <3>1, <3>2
  <2> QED BY <2>1, <2>2, StoreStep
<1> DEFINE found == {u \in Done' \ Done : mirror'[u] = mirror[u] + 1}
<1>2. \A u \in Unit : mirror'[u] = IF u \in found THEN mirror[u] + 1 ELSE mirror[u]
  BY <1>1 DEF Done
<1>3. mirror' \in [Unit -> Nat]
  BY TypeStep DEF TypeInv, TypeOK
<1>4. mirror' = [u \in Unit |-> IF u \in found THEN mirror[u] + 1 ELSE mirror[u]]
  BY <1>2, <1>3
<1>5. Done \subseteq Done' /\ Done' \subseteq Unit
  BY <1>1 DEF Done
<1> QED BY <1>4, <1>5

\* A step that moves the job stores nothing.
LEMMA MoveStoresNothing ==
  ASSUME TypeInv, [Next]_sensorVars
  PROVE  JobStays \/ DoneStays
BY StoreStep DEF Stores, JobStays

\* So is the verdict of a job of a sensor final: reports, the reaper and the person who
\* cancels or retries race, and whoever comes second changes nothing.
THEOREM VerdictIsFinal ==
  Spec => [][job.status \in {"completed", "cancelled"} => job'.status = job.status]_sensorVars
<1>1. TypeInv /\ [Next]_sensorVars
        => [job.status \in {"completed", "cancelled"} => job'.status = job.status]_sensorVars
  BY JobStep DEF JobStays, JobMove, Terminal
<1> QED BY <1>1, TypeInvHolds, PTL DEF Spec

\* The rows a sensor's job writes keep the promises of ScanLedger, as those of a
\* Platform Sensor's do: an awaiting_sensor job runs, and is never resumed by itself.
THEOREM ImplementsLedger == Spec => KeepsLedger
<1>1. Init => Ledger!LedgerInit
  BY DEF Init, Ledger!LedgerInit
<1>2. ASSUME TypeInv, [Next]_sensorVars PROVE [Ledger!LedgerNext]_(Ledger!ledgerVars)
  <2>1. CASE JobStays
    <3>1. PICK found \in SUBSET (Done' \ Done) :
            mirror' = [u \in Unit |-> IF u \in found THEN mirror[u] + 1 ELSE mirror[u]]
      BY <1>2, FinishStep
    <3>2. Done' \ Done \in SUBSET (Unit \ Done) /\ Done' = Done \cup (Done' \ Done)
      BY <1>2, FinishStep
    <3>3. Ledger!Finish
      <4>1. UNCHANGED <<IF job.status = "awaiting_sensor" THEN "running" ELSE job.status, 0>>
        BY <2>1 DEF JobStays
      <4>2. \E hosts \in SUBSET (Unit \ Done) : \E fs \in SUBSET hosts :
              /\ Done' = Done \cup hosts
              /\ mirror' = [u \in Unit |-> IF u \in fs THEN mirror[u] + 1 ELSE mirror[u]]
        BY <3>1, <3>2
      <4> QED BY <4>1, <4>2 DEF Ledger!Finish, Done
    <3> QED BY <3>3 DEF Ledger!LedgerNext
  <2>2. CASE JobMove /\ DoneStays
    <3>1. Ledger!Claim \/ Ledger!End \/ Ledger!Retry
      BY <2>2
      DEF JobMove, DoneStays, Done, Terminal, Ledger!Claim, Ledger!End, Ledger!Retry, Ledger!Ended
    <3> QED BY <3>1 DEF Ledger!LedgerNext
  <2> QED BY <1>2, <2>1, <2>2, JobStep, MoveStoresNothing
<1>3. TypeInv /\ [Next]_sensorVars => [Ledger!LedgerNext]_(Ledger!ledgerVars)
  BY <1>2
<1> QED BY <1>1, <1>3, TypeInvHolds, PTL DEF Spec, KeepsLedger, Ledger!LedgerSpec

-----------------------------------------------------------------------------
(* Commands and attempts *)

Spent == {m \in Delivery : delivery[m] = "over"}
Known(d) == command[d].status # "none"

\* The commands written are the first Latest ones, and each took up a delivery.
Numbered ==
  \E n \in 0..Cardinality(Spent) : \A d \in Dispatch : Known(d) <=> d <= n

\* A command is written once: its attempt is above those of the commands before it, and
\* no unit of its plan has been handed out under an earlier one since.
Stamped ==
  /\ \A d \in Dispatch : command[d].plan # {} => Known(d)
  /\ \A d \in Dispatch : \A u \in command[d].plan : command[d].attempt <= unit[u].attempts
  /\ \A d, e \in Dispatch : d < e /\ Known(e) /\ command[d].plan # {}
                              => command[d].attempt < command[e].attempt

\* Runs are of commands that were written; hosts are worked on and reported under a plan
\* that names them.
Collected == \A d \in Dispatch : run[d].at # "none" => Known(d)
Planned ==
  /\ \A d \in Dispatch : \A u \in Unit : work[d][u].at # "none" => u \in command[d].plan
  /\ \A q \in request : q.unit \in command[q.by].plan

\* Every address has a unit before the job is handed over.
Expanded ==
  (job.status = "awaiting_sensor" \/ \E m \in Delivery : delivery[m] = "prepared")
    => \A u \in Unit : unit[u].status # "absent"

Awaited == job.status = "awaiting_sensor" => Latest \in Dispatch

CommandInv ==
  Numbered /\ Stamped /\ Collected /\ Planned /\ Expanded /\ Awaited /\ AwaitedHostsWereHanded

\* A step that writes no command.
NothingWritten ==
  /\ \A d \in Dispatch : /\ command'[d].plan = command[d].plan
                         /\ command'[d].attempt = command[d].attempt
                         /\ Known(d)' <=> Known(d)
  /\ \A u \in Unit : unit'[u].attempts = unit[u].attempts
  /\ Spent \subseteq Spent'

UnitMove(u) ==
  \/ unit'[u] = unit[u]
  \/ /\ unit'[u].attempts = unit[u].attempts
     /\ \/ unit[u].status = "absent" /\ unit'[u].status \in {"failed", "pending"}
        \/ unit[u].status = "pending" /\ unit'[u].status \in {"done", "failed"}
        \/ CancelUnits /\ unit[u].status = "pending" /\ unit'[u].status = "cancelled"
        \/ RequeueJobForRetry /\ unit[u].status # "absent" /\ unit'[u].status = "pending"

LEMMA SetUnitsMoves ==
  ASSUME TypeInv, NEW from, NEW to, unit' = SetUnits(from, to), NEW u \in Unit
  PROVE  \/ unit'[u] = unit[u]
         \/ /\ unit[u].status \in from /\ unit'[u].status = to
            /\ unit'[u].attempts = unit[u].attempts
<1>0. unit[u] \in [status: UnitStatus, attempts: Nat]
  BY DEF TypeInv, TypeOK
<1>1. CASE unit[u].status \in from
  BY <1>0, <1>1 DEF SetUnits
<1>2. CASE unit[u].status \notin from
  BY <1>2 DEF SetUnits
<1> QED BY <1>1, <1>2

LEMMA DeliveryUnitStep ==
  ASSUME TypeInv, NEW m \in Delivery, DeliveryStep(m), ~DispatchCommand(m), NEW u \in Unit
  PROVE  UnitMove(u)
<1>0. unit[u] \in [status: UnitStatus, attempts: Nat]
  BY DEF TypeInv, TypeOK
<1>1. ASSUME NEW t \in Target, ExpandTarget(m, t) PROVE UnitMove(u)
  <2>1. PICK refused \in SUBSET Unit :
          unit' = [v \in Unit |-> IF TargetOf[v] # t THEN unit[v]
                                  ELSE [unit[v] EXCEPT !.status =
                                          IF v \in refused THEN "failed" ELSE "pending"]]
    BY <1>1 DEF ExpandTarget, UnitsOf
  <2>2. CASE TargetOf[u] = t
    <3>1. unit[u].status = "absent"
      BY <1>1, <2>2 DEF ExpandTarget, UnitsOf
    <3>2. unit'[u].status \in {"failed", "pending"} /\ unit'[u].attempts = unit[u].attempts
      BY <1>0, <2>1, <2>2
    <3> QED BY <3>1, <3>2 DEF UnitMove
  <2>3. CASE TargetOf[u] # t
    BY <2>1, <2>3 DEF UnitMove
  <2> QED BY <2>2, <2>3
<1>2. ASSUME Reauthorize(m) PROVE UnitMove(u)
  <2>1. PICK refused \in SUBSET Pending :
          unit' = [v \in Unit |-> IF v \in refused THEN [unit[v] EXCEPT !.status = "failed"]
                                                   ELSE unit[v]]
    BY <1>2, SensorUnitAssumption DEF Reauthorize, Pending
  <2>2. CASE u \in refused
    <3>1. unit[u].status = "pending"
      BY <2>1, <2>2 DEF Pending
    <3>2. unit'[u].status = "failed" /\ unit'[u].attempts = unit[u].attempts
      BY <1>0, <2>1, <2>2
    <3> QED BY <3>1, <3>2 DEF UnitMove
  <2>3. CASE u \notin refused
    BY <2>1, <2>3 DEF UnitMove
  <2> QED BY <2>2, <2>3
<1>4. CASE UNCHANGED unit
  BY <1>4 DEF UnitMove
<1> QED
  BY <1>1, <1>2, <1>4
  DEF DeliveryStep, TakeDelivery, RateLimited, LeaveDispatch, CannotDispatch, FailDispatch,
      CloseFailedDispatch, rows

LEMMA UnitStep ==
  ASSUME TypeInv, [Next]_sensorVars, NEW u \in Unit
  PROVE  UnitMove(u) \/ \E m \in Delivery : DispatchCommand(m)
<1>1. CASE UNCHANGED unit
  BY <1>1 DEF UnitMove
<1>2. ASSUME NEW m \in Delivery, DeliveryStep(m)
      PROVE  UnitMove(u) \/ DispatchCommand(m)
  BY <1>2, DeliveryUnitStep
<1>3. ASSUME NEW d \in Dispatch, SensorStep(d) PROVE UnitMove(u)
  <2>1. UNCHANGED unit \/ unit' = SetUnits({"pending"}, "failed")
    BY <1>3, SensorSteps DEF CompleteJob
  <2> QED BY <1>1, <2>1, SetUnitsMoves DEF UnitMove
<1>4. ASSUME NEW q \in request, RenewLease(q) \/ RecordUnit(q) \/ LoseRequest(q)
      PROVE  UnitMove(u)
  <2>0. unit \in [Unit -> [status: UnitStatus, attempts: Nat]]
    BY DEF TypeInv, TypeOK
  <2>1. CASE unit' = unit
    BY <2>1 DEF UnitMove
  <2>2. ASSUME NEW status \in {"done", "failed"}, Store(q.unit, status),
               unit[q.unit].status = "pending"
        PROVE  UnitMove(u)
    <3>1. CASE u = q.unit
      BY <2>0, <2>2, <3>1 DEF Store, UnitMove
    <3>2. CASE u # q.unit
      BY <2>0, <2>2, <3>2 DEF Store, UnitMove
    <3> QED BY <3>1, <3>2
  <2>3. CASE RecordUnit(q)
    BY <2>1, <2>2, <2>3 DEF RecordUnit
  <2> QED BY <1>4, <2>1, <2>3, RequestSteps
<1>5. CASE CancelStep
  <2>1. UNCHANGED unit \/ (CancelUnits /\ unit' = SetUnits({"pending"}, "cancelled"))
    BY <1>5
    DEF CancelStep, CancelJob, CancelTargets, CancelUnits, RevokeDispatch, TellSensor, CancelLost,
        rows
  <2> QED BY <1>1, <2>1, SetUnitsMoves DEF UnitMove
<1>6. CASE RequeueJobForRetry
  <2>1. unit' = SetUnits(UnitStatus \ {"absent", "done"}, "pending")
    BY <1>6 DEF RequeueJobForRetry
  <2>2. \/ unit'[u] = unit[u]
        \/ /\ unit[u].status \in UnitStatus \ {"absent", "done"} /\ unit'[u].status = "pending"
           /\ unit'[u].attempts = unit[u].attempts
    BY <2>1, SetUnitsMoves
  <2> QED BY <1>6, <2>2 DEF UnitMove
<1> QED
  BY <1>1, <1>2, <1>3, <1>4, <1>5, <1>6, SweepSteps, OtherSteps
  DEF Next, ServeRequest, rows, sensorVars

LEMMA CommandStep ==
  ASSUME TypeInv, Collected, [Next]_sensorVars
  PROVE  NothingWritten \/ \E m \in Delivery : DispatchCommand(m)
<1> DEFINE CommandRow == [status: {"none", "pending", "delivered", "completed", "failed"},
                          attempt: Nat, expired: BOOLEAN, plan: SUBSET Unit]
           Same(d) == /\ command'[d].plan = command[d].plan
                      /\ command'[d].attempt = command[d].attempt
                      /\ Known(d)' <=> Known(d)
<1>0. command \in [Dispatch -> CommandRow]
  BY DEF TypeInv, TypeOK
<1>1. UNCHANGED command => \A d \in Dispatch : Same(d)
  BY DEF Known
<1>2. ASSUME NEW c \in Dispatch, Known(c), NEW st \in {"delivered", "completed", "failed"},
             \/ command' = [command EXCEPT ![c].status = st]
             \/ command' = [command EXCEPT ![c].status = st, ![c].expired = FALSE]
      PROVE  \A d \in Dispatch : Same(d)
  BY <1>0, <1>2 DEF Known
<1>3. ASSUME NEW m \in Delivery, DeliveryStep(m), ~DispatchCommand(m)
      PROVE  UNCHANGED command /\ Spent \subseteq Spent'
  <2>1. UNCHANGED command
    BY <1>3
    DEF DeliveryStep, TakeDelivery, RateLimited, ExpandTarget, Reauthorize, LeaveDispatch,
        CannotDispatch, FailDispatch, CloseFailedDispatch
  <2>2. delivery \in [Delivery -> DeliveryPlaces]
    BY DEF TypeInv, TypeOK, DeliveryPlaces
  <2>3. delivery[m] # "over" /\ (delivery' = delivery \/ \E p : delivery' = [delivery EXCEPT ![m] = p])
    BY <1>3
    DEF DeliveryStep, TakeDelivery, RateLimited, ExpandTarget, Reauthorize, LeaveDispatch,
        CannotDispatch, FailDispatch, CloseFailedDispatch
  <2>4. \A n \in Delivery \ {m} : delivery'[n] = delivery[n]
    BY <2>2, <2>3
  <2> QED BY <2>1, <2>3, <2>4 DEF Spent
<1>4. ASSUME NEW d \in Dispatch, CollectCommand(d) \/ Acknowledge(d)
      PROVE  \A e \in Dispatch : Same(e)
  <2>1. Known(d)
    BY <1>4 DEF CollectCommand, Acknowledge, Collected, Known
  <2>2. UNCHANGED command
        \/ \E st \in {"delivered", "completed", "failed"} :
             command' = [command EXCEPT ![d].status = st]
    BY <1>4 DEF CollectCommand, Acknowledge
  <2> HIDE DEF Same
  <2> QED BY <1>1, <1>2, <2>1, <2>2
<1>5. ASSUME NEW s \in Sweeper, WithdrawStale(s) PROVE \A d \in Dispatch : Same(d)
  <2> DEFINE c == sweep[s].command
             r == [command[c] EXCEPT !.status = "failed", !.expired = FALSE]
  <2>1. \/ command' = command
        \/ command[c].status = "pending" /\ command' = [command EXCEPT ![c] = r]
    BY <1>0, <1>5 DEF WithdrawStale
  <2>2. c \in Dispatch => /\ r.status = "failed" /\ r.plan = command[c].plan
                          /\ r.attempt = command[c].attempt
    BY <1>0
  <2> HIDE DEF r, c
  <2> QED BY <1>0, <1>1, <2>1, <2>2 DEF Known
<1>6. ASSUME NEW d \in Dispatch, ExpireCommand(d) PROVE \A e \in Dispatch : Same(e)
  BY <1>0, <1>6 DEF ExpireCommand, Known
<1>7. ASSUME RevokeDispatch PROVE \A d \in Dispatch : Same(d)
  <2>1. \A d \in Dispatch : command'[d] = IF command[d].status = "pending"
                                          THEN [command[d] EXCEPT !.status = "failed"]
                                          ELSE command[d]
    BY <1>7 DEF RevokeDispatch
  <2> QED BY <1>0, <2>1 DEF Known
<1> DEFINE Fixed == /\ \A d \in Dispatch : Same(d)
                    /\ Spent \subseteq Spent'
<1>8. ASSUME NEW m \in Delivery, DeliveryStep(m) PROVE Fixed \/ DispatchCommand(m)
  <2> HIDE DEF Same
  <2> QED BY <1>1, <1>3, <1>8
<1>9. UNCHANGED delivery => Spent \subseteq Spent'
  BY DEF Spent
<1>10. ASSUME NEW d \in Dispatch, SensorStep(d) PROVE Fixed
  <2> HIDE DEF Same
  <2> QED BY <1>1, <1>4, <1>9, <1>10, SensorSteps
<1>11. ASSUME NEW s \in Sweeper, SweepStep(s) PROVE Fixed
  <2>1. WithdrawStale(s) \/ UNCHANGED command
    BY <1>11 DEF SweepStep, FindStale, WithdrawStale, FailStale, CloseStale, SettleStale
  <2>2. UNCHANGED delivery
    BY <1>11, SweepSteps
  <2> HIDE DEF Same
  <2> QED BY <1>1, <1>5, <1>9, <2>1, <2>2
<1>12. CancelStep => Fixed
  <2> SUFFICES ASSUME CancelStep PROVE Fixed
    OBVIOUS
  <2>1. RevokeDispatch \/ UNCHANGED command
    BY DEF CancelStep, CancelJob, CancelTargets, CancelUnits, RevokeDispatch, TellSensor, CancelLost
  <2> HIDE DEF Same
  <2> QED BY <1>1, <1>7, <1>9, <2>1, CancelSteps
<1>13. ASSUME NEW d \in Dispatch, CollectCommand(d) \/ ExpireCommand(d) PROVE Fixed
  <2>1. UNCHANGED delivery
    BY <1>13, OtherSteps
  <2> HIDE DEF Same
  <2> QED BY <1>4, <1>6, <1>9, <1>13, <2>1
<1>14. UNCHANGED <<command, delivery>> => Fixed
  <2> HIDE DEF Same
  <2> QED BY <1>1, <1>9
<1>15. \/ \E m \in Delivery : DeliveryStep(m)
       \/ \E d \in Dispatch : SensorStep(d) \/ CollectCommand(d) \/ ExpireCommand(d)
       \/ \E s \in Sweeper : SweepStep(s)
       \/ CancelStep \/ UNCHANGED <<command, delivery>>
  BY RequestSteps, OtherSteps DEF Next, ServeRequest, sensorVars
<1>16. Fixed \/ \E m \in Delivery : DispatchCommand(m)
  <2> HIDE DEF Fixed
  <2> QED BY <1>8, <1>10, <1>11, <1>12, <1>13, <1>14, <1>15
<1>17. (\A u \in Unit : unit'[u].attempts = unit[u].attempts)
       \/ \E m \in Delivery : DispatchCommand(m)
  BY UnitStep DEF UnitMove
<1>18. ASSUME Fixed, \A u \in Unit : unit'[u].attempts = unit[u].attempts
       PROVE  NothingWritten
  BY <1>18 DEF NothingWritten
<1> HIDE DEF Fixed
<1> QED BY <1>16, <1>17, <1>18

\* The number of commands is what Numbered says.
LEMMA LatestIs ==
  ASSUME NEW n \in 0..Cardinality(Delivery), \A d \in Dispatch : Known(d) <=> d <= n
  PROVE  Latest = n
<1>1. Cardinality(Delivery) \in Nat
  BY LatestFacts
<1>2. {d \in Dispatch : command[d].status # "none"} = 1..n
  BY <1>1 DEF Dispatch, Known
<1>3. Cardinality(1..n) = n
  BY FS_Interval
<1> QED BY <1>2, <1>3 DEF Latest

LEMMA SpentFacts ==
  ASSUME TypeInv
  PROVE  /\ IsFiniteSet(Spent) /\ Cardinality(Spent) \in 0..Cardinality(Delivery)
         /\ \A m \in Delivery \ Spent :
              /\ Cardinality(Spent \cup {m}) = Cardinality(Spent) + 1
              /\ Cardinality(Spent) + 1 <= Cardinality(Delivery)
<1>1. IsFiniteSet(Delivery) /\ Spent \subseteq Delivery
  BY SensorLimitAssumption DEF Spent
<1>2. IsFiniteSet(Spent) /\ Cardinality(Spent) \in 0..Cardinality(Delivery)
  BY <1>1, FS_Subset, FS_CardinalityType
<1>3. ASSUME NEW m \in Delivery \ Spent
      PROVE  /\ Cardinality(Spent \cup {m}) = Cardinality(Spent) + 1
             /\ Cardinality(Spent) + 1 <= Cardinality(Delivery)
  <2>1. Cardinality(Spent \cup {m}) = Cardinality(Spent) + 1
    BY <1>2, FS_AddElement
  <2>2. Spent \cup {m} \subseteq Delivery
    BY <1>1
  <2>3. Cardinality(Spent \cup {m}) <= Cardinality(Delivery)
    BY <1>1, <2>2, FS_Subset
  <2> QED BY <2>1, <2>3
<1> QED BY <1>2, <1>3

LEMMA LatestNumbers ==
  ASSUME TypeInv, Numbered
  PROVE  /\ Latest \in 0..Cardinality(Spent)
         /\ \A d \in Dispatch : Known(d) <=> d <= Latest
<1>1. PICK n \in 0..Cardinality(Spent) : \A d \in Dispatch : Known(d) <=> d <= n
  BY DEF Numbered
<1>2. n \in 0..Cardinality(Delivery)
  BY SpentFacts, LatestFacts
<1>3. Latest = n
  BY <1>1, <1>2, LatestIs
<1> QED BY <1>1, <1>3

\* A step that writes no command leaves the number of commands.
LEMMA LatestStays == ASSUME NothingWritten PROVE Latest' = Latest
<1>1. \A d \in Dispatch : command'[d].status # "none" <=> command[d].status # "none"
  BY DEF NothingWritten, Known
<1>2. {d \in Dispatch : command'[d].status # "none"} = {d \in Dispatch : command[d].status # "none"}
  BY <1>1
<1> QED BY <1>2 DEF Latest

\* The dispatch writes the next command, for the pending units, and stamps them.
LEMMA DispatchFacts ==
  ASSUME TypeInv, Numbered, NEW m \in Delivery, DispatchCommand(m)
  PROVE  /\ Latest + 1 \in Dispatch /\ Latest' = Latest + 1
         /\ ~Known(Latest + 1)
         /\ \A d \in Dispatch : Known(d)' <=> d <= Latest + 1
         /\ command'[Latest + 1].plan = Pending
         /\ command'[Latest + 1].attempt = NextAttempt
         /\ \A d \in Dispatch \ {Latest + 1} : command'[d] = command[d]
         /\ \A u \in Pending : unit'[u].attempts = NextAttempt
         /\ \A u \in Unit \ Pending : unit'[u] = unit[u]
         /\ \A u \in Unit : unit'[u].status = unit[u].status
         /\ Spent' = Spent \cup {m} /\ m \notin Spent
<1>0. /\ command \in [Dispatch -> CommandRec] /\ delivery \in [Delivery -> DeliveryPlaces]
      /\ unit \in [Unit -> UnitRec]
  BY DEF TypeInv, TypeOK, CommandRec, DeliveryPlaces, UnitRec
<1>1. m \notin Spent
  BY DEF DispatchCommand, Spent
<1>2. Latest \in 0..Cardinality(Spent) /\ \A d \in Dispatch : Known(d) <=> d <= Latest
  BY LatestNumbers
<1>3. Latest + 1 \in 1..Cardinality(Delivery)
  <2>1. Cardinality(Spent) + 1 <= Cardinality(Delivery)
    BY <1>1, SpentFacts
  <2>2. Cardinality(Spent) \in Nat /\ Cardinality(Delivery) \in Nat
    BY SpentFacts, LatestFacts
  <2> QED BY <1>2, <2>1, <2>2
<1>4. Latest + 1 \in Dispatch
  BY <1>3 DEF Dispatch
<1>5. Dispatch \subseteq Nat /\ Latest \in Nat
  BY <1>2, SpentFacts DEF Dispatch
<1>6. command' = [command EXCEPT ![Latest + 1] =
        [status |-> "pending", attempt |-> NextAttempt, expired |-> FALSE, plan |-> Pending]]
  BY DEF DispatchCommand
<1>7. /\ command'[Latest + 1].plan = Pending /\ command'[Latest + 1].attempt = NextAttempt
      /\ command'[Latest + 1].status = "pending"
      /\ \A d \in Dispatch \ {Latest + 1} : command'[d] = command[d]
  BY <1>0, <1>4, <1>6
<1>8. \A d \in Dispatch : Known(d)' <=> d <= Latest + 1
  <2> SUFFICES ASSUME NEW d \in Dispatch PROVE Known(d)' <=> d <= Latest + 1
    OBVIOUS
  <2>1. CASE d = Latest + 1
    BY <1>5, <1>7, <2>1 DEF Known
  <2>2. CASE d # Latest + 1
    <3>1. Known(d)' <=> Known(d)
      BY <1>7, <2>2 DEF Known
    <3> QED BY <1>2, <1>5, <2>2, <3>1
  <2> QED BY <2>1, <2>2
<1>9. Latest' = Latest + 1
  <2>1. Cardinality(1..(Latest + 1)) = Latest + 1
    BY <1>5, FS_Interval
  <2>2. {d \in Dispatch : command'[d].status # "none"} = 1..(Latest + 1)
    <3>1. 1..(Latest + 1) \subseteq Dispatch
      BY <1>3, LatestFacts DEF Dispatch
    <3>2. \A d \in Dispatch : command'[d].status # "none" <=> d <= Latest + 1
      BY <1>8 DEF Known
    <3>3. \A d \in Dispatch : d \in Nat /\ 1 <= d
      BY LatestFacts DEF Dispatch
    <3>4. ASSUME NEW d \in 1..(Latest + 1)
          PROVE  d \in Dispatch /\ command'[d].status # "none"
      <4>1. d \in Dispatch /\ d <= Latest + 1
        BY <1>5, <3>1
      <4> QED BY <3>2, <4>1
    <3>5. ASSUME NEW d \in Dispatch, command'[d].status # "none" PROVE d \in 1..(Latest + 1)
      <4>1. d \in Nat /\ 1 <= d /\ d <= Latest + 1
        BY <3>2, <3>3, <3>5
      <4> QED BY <1>5, <4>1
    <3> QED BY <3>4, <3>5
  <2> QED BY <2>1, <2>2 DEF Latest
<1>10. ~Known(Latest + 1)
  BY <1>2, <1>4, <1>5
<1>11. unit' = [u \in Unit |-> IF u \in Pending THEN [unit[u] EXCEPT !.attempts = NextAttempt]
                                                ELSE unit[u]]
  BY DEF DispatchCommand
<1>12. /\ \A u \in Pending : unit'[u].attempts = NextAttempt
       /\ \A u \in Unit \ Pending : unit'[u] = unit[u]
       /\ \A u \in Unit : unit'[u].status = unit[u].status
  BY <1>0, <1>11 DEF Pending, UnitRec
<1>13. Spent' = Spent \cup {m}
  <2>1. delivery' = [delivery EXCEPT ![m] = "over"]
    BY DEF DispatchCommand
  <2> QED BY <1>0, <2>1 DEF Spent
<1> QED BY <1>1, <1>4, <1>7, <1>8, <1>9, <1>10, <1>12, <1>13

-----------------------------------------------------------------------------
(* The parts of CommandInv *)

LEMMA NumberedStep ==
  ASSUME TypeInv, Collected, Numbered, [Next]_sensorVars
  PROVE  Numbered'
<1>0. Latest \in 0..Cardinality(Spent) /\ \A d \in Dispatch : Known(d) <=> d <= Latest
  BY LatestNumbers
<1>1. CASE NothingWritten
  <2>1. Cardinality(Spent) <= Cardinality(Spent') /\ Cardinality(Spent') \in Nat
    <3>1. IsFiniteSet(Spent') /\ Cardinality(Spent') \in Nat /\ Cardinality(Spent) \in Nat
      <4>1. Spent' \subseteq Delivery /\ IsFiniteSet(Delivery)
        BY SensorLimitAssumption DEF Spent
      <4> QED BY <4>1, FS_Subset, FS_CardinalityType, SpentFacts
    <3> QED BY <1>1, <3>1, FS_Subset DEF NothingWritten
  <2>2. Latest \in 0..Cardinality(Spent')
    BY <1>0, <2>1, SpentFacts
  <2>3. \A d \in Dispatch : Known(d)' <=> d <= Latest
    BY <1>0, <1>1 DEF NothingWritten
  <2> QED BY <2>2, <2>3 DEF Numbered
<1>2. ASSUME NEW m \in Delivery, DispatchCommand(m) PROVE Numbered'
  <2>1. Cardinality(Spent') = Cardinality(Spent) + 1
    BY <1>2, DispatchFacts, SpentFacts
  <2>2. Latest + 1 \in 0..Cardinality(Spent')
    BY <1>0, <2>1, SpentFacts
  <2>3. \A d \in Dispatch : Known(d)' <=> d <= Latest + 1
    BY <1>2, DispatchFacts
  <2> QED BY <2>2, <2>3 DEF Numbered
<1> QED BY <1>1, <1>2, CommandStep

LEMMA StampedStep ==
  ASSUME TypeInv, Collected, Numbered, Stamped, [Next]_sensorVars
  PROVE  Stamped'
<1>0. /\ \A d \in Dispatch : command[d].attempt \in Nat /\ command[d].plan \subseteq Unit
      /\ \A u \in Unit : unit[u].attempts \in Nat
      /\ Dispatch \subseteq Nat
  BY LatestFacts DEF TypeInv, TypeOK, Dispatch
<1>1. CASE NothingWritten
  BY <1>0, <1>1 DEF NothingWritten, Stamped
<1>2. ASSUME NEW m \in Delivery, DispatchCommand(m) PROVE Stamped'
  <2> DEFINE n == Latest + 1
  <2>1. /\ n \in Dispatch /\ ~Known(n) /\ \A d \in Dispatch : Known(d)' <=> d <= n
        /\ command'[n].plan = Pending /\ command'[n].attempt = NextAttempt
        /\ \A d \in Dispatch \ {n} : command'[d] = command[d]
        /\ \A u \in Pending : unit'[u].attempts = NextAttempt
        /\ \A u \in Unit \ Pending : unit'[u] = unit[u]
    BY <1>2, DispatchFacts
  <2>2. /\ NextAttempt \in Nat
        /\ \A u \in Unit : unit[u].attempts < NextAttempt /\ unit[u].attempts <= unit'[u].attempts
    BY <1>0, <2>1, NextAttemptFacts
  <2> HIDE DEF n
  <2>3. \A d \in Dispatch \ {n} : Known(d)' <=> Known(d)
    BY <2>1 DEF Known
  <2>4. \A d \in Dispatch : command'[d].plan # {} => Known(d)'
    <3>1. n <= n
      BY <1>0, <2>1
    <3>2. \A d \in Dispatch \ {n} : command'[d].plan # {} => Known(d)'
      BY <2>1, <2>3 DEF Stamped
    <3> QED BY <2>1, <3>1, <3>2
  <2>5. \A d \in Dispatch : \A u \in command'[d].plan : command'[d].attempt <= unit'[u].attempts
    <3> SUFFICES ASSUME NEW d \in Dispatch, NEW u \in command'[d].plan
                 PROVE  command'[d].attempt <= unit'[u].attempts
      OBVIOUS
    <3>1. CASE d = n
      BY <2>1, <2>2, <3>1
    <3>2. CASE d # n
      <4>1. command'[d] = command[d] /\ u \in Unit
        BY <1>0, <2>1, <3>2
      <4>2. command[d].attempt <= unit[u].attempts /\ unit'[u].attempts \in Nat
        BY <1>0, <2>1, <2>2, <4>1 DEF Stamped
      <4> QED BY <1>0, <2>2, <4>1, <4>2
    <3> QED BY <3>1, <3>2
  <2>6. \A d, e \in Dispatch : d < e /\ Known(e)' /\ command'[d].plan # {}
                                 => command'[d].attempt < command'[e].attempt
    <3> SUFFICES ASSUME NEW d \in Dispatch, NEW e \in Dispatch,
                        d < e, Known(e)', command'[d].plan # {}
                 PROVE  command'[d].attempt < command'[e].attempt
      OBVIOUS
    <3>1. d < n /\ command'[d] = command[d]
      BY <1>0, <2>1
    <3>2. CASE e = n
      <4>1. PICK u \in command[d].plan : TRUE
        BY <3>1
      <4>2. command[d].attempt <= unit[u].attempts /\ u \in Unit
        BY <1>0 DEF Stamped
      <4> QED BY <1>0, <2>1, <2>2, <3>1, <3>2, <4>2
    <3>3. CASE e # n
      <4>1. command'[e] = command[e] /\ Known(e)
        BY <2>1, <2>3, <3>3
      <4> QED BY <3>1, <4>1 DEF Stamped
    <3> QED BY <3>2, <3>3
  <2> QED BY <2>4, <2>5, <2>6 DEF Stamped
<1> QED BY <1>1, <1>2, CommandStep

\* Only a pickup starts a run.
LEMMA RunStep ==
  ASSUME TypeInv, Next, NEW d \in Dispatch, run[d].at = "none"
  PROVE  run'[d].at = "none" \/ CollectCommand(d)
<1>0. run \in [Dispatch -> RunRec]
  BY DEF TypeInv, TypeOK, RunRec
<1>1. UNCHANGED run => run'[d].at = "none"
  OBVIOUS
<1>2. ASSUME NEW e \in Dispatch, SensorStep(e) PROVE run'[d].at = "none"
  <2>1. CASE run[e].at # "none"
    <3>1. d # e
      BY <2>1
    <3>2. \/ run' = run \/ \E r : run' = [run EXCEPT ![e] = r]
          \/ \E a : run' = [run EXCEPT ![e].at = a]
          \/ \E a, v : run' = [run EXCEPT ![e].at = a, ![e].verdict = v]
      BY <1>2
      DEF SensorStep, StartRun, Report, ReportFails, StopRun, FinishRun, CompleteJob,
          CompletionLost, Acknowledge, sensor
    <3> QED BY <1>0, <3>1, <3>2
  <2>2. CASE run[e].at = "none"
    BY <1>2, <2>2
    DEF SensorStep, StartRun, Report, ReportFails, StopRun, FinishRun, CompleteJob,
        CompletionLost, Acknowledge
  <2> QED BY <2>1, <2>2
<1>3. ASSUME NEW q \in request, RenewLease(q) \/ RecordUnit(q) \/ LoseRequest(q)
      PROVE  run'[d].at = "none"
  <2>1. \/ run' = run
        \/ run[q.by].at = "scanning" /\ run' = [run EXCEPT ![q.by].stop = TRUE]
    BY <1>3 DEF RenewLease, RecordUnit, LoseRequest, AnswerStop, AnswerStored, Waiting, sensor
  <2> QED BY <1>0, <2>1
<1>4. ASSUME CollectCancel \/ SensorCrash PROVE run'[d].at = "none"
  BY <1>0, <1>4 DEF CollectCancel, SensorCrash
<1>5. ASSUME NEW e \in Dispatch, Ping(e) PROVE run'[d].at = "none"
  <2>1. \/ run' = run
        \/ run[e].at = "scanning" /\ run' = [run EXCEPT ![e].stop = TRUE]
    BY <1>5 DEF Ping
  <2> QED BY <1>0, <2>1
<1>6. ASSUME NEW e \in Dispatch, e # d, CollectCommand(e) PROVE run'[d].at = "none"
  BY <1>0, <1>6 DEF CollectCommand
<1> QED
  BY <1>1, <1>2, <1>3, <1>4, <1>5, <1>6, DeliverySteps, SweepSteps, CancelSteps, OtherSteps
  DEF Next, ServeRequest, sensor

LEMMA CollectedStep ==
  ASSUME TypeInv, Numbered, Collected, [Next]_sensorVars
  PROVE  Collected'
<1>1. \A d \in Dispatch : Known(d) => Known(d)'
  <2>1. CASE NothingWritten
    BY <2>1 DEF NothingWritten
  <2>2. ASSUME NEW m \in Delivery, DispatchCommand(m), NEW d \in Dispatch, Known(d)
        PROVE  Known(d)'
    <3>1. d # Latest + 1
      BY <2>2, DispatchFacts
    <3> QED BY <2>2, <3>1, DispatchFacts DEF Known
  <2> QED BY <2>1, <2>2, CommandStep
<1>2. ASSUME NEW d \in Dispatch, run'[d].at # "none" PROVE Known(d)
  <2>1. CASE run[d].at # "none"
    BY <2>1 DEF Collected
  <2>2. CASE CollectCommand(d)
    BY <2>2 DEF CollectCommand, Known
  <2> QED BY <1>2, <2>1, <2>2, RunStep DEF sensorVars
<1> QED BY <1>1, <1>2 DEF Collected

\* A host is taken up only by the run of a plan that names it.
LEMMA WorkStep ==
  ASSUME TypeInv, Next, NEW d \in Dispatch, NEW u \in Unit, work[d][u].at = "none"
  PROVE  work'[d][u].at = "none" \/ u \in command[d].plan
<1>0. work \in [Dispatch -> [Unit -> WorkRec]]
  BY DEF TypeInv, TypeOK, WorkRec
<1>1. UNCHANGED work => work'[d][u].at = "none"
  OBVIOUS
<1>2. ASSUME NEW e \in Dispatch, NEW us, NEW w, SetWork(e, us, w)
      PROVE  work'[d][u] = IF d = e /\ u \in us THEN w ELSE work[d][u]
  BY <1>0, <1>2 DEF SetWork
<1>3. ASSUME NEW e \in Dispatch, SensorStep(e)
      PROVE  work'[d][u].at = "none" \/ u \in command[d].plan
  <2>1. CASE StartRun(e)
    BY <1>1, <1>2, <2>1 DEF StartRun
  <2>2. ASSUME NEW v \in Unit, work[e][v].at # "none", NEW w, SetWork(e, {v}, w)
        PROVE  work'[d][u].at = "none"
    <3>1. ~(d = e /\ u \in {v})
      BY <2>2
    <3> QED BY <1>2, <2>2, <3>1
  <2>3. ASSUME NEW v \in Unit, Report(e, v) \/ ReportFails(e, v)
        PROVE  work'[d][u].at = "none"
    BY <2>2, <2>3 DEF Report, ReportFails
  <2>4. CASE StopRun(e) \/ FinishRun(e)
    BY <1>2, <2>4 DEF StopRun, FinishRun, NoWork
  <2>5. CASE CompleteJob(e) \/ CompletionLost(e) \/ Acknowledge(e)
    BY <2>5 DEF CompleteJob, CompletionLost, Acknowledge
  <2> QED BY <1>3, <2>1, <2>3, <2>4, <2>5 DEF SensorStep
<1>4. ASSUME NEW q \in request, RenewLease(q) \/ RecordUnit(q) \/ LoseRequest(q)
      PROVE  work'[d][u].at = "none"
  <2>0. q.by \in Dispatch /\ q.unit \in Unit
    BY DEF TypeInv, TypeOK
  <2>1. ASSUME AnswerStored(q) PROVE work'[d][u].at = "none"
    <3>1. CASE UNCHANGED work
      BY <3>1
    <3>2. CASE Waiting(q) /\ SetWork(q.by, {q.unit}, [at |-> "answered", tries |-> 0])
      <4>1. ~(d = q.by /\ u \in {q.unit})
        BY <3>2 DEF Waiting
      <4> QED BY <1>2, <2>0, <3>2, <4>1
    <3> QED BY <2>1, <3>1, <3>2 DEF AnswerStored
  <2> QED
    BY <1>4, <2>1 DEF RenewLease, RecordUnit, LoseRequest, AnswerStop, sensor
<1>5. SensorCrash => work'[d][u].at = "none"
  BY DEF SensorCrash, NoWork
<1> QED
  BY <1>1, <1>3, <1>4, <1>5, DeliverySteps, SweepSteps, CancelSteps, OtherSteps
  DEF Next, ServeRequest, sensor

\* A report is of a host at work, or was on its way already.
LEMMA RequestStep ==
  ASSUME TypeInv, Next, NEW q \in request'
  PROVE  \/ q.by \in Dispatch /\ q.unit \in Unit /\ work[q.by][q.unit].at # "none"
         \/ \E p \in request : p.by = q.by /\ p.unit = q.unit
<1>0. request \subseteq RequestRec
  BY DEF TypeInv, TypeOK, RequestRec
<1>1. ASSUME NEW d \in Dispatch, NEW u \in Unit, Report(d, u), q \notin request
      PROVE  q.by \in Dispatch /\ q.unit \in Unit /\ work[q.by][q.unit].at # "none"
  BY <1>1 DEF Report
<1>2. ASSUME NEW p \in request, RenewLease(p) \/ RecordUnit(p) \/ LoseRequest(p), q \notin request
      PROVE  p.by = q.by /\ p.unit = q.unit
  <2>1. q = [p EXCEPT !.leased = TRUE]
    BY <1>2 DEF RenewLease, RecordUnit, LoseRequest
  <2> QED BY <1>0, <2>1 DEF RequestRec
<1>3. CASE q \in request
  BY <1>3
<1> QED
  BY <1>1, <1>2, <1>3, DeliverySteps, SensorSteps, SweepSteps, CancelSteps, OtherSteps
  DEF Next, ServeRequest

LEMMA PlannedStep ==
  ASSUME TypeInv, Collected, Numbered, Stamped, Planned, [Next]_sensorVars
  PROVE  Planned'
<1>1. \A d \in Dispatch : command[d].plan \subseteq command'[d].plan
  <2>1. CASE NothingWritten
    BY <2>1 DEF NothingWritten
  <2>2. ASSUME NEW m \in Delivery, DispatchCommand(m), NEW d \in Dispatch
        PROVE  command[d].plan \subseteq command'[d].plan
    <3>1. CASE d = Latest + 1
      BY <2>2, <3>1, DispatchFacts DEF Stamped
    <3>2. CASE d # Latest + 1
      BY <2>2, <3>2, DispatchFacts
    <3> QED BY <3>1, <3>2
  <2> QED BY <2>1, <2>2, CommandStep
<1>2. ASSUME NEW d \in Dispatch, NEW u \in Unit, work'[d][u].at # "none"
      PROVE  u \in command[d].plan
  BY <1>2, WorkStep DEF Planned, sensorVars
<1>3. ASSUME NEW q \in request' PROVE q.by \in Dispatch /\ q.unit \in command[q.by].plan
  <2>1. CASE UNCHANGED sensorVars
    BY <2>1 DEF sensorVars, Planned, TypeInv, TypeOK
  <2>2. CASE Next
    <3>1. \A p \in request : p.by \in Dispatch
      BY DEF TypeInv, TypeOK
    <3> QED BY <2>2, <3>1, RequestStep DEF Planned
  <2> QED BY <2>1, <2>2
<1> QED BY <1>1, <1>2, <1>3 DEF Planned

\* The job comes to await a sensor only by a dispatch, and completes only by the report
\* of its completion; a delivery is prepared only once every address has a unit.
LEMMA StatusStep ==
  ASSUME TypeInv, [Next]_sensorVars
  PROVE  \/ job'.status = job.status
         \/ job'.status \in {"queued", "failed", "cancelled"}
         \/ \E m \in Delivery : DispatchCommand(m)
         \/ \E d \in Dispatch : CompleteJob(d) /\ job.status = "awaiting_sensor"
<1> DEFINE Kept == job'.status = job.status \/ job'.status \in {"queued", "failed", "cancelled"}
<1>0. UNCHANGED job => Kept
  OBVIOUS
<1>1. ASSUME NEW m \in Delivery, DeliveryStep(m), ~DispatchCommand(m) PROVE Kept
  <2>1. UNCHANGED job \/ RateLimited(m) \/ FailDispatch(m)
    BY <1>1
    DEF DeliveryStep, TakeDelivery, ExpandTarget, Reauthorize, LeaveDispatch, CannotDispatch,
        CloseFailedDispatch, rows
  <2>2. job' = job \/ MoveJob("failed")
    BY <2>1 DEF RateLimited, FailDispatch
  <2> QED BY <2>2 DEF MoveJob
<1>2. RequeueJobForRetry => Kept
  BY DEF RequeueJobForRetry, MoveJob
<1>3. CancelStep => Kept
  BY DEF CancelStep, CancelJob, CancelTargets, CancelUnits, RevokeDispatch, TellSensor, CancelLost,
      rows, MoveJob
<1>4. ASSUME NEW s \in Sweeper, SweepStep(s) PROVE Kept
  BY <1>4
  DEF SweepStep, FindStale, WithdrawStale, FailStale, CloseStale, SettleStale, rows, MoveJob
<1>5. ASSUME NEW d \in Dispatch, SensorStep(d)
      PROVE  job' = job \/ (CompleteJob(d) /\ job.status = "awaiting_sensor")
  BY <1>5, SensorSteps DEF CompleteJob
<1>6. ASSUME NEW f \in BOOLEAN, job' = [job EXCEPT !.fresh = f] PROVE Kept
  BY <1>6 DEF TypeInv, TypeOK
<1>7. ASSUME NEW q \in request, RenewLease(q) \/ RecordUnit(q) \/ LoseRequest(q) PROVE Kept
  <2>1. CASE RenewLease(q)
    BY <1>6, <2>1 DEF RenewLease
  <2> QED BY <1>7, <2>1, RequestSteps
<1>8. ASSUME NEW d \in Dispatch, CollectCommand(d) \/ Ping(d) PROVE Kept
  <2>1. job' = job \/ \E f \in BOOLEAN : job' = [job EXCEPT !.fresh = f]
    BY <1>8 DEF CollectCommand, Ping
  <2> HIDE DEF Kept
  <2> QED BY <1>0, <1>6, <2>1
<1>9. LapseProgress => Kept
  <2> HIDE DEF Kept
  <2> QED BY <1>6 DEF LapseProgress
<1>10. \/ Kept \/ \E m \in Delivery : DispatchCommand(m)
       \/ \E d \in Dispatch : CompleteJob(d) /\ job.status = "awaiting_sensor"
  <2> HIDE DEF Kept
  <2> QED
    BY <1>0, <1>1, <1>2, <1>3, <1>4, <1>5, <1>7, <1>8, <1>9, OtherSteps
    DEF Next, ServeRequest, rows, sensorVars
<1> QED BY <1>10

LEMMA AwaitStep ==
  ASSUME TypeInv, [Next]_sensorVars, job.status # "awaiting_sensor"
  PROVE  job'.status # "awaiting_sensor" \/ \E m \in Delivery : DispatchCommand(m)
BY StatusStep

LEMMA PrepareStep ==
  ASSUME TypeInv, [Next]_sensorVars, NEW m \in Delivery, delivery'[m] = "prepared"
  PROVE  delivery[m] = "prepared" \/ \A u \in Unit : unit[u].status # "absent"
<1>0. delivery \in [Delivery -> DeliveryPlaces]
  BY DEF TypeInv, TypeOK, DeliveryPlaces
<1>1. ASSUME NEW n \in Delivery, Reauthorize(n) PROVE \A u \in Unit : unit[u].status # "absent"
  BY <1>1 DEF Reauthorize
<1>2. ASSUME NEW n \in Delivery, DeliveryStep(n), ~Reauthorize(n) PROVE delivery[m] = "prepared"
  <2>1. delivery' = delivery
        \/ \E p \in DeliveryPlaces \ {"prepared"} : delivery' = [delivery EXCEPT ![n] = p]
    BY <1>2
    DEF DeliveryStep, TakeDelivery, RateLimited, ExpandTarget, DispatchCommand, LeaveDispatch,
        CannotDispatch, FailDispatch, CloseFailedDispatch, DeliveryPlaces
  <2> QED BY <1>0, <2>1
<1> QED
  BY <1>1, <1>2, SensorSteps, RequestSteps, SweepSteps, CancelSteps, OtherSteps
  DEF Next, ServeRequest, sensorVars

LEMMA StaysPresent ==
  ASSUME TypeInv, Numbered, [Next]_sensorVars, NEW u \in Unit, unit[u].status # "absent"
  PROVE  unit'[u].status # "absent"
BY UnitStep, DispatchFacts DEF UnitMove

LEMMA ExpandedStep ==
  ASSUME TypeInv, Numbered, Expanded, [Next]_sensorVars
  PROVE  Expanded'
<1>1. ASSUME job'.status = "awaiting_sensor" \/ \E m \in Delivery : delivery'[m] = "prepared"
      PROVE  \A u \in Unit : unit[u].status # "absent"
  <2>1. CASE job.status = "awaiting_sensor" \/ \E m \in Delivery : delivery[m] = "prepared"
    BY <2>1 DEF Expanded
  <2>2. CASE \E m \in Delivery : DispatchCommand(m)
    BY <2>2 DEF DispatchCommand, Expanded
  <2> QED BY <1>1, <2>1, <2>2, AwaitStep, PrepareStep
<1> QED BY <1>1, StaysPresent DEF Expanded

LEMMA AwaitedStep ==
  ASSUME TypeInv, Collected, Numbered, Awaited, [Next]_sensorVars
  PROVE  Awaited'
<1>1. ASSUME NEW m \in Delivery, DispatchCommand(m) PROVE Latest' \in Dispatch
  BY <1>1, DispatchFacts
<1>2. CASE \E m \in Delivery : DispatchCommand(m)
  BY <1>1, <1>2 DEF Awaited
<1>3. CASE NothingWritten /\ job'.status # "awaiting_sensor"
  BY <1>3 DEF Awaited
<1>4. CASE NothingWritten /\ job.status = "awaiting_sensor"
  BY <1>4, LatestStays DEF Awaited
<1> QED BY <1>2, <1>3, <1>4, CommandStep, AwaitStep

LEMMA HandedStep ==
  ASSUME TypeInv, CommandInv, [Next]_sensorVars
  PROVE  AwaitedHostsWereHanded'
<1>0. Collected /\ Numbered /\ Expanded /\ Awaited /\ AwaitedHostsWereHanded
  BY DEF CommandInv
<1>1. ASSUME NEW m \in Delivery, DispatchCommand(m) PROVE AwaitedHostsWereHanded'
  <2>1. Pending' = Pending
    BY <1>0, <1>1, DispatchFacts DEF Pending
  <2>2. \A u \in Pending : u \in command'[Latest + 1].plan
                           /\ unit'[u].attempts = command'[Latest + 1].attempt
    BY <1>0, <1>1, DispatchFacts
  <2>3. Latest' = Latest + 1
    BY <1>0, <1>1, DispatchFacts
  <2> QED BY <2>1, <2>2, <2>3 DEF AwaitedHostsWereHanded
<1>2. CASE NothingWritten /\ job'.status # "awaiting_sensor"
  BY <1>2 DEF AwaitedHostsWereHanded
<1>3. ASSUME NothingWritten, job.status = "awaiting_sensor", ~\E m \in Delivery : DispatchCommand(m)
      PROVE  AwaitedHostsWereHanded'
  <2>1. Latest \in Dispatch /\ Latest' = Latest
    BY <1>0, <1>3, LatestStays DEF Awaited
  <2>2. ASSUME NEW u \in Unit, unit'[u].status = "pending" PROVE u \in Pending
    <3>1. unit[u].status # "absent" /\ ~RequeueJobForRetry
      BY <1>0, <1>3 DEF Expanded, RequeueJobForRetry
    <3> QED BY <1>3, <2>2, <3>1, UnitStep DEF UnitMove, Pending
  <2>3. \A u \in Pending : u \in command[Latest].plan /\ unit[u].attempts = command[Latest].attempt
    BY <1>0, <1>3 DEF AwaitedHostsWereHanded
  <2>4. /\ \A u \in Unit : unit'[u].attempts = unit[u].attempts
        /\ command'[Latest].plan = command[Latest].plan
        /\ command'[Latest].attempt = command[Latest].attempt
    BY <1>3, <2>1 DEF NothingWritten
  <2>5. \A u \in Pending' : u \in Unit /\ u \in Pending
    BY <2>2 DEF Pending
  <2> QED BY <2>1, <2>3, <2>4, <2>5 DEF AwaitedHostsWereHanded
<1> QED BY <1>0, <1>1, <1>2, <1>3, CommandStep, AwaitStep

LEMMA CommandInvHolds == Spec => []CommandInv
<1>1. Init => CommandInv
  <2> SUFFICES ASSUME Init PROVE CommandInv
    OBVIOUS
  <2>1. \A d \in Dispatch : ~Known(d) /\ command[d].plan = {}
    BY DEF Init, NoCommand, Known
  <2>2. Numbered
    <3>1. Spent = {}
      BY DEF Init, Spent
    <3>2. Cardinality(Spent) = 0
      BY <3>1, FS_EmptySet
    <3>3. \A d \in Dispatch : Known(d) <=> d <= 0
      BY <2>1, LatestFacts DEF Dispatch
    <3> QED BY <3>2, <3>3 DEF Numbered
  <2>3. Stamped
    BY <2>1 DEF Stamped
  <2>4. Collected /\ Planned
    BY DEF Init, Collected, Planned, NotRunning, NoWork
  <2>5. job.status = "queued" /\ \A m \in Delivery : delivery[m] = "off"
    BY DEF Init
  <2>6. Expanded /\ Awaited /\ AwaitedHostsWereHanded
    BY <2>5 DEF Expanded, Awaited, AwaitedHostsWereHanded
  <2> QED BY <2>2, <2>3, <2>4, <2>6 DEF CommandInv
<1>2. TypeInv /\ CommandInv /\ [Next]_sensorVars => CommandInv'
  <2> SUFFICES ASSUME TypeInv, CommandInv, [Next]_sensorVars PROVE CommandInv'
    OBVIOUS
  <2>1. Numbered /\ Stamped /\ Collected /\ Planned /\ Expanded /\ Awaited
    BY DEF CommandInv
  <2> QED
    BY <2>1, NumberedStep, StampedStep, CollectedStep, PlannedStep, ExpandedStep, AwaitedStep,
       HandedStep
    DEF CommandInv
<1> QED BY <1>1, <1>2, TypeInvHolds, PTL DEF Spec

\* While the job awaits its sensor, every host it waits for is in the latest command's
\* plan under that command's attempt (the dispatch transaction of dispatchToSensor).
THEOREM HostsWereHanded == Spec => []AwaitedHostsWereHanded
BY CommandInvHolds, PTL DEF CommandInv

\* A report of an earlier dispatch is never stored: a sensor that outlived its lease
\* cannot overwrite a Retry (the attempt compared by recordSensorUnit).
THEOREM LatestDispatchStores == Spec => StoredByLatestDispatch
<1> DEFINE OfLatest == \A u \in Unit : unit[u].status # "done" /\ unit'[u].status = "done"
                         => \E q \in request \ request' : q.unit = u /\ q.by = Latest
<1>1. ASSUME TypeInv, CommandInv, [Next]_sensorVars, NEW u \in Unit,
             unit[u].status # "done", unit'[u].status = "done"
      PROVE  \E q \in request \ request' : q.unit = u /\ q.by = Latest
  <2>1. PICK q \in request : Stores(q)
    BY <1>1, StoreStep DEF DoneStays, Done
  <2>2. q.unit = u /\ q \notin request'
    BY <1>1, <2>1, StoresFacts DEF Stores
  <2>3. /\ job.status = "awaiting_sensor" /\ u \in Pending
        /\ unit[u].attempts = command[q.by].attempt
    BY <2>1, <2>2 DEF Stores, Pending
  <2>4. unit[u].attempts = command[Latest].attempt /\ Latest \in Dispatch
    BY <1>1, <2>3 DEF CommandInv, AwaitedHostsWereHanded, Awaited
  <2>5. q.by \in Dispatch /\ u \in command[q.by].plan
    BY <1>1, <2>2 DEF CommandInv, Planned, TypeInv, TypeOK
  <2>6. Known(q.by) /\ Numbered
    BY <1>1, <2>5 DEF CommandInv, Stamped
  <2>7. q.by <= Latest /\ Known(Latest)
    <3>1. Latest \in Nat
      BY <2>4, LatestFacts DEF Dispatch
    <3>2. \A d \in Dispatch : Known(d) <=> d <= Latest
      BY <1>1, <2>6, LatestNumbers
    <3>3. Latest <= Latest
      BY <3>1
    <3> QED BY <2>4, <2>5, <2>6, <3>2, <3>3
  <2>8. ~(q.by < Latest)
    <3>1. q.by < Latest => command[q.by].attempt < command[Latest].attempt
      BY <1>1, <2>4, <2>5, <2>7 DEF CommandInv, Stamped
    <3>2. command[q.by].attempt = command[Latest].attempt /\ command[Latest].attempt \in Nat
      BY <1>1, <2>3, <2>4 DEF TypeInv, TypeOK
    <3> QED BY <3>1, <3>2
  <2>9. q.by \in Nat /\ Latest \in Nat
    BY <2>4, <2>5, LatestFacts DEF Dispatch
  <2> QED BY <2>2, <2>7, <2>8, <2>9
<1>2. TypeInv /\ CommandInv /\ [Next]_sensorVars => [OfLatest]_sensorVars
  BY <1>1
<1> QED BY <1>2, TypeInvHolds, CommandInvHolds, PTL DEF Spec, StoredByLatestDispatch

-----------------------------------------------------------------------------
(* What a completed job says *)

\* Only the cancellation of the job cancels units, and no cancelled job is taken up.
CancelIsFinal ==
  (canceller # "idle" \/ \E u \in Unit : unit[u].status = "cancelled")
    => job.status = "cancelled"

LEMMA CancelIsFinalStep ==
  ASSUME TypeInv, Numbered, CancelIsFinal, [Next]_sensorVars
  PROVE  CancelIsFinal'
<1>1. job.status = "cancelled" => job'.status = "cancelled"
  BY JobStep DEF JobStays, JobMove, Terminal
<1>2. ASSUME canceller = "idle", canceller' # "idle" PROVE job'.status = "cancelled"
  <2>1. CancelStep
    BY <1>2, DeliverySteps, SensorSteps, RequestSteps, SweepSteps, OtherSteps
    DEF Next, ServeRequest, sensorVars
  <2>2. CancelJob
    BY <1>2, <2>1
    DEF CancelStep, CancelTargets, CancelUnits, RevokeDispatch, TellSensor, CancelLost
  <2> QED BY <2>2 DEF CancelJob, MoveJob
<1>3. ASSUME NEW u \in Unit, unit[u].status # "cancelled", unit'[u].status = "cancelled"
      PROVE  canceller # "idle"
  <2>1. CancelUnits
    BY <1>3, UnitStep, DispatchFacts DEF UnitMove
  <2> QED BY <2>1 DEF CancelUnits
<1> QED BY <1>1, <1>2, <1>3 DEF CancelIsFinal

LEMMA CompletedStep ==
  ASSUME TypeInv, CommandInv, CancelIsFinal, CompletedMeansAnswered, [Next]_sensorVars
  PROVE  CompletedMeansAnswered'
<1>0. Numbered /\ Expanded /\ Collected
  BY DEF CommandInv
<1>1. ASSUME job.status = "completed", NEW u \in Unit
      PROVE  unit'[u].status \in {"done", "failed"}
  <2>1. unit[u].status \in {"done", "failed"}
    BY <1>1 DEF CompletedMeansAnswered
  <2>2. ~RequeueJobForRetry /\ \A m \in Delivery : ~DispatchCommand(m)
    BY <1>1 DEF RequeueJobForRetry, DispatchCommand
  <2> QED BY <2>1, <2>2, UnitStep DEF UnitMove
<1>2. ASSUME job.status # "completed", job'.status = "completed", NEW u \in Unit
      PROVE  unit'[u].status \in {"done", "failed"}
  <2>1. PICK d \in Dispatch : CompleteJob(d) /\ job.status = "awaiting_sensor"
    <3>1. ASSUME NEW m \in Delivery, DispatchCommand(m) PROVE FALSE
      BY <1>2, <3>1 DEF DispatchCommand, MoveJob
    <3> QED BY <1>2, <3>1, StatusStep
  <2>2. unit[u].status \in {"pending", "done", "failed"}
    BY <1>0, <2>1 DEF Expanded, CancelIsFinal, TypeInv, TypeOK, UnitStatus
  <2>3. unit' = SetUnits({"pending"}, "failed")
    BY <2>1 DEF CompleteJob
  <2>4. \/ unit'[u] = unit[u] /\ unit[u].status # "pending"
        \/ unit'[u].status = "failed"
    BY <2>3 DEF SetUnits, TypeInv, TypeOK
  <2> QED BY <2>2, <2>4
<1> QED BY <1>1, <1>2 DEF CompletedMeansAnswered

\* A job completes with an answer for every address, those its sensor never reported
\* included (FinishSensorPlanUnits in the transaction of CompleteSensorJob).
THEOREM CompletedAnswersAll == Spec => []CompletedMeansAnswered
<1> DEFINE Inv == CancelIsFinal /\ CompletedMeansAnswered
<1>1. Init => Inv
  BY DEF Init, CancelIsFinal, CompletedMeansAnswered
<1>2. TypeInv /\ CommandInv /\ Inv /\ [Next]_sensorVars => Inv'
  <2> SUFFICES ASSUME TypeInv, CommandInv, Inv, [Next]_sensorVars PROVE Inv'
    OBVIOUS
  <2> QED BY CancelIsFinalStep, CompletedStep DEF CommandInv
<1> QED BY <1>1, <1>2, TypeInvHolds, CommandInvHolds, PTL DEF Spec
=============================================================================
