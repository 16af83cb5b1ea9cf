--------------------------- MODULE PlanJobProofs ---------------------------
(***************************************************************************)
(* What PlanJob guarantees for every number of runs, replicas, targets and *)
(* units and every set of Events.  A step is looked at from four sides:    *)
(* what it does to each unit (UnitMove), to the job (JobMove), to what     *)
(* runs hold (KeepsHolds), and to the targets; the theorems put these      *)
(* together.                                                               *)
(***************************************************************************)
EXTENDS PlanJob, TLAPS

-----------------------------------------------------------------------------
(* What the helpers of the actions keep of the types *)

\* Moving a run to another stage keeps the type of run.
LEMMA GotoType ==
  ASSUME run \in RunType, NEW r \in Run, NEW pc \in Stage, Goto(r, pc)
  PROVE  run' \in RunType
BY DEF RunType, RunRow, Goto

\* A run told to stop has a record of the type of run.
LEMMA StopRowType ==
  ASSUME run \in RunType, NEW r \in Run, NEW cause \in StopCause
  PROVE  [run[r] EXCEPT !.stop = cause] \in RunRow
BY DEF RunType, RunRow

\* Moving a run with a new stop cause keeps the type of run.
LEMMA StopType ==
  ASSUME run \in RunType, NEW r \in Run, NEW pc \in Stage, NEW cause \in StopCause
  PROVE  [run EXCEPT ![r].pc = pc, ![r].stop = cause] \in RunType
<1>1. [[run[r] EXCEPT !.pc = pc] EXCEPT !.stop = cause] \in RunRow
  BY DEF RunType, RunRow
<1> QED BY <1>1 DEF RunType

\* A run that returns has a record of the type of run.
LEMMA ReturnType ==
  ASSUME run \in RunType, NEW r \in Run, Return(r)
  PROVE  run' \in RunType
BY DEF RunType, RunRow, Return, Over, NotStarted, Stage, StopCause

\* Setting what a run does with some units keeps the type of work.
LEMMA SetWorkType ==
  ASSUME work \in WorkType, NEW r \in Run, NEW us,
         NEW w \in [at: WorkStage, attempt: Nat], SetWork(r, us, w)
  PROVE  work' \in WorkType
BY DEF WorkType, SetWork

\* So does dropping a unit.
LEMMA IdleType == Idle \in [at: WorkStage, attempt: Nat]
BY DEF Idle, WorkStage

\* An UPDATE of the units' status keeps their type.
LEMMA SetUnitsType ==
  ASSUME unit \in UnitType, NEW from, NEW to \in UnitStatus
  PROVE  SetUnits(from, to) \in UnitType
BY DEF UnitType, SetUnits

\* An UPDATE of the targets' status keeps their type.
LEMMA SetTargetsType ==
  ASSUME target \in [Target -> TargetStatus], NEW from, NEW to \in TargetStatus
  PROVE  SetTargets(from, to) \in [Target -> TargetStatus]
BY DEF SetTargets

\* Settling targets keeps their type.
LEMMA SettleTargetsType ==
  ASSUME target \in [Target -> TargetStatus], NEW us, NEW ts
  PROVE  SettleTargets(us, ts) \in [Target -> TargetStatus]
BY DEF SettleTargets, TargetStatus

\* failUnit keeps the types of units and targets.
LEMMA FailUnitType ==
  ASSUME unit \in UnitType, target \in [Target -> TargetStatus],
         NEW u \in Unit, NEW from, FailUnit(u, from)
  PROVE  unit' \in UnitType /\ target' \in [Target -> TargetStatus]
<1>1. unit' \in UnitType
  BY DEF FailUnit, UnitType, UnitStatus
<1>2. target' \in [Target -> TargetStatus]
  BY SettleTargetsType DEF FailUnit
<1> QED BY <1>1, <1>2

\* A job moved to one of the statuses has a row of the type of job.
LEMMA MoveJobType ==
  ASSUME job \in JobType, NEW to \in JobStatus, MoveJob(to)
  PROVE  job' \in JobType
BY DEF JobType, MoveJob

\* checkStillRunning touches the row at most.
LEMMA StillRunningType ==
  ASSUME job \in JobType, NEW r \in Run, StillRunning(r)
  PROVE  job' \in JobType
BY DEF JobType, StillRunning
-----------------------------------------------------------------------------
(* Types *)

\* The rows as they are created have their types.
LEMMA TypeInit == Init => TypeOK
BY LimitAssumption
DEF Init, TypeOK, JobType, JobStatus, Terminal, TargetStatus, UnitType, UnitStatus, RunType, RunRow,
    WorkType, CancelType, NotStarted, Idle, Stage, StopCause, WorkStage

\* Every step of a worker or of a sweep about one unit keeps the types.
LEMMA TypeRunUnit ==
  ASSUME TypeOK, NEW r \in Run, NEW u \in Unit, RunUnit(r, u)
  PROVE  TypeOK'
<1>1. CASE RefuseSwept(r, u)
  BY <1>1, FailUnitType, SetWorkType, IdleType DEF RefuseSwept, TypeOK
<1>2. CASE CheckUnit(r, u)
  <2>1. [at |-> "checked", attempt |-> 0] \in [at: WorkStage, attempt: Nat]
    BY DEF WorkStage
  <2> QED BY <1>2, <2>1, StillRunningType, SetWorkType DEF CheckUnit, TypeOK
<1>3. CASE RefuseUnit(r, u)
  BY <1>3, FailUnitType, SetWorkType, IdleType DEF RefuseUnit, TypeOK
<1>4. CASE ClaimUnit(r, u)
  <2>1. [at |-> "held", attempt |-> unit[u].attempts + 1] \in [at: WorkStage, attempt: Nat]
    BY DEF TypeOK, UnitType, WorkStage
  <2>2. work' \in WorkType
    BY <1>4, <2>1, SetWorkType DEF ClaimUnit, TypeOK
  <2>3. unit' \in UnitType
    BY <1>4 DEF ClaimUnit, TypeOK, UnitType, UnitStatus
  <2>4. target' \in [Target -> TargetStatus]
    BY <1>4 DEF ClaimUnit, TypeOK, TargetStatus
  <2> QED BY <1>4, <2>2, <2>3, <2>4 DEF ClaimUnit, TypeOK
<1>5. CASE SkipUnit(r, u)
  BY <1>5, SetWorkType, IdleType DEF SkipUnit, TypeOK
<1>6. CASE CommitUnit(r, u)
  <2>1. unit' \in UnitType
    BY <1>6 DEF CommitUnit, TypeOK, UnitType, UnitStatus
  <2>2. target' \in [Target -> TargetStatus]
    BY <1>6, SettleTargetsType DEF CommitUnit, TypeOK
  <2>3. mirror' \in [Unit -> Nat]
    BY <1>6 DEF CommitUnit, TypeOK
  <2>4. work' \in WorkType
    BY <1>6, SetWorkType, IdleType DEF CommitUnit, TypeOK
  <2> QED BY <1>6, <2>1, <2>2, <2>3, <2>4 DEF CommitUnit, TypeOK
<1>7. CASE DiscardUnit(r, u)
  BY <1>7, SetWorkType, IdleType DEF DiscardUnit, TypeOK
<1>8. CASE CommitRefused(r, u)
  <2>1. [at |-> "unstored", attempt |-> work[r][u].attempt] \in [at: WorkStage, attempt: Nat]
    BY DEF TypeOK, WorkType, WorkStage
  <2> QED BY <1>8, <2>1, SetWorkType DEF CommitRefused, TypeOK
<1>9. CASE FailScannedUnit(r, u)
  <2>1. run' \in RunType
    BY <1>9 DEF FailScannedUnit, TypeOK, RunType, RunRow
  <2> QED BY <1>9, <2>1, FailUnitType, SetWorkType, IdleType DEF FailScannedUnit, TypeOK
<1>10. CASE ReleaseUnit(r, u)
  <2>1. unit' \in UnitType
    BY <1>10 DEF ReleaseUnit, TypeOK, UnitType, UnitStatus
  <2> QED BY <1>10, <2>1, SetWorkType, IdleType DEF ReleaseUnit, TypeOK
<1>11. CASE UnitWriteLost(r, u)
  BY <1>11, SetWorkType, IdleType DEF UnitWriteLost, TypeOK
<1> QED
  BY <1>1, <1>2, <1>3, <1>4, <1>5, <1>6, <1>7, <1>8, <1>9, <1>10, <1>11 DEF RunUnit

\* Every other step of a run keeps the types.
LEMMA TypeRunStep ==
  ASSUME TypeOK, NEW r \in Run, RunStep(r)
  PROVE  TypeOK'
<1>1. CASE LoseClaim(r)
  BY <1>1, ReturnType DEF LoseClaim, TypeOK
<1>2. CASE RateLimited(r)
  BY <1>2, GotoType, MoveJobType DEF RateLimited, TypeOK, Stage, JobStatus, Terminal
<1>3. CASE SettleRefused(r)
  BY <1>3, ReturnType, SetTargetsType DEF SettleRefused, TypeOK, TargetStatus
<1>4. CASE ClaimJob(r)
  BY <1>4, GotoType, MoveJobType DEF ClaimJob, TypeOK, Stage, JobStatus
<1>5. CASE Register(r)
  <2>1. run' \in RunType
    BY <1>5, StopType DEF Register, TypeOK, Stage, StopCause
  <2>2. registry' \in [Replica -> Run \cup {None}]
    BY <1>5, HomeAssumption DEF Register, TypeOK
  <2> QED BY <1>5, <2>1, <2>2 DEF Register, TypeOK
<1>6. CASE Begin(r)
  <2>1. PICK targets \in SUBSET Target :
          run' = [run EXCEPT ![r].pc = "expanding", ![r].expand = targets]
    BY <1>6 DEF Begin
  <2>2. [[run[r] EXCEPT !.pc = "expanding"] EXCEPT !.expand = targets] \in RunRow
    BY DEF TypeOK, RunType, RunRow, Stage
  <2>3. run' \in RunType
    BY <2>1, <2>2 DEF TypeOK, RunType
  <2> QED BY <1>6, <2>3, StillRunningType DEF Begin, TypeOK
<1>7. CASE BeginStopped(r)
  BY <1>7, GotoType DEF BeginStopped, TypeOK, Stage
<1>8. CASE \E t \in Target : ExpandBatch(r, t)
  <2>1. PICK t \in Target : ExpandBatch(r, t)
    BY <1>8
  <2>2. unit' \in UnitType
    BY <2>1 DEF ExpandBatch, TypeOK, UnitType, UnitStatus
  <2> QED BY <2>1, <2>2 DEF ExpandBatch, TypeOK
<1>9. CASE \E t \in Target : SettleExpanded(r, t)
  <2>1. PICK t \in Target : SettleExpanded(r, t)
    BY <1>9
  <2>2. run' \in RunType
    BY <2>1 DEF SettleExpanded, TypeOK, RunType, RunRow
  <2> QED BY <2>1, <2>2, SettleTargetsType DEF SettleExpanded, TypeOK
<1>10. CASE ResetOrphanedUnits(r)
  BY <1>10, GotoType, SetUnitsType DEF ResetOrphanedUnits, TypeOK, Stage, UnitStatus
<1>11. CASE ListSweep(r)
  <2>1. [at |-> "sweep", attempt |-> 0] \in [at: WorkStage, attempt: Nat]
    BY DEF WorkStage
  <2> QED BY <1>11, <2>1, GotoType, SetWorkType DEF ListSweep, TypeOK, Stage
<1>12. CASE \E C \in SUBSET Unit : SweepChunk(r, C)
  <2>1. PICK C \in SUBSET Unit : SweepChunk(r, C)
    BY <1>12
  <2>2. [at |-> "cleared", attempt |-> 0] \in [at: WorkStage, attempt: Nat]
    BY DEF WorkStage
  <2> QED BY <2>1, <2>2, StillRunningType, SetWorkType DEF SweepChunk, TypeOK
<1>13. CASE RecordLiveness(r)
  <2>1. unit' \in UnitType
    BY <1>13 DEF RecordLiveness, TypeOK, UnitType, UnitStatus
  <2>2. target' \in [Target -> TargetStatus]
    BY <1>13, SettleTargetsType DEF RecordLiveness, TypeOK
  <2> QED BY <1>13, <2>1, <2>2, SetWorkType, IdleType DEF RecordLiveness, TypeOK
<1>14. CASE SweepStopped(r)
  <2>1. PICK cause \in {"cancel", "shutdown"} :
          run' = [run EXCEPT ![r].pc = "settling", ![r].stop = cause]
    BY <1>14 DEF SweepStopped
  <2>2. run' \in RunType
    BY <2>1, StopType DEF TypeOK, Stage, StopCause
  <2> QED BY <1>14, <2>2, SetWorkType, IdleType DEF SweepStopped, TypeOK
<1>15. CASE ListUnits(r)
  <2>1. [at |-> "todo", attempt |-> 0] \in [at: WorkStage, attempt: Nat]
    BY DEF WorkStage
  <2> QED BY <1>15, <2>1, GotoType, SetWorkType DEF ListUnits, TypeOK, Stage
<1>16. CASE StopPool(r)
  <2>1. [run[r] EXCEPT !.stop = "cancel"] \in RunRow
    BY StopRowType DEF TypeOK, StopCause
  <2>2. run' \in RunType
    BY <1>16, <2>1 DEF StopPool, TypeOK, RunType
  <2> QED BY <1>16, <2>2 DEF StopPool, TypeOK
<1>17. CASE EndPortPhase(r)
  BY <1>17, GotoType, SetWorkType, IdleType DEF EndPortPhase, TypeOK, Stage
<1>18. CASE \E u \in Unit : RunUnit(r, u)
  BY <1>18, TypeRunUnit
<1>19. CASE SettleStopped(r)
  <2>1. unit' \in UnitType
    BY <1>19, SetUnitsType DEF SettleStopped, TypeOK, UnitStatus
  <2>2. target' \in [Target -> TargetStatus]
    BY <1>19, SetTargetsType DEF SettleStopped, TypeOK, TargetStatus
  <2> QED BY <1>19, <2>1, <2>2, GotoType DEF SettleStopped, TypeOK, Stage
<1>20. CASE HandBack(r)
  <2>1. job' \in JobType
    BY <1>20, MoveJobType DEF HandBack, TypeOK, JobStatus
  <2> QED BY <1>20, <2>1, GotoType DEF HandBack, TypeOK, Stage
<1>21. CASE VerifyUnits(r)
  BY <1>21, GotoType DEF VerifyUnits, TypeOK, Stage
<1>22. CASE CompleteJob(r) \/ FailJob(r)
  <2>1. PICK from \in {"completing", "failing"}, verdict \in {"completed", "failed"} :
          EndJob(r, from, verdict)
    BY <1>22 DEF CompleteJob, FailJob
  <2>2. job' \in JobType
    BY <2>1, MoveJobType DEF EndJob, TypeOK, JobStatus, Terminal
  <2>3. run' \in RunType
    BY <2>1, GotoType DEF EndJob, TypeOK, RunType, RunRow, Stage
  <2> QED BY <2>1, <2>2, <2>3 DEF EndJob, TypeOK
<1>23. CASE CloseTargets(r)
  <2>1. run[r].verdict \in TargetStatus
    BY DEF TypeOK, RunType, RunRow, TargetStatus
  <2> QED BY <1>23, <2>1, GotoType, SetTargetsType DEF CloseTargets, TypeOK, Stage
<1>24. CASE Unregister(r)
  <2>1. registry' \in [Replica -> Run \cup {None}]
    BY <1>24 DEF Unregister, TypeOK
  <2> QED BY <1>24, <2>1, ReturnType DEF Unregister, TypeOK
<1>25. CASE RunError(r)
  BY <1>25, GotoType, SetWorkType, IdleType DEF RunError, TypeOK, Stage
<1>26. CASE EndWriteLost(r)
  BY <1>26, GotoType, ReturnType DEF EndWriteLost, TypeOK, Stage
<1> QED
  BY <1>1, <1>2, <1>3, <1>4, <1>5, <1>6, <1>7, <1>8, <1>9, <1>10, <1>11, <1>12, <1>13, <1>14, <1>15, <1>16, <1>17, <1>18, <1>19, <1>20, <1>21, <1>22, <1>23, <1>24, <1>25, <1>26 DEF RunStep

\* What replicas and persons do keeps the types.
LEMMA TypeEnvironment ==
  ASSUME TypeOK,
         \/ \E p \in Replica : ReplicaStep(p)
         \/ CancelStep \/ Lapse \/ ReapStalledJob \/ RequeueJobForRetry
  PROVE  TypeOK'
<1>1. ASSUME NEW p \in Replica, Beat(p) PROVE TypeOK'
  BY <1>1 DEF Beat, TypeOK, JobType
<1>2. ASSUME NEW p \in Replica, CancelJob(p) PROVE TypeOK'
  <2>1. canceller' \in CancelType
    BY <1>2 DEF CancelJob, CancelType
  <2> QED BY <1>2, <2>1, MoveJobType DEF CancelJob, TypeOK, JobStatus, Terminal
<1>3. ASSUME NEW p \in Replica, Stop(p) PROVE TypeOK'
  <2>1. run' \in RunType
    BY <1>3, StopRowType DEF Stop, TypeOK, RunType, StopCause
  <2>2. node' \in [Replica -> {"up", "stopping", "down"}]
    BY <1>3 DEF Stop, TypeOK
  <2> QED BY <1>3, <2>1, <2>2 DEF Stop, TypeOK
<1>4. ASSUME NEW p \in Replica, Gone(p) PROVE TypeOK'
  <2>1. run' \in RunType
    BY <1>4 DEF Gone, TypeOK, RunType, RunRow, Over, NotStarted, Stage, StopCause
  <2>2. work' \in WorkType
    BY <1>4, IdleType DEF Gone, TypeOK, WorkType
  <2>3. canceller' \in CancelType
    BY <1>4 DEF Gone, TypeOK, CancelType
  <2>4. node' \in [Replica -> {"up", "stopping", "down"}]
    BY <1>4 DEF Gone, TypeOK
  <2>5. registry' \in [Replica -> Run \cup {None}]
    BY <1>4 DEF Gone, TypeOK
  <2> QED BY <1>4, <2>1, <2>2, <2>3, <2>4, <2>5 DEF Gone, TypeOK
<1>5. ASSUME NEW p \in Replica, Restart(p) PROVE TypeOK'
  BY <1>5 DEF Restart, TypeOK
<1>6. CASE CancelSignal
  <2>1. run' \in RunType
    <3>1. ASSUME NEW q \in Run PROVE [run[q] EXCEPT !.stop = "cancel"] \in RunRow
      BY StopRowType DEF TypeOK, StopCause
    <3> QED BY <1>6, <3>1 DEF CancelSignal, TypeOK, RunType
  <2>2. canceller' \in CancelType
    BY <1>6 DEF CancelSignal, TypeOK, CancelType
  <2> QED BY <1>6, <2>1, <2>2 DEF CancelSignal, TypeOK
<1>7. CASE CancelTargets
  <2>1. canceller' \in CancelType
    BY <1>7 DEF CancelTargets, TypeOK, CancelType
  <2> QED BY <1>7, <2>1, SetTargetsType DEF CancelTargets, TypeOK, TargetStatus
<1>8. CASE CancelUnits
  <2>1. canceller' \in CancelType
    BY <1>8 DEF CancelUnits, TypeOK, CancelType
  <2> QED BY <1>8, <2>1, SetUnitsType DEF CancelUnits, TypeOK, UnitStatus
<1>9. CASE CancelWriteLost
  <2>1. canceller' \in CancelType
    BY <1>9 DEF CancelWriteLost, TypeOK, CancelType
  <2> QED BY <1>9, <2>1 DEF CancelWriteLost, TypeOK
<1>10. CASE Lapse
  BY <1>10 DEF Lapse, TypeOK, JobType
<1>11. CASE ReapStalledJob
  <2>1. job' \in JobType
    <3>1. CASE job.resumes < AutoResumeLimit
      <4>1. job.resumes + 1 \in 0..AutoResumeLimit
        BY <3>1, LimitAssumption DEF TypeOK, JobType
      <4> QED BY <1>11, <3>1, <4>1 DEF ReapStalledJob, TypeOK, JobType, JobStatus
    <3>2. CASE ~(job.resumes < AutoResumeLimit)
      BY <1>11, <3>2 DEF ReapStalledJob, TypeOK, JobType, JobStatus, Terminal
    <3> QED BY <3>1, <3>2
  <2>2. unit' \in UnitType
    BY <1>11, SetUnitsType DEF ReapStalledJob, TypeOK, UnitStatus
  <2>3. target' \in [Target -> TargetStatus]
    BY <1>11, SetTargetsType DEF ReapStalledJob, TypeOK, TargetStatus
  <2> QED BY <1>11, <2>1, <2>2, <2>3 DEF ReapStalledJob, TypeOK
<1>12. CASE RequeueJobForRetry
  BY <1>12, MoveJobType, SetUnitsType, SetTargetsType
  DEF RequeueJobForRetry, TypeOK, JobStatus, TargetStatus, UnitStatus
<1> QED
  BY <1>1, <1>2, <1>3, <1>4, <1>5, <1>6, <1>7, <1>8, <1>9, <1>10, <1>11, <1>12 DEF ReplicaStep, CancelStep, Exit, Crash

\* Every step keeps the types.
LEMMA TypeStep == TypeOK /\ [Next]_vars => TypeOK'
<1> SUFFICES ASSUME TypeOK, [Next]_vars PROVE TypeOK'
  OBVIOUS
<1>1. ASSUME NEW r \in Run, Deliver(r) PROVE TypeOK'
  BY <1>1, GotoType DEF Deliver, TypeOK, Stage
<1>2. CASE UNCHANGED vars
  BY <1>2 DEF vars, TypeOK
<1> QED
  BY <1>1, <1>2, TypeRunStep, TypeEnvironment DEF Next

\* The rows, the runs and the registries always have their types; in particular
\* auto_resumes never passes its limit.
THEOREM TypeCorrect == Spec => []TypeOK
BY TypeInit, TypeStep, PTL DEF Spec


-----------------------------------------------------------------------------
(* What a step does to a unit *)

Stands(u) == unit'[u] = unit[u] /\ mirror'[u] = mirror[u]

Moves(u) ==
  /\ unit[u].status # "done" /\ unit'[u].status # "done"
  /\ unit'[u].attempts \in Nat /\ unit'[u].attempts >= unit[u].attempts
  /\ unit'[u].liveness \in {unit[u].liveness, "up"}
  /\ mirror'[u] = mirror[u]
  /\ unit[u].status = "running" /\ unit'[u].status = "cancelled"
       => \E r \in Run : ReleaseUnit(r, u) /\ Unfenced(r, u)

Stored(u) == \E r \in Run : CommitUnit(r, u)

SweptDown(u) ==
  /\ unit[u].status = "pending"
  /\ unit'[u] = [status |-> "done", attempts |-> unit[u].attempts + 1, liveness |-> "down"]
  /\ mirror'[u] = mirror[u]

UnitMove(u) == Stands(u) \/ Moves(u) \/ Stored(u) \/ SweptDown(u)

\* An UPDATE of the units' status that neither finds nor makes a unit done.
LEMMA SetUnitsMove ==
  ASSUME TypeOK, NEW from, "done" \notin from, NEW to \in UnitStatus \ {"done"},
         to = "cancelled" => "running" \notin from,
         unit' = SetUnits(from, to), UNCHANGED mirror
  PROVE  \A u \in Unit : UnitMove(u)
<1> SUFFICES ASSUME NEW u \in Unit PROVE UnitMove(u)
  OBVIOUS
<1>1. CASE unit[u].status \in from
  <2>1. unit'[u] = [unit[u] EXCEPT !.status = to]
    BY <1>1 DEF SetUnits
  <2>2. Moves(u)
    BY <1>1, <2>1 DEF Moves, TypeOK, UnitType
  <2> QED BY <2>2 DEF UnitMove
<1>2. CASE unit[u].status \notin from
  BY <1>2 DEF SetUnits, UnitMove, Stands
<1> QED BY <1>1, <1>2

\* failUnit moves its unit, if it is where the caller expects it.
LEMMA FailUnitMove ==
  ASSUME TypeOK, NEW v \in Unit, NEW from, from # "done", FailUnit(v, from), UNCHANGED mirror
  PROVE  \A u \in Unit : UnitMove(u)
<1> SUFFICES ASSUME NEW u \in Unit PROVE UnitMove(u)
  OBVIOUS
<1>1. CASE unit[v].status = from /\ u = v
  <2>1. unit'[u] = [unit[u] EXCEPT !.status = "failed"]
    BY <1>1 DEF FailUnit, TypeOK, UnitType
  <2>2. Moves(u)
    BY <1>1, <2>1 DEF Moves, TypeOK, UnitType
  <2> QED BY <2>2 DEF UnitMove
<1>2. CASE ~(unit[v].status = from /\ u = v)
  BY <1>2 DEF FailUnit, UnitMove, Stands, TypeOK, UnitType
<1> QED BY <1>1, <1>2

\* The steps of workers and sweeps about one unit.
LEMMA RunUnitMove ==
  ASSUME TypeOK, NEW r \in Run, NEW v \in Unit, RunUnit(r, v)
  PROVE  \A u \in Unit : UnitMove(u)
<1>1. CASE RefuseSwept(r, v)
  BY <1>1, FailUnitMove DEF RefuseSwept
<1>2. CASE RefuseUnit(r, v)
  BY <1>2, FailUnitMove DEF RefuseUnit
<1>3. CASE FailScannedUnit(r, v)
  BY <1>3, FailUnitMove DEF FailScannedUnit
<1>4. CASE ClaimUnit(r, v)
  <2> SUFFICES ASSUME NEW u \in Unit PROVE UnitMove(u)
    OBVIOUS
  <2>1. CASE u = v
    <3>1. unit'[u] = [unit[u] EXCEPT !.status = "running", !.attempts = unit[u].attempts + 1]
      BY <1>4, <2>1 DEF ClaimUnit, TypeOK, UnitType
    <3>2. Moves(u)
      BY <1>4, <2>1, <3>1 DEF Moves, ClaimUnit, TypeOK, UnitType
    <3> QED BY <3>2 DEF UnitMove
  <2>2. CASE u # v
    BY <1>4, <2>2 DEF ClaimUnit, UnitMove, Stands, TypeOK, UnitType
  <2> QED BY <2>1, <2>2
<1>5. CASE CommitUnit(r, v)
  <2> SUFFICES ASSUME NEW u \in Unit PROVE UnitMove(u)
    OBVIOUS
  <2>1. CASE u = v
    BY <1>5, <2>1 DEF UnitMove, Stored
  <2>2. CASE u # v
    BY <1>5, <2>2 DEF CommitUnit, UnitMove, Stands, TypeOK, UnitType
  <2> QED BY <2>1, <2>2
<1>6. CASE ReleaseUnit(r, v)
  <2> SUFFICES ASSUME NEW u \in Unit PROVE UnitMove(u)
    OBVIOUS
  <2>1. CASE u = v /\ Unfenced(r, v)
    <3>1. PICK to \in {"cancelled", "pending"} : unit'[u] = [unit[u] EXCEPT !.status = to]
      BY <1>6, <2>1 DEF ReleaseUnit, TypeOK, UnitType
    <3>2. Moves(u)
      <4>1. \E q \in Run : ReleaseUnit(q, u) /\ Unfenced(q, u)
        BY <1>6, <2>1
      <4>2. mirror' = mirror /\ unit[u].status = "running"
        BY <1>6, <2>1 DEF ReleaseUnit, Unfenced
      <4> QED BY <3>1, <4>1, <4>2 DEF Moves, TypeOK, UnitType
    <3> QED BY <3>2 DEF UnitMove
  <2>2. CASE ~(u = v /\ Unfenced(r, v))
    BY <1>6, <2>2 DEF ReleaseUnit, UnitMove, Stands, TypeOK, UnitType
  <2> QED BY <2>1, <2>2
<1>7. CASE CheckUnit(r, v) \/ SkipUnit(r, v) \/ DiscardUnit(r, v) \/ CommitRefused(r, v)
             \/ UnitWriteLost(r, v)
  BY <1>7 DEF CheckUnit, SkipUnit, DiscardUnit, CommitRefused, UnitWriteLost, UnitMove, Stands
<1> QED
  BY <1>1, <1>2, <1>3, <1>4, <1>5, <1>6, <1>7 DEF RunUnit

\* The other steps of a run.
LEMMA RunStepMove ==
  ASSUME TypeOK, NEW r \in Run, RunStep(r)
  PROVE  \A u \in Unit : UnitMove(u)
<1>1. CASE UNCHANGED <<unit, mirror>>
  BY <1>1 DEF UnitMove, Stands
<1>2. ASSUME NEW t \in Target, ExpandBatch(r, t) PROVE \A u \in Unit : UnitMove(u)
  <2> SUFFICES ASSUME NEW u \in Unit PROVE UnitMove(u)
    OBVIOUS
  <2>1. PICK refused, B \in SUBSET {w \in UnitsOf(t) : unit[w].status = "absent"} :
          unit' = [w \in Unit |->
                     IF w \in refused THEN [unit[w] EXCEPT !.status = "failed"]
                     ELSE IF w \in B THEN [unit[w] EXCEPT !.status = "pending"]
                     ELSE unit[w]] /\ refused \subseteq B
    BY <1>2 DEF ExpandBatch
  <2>2. CASE u \in B
    <3>1. PICK to \in {"failed", "pending"} : unit'[u] = [unit[u] EXCEPT !.status = to]
      BY <2>1, <2>2
    <3>2. unit[u].status = "absent"
      BY <2>1, <2>2
    <3>3. Moves(u)
      BY <1>2, <3>1, <3>2 DEF Moves, ExpandBatch, TypeOK, UnitType
    <3> QED BY <3>3 DEF UnitMove
  <2>3. CASE u \notin B
    BY <1>2, <2>1, <2>3 DEF ExpandBatch, UnitMove, Stands
  <2> QED BY <2>2, <2>3
<1>3. CASE ResetOrphanedUnits(r)
  BY <1>3, SetUnitsMove DEF ResetOrphanedUnits, UnitStatus
<1>4. CASE RecordLiveness(r)
  <2> SUFFICES ASSUME NEW u \in Unit PROVE UnitMove(u)
    OBVIOUS
  <2>1. \/ unit'[u] = unit[u]
        \/ unit[u].status = "pending" /\ unit'[u] = [unit[u] EXCEPT !.liveness = "up"]
        \/ /\ unit[u].status = "pending"
           /\ unit'[u] = [status |-> "done", attempts |-> unit[u].attempts + 1,
                          liveness |-> "down"]
    BY <1>4 DEF RecordLiveness
  <2>2. mirror' = mirror
    BY <1>4 DEF RecordLiveness
  <2>3. CASE unit[u].status = "pending" /\ unit'[u] = [unit[u] EXCEPT !.liveness = "up"]
    BY <2>2, <2>3 DEF UnitMove, Moves, TypeOK, UnitType
  <2> QED BY <2>1, <2>2, <2>3 DEF UnitMove, Stands, SweptDown
<1>5. CASE SettleStopped(r)
  <2>1. CASE run[r].stop = "cancel"
    BY <1>5, <2>1, SetUnitsMove DEF SettleStopped, UnitStatus
  <2>2. CASE run[r].stop # "cancel"
    BY <1>5, <2>2, <1>1 DEF SettleStopped
  <2> QED BY <2>1, <2>2
<1>6. CASE \E v \in Unit : RunUnit(r, v)
  BY <1>6, RunUnitMove
<1>7. CASE \/ LoseClaim(r) \/ RateLimited(r) \/ SettleRefused(r) \/ ClaimJob(r)
           \/ Register(r) \/ Begin(r) \/ BeginStopped(r)
           \/ \E t \in Target : SettleExpanded(r, t)
           \/ ListSweep(r) \/ \E C \in SUBSET Unit : SweepChunk(r, C)
           \/ SweepStopped(r) \/ ListUnits(r) \/ StopPool(r) \/ EndPortPhase(r)
           \/ HandBack(r) \/ VerifyUnits(r)
           \/ CompleteJob(r) \/ FailJob(r) \/ CloseTargets(r) \/ Unregister(r)
           \/ RunError(r) \/ EndWriteLost(r)
  BY <1>7, <1>1
  DEF LoseClaim, RateLimited, SettleRefused, ClaimJob, Register, Begin, BeginStopped,
      SettleExpanded, ListSweep, SweepChunk, SweepStopped, ListUnits, StopPool, EndPortPhase,
      HandBack, VerifyUnits, CompleteJob, FailJob, EndJob, CloseTargets, Unregister,
      RunError, EndWriteLost
<1> QED
  BY <1>2, <1>3, <1>4, <1>5, <1>6, <1>7 DEF RunStep

\* Every step.
LEMMA UnitStep ==
  ASSUME TypeOK, [Next]_vars
  PROVE  \A u \in Unit : UnitMove(u)
<1>1. CASE UNCHANGED <<unit, mirror>>
  BY <1>1 DEF UnitMove, Stands
<1>2. ASSUME NEW r \in Run, RunStep(r) PROVE \A u \in Unit : UnitMove(u)
  BY <1>2, RunStepMove
<1>3. CASE CancelUnits
  BY <1>3, SetUnitsMove DEF CancelUnits, UnitStatus
<1>4. CASE ReapStalledJob
  BY <1>4, SetUnitsMove DEF ReapStalledJob, UnitStatus
<1>5. CASE RequeueJobForRetry
  <2>1. "done" \notin UnitStatus \ {"absent", "done"}
    OBVIOUS
  <2>2. "pending" \in UnitStatus \ {"done"}
    BY DEF UnitStatus
  <2> QED BY <1>5, <2>1, <2>2, SetUnitsMove DEF RequeueJobForRetry
<1>6. CASE \/ \E r \in Run : Deliver(r)
           \/ \E p \in Replica : ReplicaStep(p)
           \/ CancelSignal \/ CancelTargets \/ CancelWriteLost \/ Lapse \/ UNCHANGED vars
  BY <1>6, <1>1
  DEF Deliver, ReplicaStep, Beat, CancelJob, Stop, Exit, Crash, Gone, Restart,
      CancelSignal, CancelTargets, CancelWriteLost, Lapse, vars
<1> QED
  BY <1>2, <1>3, <1>4, <1>5, <1>6 DEF Next, CancelStep

-----------------------------------------------------------------------------
(* Findings are queued once *)

\* A unit the sweep found down is done, and nothing but the sweep says so; a unit
\* a worker holds is therefore not down.
DownIsDone == \A u \in Unit : unit[u].liveness = "down" => unit[u].status = "done"

StoreInv == StoredOnce /\ DownIsDone

\* The rows as they are created.
LEMMA StoreInit == Init => StoreInv
BY DEF Init, StoreInv, StoredOnce, DownIsDone

\* Every step keeps StoreInv.
LEMMA StoreStep == TypeOK /\ StoreInv /\ [Next]_vars => StoreInv'
<1> SUFFICES ASSUME TypeOK, StoreInv, [Next]_vars, NEW u \in Unit
             PROVE  /\ mirror'[u] = IF unit'[u].status = "done" /\ unit'[u].liveness # "down"
                                    THEN 1 ELSE 0
                    /\ unit'[u].liveness = "down" => unit'[u].status = "done"
  BY DEF StoreInv, StoredOnce, DownIsDone
<1>1. CASE Stands(u)
  BY <1>1 DEF Stands, StoreInv, StoredOnce, DownIsDone
<1>2. CASE Moves(u)
  BY <1>2 DEF Moves, StoreInv, StoredOnce, DownIsDone
<1>3. CASE Stored(u)
  <2>1. PICK r \in Run : CommitUnit(r, u)
    BY <1>3 DEF Stored
  <2>2. unit[u].status = "running" /\ unit'[u] = [unit[u] EXCEPT !.status = "done"]
    BY <2>1 DEF CommitUnit, Unfenced, TypeOK, UnitType
  <2>3. mirror'[u] = mirror[u] + 1
    BY <2>1 DEF CommitUnit, TypeOK
  <2>4. unit'[u].status = "done" /\ unit'[u].liveness = unit[u].liveness
    BY <2>2 DEF TypeOK, UnitType
  <2> QED BY <2>2, <2>3, <2>4 DEF StoreInv, StoredOnce, DownIsDone
<1>4. CASE SweptDown(u)
  BY <1>4 DEF SweptDown, StoreInv, StoredOnce, DownIsDone
<1> QED BY <1>1, <1>2, <1>3, <1>4, UnitStep DEF UnitMove

\* However many runs scan a host, and whatever dies between two steps, its
\* findings enter the ingestion queue once, with the `done` of its unit
\* (jobunits.Commit, recordLiveness).
THEOREM FindingsStoredOnce == Spec => []StoredOnce
<1>1. StoreInv => StoredOnce
  BY DEF StoreInv
<1> QED BY <1>1, StoreInit, StoreStep, TypeCorrect, PTL DEF Spec

-----------------------------------------------------------------------------
(* Findings of a superseded run are not stored *)

Holds(r, u) == work[r][u].at \in {"held", "unstored"}

\* No run holds an attempt the unit has not reached, no two hold the same, and
\* the holder of the latest attempt sees the unit not done.
HeldInv ==
  /\ \A r \in Run, u \in Unit : Holds(r, u) => work[r][u].attempt <= unit[u].attempts
  /\ \A r, q \in Run, u \in Unit :
       Holds(r, u) /\ Holds(q, u) /\ r # q => work[r][u].attempt # work[q][u].attempt
  /\ NoSupersededStore

\* A step after which every run holds what it held or less.
KeepsHolds ==
  \A r \in Run, u \in Unit :
    Holds(r, u)' => Holds(r, u) /\ work'[r][u].attempt = work[r][u].attempt

\* Setting what a run does with units to something other than holding them.
LEMMA SetWorkKeepsHolds ==
  ASSUME work \in WorkType, NEW r \in Run, NEW us, NEW w,
         w.at \notin {"held", "unstored"}, SetWork(r, us, w)
  PROVE  KeepsHolds
<1> SUFFICES ASSUME NEW q \in Run, NEW u \in Unit, Holds(q, u)'
             PROVE  Holds(q, u) /\ work'[q][u].attempt = work[q][u].attempt
  BY DEF KeepsHolds
<1>1. CASE q = r /\ u \in us
  <2>1. work'[q][u] = w
    BY <1>1 DEF SetWork, WorkType
  <2> QED BY <2>1 DEF Holds
<1>2. CASE ~(q = r /\ u \in us)
  <2>1. work'[q][u] = work[q][u]
    BY <1>2 DEF SetWork, WorkType
  <2> QED BY <2>1 DEF Holds
<1> QED BY <1>1, <1>2

\* Of what workers and sweeps do with a unit, only the claim takes hold of it.
LEMMA RunUnitHolds ==
  ASSUME TypeOK, NEW r \in Run, NEW v \in Unit, RunUnit(r, v), ~ClaimUnit(r, v)
  PROVE  KeepsHolds
<1>1. Idle.at \notin {"held", "unstored"}
  BY DEF Idle
<1>2. CASE CheckUnit(r, v)
  <2>1. SetWork(r, {v}, [at |-> "checked", attempt |-> 0])
    BY <1>2 DEF CheckUnit
  <2> QED BY <2>1, SetWorkKeepsHolds DEF TypeOK
<1>3. CASE CommitRefused(r, v)
  <2>1. /\ work[r][v].at = "held"
        /\ SetWork(r, {v}, [at |-> "unstored", attempt |-> work[r][v].attempt])
    BY <1>3 DEF CommitRefused
  <2>2. ASSUME NEW q \in Run, NEW u \in Unit, Holds(q, u)'
        PROVE  Holds(q, u) /\ work'[q][u].attempt = work[q][u].attempt
    <3>1. CASE q = r /\ u = v
      <4>1. work'[q][u] = [at |-> "unstored", attempt |-> work[q][u].attempt]
        BY <2>1, <3>1 DEF SetWork, TypeOK, WorkType
      <4> QED BY <2>1, <3>1, <4>1 DEF Holds
    <3>2. CASE ~(q = r /\ u = v)
      <4>1. work'[q][u] = work[q][u]
        BY <2>1, <3>2 DEF SetWork, TypeOK, WorkType
      <4> QED BY <2>2, <4>1 DEF Holds
    <3> QED BY <3>1, <3>2
  <2> QED BY <2>2 DEF KeepsHolds
<1>4. CASE SetWork(r, {v}, Idle)
  BY <1>1, <1>4, SetWorkKeepsHolds DEF TypeOK
<1> QED
  BY <1>2, <1>3, <1>4
  DEF RunUnit, RefuseSwept, RefuseUnit, SkipUnit, CommitUnit, DiscardUnit, FailScannedUnit,
      ReleaseUnit, UnitWriteLost

\* Nor does any other step.
LEMMA HoldStep ==
  ASSUME TypeOK, [Next]_vars, ~ \E r \in Run, v \in Unit : ClaimUnit(r, v)
  PROVE  KeepsHolds
<1>1. CASE UNCHANGED work
  BY <1>1 DEF KeepsHolds, Holds
<1>2. ASSUME NEW r \in Run, RunStep(r) PROVE KeepsHolds
  <2>1. ASSUME NEW us, NEW at \in {"none", "sweep", "cleared", "todo"},
               SetWork(r, us, [at |-> at, attempt |-> 0])
        PROVE  KeepsHolds
    BY <2>1, SetWorkKeepsHolds DEF TypeOK
  <2>2. CASE \/ ListSweep(r) \/ \E C \in SUBSET Unit : SweepChunk(r, C)
             \/ RecordLiveness(r) \/ SweepStopped(r) \/ ListUnits(r) \/ EndPortPhase(r)
             \/ RunError(r)
    BY <2>1, <2>2
    DEF ListSweep, SweepChunk, RecordLiveness, SweepStopped, ListUnits, EndPortPhase, RunError,
        Idle
  <2>3. CASE \E v \in Unit : RunUnit(r, v)
    BY <2>3, RunUnitHolds
  <2> QED
    BY <1>1, <1>2, <2>2, <2>3
    DEF RunStep, LoseClaim, RateLimited, SettleRefused, ClaimJob, Register, Begin, BeginStopped,
        ExpandBatch, SettleExpanded, ResetOrphanedUnits, StopPool, SettleStopped, HandBack,
        VerifyUnits, CompleteJob, FailJob, EndJob, CloseTargets, Unregister, EndWriteLost
<1>3. ASSUME NEW p \in Replica, Gone(p) PROVE KeepsHolds
  <2>1. ASSUME NEW q \in Run, NEW u \in Unit
        PROVE  work'[q][u] = work[q][u] \/ work'[q][u] = Idle
    BY <1>3 DEF Gone
  <2> QED BY <2>1 DEF KeepsHolds, Holds, Idle
<1> QED
  BY <1>1, <1>2, <1>3
  DEF Next, Deliver, ReplicaStep, Beat, CancelJob, Stop, Exit, Crash, Restart, CancelStep,
      CancelSignal, CancelTargets, CancelUnits, CancelWriteLost, Lapse, ReapStalledJob,
      RequeueJobForRetry, vars

\* The rows as they are created.
LEMMA HeldInit == Init => HeldInv
BY DEF Init, HeldInv, Holds, Idle, NoSupersededStore

\* Every step keeps HeldInv: a claim takes an attempt nobody has held, a commit
\* lets go of the only hold of the latest one, and the sweep passes all of them.
LEMMA HeldStep == TypeOK /\ HeldInv /\ [Next]_vars => HeldInv'
<1> SUFFICES ASSUME TypeOK, HeldInv, [Next]_vars PROVE HeldInv'
  OBVIOUS
<1>1. ASSUME NEW r \in Run, NEW v \in Unit, ClaimUnit(r, v) PROVE HeldInv'
  <2>1. /\ unit[v].status = "pending"
        /\ unit' = [unit EXCEPT ![v].status = "running", ![v].attempts = @ + 1]
        /\ SetWork(r, {v}, [at |-> "held", attempt |-> unit[v].attempts + 1])
    BY <1>1 DEF ClaimUnit
  <2>2. unit'[v].attempts = unit[v].attempts + 1 /\ unit'[v].status = "running"
    BY <2>1 DEF TypeOK, UnitType
  <2>3. \A u \in Unit : u # v => unit'[u] = unit[u]
    BY <2>1 DEF TypeOK, UnitType
  <2>4. work'[r][v] = [at |-> "held", attempt |-> unit[v].attempts + 1]
    BY <2>1 DEF SetWork, TypeOK, WorkType
  <2>5. \A q \in Run, u \in Unit : q # r \/ u # v => work'[q][u] = work[q][u]
    BY <2>1 DEF SetWork, TypeOK, WorkType
  <2>6. /\ \A u \in Unit : unit[u].attempts \in Nat
        /\ \A q \in Run, u \in Unit : work[q][u].attempt \in Nat
    BY DEF TypeOK, UnitType, WorkType
  <2>7. ASSUME NEW q \in Run, NEW u \in Unit, Holds(q, u)'
        PROVE  work'[q][u].attempt <= unit'[u].attempts
    BY <2>2, <2>3, <2>4, <2>5, <2>6, <2>7 DEF HeldInv, Holds
  <2>8. ASSUME NEW q \in Run, NEW s \in Run, NEW u \in Unit, Holds(q, u)', Holds(s, u)', q # s
        PROVE  work'[q][u].attempt # work'[s][u].attempt
    BY <2>4, <2>5, <2>6, <2>8 DEF HeldInv, Holds
  <2>9. NoSupersededStore'
    BY <2>2, <2>3, <2>5 DEF HeldInv, NoSupersededStore
  <2> QED BY <2>7, <2>8, <2>9 DEF HeldInv
<1>2. ASSUME NEW r \in Run, NEW v \in Unit, CommitUnit(r, v) PROVE HeldInv'
  <2>1. /\ Holds(r, v) /\ work[r][v].attempt = unit[v].attempts
        /\ unit' = [unit EXCEPT ![v].status = "done"]
        /\ SetWork(r, {v}, Idle)
    BY <1>2 DEF CommitUnit, Unfenced, Holds
  <2>2. \A u \in Unit : unit'[u].attempts = unit[u].attempts
    BY <2>1 DEF TypeOK, UnitType
  <2>3. \A u \in Unit : u # v => unit'[u] = unit[u]
    BY <2>1 DEF TypeOK, UnitType
  <2>4. work'[r][v] = Idle
    BY <2>1 DEF SetWork, TypeOK, WorkType
  <2>5. \A q \in Run, u \in Unit : q # r \/ u # v => work'[q][u] = work[q][u]
    BY <2>1 DEF SetWork, TypeOK, WorkType
  <2>6. ~Holds(r, v)'
    BY <2>4 DEF Holds, Idle
  <2>7. ASSUME NEW q \in Run, NEW u \in Unit, Holds(q, u)'
        PROVE  Holds(q, u) /\ work'[q][u] = work[q][u] /\ (q # r \/ u # v)
    BY <2>5, <2>6, <2>7 DEF Holds
  <2>8. ASSUME NEW q \in Run, NEW u \in Unit, Holds(q, u)',
               work'[q][u].attempt = unit'[u].attempts
        PROVE  unit'[u].status # "done"
    <3>1. CASE u = v
      BY <2>1, <2>2, <2>7, <2>8, <3>1 DEF HeldInv
    <3>2. CASE u # v
      BY <2>2, <2>3, <2>7, <2>8, <3>2 DEF HeldInv, NoSupersededStore, Holds
    <3> QED BY <3>1, <3>2
  <2> QED BY <2>2, <2>7, <2>8 DEF HeldInv, NoSupersededStore, Holds
<1>3. CASE /\ ~ \E r \in Run, v \in Unit : ClaimUnit(r, v)
           /\ ~ \E r \in Run, v \in Unit : CommitUnit(r, v)
  <2>1. KeepsHolds
    BY <1>3, HoldStep
  <2>2. ASSUME NEW u \in Unit
        PROVE  \/ unit'[u] = unit[u]
               \/ unit'[u].attempts >= unit[u].attempts /\ unit'[u].status # "done"
               \/ unit'[u].attempts > unit[u].attempts
    <3>1. unit[u].attempts \in Nat
      BY DEF TypeOK, UnitType
    <3>2. Stands(u) \/ Moves(u) \/ SweptDown(u)
      BY <1>3, UnitStep DEF UnitMove, Stored
    <3>3. CASE SweptDown(u)
      BY <3>1, <3>3 DEF SweptDown
    <3> QED BY <3>2, <3>3 DEF Stands, Moves
  <2>3. ASSUME NEW u \in Unit
        PROVE  /\ unit[u].attempts \in Nat /\ unit'[u].attempts \in Nat
               /\ \A r \in Run : work[r][u].attempt \in Nat
    BY TypeStep DEF TypeOK, UnitType, WorkType
  <2>4. ASSUME NEW q \in Run, NEW u \in Unit, Holds(q, u)'
        PROVE  work'[q][u].attempt <= unit'[u].attempts
    BY <2>1, <2>2, <2>3, <2>4 DEF KeepsHolds, HeldInv
  <2>5. ASSUME NEW q \in Run, NEW s \in Run, NEW u \in Unit, Holds(q, u)', Holds(s, u)', q # s
        PROVE  work'[q][u].attempt # work'[s][u].attempt
    BY <2>1, <2>5 DEF KeepsHolds, HeldInv
  <2>6. ASSUME NEW q \in Run, NEW u \in Unit, Holds(q, u)',
               work'[q][u].attempt = unit'[u].attempts
        PROVE  unit'[u].status # "done"
    <3>1. Holds(q, u) /\ work'[q][u].attempt = work[q][u].attempt
      BY <2>1, <2>6 DEF KeepsHolds
    <3>2. work[q][u].attempt <= unit[u].attempts
      BY <3>1 DEF HeldInv
    <3>3. CASE unit'[u] = unit[u]
      BY <2>6, <3>1, <3>3 DEF HeldInv, NoSupersededStore, Holds
    <3>4. ~(unit'[u].attempts > unit[u].attempts)
      BY <2>3, <2>6, <3>1, <3>2
    <3> QED BY <2>2, <3>3, <3>4
  <2> QED BY <2>4, <2>5, <2>6 DEF HeldInv, NoSupersededStore, Holds
<1> QED BY <1>1, <1>2, <1>3

\* What is stored for a host comes from the run that claimed it last: a run that
\* was reaped, and whose unit another run has claimed since, never commits it
\* under that run's feet (claimUnit, jobunits.Commit).
THEOREM SupersededNotStored == Spec => []NoSupersededStore
<1>1. HeldInv => NoSupersededStore
  BY DEF HeldInv
<1> QED BY <1>1, HeldInit, HeldStep, TypeCorrect, PTL DEF Spec

-----------------------------------------------------------------------------
(* Units in flight and completed targets keep what they are *)

\* A stopped owner hands back or cancels the unit it has in flight, and nobody
\* else cancels it: not the handler, not the end of another run (releaseUnit).
THEOREM InFlightCancelledByHolder == Spec => CancelledByItsHolder
<1>1. ASSUME TypeOK, [Next]_vars, NEW u \in Unit,
             unit[u].status = "running", unit'[u].status = "cancelled"
      PROVE  \E r \in Run : /\ work[r][u] = [at |-> "held", attempt |-> unit[u].attempts]
                             /\ work'[r][u] = Idle
  <2>1. PICK r \in Run : ReleaseUnit(r, u) /\ Unfenced(r, u)
    <3>1. ~Stands(u) /\ ~SweptDown(u)
      BY <1>1 DEF Stands, SweptDown
    <3>2. ~Stored(u)
      BY <1>1 DEF Stored, CommitUnit, TypeOK, UnitType
    <3> QED BY <1>1, <3>1, <3>2, UnitStep DEF UnitMove, Moves
  <2>2. work[r][u] = [at |-> "held", attempt |-> unit[u].attempts]
    BY <1>1, <2>1 DEF ReleaseUnit, Unfenced, TypeOK, WorkType
  <2>3. work'[r][u] = Idle
    BY <1>1, <2>1 DEF ReleaseUnit, SetWork, TypeOK, WorkType
  <2> QED BY <2>2, <2>3
<1>2. TypeOK /\ [Next]_vars
        => [\A u \in Unit :
              unit[u].status = "running" /\ unit'[u].status = "cancelled"
                => \E r \in Run : /\ work[r][u] = [at |-> "held", attempt |-> unit[u].attempts]
                                  /\ work'[r][u] = Idle]_vars
  BY <1>1
<1> QED BY <1>2, TypeCorrect, PTL DEF Spec, CancelledByItsHolder

KeepsCompleted == \A t \in Target : target[t] = "completed" => target'[t] = "completed"

\* A guarded UPDATE of the targets leaves the completed ones alone.
LEMMA SetTargetsKeeps ==
  ASSUME NEW from, "completed" \notin from, NEW to, target' = SetTargets(from, to)
  PROVE  KeepsCompleted
BY DEF KeepsCompleted, SetTargets

\* So does settling them.
LEMMA SettleTargetsKeeps ==
  ASSUME NEW us, NEW ts, target' = SettleTargets(us, ts)
  PROVE  KeepsCompleted
BY DEF KeepsCompleted, SettleTargets

\* Every step of a run leaves them alone.
LEMMA RunStepKeepsCompleted ==
  ASSUME TypeOK, NEW r \in Run, RunStep(r)
  PROVE  KeepsCompleted
<1>1. CASE UNCHANGED target
  BY <1>1 DEF KeepsCompleted
<1>2. ASSUME NEW u \in Unit, RunUnit(r, u) PROVE KeepsCompleted
  <2>1. CASE ClaimUnit(r, u)
    BY <2>1 DEF ClaimUnit, KeepsCompleted
  <2>2. CASE \/ RefuseSwept(r, u) \/ RefuseUnit(r, u) \/ CommitUnit(r, u)
             \/ FailScannedUnit(r, u)
    BY <2>2, SettleTargetsKeeps
    DEF RefuseSwept, RefuseUnit, CommitUnit, FailScannedUnit, FailUnit
  <2> QED
    BY <1>1, <1>2, <2>1, <2>2
    DEF RunUnit, CheckUnit, SkipUnit, DiscardUnit, CommitRefused, ReleaseUnit, UnitWriteLost
<1>3. CASE SettleRefused(r) \/ CloseTargets(r)
  <2>1. "completed" \notin TargetStatus \ {"completed", "failed"}
    OBVIOUS
  <2> QED BY <1>3, <2>1, SetTargetsKeeps DEF SettleRefused, CloseTargets
<1>4. CASE SettleStopped(r)
  BY <1>4, SetTargetsKeeps DEF SettleStopped
<1>5. CASE RecordLiveness(r) \/ \E t \in Target : SettleExpanded(r, t)
  BY <1>5, SettleTargetsKeeps DEF RecordLiveness, SettleExpanded
<1> QED
  BY <1>1, <1>2, <1>3, <1>4, <1>5
  DEF RunStep, LoseClaim, RateLimited, ClaimJob, Register, Begin, BeginStopped, ExpandBatch,
      ResetOrphanedUnits, ListSweep, SweepChunk, SweepStopped, ListUnits, StopPool,
      EndPortPhase, HandBack, VerifyUnits, CompleteJob, FailJob, EndJob, Unregister,
      RunError, EndWriteLost

\* A target whose scan completed stays completed, whatever is cancelled, retried,
\* reaped or handed back afterwards (UpdateJobStatusFrom, RequeueJobForRetry,
\* reapStalledJob, settleStoppedJob, SettleTarget).
THEOREM TargetsKeepOutcome == Spec => CompletedTargetsKeepOutcome
<1>1. ASSUME TypeOK, [Next]_vars PROVE KeepsCompleted
  <2>1. CASE UNCHANGED target
    BY <2>1 DEF KeepsCompleted
  <2>2. CASE \E r \in Run : RunStep(r)
    BY <1>1, <2>2, RunStepKeepsCompleted
  <2>3. CASE CancelTargets
    BY <2>3, SetTargetsKeeps DEF CancelTargets
  <2>4. CASE ReapStalledJob
    <3>1. "completed" \notin TargetStatus \ {"completed", "failed"}
      OBVIOUS
    <3> QED BY <2>4, <3>1, SetTargetsKeeps DEF ReapStalledJob
  <2>5. CASE RequeueJobForRetry
    <3>1. "completed" \notin TargetStatus \ {"completed"}
      OBVIOUS
    <3> QED BY <2>5, <3>1, SetTargetsKeeps DEF RequeueJobForRetry
  <2> QED
    BY <1>1, <2>1, <2>2, <2>3, <2>4, <2>5
    DEF Next, Deliver, ReplicaStep, Beat, CancelJob, Stop, Exit, Crash, Gone, Restart,
        CancelStep, CancelSignal, CancelUnits, CancelWriteLost, Lapse, vars
<1>2. TypeOK /\ [Next]_vars
        => [\A t \in Target : target[t] = "completed" => target'[t] = "completed"]_vars
  BY <1>1 DEF KeepsCompleted
<1> QED BY <1>2, TypeCorrect, PTL DEF Spec, CompletedTargetsKeepOutcome

-----------------------------------------------------------------------------
(* The rows implement ScanLedger *)

Done == {u \in Unit : unit[u].status = "done"}

\* What a step does to the status of the job and to its count of resumes.
JobStays == job'.status = job.status /\ job'.resumes = job.resumes

JobMove ==
  \/ job'.resumes = job.resumes /\ job.status = "queued" /\ job'.status = "running"
  \/ job'.resumes = job.resumes /\ job.status = "running" /\ job'.status = "queued"
  \/ job'.resumes = job.resumes /\ job.status \notin Terminal /\ job'.status \in Terminal
  \/ job'.resumes = job.resumes /\ job.status = "failed" /\ job'.status = "queued"
  \/ /\ job.resumes < AutoResumeLimit /\ job'.resumes = job.resumes + 1
     /\ job.status = "running" /\ job'.status = "queued"

DoneStays == Done' = Done /\ mirror' = mirror

\* An UPDATE of the units' status that neither finds nor makes a unit done.
LEMMA SetUnitsDoneStays ==
  ASSUME TypeOK, NEW from, "done" \notin from, NEW to \in UnitStatus \ {"done"},
         unit' = SetUnits(from, to), UNCHANGED mirror
  PROVE  DoneStays
<1>1. ASSUME NEW u \in Unit PROVE unit'[u].status = "done" <=> unit[u].status = "done"
  <2>1. CASE unit[u].status \in from
    BY <2>1 DEF SetUnits, TypeOK, UnitType
  <2>2. CASE unit[u].status \notin from
    BY <2>2 DEF SetUnits
  <2> QED BY <2>1, <2>2
<1> QED BY <1>1 DEF DoneStays, Done

\* A guarded UPDATE of the job's status.
LEMMA MoveJobMoves ==
  ASSUME TypeOK, NEW to \in JobStatus, MoveJob(to)
  PROVE  job'.status = to /\ job'.resumes = job.resumes
BY DEF TypeOK, JobType, MoveJob

\* A run moves the job along the lines of ScanLedger, and never in a step that
\* makes a unit done.
LEMMA RunJobMove ==
  ASSUME TypeOK, NEW r \in Run, RunStep(r)
  PROVE  JobStays \/ (JobMove /\ DoneStays)
<1>1. CASE UNCHANGED job
  BY <1>1 DEF JobStays
<1>2. ASSUME NEW q \in Run, StillRunning(q) PROVE JobStays
  BY <1>2 DEF StillRunning, JobStays, TypeOK, JobType
<1>3. CASE RateLimited(r) \/ ClaimJob(r) \/ HandBack(r) \/ CompleteJob(r) \/ FailJob(r)
  <2>1. DoneStays
    BY <1>3
    DEF RateLimited, ClaimJob, HandBack, CompleteJob, FailJob, EndJob, DoneStays, Done
  <2>2. CASE RateLimited(r)
    BY <2>1, <2>2, MoveJobMoves DEF RateLimited, CanMoveJob, JobMove, Terminal, JobStatus
  <2>3. CASE ClaimJob(r)
    BY <2>1, <2>3, MoveJobMoves DEF ClaimJob, CanMoveJob, JobMove, JobStatus
  <2>4. CASE HandBack(r)
    <3>1. CASE CanMoveJob({"running"})
      BY <2>1, <2>4, <3>1, MoveJobMoves DEF HandBack, CanMoveJob, JobMove, JobStatus
    <3> QED BY <1>1, <2>4, <3>1 DEF HandBack
  <2>5. ASSUME NEW from, NEW verdict \in {"completed", "failed"}, EndJob(r, from, verdict)
        PROVE  JobStays \/ (JobMove /\ DoneStays)
    <3>1. CASE CanMoveJob(NotTerminal)
      BY <2>1, <2>5, <3>1, MoveJobMoves
      DEF EndJob, CanMoveJob, NotTerminal, JobMove, Terminal, JobStatus
    <3> QED BY <1>1, <2>5, <3>1 DEF EndJob
  <2> QED BY <1>3, <2>2, <2>3, <2>4, <2>5 DEF CompleteJob, FailJob
<1> QED
  BY <1>1, <1>2, <1>3
  DEF RunStep, LoseClaim, SettleRefused, Register, Begin, BeginStopped, ExpandBatch,
      SettleExpanded, ResetOrphanedUnits, ListSweep, SweepChunk, RecordLiveness,
      SweepStopped, ListUnits, StopPool, EndPortPhase, RunUnit, RefuseSwept, CheckUnit,
      RefuseUnit, ClaimUnit, SkipUnit, CommitUnit, DiscardUnit, CommitRefused,
      FailScannedUnit, ReleaseUnit, UnitWriteLost, SettleStopped, VerifyUnits,
      CloseTargets, Unregister, RunError, EndWriteLost

\* So does every other step.
LEMMA JobStep ==
  ASSUME TypeOK, [Next]_vars
  PROVE  JobStays \/ (JobMove /\ DoneStays)
<1>1. CASE UNCHANGED job
  BY <1>1 DEF JobStays
<1>2. ASSUME NEW r \in Run, RunStep(r) PROVE JobStays \/ (JobMove /\ DoneStays)
  BY <1>2, RunJobMove
<1>3. CASE Lapse \/ \E p \in Replica : Beat(p)
  BY <1>3 DEF Lapse, Beat, JobStays, TypeOK, JobType
<1>4. ASSUME NEW p \in Replica, CancelJob(p) PROVE JobMove /\ DoneStays
  <2>1. DoneStays
    BY <1>4 DEF CancelJob, DoneStays, Done
  <2> QED
    BY <1>4, <2>1, MoveJobMoves
    DEF CancelJob, CanMoveJob, NotTerminal, JobMove, Terminal, JobStatus
<1>5. CASE ReapStalledJob
  <2>1. DoneStays
    BY <1>5, SetUnitsDoneStays DEF ReapStalledJob, UnitStatus
  <2>2. CASE job.resumes < AutoResumeLimit
    BY <1>5, <2>1, <2>2 DEF ReapStalledJob, JobMove, TypeOK, JobType
  <2>3. CASE ~(job.resumes < AutoResumeLimit)
    BY <1>5, <2>1, <2>3 DEF ReapStalledJob, JobMove, TypeOK, JobType, Terminal
  <2> QED BY <2>1, <2>2, <2>3
<1>6. CASE RequeueJobForRetry
  <2>1. DoneStays
    <3>1. "done" \notin UnitStatus \ {"absent", "done"}
      OBVIOUS
    <3>2. "pending" \in UnitStatus \ {"done"}
      BY DEF UnitStatus
    <3> QED BY <1>6, <3>1, <3>2, SetUnitsDoneStays DEF RequeueJobForRetry
  <2>2. JobStays \/ JobMove
    BY <1>6, MoveJobMoves
    DEF RequeueJobForRetry, CanMoveJob, JobStays, JobMove, JobStatus
  <2> QED BY <2>1, <2>2
<1> QED
  BY <1>1, <1>2, <1>3, <1>4, <1>5, <1>6
  DEF Next, Deliver, ReplicaStep, Stop, Exit, Crash, Gone, Restart, CancelStep, CancelSignal,
      CancelTargets, CancelUnits, CancelWriteLost, vars

\* Every step keeps what is done done, and queues once what it makes done.
LEMMA FinishStep ==
  ASSUME TypeOK, [Next]_vars
  PROVE  /\ Done \subseteq Done' /\ Done' \subseteq Unit
         /\ \E found \in SUBSET (Done' \ Done) :
              mirror' = [u \in Unit |-> IF u \in found THEN mirror[u] + 1 ELSE mirror[u]]
<1>1. ASSUME NEW u \in Unit
      PROVE  /\ u \in Done => u \in Done'
             /\ \/ mirror'[u] = mirror[u]
                \/ u \notin Done /\ u \in Done' /\ mirror'[u] = mirror[u] + 1
  <2>1. CASE Stands(u)
    BY <2>1 DEF Stands, Done
  <2>2. CASE Moves(u)
    BY <2>2 DEF Moves, Done
  <2>3. CASE Stored(u)
    <3>1. /\ unit[u].status = "running" /\ unit'[u].status = "done"
          /\ mirror'[u] = mirror[u] + 1
      BY <2>3 DEF Stored, CommitUnit, Unfenced, TypeOK, UnitType
    <3> QED BY <3>1 DEF Done
  <2>4. CASE SweptDown(u)
    BY <2>4 DEF SweptDown, Done
  <2> QED BY <2>1, <2>2, <2>3, <2>4, UnitStep DEF UnitMove
<1> DEFINE found == {u \in Done' \ Done : mirror'[u] = mirror[u] + 1}
<1>2. \A u \in Unit : mirror'[u] = IF u \in found THEN mirror[u] + 1 ELSE mirror[u]
  BY <1>1 DEF Done
<1>3. mirror' \in [Unit -> Nat]
  BY TypeStep DEF TypeOK
<1>4. mirror' = [u \in Unit |-> IF u \in found THEN mirror[u] + 1 ELSE mirror[u]]
  BY <1>2, <1>3
<1>5. Done \subseteq Done' /\ Done' \subseteq Unit
  BY <1>1 DEF Done
<1> QED BY <1>4, <1>5

\* A job that is completed or cancelled stays so, whatever runs, handlers and reapers
\* that took it for running do afterwards: each status write names the statuses it may
\* leave (UpdateJobStatusFrom; Retry leaves failed only).
THEOREM VerdictIsFinal ==
  Spec => [][job.status \in {"completed", "cancelled"} => job'.status = job.status]_vars
<1>1. TypeOK /\ [Next]_vars
        => [job.status \in {"completed", "cancelled"} => job'.status = job.status]_vars
  BY JobStep DEF JobStays, JobMove, Terminal
<1> QED BY <1>1, TypeCorrect, PTL DEF Spec

\* The rows of the job, its units and the ingestion queue, read together, keep
\* ScanLedger's promises in every step of everything that touches them.
THEOREM ImplementsLedger == Spec => KeepsLedger
<1>1. Init => Ledger!LedgerInit
  BY DEF Init, Ledger!LedgerInit
<1>2. ASSUME TypeOK, [Next]_vars PROVE [Ledger!LedgerNext]_(Ledger!ledgerVars)
  <2>1. CASE JobStays
    <3>1. PICK found \in SUBSET (Done' \ Done) :
            mirror' = [u \in Unit |-> IF u \in found THEN mirror[u] + 1 ELSE mirror[u]]
      BY <1>2, FinishStep
    <3>2. Done' \ Done \in SUBSET (Unit \ Done) /\ Done' = Done \cup (Done' \ Done)
      BY <1>2, FinishStep
    <3>3. Ledger!Finish
      BY <2>1, <3>1, <3>2 DEF Ledger!Finish, JobStays, Done
    <3> QED BY <3>3 DEF Ledger!LedgerNext
  <2>2. CASE JobMove /\ DoneStays
    <3>1. Ledger!Claim \/ Ledger!HandBack \/ Ledger!Resume \/ Ledger!End \/ Ledger!Retry
      BY <2>2
      DEF JobMove, DoneStays, Done, Terminal, Ledger!Claim, Ledger!HandBack, Ledger!Resume,
          Ledger!End, Ledger!Retry, Ledger!Ended
    <3> QED BY <3>1 DEF Ledger!LedgerNext
  <2> QED BY <1>2, <2>1, <2>2, JobStep
<1>3. TypeOK /\ [Next]_vars => [Ledger!LedgerNext]_(Ledger!ledgerVars)
  BY <1>2
<1> QED BY <1>1, <1>3, TypeCorrect, PTL DEF Spec, KeepsLedger, Ledger!LedgerSpec
=============================================================================
