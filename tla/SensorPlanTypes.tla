-------------------------- MODULE SensorPlanTypes --------------------------
(***************************************************************************)
(* The types of SensorPlan, for any number of deliveries, sweepers,        *)
(* targets and addresses.                                                  *)
(***************************************************************************)
EXTENDS SensorPlan, FiniteSetTheorems, WellFoundedInduction, TLAPS

UnitRec    == [status: UnitStatus, attempts: Nat]
CommandRec == [status: {"none", "pending", "delivered", "completed", "failed"},
               attempt: Nat, expired: BOOLEAN, plan: SUBSET Unit]
RunRec     == [at: {"none", "refused", "queued", "scanning", "finishing", "acking", "over"},
               stop: BOOLEAN, verdict: {"completed", "failed"}]
WorkRec    == [at: {"none", "todo", "sent", "answered", "unreported"}, tries: 0..ReportAttempts]

\* The attempts of the units have a bound, so that the next one is a number; a host
\* that is still to be reported has a try left.
Bounded  == \E n \in Nat : \A u \in Unit : unit[u].attempts <= n
TryLeft  == \A d \in Dispatch : \A u \in Unit :
              work[d][u].at = "todo" => work[d][u].tries < ReportAttempts
TypeInv  == TypeOK /\ Bounded /\ TryLeft

-----------------------------------------------------------------------------
(* Numbers *)

LEMMA MaxExists ==
  ASSUME NEW S \in SUBSET Nat, NEW n \in Nat, \A k \in S : k <= n, S # {}
  PROVE  \E m \in S : \A k \in S : k <= m
<1> DEFINE Bounds == {b \in Nat : \A k \in S : k <= b}
<1> DEFINE Below == {0..b : b \in Bounds}
<1>1. PICK least \in Below : \A I \in Below : ~(<<I, least>> \in StrictSubsetOrdering(Nat))
  <2>1. n \in Bounds
    OBVIOUS
  <2>2. Below \subseteq FiniteSubsetsOf(Nat)
    <3>1. \A b \in Nat : 0..b \in SUBSET Nat /\ IsFiniteSet(0..b)
      BY FS_Interval
    <3> QED BY <3>1 DEF FiniteSubsetsOf
  <2>3. Below # {}
    BY <2>1
  <2> HIDE DEF Below
  <2> QED BY <2>2, <2>3, WFMin, FS_StrictSubsetOrderingWellFounded
<1>2. PICK b \in Bounds : least = 0..b
  OBVIOUS
<1>5. ASSUME NEW c \in Bounds, c < b PROVE FALSE
  <2>0. c \in Nat /\ b \in Nat
    OBVIOUS
  <2>1. 0..c \subseteq 0..b /\ b \in 0..b /\ b \notin 0..c
    BY <1>5, <2>0
  <2>2. 0..c \in Below /\ 0..c \in SUBSET Nat /\ 0..b \in SUBSET Nat
    OBVIOUS
  <2> QED BY <1>1, <1>2, <2>1, <2>2 DEF StrictSubsetOrdering
<1>6. \A c \in Bounds : b <= c
  BY <1>5
<1>3. CASE b \in S
  BY <1>3
<1>4. CASE b \notin S
  <2>1. PICK k \in S : TRUE
    OBVIOUS
  <2>2. \A j \in S : j <= b - 1 /\ b - 1 \in Nat
    BY <1>4
  <2>3. b - 1 \in Bounds /\ b \in Nat
    BY <2>1, <2>2
  <2>4. b <= b - 1
    BY <1>6, <2>3
  <2> QED BY <2>3, <2>4
<1> QED BY <1>3, <1>4

\* The next attempt is a number above that of every unit, and at most one above some.
LEMMA NextAttemptFacts ==
  ASSUME TypeInv
  PROVE  /\ NextAttempt \in Nat \ {0}
         /\ \A u \in Unit : unit[u].attempts < NextAttempt
<1> DEFINE attempts == {0} \cup {unit[u].attempts : u \in Unit}
<1>1. \A u \in Unit : unit[u].attempts \in Nat
  BY DEF TypeInv, TypeOK
<1>2. PICK n \in Nat : \A u \in Unit : unit[u].attempts <= n
  BY DEF TypeInv, Bounded
<1>3. attempts \in SUBSET Nat /\ attempts # {} /\ \A k \in attempts : k <= n
  BY <1>1, <1>2
<1>4. \E m \in attempts : \A k \in attempts : k <= m
  <2> HIDE DEF attempts
  <2> QED BY <1>3, MaxExists
<1> DEFINE most == CHOOSE m \in attempts : \A k \in attempts : k <= m
<1>6. NextAttempt = 1 + most
  BY DEF NextAttempt
<1>5. most \in attempts /\ \A k \in attempts : k <= most
  <2> HIDE DEF attempts
  <2> QED BY <1>4
<1> HIDE DEF most
<1> QED BY <1>3, <1>5, <1>6

LEMMA LatestFacts ==
  /\ IsFiniteSet(Dispatch) /\ Cardinality(Delivery) \in Nat
  /\ Latest \in {0} \cup Dispatch
<1>1. Cardinality(Delivery) \in Nat
  BY FS_CardinalityType, SensorLimitAssumption
<1>2. IsFiniteSet(Dispatch) /\ Cardinality(Dispatch) = Cardinality(Delivery)
  BY <1>1, FS_Interval DEF Dispatch
<1>3. Latest \in Nat /\ Latest <= Cardinality(Delivery)
  BY <1>2, FS_Subset, FS_CardinalityType DEF Latest
<1> QED BY <1>1, <1>2, <1>3 DEF Dispatch

-----------------------------------------------------------------------------
(* Which actions touch what *)

LEMMA DeliverySteps ==
  ASSUME NEW m \in Delivery, DeliveryStep(m)
  PROVE  UNCHANGED <<mirror, run, work, request, sweep, canceller, told>>
BY DEF DeliveryStep, TakeDelivery, RateLimited, ExpandTarget, Reauthorize, DispatchCommand,
       LeaveDispatch, CannotDispatch, FailDispatch, CloseFailedDispatch, rows, sensor

LEMMA SensorSteps ==
  ASSUME NEW d \in Dispatch, SensorStep(d)
  PROVE  /\ UNCHANGED <<mirror, delivery, sweep, canceller>>
         /\ CompleteJob(d) \/ UNCHANGED <<job, target, unit>>
         /\ Acknowledge(d) \/ UNCHANGED command
         /\ StartRun(d) \/ UNCHANGED told
         /\ (\E u \in Unit : Report(d, u)) \/ UNCHANGED request
BY DEF SensorStep, StartRun, Report, ReportFails, StopRun, FinishRun, CompleteJob, CompletionLost,
       Acknowledge, rows

LEMMA RequestSteps ==
  ASSUME NEW q \in request, RenewLease(q) \/ RecordUnit(q) \/ LoseRequest(q)
  PROVE  /\ UNCHANGED <<delivery, command, sweep, canceller, told>>
         /\ RecordUnit(q) \/ UNCHANGED <<target, unit, mirror>>
         /\ RenewLease(q) \/ UNCHANGED job
BY DEF RenewLease, RecordUnit, LoseRequest, rows, sensor

LEMMA SweepSteps ==
  ASSUME NEW s \in Sweeper, SweepStep(s)
  PROVE  UNCHANGED <<unit, mirror, delivery, run, work, request, canceller, told>>
BY DEF SweepStep, FindStale, WithdrawStale, FailStale, CloseStale, SettleStale, rows, sensor

LEMMA CancelSteps ==
  ASSUME CancelStep
  PROVE  UNCHANGED <<mirror, delivery, run, work, request, sweep>>
BY DEF CancelStep, CancelJob, CancelTargets, CancelUnits, RevokeDispatch, TellSensor, CancelLost,
       rows, sensor

LEMMA OtherSteps ==
  /\ \A d \in Dispatch : CollectCommand(d) =>
       UNCHANGED <<target, unit, mirror, delivery, work, request, sweep, canceller, told>>
  /\ \A d \in Dispatch : Ping(d) =>
       UNCHANGED <<target, unit, mirror, delivery, command, work, request, sweep, canceller, told>>
  /\ \A d \in Dispatch : ExpireCommand(d) =>
       UNCHANGED <<rows, delivery, sensor, request, sweep, canceller, told>>
  /\ CollectCancel => UNCHANGED <<rows, delivery, command, work, request, sweep, canceller>>
  /\ SensorCrash => UNCHANGED <<rows, delivery, command, request, sweep, canceller>>
  /\ LapseProgress =>
       UNCHANGED <<target, unit, mirror, delivery, command, sensor, request, sweep, canceller, told>>
  /\ RequeueJobForRetry =>
       UNCHANGED <<mirror, delivery, command, sensor, request, sweep, canceller, told>>
BY DEF CollectCommand, Ping, ExpireCommand, CollectCancel, SensorCrash, LapseProgress,
       RequeueJobForRetry

-----------------------------------------------------------------------------
(* Types *)

JobRec == [status: JobStatus, fresh: BOOLEAN]

LEMMA JobType == ASSUME TypeInv, Next PROVE job' \in JobRec
<1>0. job \in JobRec /\ \A d \in Dispatch : run[d].verdict \in {"completed", "failed"}
  BY DEF TypeInv, TypeOK, JobRec
<1>1. \A to \in JobStatus : MoveJob(to) => job' \in JobRec
  BY DEF MoveJob, JobRec
<1>2. \A f \in BOOLEAN : [job EXCEPT !.fresh = f] \in JobRec
  BY <1>0 DEF JobRec
<1>3. {"queued", "failed", "awaiting_sensor", "completed", "cancelled"} \subseteq JobStatus
  BY DEF JobStatus, Terminal
<1>4. ASSUME NEW m \in Delivery, DeliveryStep(m) PROVE job' \in JobRec
  BY <1>0, <1>1, <1>3, <1>4
  DEF DeliveryStep, TakeDelivery, RateLimited, ExpandTarget, Reauthorize, DispatchCommand,
      LeaveDispatch, CannotDispatch, FailDispatch, CloseFailedDispatch, rows
<1>5. ASSUME NEW d \in Dispatch, SensorStep(d) PROVE job' \in JobRec
  <2>1. CASE CompleteJob(d)
    BY <1>0, <1>1, <1>3, <2>1 DEF CompleteJob
  <2> QED BY <1>0, <1>5, <2>1, SensorSteps
<1>6. ASSUME NEW q \in request, RenewLease(q) \/ RecordUnit(q) \/ LoseRequest(q)
      PROVE  job' \in JobRec
  BY <1>0, <1>2, <1>6, RequestSteps DEF RenewLease
<1>7. ASSUME NEW s \in Sweeper, SweepStep(s) PROVE job' \in JobRec
  BY <1>0, <1>1, <1>3, <1>7
  DEF SweepStep, FindStale, WithdrawStale, FailStale, CloseStale, SettleStale, rows
<1>8. CASE CancelStep
  BY <1>0, <1>1, <1>3, <1>8
  DEF CancelStep, CancelJob, CancelTargets, CancelUnits, RevokeDispatch, TellSensor, CancelLost, rows
<1>9. ASSUME NEW d \in Dispatch, CollectCommand(d) \/ Ping(d) \/ ExpireCommand(d)
      PROVE  job' \in JobRec
  BY <1>0, <1>2, <1>9, OtherSteps DEF CollectCommand, Ping, rows
<1>10. CASE CollectCancel \/ SensorCrash \/ LapseProgress \/ RequeueJobForRetry
  BY <1>0, <1>1, <1>2, <1>3, <1>10, OtherSteps DEF LapseProgress, RequeueJobForRetry, rows
<1> QED BY <1>4, <1>5, <1>6, <1>7, <1>8, <1>9, <1>10 DEF Next, ServeRequest

LEMMA SettleTargetsType ==
  ASSUME TypeInv, NEW us, NEW ts
  PROVE  SettleTargets(us, ts) \in [Target -> TargetStatus]
BY DEF TypeInv, TypeOK, SettleTargets, TargetStatus

LEMMA SetTargetsType ==
  ASSUME TypeInv, NEW from, NEW to \in TargetStatus
  PROVE  SetTargets(from, to) \in [Target -> TargetStatus]
BY DEF TypeInv, TypeOK, SetTargets

LEMMA TargetType == ASSUME TypeInv, Next PROVE target' \in [Target -> TargetStatus]
<1> DEFINE TT == [Target -> TargetStatus]
<1>0. target \in TT /\ \A d \in Dispatch : run[d].verdict \in {"completed", "failed"}
  BY DEF TypeInv, TypeOK
<1>1. \A us, ts : SettleTargets(us, ts) \in TT
  BY SettleTargetsType
<1>2. \A from : /\ SetTargets(from, "failed") \in TT /\ SetTargets(from, "cancelled") \in TT
                /\ SetTargets(from, "pending") \in TT
  BY SetTargetsType DEF TargetStatus
<1> HIDE DEF TT
<1>3. CloseTargets => target' \in TT
  BY <1>2 DEF CloseTargets
<1>4. ASSUME NEW m \in Delivery, DeliveryStep(m) PROVE target' \in TT
  <2>1. ASSUME NEW t \in Target, ExpandTarget(m, t) PROVE target' \in TT
    <3>1. \E us, ts : target' = SettleTargets(us, ts)
      BY <2>1 DEF ExpandTarget
    <3> QED BY <1>1, <3>1
  <2>2. CASE Reauthorize(m)
    <3>1. \E us, ts : target' = SettleTargets(us, ts)
      BY <2>2 DEF Reauthorize
    <3> QED BY <1>1, <3>1
  <2>3. CASE CloseFailedDispatch(m)
    BY <1>3, <2>3 DEF CloseFailedDispatch
  <2> QED BY <1>0, <1>4, <2>1, <2>2, <2>3
          DEF DeliveryStep, TakeDelivery, RateLimited, DispatchCommand, LeaveDispatch,
              CannotDispatch, FailDispatch, rows
<1>5. ASSUME NEW d \in Dispatch, SensorStep(d) PROVE target' \in TT
  <2>1. CASE CompleteJob(d)
    <3>1. CASE job.status # "awaiting_sensor"
      BY <1>0, <2>1, <3>1 DEF CompleteJob
    <3>2. CASE job.status = "awaiting_sensor"
      <4>1. PICK settled \in TT :
              target' = [t \in Target |-> IF settled[t] = "pending" THEN run[d].verdict
                                                                    ELSE settled[t]]
        BY <1>1, <2>1, <3>2 DEF CompleteJob
      <4> QED BY <1>0, <4>1 DEF TT, TargetStatus
    <3> QED BY <3>1, <3>2
  <2> QED BY <1>0, <1>5, <2>1, SensorSteps
<1>6. ASSUME NEW q \in request, RenewLease(q) \/ RecordUnit(q) \/ LoseRequest(q)
      PROVE  target' \in TT
  <2>1. target' = target \/ \E us, ts : target' = SettleTargets(us, ts)
    BY <1>6, RequestSteps DEF RecordUnit, Store
  <2> QED BY <1>0, <1>1, <2>1
<1>7. ASSUME NEW s \in Sweeper, SweepStep(s) PROVE target' \in TT
  BY <1>0, <1>2, <1>7
  DEF SweepStep, FindStale, WithdrawStale, FailStale, CloseStale, SettleStale, CloseTargets, rows
<1>8. ASSUME CancelStep PROVE target' \in TT
  <2>1. CASE CancelTargets
    <3>1. target' = SetTargets({"pending"}, "cancelled")
      BY <2>1 DEF CancelTargets
    <3> QED BY <1>2, <3>1
  <2> QED BY <1>0, <1>8, <2>1
          DEF CancelStep, CancelJob, CancelUnits, RevokeDispatch, TellSensor, CancelLost, rows
<1>9. ASSUME NEW d \in Dispatch, CollectCommand(d) \/ Ping(d) \/ ExpireCommand(d)
      PROVE  target' \in TT
  BY <1>0, <1>9, OtherSteps DEF rows
<1>10. ASSUME RequeueJobForRetry PROVE target' \in TT
  <2>1. target' = SetTargets(TargetStatus \ {"completed"}, "pending")
    BY <1>10 DEF RequeueJobForRetry
  <2> QED BY <1>2, <2>1
<1>11. ASSUME CollectCancel \/ SensorCrash \/ LapseProgress PROVE target' \in TT
  BY <1>0, <1>11, OtherSteps DEF rows
<1> QED BY <1>4, <1>5, <1>6, <1>7, <1>8, <1>9, <1>10, <1>11 DEF Next, ServeRequest, TT

LEMMA SetUnitsFacts ==
  ASSUME unit \in [Unit -> UnitRec], NEW from, NEW to \in UnitStatus
  PROVE  /\ SetUnits(from, to) \in [Unit -> UnitRec]
         /\ \A u \in Unit :
              /\ SetUnits(from, to)[u].attempts = unit[u].attempts
              /\ SetUnits(from, to)[u].status = IF unit[u].status \in from THEN to ELSE unit[u].status
BY DEF SetUnits, UnitRec

\* The type of the units, and what becomes of their attempts.
LEMMA UnitType ==
  ASSUME TypeInv, Next
  PROVE  /\ unit' \in [Unit -> UnitRec]
         /\ \A u \in Unit : \/ unit'[u].attempts = unit[u].attempts
                            \/ unit'[u].attempts = NextAttempt
<1> DEFINE Good(us) == /\ us \in [Unit -> UnitRec]
                       /\ \A u \in Unit : us[u].attempts \in {unit[u].attempts, NextAttempt}
<1>0. unit \in [Unit -> UnitRec] /\ Good(unit)
  BY DEF TypeInv, TypeOK, UnitRec
<1>1. \A from : \A to \in {"pending", "failed", "cancelled"} : Good(SetUnits(from, to))
  BY <1>0, SetUnitsFacts DEF UnitStatus
<1>2. ASSUME NEW us, us \in [Unit -> UnitRec], \A u \in Unit : us[u].attempts = unit[u].attempts
      PROVE  Good(us)
  BY <1>2
<1>3. \A u \in Unit : \A status \in UnitStatus :
        /\ [unit[u] EXCEPT !.status = status] \in UnitRec
        /\ [unit[u] EXCEPT !.status = status].attempts = unit[u].attempts
  BY <1>0 DEF UnitRec
<1>4. ASSUME NEW m \in Delivery, DeliveryStep(m) PROVE Good(unit')
  <2>1. ASSUME NEW t \in Target, ExpandTarget(m, t) PROVE Good(unit')
    <3>1. PICK refused \in SUBSET (UnitsOf(t) \cap Refusable) :
            unit' = [u \in Unit |-> IF TargetOf[u] # t THEN unit[u]
                                    ELSE [unit[u] EXCEPT !.status =
                                            IF u \in refused THEN "failed" ELSE "pending"]]
      BY <2>1 DEF ExpandTarget
    <3> QED BY <1>0, <1>3, <3>1 DEF UnitStatus
  <2>2. CASE Reauthorize(m)
    <3>1. PICK refused :
            unit' = [u \in Unit |-> IF u \in refused THEN [unit[u] EXCEPT !.status = "failed"]
                                                     ELSE unit[u]]
      BY <2>2 DEF Reauthorize
    <3> QED BY <1>0, <1>3, <3>1 DEF UnitStatus
  <2>3. CASE DispatchCommand(m)
    <3>1. unit' = [u \in Unit |-> IF u \in Pending THEN [unit[u] EXCEPT !.attempts = NextAttempt]
                                                   ELSE unit[u]]
      BY <2>3 DEF DispatchCommand
    <3>2. \A u \in Unit : /\ [unit[u] EXCEPT !.attempts = NextAttempt] \in UnitRec
                          /\ [unit[u] EXCEPT !.attempts = NextAttempt].attempts = NextAttempt
      BY <1>0, NextAttemptFacts DEF UnitRec
    <3> QED BY <1>0, <3>1, <3>2
  <2> HIDE DEF Good
  <2> QED BY <1>0, <1>4, <2>1, <2>2, <2>3
          DEF DeliveryStep, TakeDelivery, RateLimited, LeaveDispatch, CannotDispatch, FailDispatch,
              CloseFailedDispatch, rows
<1>5. ASSUME NEW d \in Dispatch, SensorStep(d) PROVE Good(unit')
  <2> HIDE DEF Good
  <2> QED BY <1>0, <1>1, <1>5, SensorSteps DEF CompleteJob
<1>6. ASSUME NEW q \in request, RenewLease(q) \/ RecordUnit(q) \/ LoseRequest(q)
      PROVE  Good(unit')
  <2>1. unit' = unit \/ \E status \in {"done", "failed"} : unit' = [unit EXCEPT ![q.unit].status = status]
    BY <1>6, RequestSteps DEF RecordUnit, Store
  <2> QED BY <1>0, <2>1 DEF UnitRec, UnitStatus
<1>7. ASSUME CancelStep PROVE Good(unit')
  <2>1. CASE CancelUnits
    <3>1. unit' = SetUnits({"pending"}, "cancelled")
      BY <2>1 DEF CancelUnits
    <3> HIDE DEF Good
    <3> QED BY <1>1, <3>1
  <2> HIDE DEF Good
  <2> QED BY <1>0, <1>7, <2>1
          DEF CancelStep, CancelJob, CancelTargets, RevokeDispatch, TellSensor, CancelLost, rows
<1>8. ASSUME RequeueJobForRetry PROVE Good(unit')
  <2>1. unit' = SetUnits(UnitStatus \ {"absent", "done"}, "pending")
    BY <1>8 DEF RequeueJobForRetry
  <2> HIDE DEF Good
  <2> QED BY <1>1, <2>1
<1>9. UNCHANGED unit => Good(unit')
  BY <1>0
<1>10. ASSUME NEW d \in Dispatch, CollectCommand(d) \/ Ping(d) \/ ExpireCommand(d)
       PROVE  UNCHANGED unit
  BY <1>10, OtherSteps DEF rows
<1>11. CollectCancel \/ SensorCrash \/ LapseProgress => UNCHANGED unit
  BY OtherSteps DEF rows
<1>12. Good(unit')
  <2> HIDE DEF Good
  <2> QED BY <1>4, <1>5, <1>6, <1>7, <1>8, <1>9, <1>10, <1>11, SweepSteps DEF Next, ServeRequest
<1> QED BY <1>12

LEMMA BoundedStep == ASSUME TypeInv, Next PROVE Bounded'
<1>1. PICK n \in Nat : \A u \in Unit : unit[u].attempts <= n
  BY DEF TypeInv, Bounded
<1>2. NextAttempt \in Nat
  BY NextAttemptFacts
<1>3. \A u \in Unit : unit[u].attempts \in Nat
  BY DEF TypeInv, TypeOK
<1>4. n + NextAttempt \in Nat /\ \A u \in Unit : unit'[u].attempts <= n + NextAttempt
  <2>1. ASSUME NEW u \in Unit PROVE unit'[u].attempts <= n + NextAttempt
    <3>1. unit'[u].attempts = unit[u].attempts \/ unit'[u].attempts = NextAttempt
      BY UnitType
    <3> QED BY <1>1, <1>2, <1>3, <3>1
  <2> QED BY <1>2, <2>1
<1> QED BY <1>4 DEF Bounded

LEMMA MirrorType == ASSUME TypeInv, Next PROVE mirror' \in [Unit -> Nat]
<1>0. mirror \in [Unit -> Nat]
  BY DEF TypeInv, TypeOK
<1>1. ASSUME NEW q \in request, RecordUnit(q) PROVE mirror' \in [Unit -> Nat]
  <2>1. mirror' = mirror \/ mirror' = [mirror EXCEPT ![q.unit] = @ + 1]
    BY <1>1 DEF RecordUnit, Store
  <2> QED BY <1>0, <2>1
<1>2. (\E q \in request : RecordUnit(q)) \/ UNCHANGED mirror
  BY DeliverySteps, SensorSteps, RequestSteps, SweepSteps, CancelSteps, OtherSteps
     DEF Next, ServeRequest, rows
<1> QED BY <1>0, <1>1, <1>2

DeliveryPlaces == {"off", "taken", "prepared", "failing", "closing", "over"}

LEMMA DeliveryType == ASSUME TypeInv, Next PROVE delivery' \in [Delivery -> DeliveryPlaces]
<1>0. delivery \in [Delivery -> DeliveryPlaces]
  BY DEF TypeInv, TypeOK, DeliveryPlaces
<1>1. ASSUME NEW m \in Delivery, DeliveryStep(m) PROVE delivery' \in [Delivery -> DeliveryPlaces]
  <2>1. UNCHANGED delivery \/ \E at \in DeliveryPlaces : delivery' = [delivery EXCEPT ![m] = at]
    BY <1>1
    DEF DeliveryPlaces, DeliveryStep, TakeDelivery, RateLimited, ExpandTarget, Reauthorize,
        DispatchCommand, LeaveDispatch, CannotDispatch, FailDispatch, CloseFailedDispatch
  <2> QED BY <1>0, <2>1
<1>2. (\E m \in Delivery : DeliveryStep(m)) \/ UNCHANGED delivery
  BY SensorSteps, RequestSteps, SweepSteps, CancelSteps, OtherSteps DEF Next, ServeRequest
<1> QED BY <1>0, <1>1, <1>2

LEMMA CommandType == ASSUME TypeInv, Next PROVE command' \in [Dispatch -> CommandRec]
<1> DEFINE CC == [Dispatch -> CommandRec]
<1>0. command \in CC
  BY DEF TypeInv, TypeOK, CommandRec
<1>1. \A d : \A st \in {"pending", "delivered", "completed", "failed"} :
        [command EXCEPT ![d].status = st] \in CC
  BY <1>0 DEF CommandRec
<1>2. ASSUME NEW m \in Delivery, DispatchCommand(m) PROVE command' \in CC
  <2>1. NextAttempt \in Nat /\ Pending \in SUBSET Unit
    BY NextAttemptFacts DEF Pending
  <2>2. [status |-> "pending", attempt |-> NextAttempt, expired |-> FALSE, plan |-> Pending]
          \in CommandRec
    BY <2>1 DEF CommandRec
  <2>3. command' = [command EXCEPT ![Latest + 1] =
          [status |-> "pending", attempt |-> NextAttempt, expired |-> FALSE, plan |-> Pending]]
    BY <1>2 DEF DispatchCommand
  <2> HIDE DEF CommandRec
  <2> QED BY <1>0, <2>2, <2>3
<1>3. ASSUME NEW d \in Dispatch, CollectCommand(d) \/ Acknowledge(d) PROVE command' \in CC
  <2> HIDE DEF CC
  <2>1. CASE CollectCommand(d)
    BY <1>0, <1>1, <2>1 DEF CollectCommand
  <2>2. CASE Acknowledge(d)
    BY <1>0, <1>1, <2>2 DEF Acknowledge
  <2> QED BY <1>3, <2>1, <2>2
<1>4. ASSUME NEW s \in Sweeper, WithdrawStale(s) PROVE command' \in CC
  <2> DEFINE c == sweep[s].command
             r == [command[c] EXCEPT !.status = "failed", !.expired = FALSE]
  <2>1. command' = command \/ command' = [command EXCEPT ![c] = r]
    BY <1>0, <1>4 DEF WithdrawStale
  <2>2. c \in Dispatch => r \in CommandRec
    BY <1>0 DEF CommandRec
  <2> HIDE DEF r, c, CommandRec
  <2> QED BY <1>0, <2>1, <2>2
<1>5. ASSUME NEW d \in Dispatch, ExpireCommand(d) PROVE command' \in CC
  BY <1>0, <1>5 DEF ExpireCommand, CommandRec
<1>6. ASSUME RevokeDispatch PROVE command' \in CC
  BY <1>0, <1>6 DEF RevokeDispatch, CommandRec
<1> HIDE DEF CC
<1>7. ASSUME NEW m \in Delivery, DeliveryStep(m) PROVE command' \in CC
  BY <1>0, <1>2, <1>7
  DEF DeliveryStep, TakeDelivery, RateLimited, ExpandTarget, Reauthorize,
      LeaveDispatch, CannotDispatch, FailDispatch, CloseFailedDispatch
<1>8. ASSUME NEW s \in Sweeper, SweepStep(s) PROVE command' \in CC
  BY <1>0, <1>4, <1>8 DEF SweepStep, FindStale, FailStale, CloseStale, SettleStale
<1>9. ASSUME CancelStep PROVE command' \in CC
  BY <1>0, <1>6, <1>9 DEF CancelStep, CancelJob, CancelTargets, CancelUnits, TellSensor, CancelLost
<1>10. UNCHANGED command => command' \in CC
  BY <1>0
<1>11. command' \in CC
  BY <1>3, <1>5, <1>7, <1>8, <1>9, <1>10, SensorSteps, RequestSteps, OtherSteps DEF Next, ServeRequest
<1> QED BY <1>11 DEF CC

LEMMA RunType == ASSUME TypeInv, Next PROVE run' \in [Dispatch -> RunRec]
<1> DEFINE RR == [Dispatch -> RunRec]
<1>0. run \in RR
  BY DEF TypeInv, TypeOK, RunRec
<1>1. \A d : \A at \in {"refused", "queued", "scanning", "finishing", "acking", "over"} :
        [run EXCEPT ![d].at = at] \in RR
  BY <1>0 DEF RunRec
<1>2. \A d : [run EXCEPT ![d].stop = TRUE] \in RR
  BY <1>0 DEF RunRec
<1>12. \A d \in Dispatch : \A at \in {"finishing", "acking"} :
         [run EXCEPT ![d].at = at, ![d].verdict = "failed"] \in RR
  BY <1>0 DEF RunRec
<1>13. \A d : \A r \in RunRec : [run EXCEPT ![d] = r] \in RR
  BY <1>0
<1>14. /\ [at |-> "acking", stop |-> FALSE, verdict |-> "failed"] \in RunRec
       /\ Over \in RunRec
  BY DEF RunRec, Over, NotRunning
<1>3. ASSUME CollectCancel PROVE run' \in RR
  <2>1. run' = run \/ run' = [d \in Dispatch |-> IF run[d].at = "scanning"
                                               THEN [run[d] EXCEPT !.stop = TRUE] ELSE run[d]]
    BY <1>3 DEF CollectCancel
  <2>2. \A d \in Dispatch : [run[d] EXCEPT !.stop = TRUE] \in RunRec
    BY <1>0 DEF RunRec
  <2> HIDE DEF RunRec
  <2> QED BY <1>0, <2>1, <2>2
<1>4. ASSUME SensorCrash PROVE run' \in RR
  BY <1>0, <1>4 DEF SensorCrash, RunRec, Over, NotRunning
<1> HIDE DEF RR
<1>5. ASSUME NEW d \in Dispatch, SensorStep(d) PROVE run' \in RR
  <2>1. CASE StartRun(d)
    BY <1>1, <1>12, <2>1 DEF StartRun
  <2>2. CASE FinishRun(d)
    BY <1>1, <1>12, <2>2 DEF FinishRun
  <2>3. CASE StopRun(d) \/ Acknowledge(d)
    BY <1>13, <1>14, <2>3 DEF StopRun, Acknowledge
  <2>4. CASE CompleteJob(d) \/ CompletionLost(d)
    BY <1>1, <2>4 DEF CompleteJob, CompletionLost
  <2> QED BY <1>0, <1>5, <2>1, <2>2, <2>3, <2>4 DEF SensorStep, Report, ReportFails
<1>6. ASSUME NEW q \in request, RenewLease(q) \/ RecordUnit(q) \/ LoseRequest(q)
      PROVE  run' \in RR
  BY <1>0, <1>2, <1>6 DEF RenewLease, RecordUnit, LoseRequest, AnswerStop, AnswerStored, sensor
<1>7. ASSUME NEW d \in Dispatch, CollectCommand(d) \/ Ping(d) \/ ExpireCommand(d)
      PROVE  run' \in RR
  <2>1. CASE CollectCommand(d)
    <3>1. PICK at \in {"queued", "refused", "over"} : run' = [run EXCEPT ![d].at = at]
      BY <2>1 DEF CollectCommand
    <3> QED BY <1>0, <3>1 DEF RR, RunRec
  <2>2. CASE Ping(d)
    BY <1>0, <1>2, <2>2 DEF Ping
  <2> QED BY <1>0, <1>7, <2>1, <2>2, OtherSteps DEF sensor
<1>8. ASSUME CancelStep \/ LapseProgress \/ RequeueJobForRetry PROVE run' \in RR
  BY <1>0, <1>8, CancelSteps, OtherSteps DEF sensor
<1>9. ASSUME NEW s \in Sweeper, SweepStep(s) PROVE run' \in RR
  BY <1>0, <1>9, SweepSteps
<1>10. ASSUME NEW m \in Delivery, DeliveryStep(m) PROVE run' \in RR
  BY <1>0, <1>10, DeliverySteps
<1>11. run' \in RR
  BY <1>3, <1>4, <1>5, <1>6, <1>7, <1>8, <1>9, <1>10 DEF Next, ServeRequest
<1> QED BY <1>11 DEF RR

\* The type of the work, with a try left for every host to report.
LEMMA WorkType == ASSUME TypeInv, Next PROVE work' \in [Dispatch -> [Unit -> WorkRec]] /\ TryLeft'
<1> DEFINE Fine(w) == w \in WorkRec /\ (w.at = "todo" => w.tries < ReportAttempts)
           Good(ws) == /\ ws \in [Dispatch -> [Unit -> WorkRec]]
                       /\ \A d \in Dispatch : \A u \in Unit : Fine(ws[d][u])
<1>0. Good(work)
  BY DEF TypeInv, TypeOK, TryLeft, WorkRec
<1>1. ASSUME NEW d \in Dispatch, NEW us, NEW w, Fine(w), SetWork(d, us, w) PROVE Good(work')
  <2>1. [u \in Unit |-> IF u \in us THEN w ELSE work[d][u]] \in [Unit -> WorkRec]
    BY <1>0, <1>1
  <2>2. work' = [work EXCEPT ![d] = [u \in Unit |-> IF u \in us THEN w ELSE work[d][u]]]
    BY <1>1 DEF SetWork
  <2>3. work' \in [Dispatch -> [Unit -> WorkRec]]
    BY <1>0, <2>1, <2>2
  <2>4. ASSUME NEW e \in Dispatch, NEW u \in Unit PROVE work'[e][u] \in {w, work[e][u]}
    BY <1>0, <2>2
  <2>5. \A e \in Dispatch : \A u \in Unit : Fine(work'[e][u])
    BY <1>0, <1>1, <2>4
  <2> QED BY <2>3, <2>5
<1>2. Fine(NoWork) /\ Fine([at |-> "todo", tries |-> 0]) /\ Fine([at |-> "answered", tries |-> 0])
  BY SensorLimitAssumption DEF WorkRec, NoWork
<1>3. ASSUME NEW d \in Dispatch, NEW u \in Unit
      PROVE  work[d][u] \in WorkRec /\ (work[d][u].at = "todo" => work[d][u].tries < ReportAttempts)
  BY <1>0
<1>4. ASSUME NEW d \in Dispatch, NEW u \in Unit, Report(d, u) PROVE Good(work')
  <2>1. Fine([at |-> "sent", tries |-> work[d][u].tries + 1])
    BY <1>3, <1>4, SensorLimitAssumption DEF Report, WorkRec
  <2>2. SetWork(d, {u}, [at |-> "sent", tries |-> work[d][u].tries + 1])
    BY <1>4 DEF Report
  <2> HIDE DEF Fine, Good
  <2> QED BY <1>1, <2>1, <2>2
<1>5. ASSUME NEW d \in Dispatch, NEW u \in Unit, ReportFails(d, u) PROVE Good(work')
  <2> DEFINE w == [work[d][u] EXCEPT !.at =
                     IF work[d][u].tries < ReportAttempts THEN "todo" ELSE "unreported"]
  <2>1. Fine(w)
    BY <1>3 DEF WorkRec
  <2>2. SetWork(d, {u}, w)
    BY <1>5 DEF ReportFails
  <2> HIDE DEF Fine, Good, w
  <2> QED BY <1>1, <2>1, <2>2
<1>6. ASSUME SensorCrash PROVE Good(work')
  BY <1>2, <1>6 DEF SensorCrash
<1> HIDE DEF Fine, Good
<1>7. ASSUME NEW d \in Dispatch, StartRun(d) \/ StopRun(d) \/ FinishRun(d) PROVE Good(work')
  BY <1>0, <1>1, <1>2, <1>7 DEF StartRun, StopRun, FinishRun
<1>8. ASSUME NEW d \in Dispatch, SensorStep(d) PROVE Good(work')
  BY <1>0, <1>4, <1>5, <1>7, <1>8 DEF SensorStep, CompleteJob, CompletionLost, Acknowledge
<1>9. ASSUME NEW q \in request, RenewLease(q) \/ RecordUnit(q) \/ LoseRequest(q) PROVE Good(work')
  <2>1. q.by \in Dispatch
    BY DEF TypeInv, TypeOK
  <2>2. UNCHANGED work \/ SetWork(q.by, {q.unit}, [at |-> "answered", tries |-> 0])
    BY <1>9 DEF RenewLease, RecordUnit, LoseRequest, AnswerStop, AnswerStored, sensor
  <2> QED BY <1>0, <1>1, <1>2, <2>1, <2>2
<1>10. Good(work')
  BY <1>0, <1>6, <1>8, <1>9, DeliverySteps, SweepSteps, CancelSteps, OtherSteps
     DEF Next, ServeRequest, sensor
<1> QED BY <1>10 DEF Good, Fine, TryLeft

RequestRec == [by: Dispatch, unit: Unit, try: 1..ReportAttempts, leased: BOOLEAN]

LEMMA RequestType == ASSUME TypeInv, Next PROVE request' \subseteq RequestRec
<1>0. request \subseteq RequestRec
  BY DEF TypeInv, TypeOK, RequestRec
<1>1. ASSUME NEW d \in Dispatch, NEW u \in Unit, Report(d, u) PROVE request' \subseteq RequestRec
  <2>1. work[d][u].tries + 1 \in 1..ReportAttempts
    BY <1>1, SensorLimitAssumption DEF Report, TypeInv, TypeOK, TryLeft
  <2>2. [by |-> d, unit |-> u, try |-> work[d][u].tries + 1, leased |-> FALSE] \in RequestRec
    BY <2>1 DEF RequestRec
  <2>3. request' = request \cup {[by |-> d, unit |-> u, try |-> work[d][u].tries + 1, leased |-> FALSE]}
    BY <1>1 DEF Report
  <2> QED BY <1>0, <2>2, <2>3
<1>2. ASSUME NEW q \in request, RenewLease(q) \/ RecordUnit(q) \/ LoseRequest(q)
      PROVE  request' \subseteq RequestRec
  <2>1. [q EXCEPT !.leased = TRUE] \in RequestRec
    BY <1>0 DEF RequestRec
  <2>2. request' \subseteq request \cup {[q EXCEPT !.leased = TRUE]}
    <3>1. CASE RenewLease(q)
      BY <3>1 DEF RenewLease
    <3>2. CASE RecordUnit(q) \/ LoseRequest(q)
      BY <3>2 DEF RecordUnit, LoseRequest
    <3> QED BY <1>2, <3>1, <3>2
  <2> QED BY <1>0, <2>1, <2>2
<1> QED BY <1>0, <1>1, <1>2, DeliverySteps, SensorSteps, SweepSteps, CancelSteps, OtherSteps
        DEF Next, ServeRequest

LEMMA SweepType ==
  ASSUME TypeInv, Next
  PROVE  sweep' \in [Sweeper -> [at: {"idle", "expire", "fail", "close", "targets"},
                                 command: {0} \cup Dispatch]]
<1> DEFINE SweepRec == [at: {"idle", "expire", "fail", "close", "targets"},
                        command: {0} \cup Dispatch]
<1>0. sweep \in [Sweeper -> SweepRec]
  BY DEF TypeInv, TypeOK
<1>1. ASSUME NEW s \in Sweeper, FindStale(s) \/ SettleStale(s) PROVE sweep' \in [Sweeper -> SweepRec]
  <2>1. \E r \in SweepRec : sweep' = [sweep EXCEPT ![s] = r]
    <3>1. \A at \in {"expire", "fail"} : [at |-> at, command |-> Latest] \in SweepRec
      BY LatestFacts
    <3>2. [at |-> "idle", command |-> 0] \in SweepRec
      OBVIOUS
    <3> HIDE DEF SweepRec
    <3> QED BY <1>1, <3>1, <3>2 DEF FindStale, SettleStale
  <2> QED BY <1>0, <2>1
<1>2. ASSUME NEW s \in Sweeper, WithdrawStale(s) \/ FailStale(s) \/ CloseStale(s)
      PROVE  sweep' \in [Sweeper -> SweepRec]
  <2>1. \E at \in {"fail", "close", "targets"} : sweep' = [sweep EXCEPT ![s].at = at]
    BY <1>2 DEF WithdrawStale, FailStale, CloseStale
  <2> QED BY <1>0, <2>1
<1>3. UNCHANGED sweep \/ \E s \in Sweeper : SweepStep(s)
  BY DeliverySteps, SensorSteps, RequestSteps, CancelSteps, OtherSteps DEF Next, ServeRequest
<1> QED BY <1>0, <1>1, <1>2, <1>3 DEF SweepStep

LEMMA CancelType ==
  ASSUME TypeInv, Next
  PROVE  /\ canceller' \in {"idle", "targets", "units", "revoke", "tell", "over"}
         /\ told' \in [pending: BOOLEAN, remembered: BOOLEAN]
<1>0. /\ canceller \in {"idle", "targets", "units", "revoke", "tell", "over"}
      /\ told \in [pending: BOOLEAN, remembered: BOOLEAN]
  BY DEF TypeInv, TypeOK
<1>1. CASE CancelStep
  BY <1>0, <1>1
  DEF CancelStep, CancelJob, CancelTargets, CancelUnits, RevokeDispatch, TellSensor, CancelLost
<1>2. ASSUME NEW d \in Dispatch, StartRun(d)
      PROVE  told' \in [pending: BOOLEAN, remembered: BOOLEAN]
  BY <1>0, <1>2 DEF StartRun
<1>3. CollectCancel \/ SensorCrash => told' \in [pending: BOOLEAN, remembered: BOOLEAN]
  <2>1. SensorCrash => told' = [told EXCEPT !.remembered = FALSE]
    BY DEF SensorCrash
  <2>2. CollectCancel => \/ told' = [told EXCEPT !.pending = FALSE]
                         \/ told' = [pending |-> FALSE, remembered |-> TRUE]
    BY DEF CollectCancel
  <2> DEFINE ToldRec == [pending: BOOLEAN, remembered: BOOLEAN]
  <2>3. /\ [told EXCEPT !.remembered = FALSE] \in ToldRec
        /\ [told EXCEPT !.pending = FALSE] \in ToldRec
    BY <1>0
  <2>4. [pending |-> FALSE, remembered |-> TRUE] \in ToldRec
    OBVIOUS
  <2>5. CollectCancel \/ SensorCrash => told' \in ToldRec
    <3> HIDE DEF ToldRec
    <3> QED BY <2>1, <2>2, <2>3, <2>4
  <2> QED BY <2>5
<1>4. CancelStep \/ UNCHANGED canceller
  BY DeliverySteps, SensorSteps, RequestSteps, SweepSteps, OtherSteps DEF Next, ServeRequest
<1>5. \/ CancelStep \/ CollectCancel \/ SensorCrash \/ UNCHANGED told
      \/ \E d \in Dispatch : StartRun(d)
  BY DeliverySteps, SensorSteps, RequestSteps, SweepSteps, OtherSteps DEF Next, ServeRequest
<1> QED BY <1>0, <1>1, <1>2, <1>3, <1>4, <1>5

LEMMA TypeStep == TypeInv /\ [Next]_sensorVars => TypeInv'
<1>1. CASE UNCHANGED sensorVars
  BY <1>1 DEF sensorVars, TypeInv, TypeOK, Bounded, TryLeft
<1>2. CASE TypeInv /\ Next
  BY <1>2, JobType, TargetType, UnitType, BoundedStep, MirrorType, DeliveryType, CommandType,
     RunType, WorkType, RequestType, SweepType, CancelType
  DEF TypeInv, TypeOK, JobRec, UnitRec, DeliveryPlaces, CommandRec, RunRec, WorkRec, RequestRec
<1> QED BY <1>1, <1>2

LEMMA TypeInvHolds == Spec => []TypeInv
<1>1. Init => TypeInv
  <2> SUFFICES ASSUME Init PROVE TypeInv
    OBVIOUS
  <2>1. 0 \in 0..ReportAttempts
    BY SensorLimitAssumption
  <2>2. TypeOK
    BY <2>1
    DEF Init, TypeOK, JobStatus, TargetStatus, UnitStatus, NoCommand, NotRunning, NoWork
  <2>3. Bounded
    BY DEF Init, Bounded
  <2>4. TryLeft
    BY DEF Init, TryLeft, NoWork
  <2> QED BY <2>2, <2>3, <2>4 DEF TypeInv
<1> QED BY <1>1, TypeStep, PTL DEF Spec

\* Every reachable state is well typed; a host is reported at most ReportAttempts
\* times (reportHost of the sensor).
THEOREM TypeCorrect == Spec => []TypeOK
BY TypeInvHolds, PTL DEF TypeInv
=============================================================================
