------------------------- MODULE PlanJobOwnerProofs -------------------------
(***************************************************************************)
(* What PlanJob guarantees while heartbeats are reliable: one run owns the *)
(* job, and what a completed job and a completed target say is true.  Each *)
(* theorem names what it assumes of the constants; without any one of the  *)
(* assumptions TLC finds a run of the model that violates its conclusion.  *)
(* The argument is about who may act: at most one run is between its claim *)
(* and its end (OwnerInv), whatever is cancelled belongs to a cancelled    *)
(* job (CancelInv), a target has all its units or none (ListedInv), so the *)
(* units an owner has verified stay as they are (ScannedInv).              *)
(***************************************************************************)
EXTENDS PlanJobProofs, FiniteSetTheorems

-----------------------------------------------------------------------------
(* One scanner at a time *)

\* No heartbeat of a live run comes late or is lost; and no two deliveries of the job
\* go to one replica, where the release of the run that ends silences the other
\* (runningJobRegistry, keepLeaseAlive).
ReliableLease == "lapse" \notin Events
OwnReplicas   == \A r, q \in Run : Home[r] = Home[q] => r = q

\* From its claim of the job to the statement that ends or hands it back.
ActiveStage == {"claimed", "started", "expanding", "listing", "sweeping", "porting",
                "settling", "handback", "verifying", "completing", "failing"}
Active(r) == run[r].pc \in ActiveStage

\* At most one run is active.  Its job is running, with a lease that has not passed,
\* or was cancelled under it; and it beats.
OwnerInv ==
  /\ \A r, q \in Run : Active(r) /\ Active(q) => r = q
  /\ \A r \in Run : Active(r) =>
       /\ job.status \in {"running", "cancelled"}
       /\ job.status = "running" => job.fresh
       /\ run[r].pc # "claimed" => registry[Home[r]] = r

\* A step in which no run becomes active and none that is loses its registry entry.
KeepsOwners ==
  /\ \A r \in Run : Active(r)' => /\ Active(r)
                                  /\ run[r].pc = "claimed" => run'[r].pc = "claimed"
  /\ \A r \in Run : Active(r)' => registry'[Home[r]] = registry[Home[r]]

\* A step in which the job stays what it is, or has its lease renewed.
KeepsLease == job' = job \/ job' = [job EXCEPT !.fresh = TRUE]

\* A step of both kinds leaves the owner what it is.
LEMMA OwnersKept ==
  ASSUME TypeOK, OwnerInv, KeepsOwners, KeepsLease
  PROVE  OwnerInv'
<1>1. job'.status = job.status /\ (job.fresh => job'.fresh)
  BY DEF KeepsLease, TypeOK, JobType
<1> QED BY <1>1 DEF OwnerInv, KeepsOwners

\* A run leaves the others alone.
LEMMA OthersStay ==
  ASSUME TypeOK, NEW r \in Run, RunStep(r), NEW q \in Run, q # r
  PROVE  run'[q] = run[q]
<1>1. CASE UNCHANGED run
  BY <1>1
<1>2. ASSUME NEW pc, Goto(r, pc) PROVE run'[q] = run[q]
  BY <1>2 DEF Goto, TypeOK, RunType
<1>3. CASE Return(r)
  BY <1>3 DEF Return, TypeOK, RunType
<1>4. CASE Register(r)
  BY <1>4 DEF Register, TypeOK, RunType
<1>5. CASE Begin(r)
  BY <1>5 DEF Begin, TypeOK, RunType
<1>6. CASE \E t \in Target : SettleExpanded(r, t)
  BY <1>6 DEF SettleExpanded, TypeOK, RunType
<1>7. CASE SweepStopped(r)
  BY <1>7 DEF SweepStopped, TypeOK, RunType
<1>8. CASE StopPool(r)
  BY <1>8 DEF StopPool, TypeOK, RunType
<1>9. CASE \E u \in Unit : FailScannedUnit(r, u)
  BY <1>9 DEF FailScannedUnit, TypeOK, RunType
<1>10. ASSUME NEW from, NEW verdict, EndJob(r, from, verdict) PROVE run'[q] = run[q]
  BY <1>10 DEF EndJob, Goto, TypeOK, RunType
<1>11. CASE \E u \in Unit : RunUnit(r, u)
  BY <1>1, <1>9, <1>11
  DEF RunUnit, RefuseSwept, CheckUnit, RefuseUnit, ClaimUnit, SkipUnit, CommitUnit, DiscardUnit,
      CommitRefused, ReleaseUnit, UnitWriteLost
<1>12. CASE CompleteJob(r) \/ FailJob(r)
  BY <1>10, <1>12 DEF CompleteJob, FailJob
<1>13. CASE \/ LoseClaim(r) \/ RateLimited(r) \/ SettleRefused(r) \/ ClaimJob(r)
            \/ BeginStopped(r) \/ \E t \in Target : ExpandBatch(r, t)
            \/ ResetOrphanedUnits(r) \/ ListSweep(r) \/ \E C \in SUBSET Unit : SweepChunk(r, C)
            \/ RecordLiveness(r) \/ ListUnits(r) \/ EndPortPhase(r)
  BY <1>1, <1>2, <1>3, <1>13
  DEF LoseClaim, RateLimited, SettleRefused, ClaimJob, BeginStopped, ExpandBatch,
      ResetOrphanedUnits, ListSweep, SweepChunk, RecordLiveness, ListUnits, EndPortPhase
<1>14. CASE \/ SettleStopped(r) \/ HandBack(r) \/ VerifyUnits(r)
            \/ CloseTargets(r) \/ Unregister(r) \/ RunError(r) \/ EndWriteLost(r)
  BY <1>1, <1>2, <1>3, <1>14
  DEF SettleStopped, HandBack, VerifyUnits, CloseTargets, Unregister, RunError, EndWriteLost
<1> QED
  BY <1>4, <1>5, <1>6, <1>7, <1>8, <1>11, <1>12, <1>13, <1>14 DEF RunStep

\* Of the steps of a run, the claim makes it active and Register puts it in the
\* registry; after the claim nothing takes it back to that stage.
LEMMA RunStepKeepsOwners ==
  ASSUME TypeOK, OwnReplicas, NEW r \in Run, RunStep(r),
         ~ClaimJob(r), ~Register(r)
  PROVE  KeepsOwners
<1>1. Active(r)' => Active(r) /\ (run[r].pc = "claimed" => run'[r].pc = "claimed")
  <2>1. CASE UNCHANGED run
    BY <2>1 DEF Active
  <2>2. CASE \E u \in Unit : RunUnit(r, u)
    <3>1. run'[r].pc = run[r].pc
      BY <2>2
      DEF RunUnit, RefuseSwept, CheckUnit, RefuseUnit, ClaimUnit, SkipUnit, CommitUnit,
          DiscardUnit, CommitRefused, FailScannedUnit, ReleaseUnit, UnitWriteLost, TypeOK,
          RunType, RunRow
    <3> QED BY <3>1 DEF Active
  <2>3. CASE LoseClaim(r) \/ RateLimited(r) \/ SettleRefused(r) \/ Unregister(r)
             \/ CompleteJob(r) \/ FailJob(r) \/ CloseTargets(r) \/ HandBack(r)
    BY <2>3
    DEF LoseClaim, RateLimited, SettleRefused, Unregister, CompleteJob, FailJob, EndJob,
        CloseTargets, HandBack, Goto, Return, Over, NotStarted, Active, ActiveStage, TypeOK,
        RunType, RunRow
  <2>4. CASE \/ Begin(r) \/ BeginStopped(r)
             \/ \E t \in Target : ExpandBatch(r, t) \/ SettleExpanded(r, t)
             \/ ResetOrphanedUnits(r) \/ ListSweep(r) \/ \E C \in SUBSET Unit : SweepChunk(r, C)
             \/ RecordLiveness(r) \/ SweepStopped(r) \/ ListUnits(r) \/ StopPool(r)
             \/ EndPortPhase(r) \/ SettleStopped(r) \/ VerifyUnits(r)
    BY <2>4
    DEF Begin, BeginStopped, ExpandBatch, SettleExpanded, ResetOrphanedUnits, ListSweep,
        SweepChunk, RecordLiveness, SweepStopped, ListUnits, StopPool, EndPortPhase,
        SettleStopped, VerifyUnits, Active, ActiveStage
  <2>5. CASE RunError(r) \/ EndWriteLost(r)
    BY <2>5
    DEF RunError, EndWriteLost, Goto, Return, Over, NotStarted, Active, ActiveStage, TypeOK,
        RunType, RunRow
  <2> QED BY <2>2, <2>3, <2>4, <2>5 DEF RunStep
<1>2. ASSUME NEW q \in Run, Active(q)' PROVE registry'[Home[q]] = registry[Home[q]]
  <2>1. CASE UNCHANGED registry
    BY <2>1
  <2>2. CASE Unregister(r)
    <3>1. run'[r].pc = "over" /\ registry' = [registry EXCEPT ![Home[r]] = None]
      BY <2>2 DEF Unregister, Return, Over, NotStarted, TypeOK, RunType
    <3>2. q # r
      BY <1>2, <3>1 DEF Active, ActiveStage
    <3>3. Home[q] # Home[r]
      BY <3>2 DEF OwnReplicas
    <3> QED BY <3>1, <3>3, HomeAssumption DEF TypeOK
  <2> QED
    BY <2>1, <2>2
    DEF RunStep, LoseClaim, RateLimited, SettleRefused, Begin, BeginStopped, ExpandBatch,
        SettleExpanded, ResetOrphanedUnits, ListSweep, SweepChunk, RecordLiveness,
        SweepStopped, ListUnits, StopPool, EndPortPhase, RunUnit, RefuseSwept, CheckUnit,
        RefuseUnit, ClaimUnit, SkipUnit, CommitUnit, DiscardUnit, CommitRefused,
        FailScannedUnit, ReleaseUnit, UnitWriteLost, SettleStopped, HandBack, VerifyUnits,
        CompleteJob, FailJob, EndJob, CloseTargets, RunError, EndWriteLost
<1> QED BY <1>1, <1>2, OthersStay DEF KeepsOwners, Active

\* What a run does keeps the owner its own: only the job of nobody is claimed, and
\* the run that ends the job or hands it back is active no more.
LEMMA RunStepOwner ==
  ASSUME TypeOK, OwnReplicas, OwnerInv, NEW r \in Run, RunStep(r)
  PROVE  OwnerInv'
<1>1. CASE ClaimJob(r)
  <2>1. \A q \in Run : ~Active(q)
    BY <1>1 DEF ClaimJob, CanMoveJob, OwnerInv
  <2>2. \A q \in Run : Active(q)' => q = r
    BY <1>1, <2>1, OthersStay DEF Active
  <2>3. job'.status = "running" /\ job'.fresh /\ run'[r].pc = "claimed"
    BY <1>1 DEF ClaimJob, MoveJob, Goto, TypeOK, JobType, RunType, RunRow
  <2> QED BY <2>2, <2>3 DEF OwnerInv
<1>2. CASE Register(r)
  <2>1. Active(r) /\ job' = job
    BY <1>2 DEF Register, Active, ActiveStage
  <2>2. \A q \in Run : Active(q)' => q = r
    BY <2>1, OthersStay DEF OwnerInv, Active
  <2>3. registry'[Home[r]] = r
    BY <1>2, HomeAssumption DEF Register, TypeOK
  <2> QED BY <2>1, <2>2, <2>3 DEF OwnerInv
<1>3. CASE KeepsOwners /\ UNCHANGED job
  BY <1>3, OwnersKept DEF KeepsLease
<1>4. CASE RateLimited(r)
  <2>1. \A q \in Run : ~Active(q)
    BY <1>4 DEF RateLimited, CanMoveJob, OwnerInv
  <2>2. run'[r].pc = "refused"
    BY <1>4 DEF RateLimited, Goto, TypeOK, RunType, RunRow
  <2>3. \A q \in Run : ~Active(q)'
    BY <2>1, <2>2, OthersStay DEF Active, ActiveStage
  <2> QED BY <2>3 DEF OwnerInv
<1>5. CASE HandBack(r) \/ CompleteJob(r) \/ FailJob(r)
  <2>1. Active(r)
    BY <1>5 DEF HandBack, CompleteJob, FailJob, EndJob, Active, ActiveStage
  <2>2. run'[r].pc \in {"closing", "final"}
    BY <1>5 DEF HandBack, CompleteJob, FailJob, EndJob, Goto, TypeOK, RunType, RunRow
  <2>3. \A q \in Run : ~Active(q)'
    BY <2>1, <2>2, OthersStay DEF OwnerInv, Active, ActiveStage
  <2> QED BY <2>3 DEF OwnerInv
<1>6. CASE Begin(r) \/ (\E C \in SUBSET Unit : SweepChunk(r, C)) \/ \E u \in Unit : CheckUnit(r, u)
  <2>1. KeepsLease
    BY <1>6 DEF Begin, SweepChunk, CheckUnit, StillRunning, KeepsLease
  <2>2. ~ClaimJob(r) /\ ~Register(r)
    BY <1>6 DEF Begin, SweepChunk, CheckUnit, ClaimJob, Register
  <2> QED BY <2>1, <2>2, RunStepKeepsOwners, OwnersKept
<1>7. CASE UNCHANGED job /\ ~ClaimJob(r) /\ ~Register(r)
  BY <1>3, <1>7, RunStepKeepsOwners
<1> QED
  BY <1>1, <1>2, <1>4, <1>5, <1>6, <1>7
  DEF RunStep, LoseClaim, SettleRefused, BeginStopped, ExpandBatch,
      SettleExpanded, ResetOrphanedUnits, ListSweep, RecordLiveness,
      SweepStopped, ListUnits, StopPool, EndPortPhase, RunUnit, RefuseSwept,
      RefuseUnit, ClaimUnit, SkipUnit, CommitUnit, DiscardUnit, CommitRefused,
      FailScannedUnit, ReleaseUnit, UnitWriteLost, SettleStopped, VerifyUnits,
      CloseTargets, Unregister, RunError, EndWriteLost

\* So does everything else: while the owner beats its lease does not pass, so the
\* reaper finds no stalled job, and Retry takes only jobs that have no owner.
LEMMA OwnerStep ==
  ASSUME TypeOK, OwnReplicas, ReliableLease, OwnerInv, [Next]_vars
  PROVE  OwnerInv'
<1>1. ASSUME NEW r \in Run, RunStep(r) PROVE OwnerInv'
  BY <1>1, RunStepOwner
<1>2. ASSUME NEW r \in Run, Deliver(r) PROVE OwnerInv'
  <2>1. \A q \in Run : Active(q)' => Active(q) /\ run'[q] = run[q]
    BY <1>2 DEF Deliver, Goto, Active, ActiveStage, TypeOK, RunType
  <2> QED BY <1>2, <2>1, OwnersKept DEF Deliver, KeepsOwners, KeepsLease
<1>3. ASSUME NEW p \in Replica, ReplicaStep(p) PROVE OwnerInv'
  <2>1. CASE Beat(p) \/ Restart(p)
    BY <2>1, OwnersKept DEF Beat, Restart, KeepsOwners, KeepsLease, Active
  <2>2. CASE CancelJob(p)
    <3>1. job'.status = "cancelled" /\ UNCHANGED <<run, registry>>
      BY <2>2 DEF CancelJob, MoveJob, TypeOK, JobType
    <3> QED BY <3>1 DEF OwnerInv, Active
  <2>3. CASE Stop(p)
    <3>1. \A q \in Run : run'[q].pc = run[q].pc
      BY <2>3 DEF Stop, TypeOK, RunType, RunRow
    <3> QED BY <2>3, <3>1, OwnersKept DEF Stop, KeepsOwners, KeepsLease, Active
  <2>4. CASE Gone(p)
    <3>1. \A q \in Run : Active(q)' => Active(q) /\ Home[q] # p /\ run'[q] = run[q]
      BY <2>4 DEF Gone, Live, Over, NotStarted, Active, ActiveStage
    <3>2. \A q \in Run : Active(q)' => registry'[Home[q]] = registry[Home[q]]
      BY <2>4, <3>1, HomeAssumption DEF Gone, TypeOK
    <3> QED BY <2>4, <3>1, <3>2, OwnersKept DEF Gone, KeepsOwners, KeepsLease
  <2> QED BY <1>3, <2>1, <2>2, <2>3, <2>4 DEF ReplicaStep, Exit, Crash
<1>4. CASE CancelStep
  <2>1. \A q \in Run : run'[q].pc = run[q].pc
    BY <1>4
    DEF CancelStep, CancelSignal, CancelTargets, CancelUnits, CancelWriteLost, TypeOK, RunType,
        RunRow
  <2> QED
    BY <1>4, <2>1, OwnersKept
    DEF CancelStep, CancelSignal, CancelTargets, CancelUnits, CancelWriteLost, KeepsOwners,
        KeepsLease, Active
<1>5. CASE Lapse
  <2>1. ASSUME NEW r \in Run, Active(r) PROVE FALSE
    <3>1. Home[r] \in Replica /\ ~Ticking(Home[r]) /\ run[r].pc # "claimed"
      BY <1>5, HomeAssumption DEF Lapse, ReliableLease
    <3>2. registry[Home[r]] = r
      BY <2>1, <3>1 DEF OwnerInv
    <3> QED
      BY <2>1, <3>1, <3>2, NoneAssumption DEF Ticking, Live, Active, ActiveStage
  <2> QED BY <1>5, <2>1 DEF Lapse, OwnerInv, Active
<1>6. CASE ReapStalledJob \/ RequeueJobForRetry
  <2>1. \A r \in Run : ~Active(r)
    BY <1>6 DEF ReapStalledJob, RequeueJobForRetry, CanMoveJob, OwnerInv
  <2> QED BY <1>6, <2>1 DEF ReapStalledJob, RequeueJobForRetry, OwnerInv, Active
<1>7. CASE UNCHANGED vars
  BY <1>7 DEF vars, OwnerInv, Active
<1> QED BY <1>1, <1>2, <1>3, <1>4, <1>5, <1>6, <1>7 DEF Next

\* There is never more than one owner.
LEMMA OwnerHolds ==
  ASSUME OwnReplicas, ReliableLease
  PROVE  Spec => []OwnerInv
<1>1. Init => OwnerInv
  BY DEF Init, OwnerInv, Active, ActiveStage, NotStarted
<1>2. TypeOK /\ OwnerInv /\ [Next]_vars => OwnerInv'
  BY OwnerStep
<1> QED BY <1>1, <1>2, TypeCorrect, PTL DEF Spec

\* "Only one processor runs a job" (job_lifecycle.go:14): whatever is cancelled,
\* retried, stopped, killed and reaped, no two runs expand, sweep or scan it at a time.
THEOREM ScannedByOne ==
  ASSUME OwnReplicas, ReliableLease
  PROVE  Spec => []OneScanner
<1>1. OwnerInv => OneScanner
  BY DEF OwnerInv, OneScanner, Scanning, Active, ActiveStage
<1> QED BY <1>1, OwnerHolds, PTL

-----------------------------------------------------------------------------
(* What a step does to the status of a unit and of a target *)

Same(u)      == unit'[u].status = unit[u].status
Inserted(u)  == /\ unit[u].status = "absent" /\ unit'[u].status \in {"pending", "failed"}
                /\ \E r \in Run : ExpandBatch(r, TargetOf[u])
Cancelled(u) == /\ unit[u].status \notin {"absent", "done"} /\ unit'[u].status = "cancelled"
                /\ \/ CancelUnits
                   \/ \E r \in Run : /\ run[r].pc \in {"porting", "settling"}
                                     /\ run[r].stop = "cancel"
Worked(u)    == /\ unit[u].status # "absent"
                /\ unit'[u].status \in {"pending", "running", "done", "failed"}
                /\ \/ \E r \in Run : run[r].pc \in {"expanding", "sweeping", "porting"}
                   \/ ReapStalledJob
                   \/ RequeueJobForRetry

StatusMove(u) == Same(u) \/ Inserted(u) \/ Cancelled(u) \/ Worked(u)

\* The fields of a row after an UPDATE of its status.
LEMMA SetUnitsStatus ==
  ASSUME TypeOK, NEW from, NEW to, unit' = SetUnits(from, to), NEW u \in Unit
  PROVE  unit'[u].status = IF unit[u].status \in from THEN to ELSE unit[u].status
BY DEF SetUnits, TypeOK, UnitType

\* What workers and sweeps do to the status of a unit.
LEMMA RunUnitStatus ==
  ASSUME TypeOK, NEW r \in Run, NEW v \in Unit, RunUnit(r, v), NEW u \in Unit
  PROVE  StatusMove(u)
<1>1. CASE UNCHANGED unit
  BY <1>1 DEF StatusMove, Same
<1>2. ASSUME NEW from \in {"pending", "running"}, FailUnit(v, from),
             run[r].pc \in {"sweeping", "porting"}
      PROVE  StatusMove(u)
  <2>1. Same(u) \/ (unit[u].status = from /\ unit'[u].status = "failed")
    BY <1>2 DEF FailUnit, Same, TypeOK, UnitType
  <2> QED BY <1>2, <2>1 DEF StatusMove, Worked
<1>3. CASE ClaimUnit(r, v)
  <2>1. Same(u) \/ (unit[u].status = "pending" /\ unit'[u].status = "running")
    BY <1>3 DEF ClaimUnit, Same, TypeOK, UnitType
  <2> QED BY <1>3, <2>1 DEF StatusMove, Worked, ClaimUnit
<1>4. CASE CommitUnit(r, v)
  <2>1. Same(u) \/ (unit[u].status = "running" /\ unit'[u].status = "done")
    BY <1>4 DEF CommitUnit, Unfenced, Same, TypeOK, UnitType
  <2> QED BY <1>4, <2>1 DEF StatusMove, Worked, CommitUnit
<1>5. CASE ReleaseUnit(r, v)
  <2>1. \/ Same(u)
        \/ /\ unit[u].status = "running"
           /\ unit'[u].status = IF run[r].stop = "cancel" THEN "cancelled" ELSE "pending"
    BY <1>5 DEF ReleaseUnit, Unfenced, Same, TypeOK, UnitType
  <2> QED BY <1>5, <2>1 DEF StatusMove, Worked, Cancelled, ReleaseUnit
<1> QED
  BY <1>1, <1>2, <1>3, <1>4, <1>5
  DEF RunUnit, RefuseSwept, CheckUnit, RefuseUnit, SkipUnit, DiscardUnit, CommitRefused,
      FailScannedUnit, UnitWriteLost

\* Rows are inserted by the expansion only; they are cancelled by the handler of the
\* cancel and by runs it has stopped.
LEMMA StatusStep ==
  ASSUME TypeOK, [Next]_vars, NEW u \in Unit
  PROVE  StatusMove(u)
<1>1. CASE UNCHANGED unit
  BY <1>1 DEF StatusMove, Same
<1>2. ASSUME NEW r \in Run, NEW t \in Target, ExpandBatch(r, t) PROVE StatusMove(u)
  <2>1. PICK B \in SUBSET {w \in UnitsOf(t) : unit[w].status = "absent"} :
          \E refused \in SUBSET B :
            unit' = [w \in Unit |->
                       IF w \in refused THEN [unit[w] EXCEPT !.status = "failed"]
                       ELSE IF w \in B THEN [unit[w] EXCEPT !.status = "pending"]
                       ELSE unit[w]]
    BY <1>2 DEF ExpandBatch
  <2>2. \/ Same(u)
        \/ u \in B /\ unit'[u].status \in {"pending", "failed"}
    BY <2>1 DEF Same, TypeOK, UnitType
  <2>3. u \in B => unit[u].status = "absent" /\ TargetOf[u] = t
    BY <2>1 DEF UnitsOf
  <2> QED BY <1>2, <2>2, <2>3 DEF StatusMove, Inserted
<1>3. ASSUME NEW r \in Run, ResetOrphanedUnits(r) PROVE StatusMove(u)
  <2>1. Same(u) \/ (unit[u].status = "running" /\ unit'[u].status = "pending")
    BY <1>3, SetUnitsStatus DEF ResetOrphanedUnits, Same
  <2> QED BY <1>3, <2>1 DEF StatusMove, Worked, ResetOrphanedUnits
<1>4. ASSUME NEW r \in Run, RecordLiveness(r) PROVE StatusMove(u)
  <2>1. Same(u) \/ (unit[u].status = "pending" /\ unit'[u].status = "done")
    <3>1. \/ unit'[u] = unit[u]
          \/ unit[u].status = "pending" /\ unit'[u] = [unit[u] EXCEPT !.liveness = "up"]
          \/ /\ unit[u].status = "pending"
             /\ unit'[u] = [status |-> "done", attempts |-> unit[u].attempts + 1,
                            liveness |-> "down"]
      BY <1>4 DEF RecordLiveness
    <3> QED BY <3>1 DEF Same, TypeOK, UnitType
  <2> QED BY <1>4, <2>1 DEF StatusMove, Worked, RecordLiveness
<1>5. ASSUME NEW r \in Run, SettleStopped(r) PROVE StatusMove(u)
  <2>1. CASE run[r].stop = "cancel"
    <3>1. Same(u) \/ (unit[u].status = "pending" /\ unit'[u].status = "cancelled")
      BY <1>5, <2>1, SetUnitsStatus DEF SettleStopped, Same
    <3> QED BY <1>5, <2>1, <3>1 DEF StatusMove, Cancelled, SettleStopped
  <2>2. CASE run[r].stop # "cancel"
    BY <1>1, <1>5, <2>2 DEF SettleStopped
  <2> QED BY <2>1, <2>2
<1>6. CASE CancelUnits
  <2>1. Same(u) \/ (unit[u].status = "pending" /\ unit'[u].status = "cancelled")
    BY <1>6, SetUnitsStatus DEF CancelUnits, Same
  <2> QED BY <1>6, <2>1 DEF StatusMove, Cancelled
<1>7. CASE ReapStalledJob
  <2>1. Same(u) \/ (unit[u].status = "running" /\ unit'[u].status \in {"pending", "failed"})
    BY <1>7, SetUnitsStatus DEF ReapStalledJob, Same
  <2> QED BY <1>7, <2>1 DEF StatusMove, Worked
<1>8. CASE RequeueJobForRetry
  <2>1. Same(u) \/ (unit[u].status # "absent" /\ unit'[u].status = "pending")
    BY <1>8, SetUnitsStatus DEF RequeueJobForRetry, Same
  <2> QED BY <1>8, <2>1 DEF StatusMove, Worked
<1>9. ASSUME NEW r \in Run, RunStep(r) PROVE StatusMove(u)
  BY <1>1, <1>2, <1>3, <1>4, <1>5, <1>9, RunUnitStatus
  DEF RunStep, LoseClaim, RateLimited, SettleRefused, ClaimJob, Register, Begin, BeginStopped,
      SettleExpanded, ListSweep, SweepChunk, SweepStopped, ListUnits, StopPool, EndPortPhase,
      HandBack, VerifyUnits, CompleteJob, FailJob, EndJob, CloseTargets, Unregister,
      RunError, EndWriteLost
<1> QED
  BY <1>1, <1>6, <1>7, <1>8, <1>9
  DEF Next, Deliver, ReplicaStep, Beat, CancelJob, Stop, Exit, Crash, Gone, Restart, CancelStep,
      CancelSignal, CancelTargets, CancelWriteLost, Lapse, vars

Open == {"pending", "running"}

Settled(t) ==
  /\ target[t] \in Open /\ target'[t] \in {"cancelled", "completed", "failed"}
  /\ \A u \in UnitsOf(t) : unit'[u].status \notin Open
  /\ target'[t] = "cancelled" => \E u \in UnitsOf(t) : unit'[u].status = "cancelled"
  /\ target'[t] = "completed" => \E u \in UnitsOf(t) : unit'[u].status = "done"
CutShort(t) == /\ target'[t] = "cancelled"
               /\ \/ CancelTargets
                  \/ \E r \in Run : run[r].pc = "settling" /\ run[r].stop = "cancel"
Closed(t)   == \E r \in Run : /\ run[r].pc = "closing" /\ target'[t] = run[r].verdict
                              /\ target[t] \notin {"completed", "failed"}
Reopened(t) == target[t] # "completed" /\ target'[t] = "pending" /\ RequeueJobForRetry

TargetMove(t) ==
  \/ target'[t] = target[t]
  \/ target[t] \in Open /\ target'[t] \in Open
  \/ target'[t] = "failed"
  \/ Settled(t) \/ CutShort(t) \/ Closed(t) \/ Reopened(t)

\* Settling a target says what its units came to.
LEMMA SettleTargetsMove ==
  ASSUME NEW ts, target' = SettleTargets(unit', ts), NEW t \in Target
  PROVE  target'[t] = target[t] \/ Settled(t)
<1>1. CASE \/ t \notin ts \/ target[t] \notin Open
           \/ \E u \in UnitsOf(t) : unit'[u].status \in Open
  BY <1>1 DEF SettleTargets, Open
<1>2. CASE /\ t \in ts /\ target[t] \in Open
           /\ \A u \in UnitsOf(t) : unit'[u].status \notin Open
  BY <1>2 DEF SettleTargets, Open, Settled
<1> QED BY <1>1, <1>2

\* A target changes when it is settled, ended with its job, reopened by a Retry, or
\* passes between pending and running.
LEMMA TargetStep ==
  ASSUME TypeOK, [Next]_vars, NEW t \in Target
  PROVE  TargetMove(t)
<1>1. CASE UNCHANGED target
  BY <1>1 DEF TargetMove
<1>2. ASSUME NEW r \in Run, NEW u \in Unit, RunUnit(r, u) PROVE TargetMove(t)
  <2>1. CASE ClaimUnit(r, u)
    BY <2>1 DEF ClaimUnit, TargetMove, Open
  <2>2. CASE \/ RefuseSwept(r, u) \/ RefuseUnit(r, u) \/ CommitUnit(r, u)
             \/ FailScannedUnit(r, u)
    BY <2>2, SettleTargetsMove
    DEF RefuseSwept, RefuseUnit, CommitUnit, FailScannedUnit, FailUnit, TargetMove
  <2> QED
    BY <1>1, <1>2, <2>1, <2>2
    DEF RunUnit, CheckUnit, SkipUnit, DiscardUnit, CommitRefused, ReleaseUnit, UnitWriteLost
<1>3. ASSUME NEW r \in Run, RunStep(r) PROVE TargetMove(t)
  <2>1. CASE SettleRefused(r)
    BY <2>1 DEF SettleRefused, SetTargets, TargetMove
  <2>2. CASE CloseTargets(r)
    BY <2>2 DEF CloseTargets, SetTargets, TargetMove, Closed
  <2>3. CASE SettleStopped(r)
    BY <2>3 DEF SettleStopped, SetTargets, TargetMove, CutShort, Open
  <2>4. CASE RecordLiveness(r)
    BY <2>4, SettleTargetsMove DEF RecordLiveness, TargetMove
  <2>5. CASE \E s \in Target : SettleExpanded(r, s)
    <3>1. unit' = unit /\ \E s \in Target : target' = SettleTargets(unit, {s})
      BY <2>5 DEF SettleExpanded
    <3> QED BY <3>1, SettleTargetsMove DEF TargetMove
  <2> QED
    BY <1>1, <1>2, <1>3, <2>1, <2>2, <2>3, <2>4, <2>5
    DEF RunStep, LoseClaim, RateLimited, ClaimJob, Register, Begin, BeginStopped, ExpandBatch,
        ResetOrphanedUnits, ListSweep, SweepChunk, SweepStopped, ListUnits, StopPool,
        EndPortPhase, HandBack, VerifyUnits, CompleteJob, FailJob, EndJob, Unregister,
        RunError, EndWriteLost
<1>4. CASE CancelTargets
  BY <1>4 DEF CancelTargets, SetTargets, TargetMove, CutShort
<1>5. CASE ReapStalledJob
  BY <1>5 DEF ReapStalledJob, SetTargets, TargetMove, Open
<1>6. CASE RequeueJobForRetry
  BY <1>6 DEF RequeueJobForRetry, SetTargets, TargetMove, Reopened
<1> QED
  BY <1>1, <1>3, <1>4, <1>5, <1>6
  DEF Next, Deliver, ReplicaStep, Beat, CancelJob, Stop, Exit, Crash, Gone, Restart,
      CancelStep, CancelSignal, CancelUnits, CancelWriteLost, Lapse, vars

-----------------------------------------------------------------------------
(* What is cancelled belongs to a job that is *)

\* Only a cancel tells a run to stop for one, and leaves units and targets cancelled:
\* what a live owner finds ended was cancelled under it (checkStillRunning).
CancelInv ==
  /\ IF canceller.at = "idle" THEN canceller.by = None ELSE job.status = "cancelled"
  /\ \A r \in Run : run[r].stop = "cancel" => job.status = "cancelled"
  /\ \A u \in Unit : unit[u].status = "cancelled" => job.status = "cancelled"
  /\ \A t \in Target : target[t] = "cancelled" => job.status = "cancelled"

\* Nothing moves a job that is cancelled, nor one that is completed.
LEMMA EndedStays ==
  ASSUME TypeOK, [Next]_vars, job.status \in {"cancelled", "completed"}
  PROVE  job'.status = job.status
BY JobStep DEF JobStays, JobMove, Terminal

\* Who tells a run to stop for a cancel: the handler, or its own look at the row.
LEMMA StopStep ==
  ASSUME TypeOK, [Next]_vars, NEW r \in Run, run'[r].stop = "cancel"
  PROVE  \/ run[r].stop = "cancel" \/ CancelSignal
         \/ Active(r) /\ job.status \in Terminal
<1>1. CASE run'[r].stop = run[r].stop
  BY <1>1
<1>2. CASE RunStep(r)
  <2>1. CASE Register(r)
    BY <2>1 DEF Register, TypeOK, RunType, RunRow
  <2>2. CASE Begin(r) \/ \E t \in Target : SettleExpanded(r, t)
    BY <2>2 DEF Begin, SettleExpanded, TypeOK, RunType, RunRow
  <2>3. CASE SweepStopped(r)
    BY <2>3 DEF SweepStopped, StopSeen, Active, ActiveStage, TypeOK, RunType, RunRow
  <2>4. CASE StopPool(r)
    BY <2>4 DEF StopPool, Active, ActiveStage
  <2>5. CASE CompleteJob(r) \/ FailJob(r)
    BY <2>5 DEF CompleteJob, FailJob, EndJob, Goto, TypeOK, RunType, RunRow
  <2>6. CASE \E u \in Unit : RunUnit(r, u)
    BY <2>6
    DEF RunUnit, RefuseSwept, CheckUnit, RefuseUnit, ClaimUnit, SkipUnit, CommitUnit, DiscardUnit,
        CommitRefused, FailScannedUnit, ReleaseUnit, UnitWriteLost, TypeOK, RunType, RunRow
  <2>7. CASE \/ LoseClaim(r) \/ RateLimited(r) \/ SettleRefused(r) \/ ClaimJob(r)
             \/ BeginStopped(r) \/ \E t \in Target : ExpandBatch(r, t)
             \/ ResetOrphanedUnits(r) \/ ListSweep(r) \/ \E C \in SUBSET Unit : SweepChunk(r, C)
             \/ RecordLiveness(r) \/ ListUnits(r) \/ EndPortPhase(r)
             \/ SettleStopped(r) \/ HandBack(r) \/ VerifyUnits(r)
             \/ CloseTargets(r) \/ Unregister(r) \/ RunError(r) \/ EndWriteLost(r)
    BY <2>7
    DEF LoseClaim, RateLimited, SettleRefused, ClaimJob, BeginStopped, ExpandBatch,
        ResetOrphanedUnits, ListSweep, SweepChunk, RecordLiveness, ListUnits, EndPortPhase,
        SettleStopped, HandBack, VerifyUnits, CloseTargets, Unregister, RunError, EndWriteLost,
        Goto, Return, Over, NotStarted, TypeOK, RunType, RunRow
  <2> QED BY <1>2, <2>1, <2>2, <2>3, <2>4, <2>5, <2>6, <2>7 DEF RunStep
<1>3. ASSUME NEW q \in Run, RunStep(q), q # r PROVE run'[r].stop = run[r].stop
  BY <1>3, OthersStay
<1>4. CASE \E p \in Replica : Stop(p) \/ Gone(p)
  BY <1>4 DEF Stop, Gone, Over, NotStarted, TypeOK, RunType, RunRow
<1>5. CASE \E q \in Run : Deliver(q)
  BY <1>5 DEF Deliver, Goto, TypeOK, RunType, RunRow
<1> QED
  BY <1>1, <1>2, <1>3, <1>4, <1>5
  DEF Next, ReplicaStep, Beat, CancelJob, Exit, Crash, Restart, CancelStep,
      CancelTargets, CancelUnits, CancelWriteLost, Lapse, ReapStalledJob, RequeueJobForRetry, vars

\* Every step keeps CancelInv.
LEMMA CancelInvStep ==
  ASSUME TypeOK, OwnerInv, CancelInv, [Next]_vars
  PROVE  CancelInv'
<1>1. job.status = "cancelled" => job'.status = "cancelled"
  BY EndedStays
<1>2. IF canceller'.at = "idle" THEN canceller'.by = None ELSE job'.status = "cancelled"
  <2>1. CASE UNCHANGED canceller
    BY <1>1, <2>1 DEF CancelInv
  <2>2. CASE canceller.at # "idle" /\ canceller'.at # "idle"
    BY <1>1, <2>2 DEF CancelInv
  <2>3. ASSUME NEW p \in Replica, CancelJob(p)
        PROVE  job'.status = "cancelled" /\ canceller'.at # "idle"
    BY <2>3 DEF CancelJob, MoveJob, TypeOK, JobType
  <2>4. ASSUME NEW p \in Replica, Gone(p)
        PROVE  canceller' = canceller \/ (canceller.at # "idle" /\ canceller'.at # "idle")
    BY <2>4, NoneAssumption DEF Gone, CancelInv, TypeOK, CancelType
  <2>5. CASE CancelStep
    BY <2>2, <2>5
    DEF CancelStep, CancelSignal, CancelTargets, CancelUnits, CancelWriteLost, TypeOK, CancelType
  <2>6. ASSUME NEW r \in Run, RunStep(r) PROVE UNCHANGED canceller
    <3>1. ASSUME NEW u \in Unit, RunUnit(r, u) PROVE UNCHANGED canceller
      BY <3>1
      DEF RunUnit, RefuseSwept, CheckUnit, RefuseUnit, ClaimUnit, SkipUnit, CommitUnit,
          DiscardUnit, CommitRefused, FailScannedUnit, ReleaseUnit, UnitWriteLost
    <3> QED
      BY <2>6, <3>1
      DEF RunStep, LoseClaim, RateLimited, SettleRefused, ClaimJob, Register, Begin,
          BeginStopped, ExpandBatch, SettleExpanded, ResetOrphanedUnits, ListSweep, SweepChunk,
          RecordLiveness, SweepStopped, ListUnits, StopPool, EndPortPhase, SettleStopped,
          HandBack, VerifyUnits, CompleteJob, FailJob, EndJob, CloseTargets, Unregister,
          RunError, EndWriteLost
  <2>7. ASSUME NEW p \in Replica, Beat(p) \/ Stop(p) \/ Restart(p) PROVE UNCHANGED canceller
    BY <2>7 DEF Beat, Stop, Restart
  <2>8. CASE Lapse \/ ReapStalledJob \/ RequeueJobForRetry \/ \E r \in Run : Deliver(r)
    BY <2>1, <2>8 DEF Lapse, ReapStalledJob, RequeueJobForRetry, Deliver
  <2> QED
    BY <2>1, <2>2, <2>3, <2>4, <2>5, <2>6, <2>7, <2>8 DEF Next, ReplicaStep, Exit, Crash, vars
<1>3. ASSUME NEW r \in Run, run'[r].stop = "cancel" PROVE job'.status = "cancelled"
  BY <1>1, <1>3, StopStep DEF CancelInv, CancelSignal, OwnerInv, Terminal
<1>4. ASSUME NEW u \in Unit, unit'[u].status = "cancelled" PROVE job'.status = "cancelled"
  <2>1. Same(u) \/ Cancelled(u)
    BY <1>4, StatusStep DEF StatusMove, Inserted, Worked
  <2>2. job.status = "cancelled"
    BY <1>4, <2>1 DEF Same, Cancelled, CancelInv, CancelUnits
  <2> QED BY <1>1, <2>2
<1>5. ASSUME NEW t \in Target, target'[t] = "cancelled" PROVE job'.status = "cancelled"
  <2>1. target'[t] = target[t] \/ Settled(t) \/ CutShort(t)
    BY <1>5, TargetStep DEF TargetMove, Closed, Reopened, Open, TypeOK, RunType, RunRow
  <2>2. CASE Settled(t)
    BY <1>4, <1>5, <2>2 DEF Settled, UnitsOf
  <2> QED BY <1>1, <1>5, <2>1, <2>2 DEF CutShort, CancelInv, CancelTargets
<1> QED BY <1>2, <1>3, <1>4, <1>5 DEF CancelInv

-----------------------------------------------------------------------------
(* A completed job has scanned every address *)

\* The addresses of a target fit in one batch, whose insertion is one transaction:
\* a run that crashes between two batches leaves a target that the next run takes
\* for listed (ensureUnits).
OneBatch == \A t \in Target : /\ IsFiniteSet(UnitsOf(t))
                              /\ Cardinality(UnitsOf(t)) <= UnitInsertBatch

Absent(u)   == unit[u].status = "absent"
ListedStage == {"listing", "sweeping", "porting", "verifying", "completing"}

\* Targets have all their units or none; a run that expands knows which targets still
\* have none, and one past that stage has none left.
ListedInv ==
  /\ \A u, v \in Unit : TargetOf[u] = TargetOf[v] /\ Absent(u) => Absent(v)
  /\ \A r \in Run, u \in Unit : Absent(u) =>
       /\ run[r].pc = "expanding" => TargetOf[u] \in run[r].expand
       /\ run[r].pc \notin ListedStage

\* What another than the run itself does to its stage.
LEMMA StageStep ==
  ASSUME TypeOK, [Next]_vars, NEW r \in Run, ~RunStep(r)
  PROVE  \/ /\ run'[r].pc = run[r].pc /\ run'[r].expand = run[r].expand
            /\ run'[r].verdict = run[r].verdict
         \/ run'[r].pc \in {"taken", "over"}
<1>1. ASSUME NEW q \in Run, RunStep(q) PROVE run'[r] = run[r]
  BY <1>1, OthersStay
<1>2. CASE \E q \in Run : Deliver(q)
  BY <1>2 DEF Deliver, Goto, TypeOK, RunType, RunRow
<1>3. CASE CancelSignal \/ \E p \in Replica : Stop(p)
  BY <1>3 DEF CancelSignal, Stop, TypeOK, RunType, RunRow
<1>4. CASE \E p \in Replica : Gone(p)
  BY <1>4 DEF Gone, Over, NotStarted, TypeOK, RunType, RunRow
<1> QED
  BY <1>1, <1>2, <1>3, <1>4
  DEF Next, ReplicaStep, Beat, CancelJob, Exit, Crash, Restart, CancelStep, CancelTargets,
      CancelUnits, CancelWriteLost, Lapse, ReapStalledJob, RequeueJobForRetry, vars

\* How a run comes to expand its targets, and gets past that.
LEMMA ExpandStep ==
  ASSUME TypeOK, [Next]_vars, NEW r \in Run
  PROVE  /\ run'[r].pc = "expanding" =>
              \/ Begin(r) \/ \E t \in Target : SettleExpanded(r, t)
              \/ run[r].pc = "expanding" /\ run'[r].expand = run[r].expand
         /\ run'[r].pc \in ListedStage => run[r].pc \in ListedStage \/ ResetOrphanedUnits(r)
         /\ run'[r].pc = "completing" => run[r].pc = "completing" \/ VerifyUnits(r)
<1>1. CASE run' = run
  BY <1>1
<1>2. CASE \/ LoseClaim(r) \/ RateLimited(r) \/ SettleRefused(r) \/ ClaimJob(r) \/ Register(r)
           \/ BeginStopped(r) \/ CloseTargets(r) \/ Unregister(r) \/ RunError(r)
           \/ EndWriteLost(r) \/ SettleStopped(r) \/ HandBack(r) \/ CompleteJob(r) \/ FailJob(r)
           \/ SweepStopped(r)
  <2>1. run'[r].pc \notin ListedStage \cup {"expanding"}
    BY <1>2
    DEF LoseClaim, RateLimited, SettleRefused, ClaimJob, Register, BeginStopped, CloseTargets,
        Unregister, RunError, EndWriteLost, SettleStopped, HandBack, CompleteJob, FailJob, EndJob,
        SweepStopped, Goto, Return, Over, NotStarted, ListedStage, TypeOK, RunType, RunRow
  <2> QED BY <2>1 DEF ListedStage
<1>3. CASE Begin(r) \/ (\E t \in Target : SettleExpanded(r, t)) \/ ResetOrphanedUnits(r)
  BY <1>3 DEF Begin, SettleExpanded, ResetOrphanedUnits, Goto, ListedStage, TypeOK, RunType, RunRow
<1>4. CASE ListSweep(r) \/ ListUnits(r) \/ EndPortPhase(r) \/ VerifyUnits(r) \/ StopPool(r)
  <2>1. run[r].pc \in ListedStage /\ run'[r].pc # "expanding"
    BY <1>4
    DEF ListSweep, ListUnits, EndPortPhase, VerifyUnits, StopPool, Goto, ListedStage, TypeOK,
        RunType, RunRow
  <2>2. run'[r].pc = "completing" => VerifyUnits(r)
    BY <1>4
    DEF ListSweep, ListUnits, EndPortPhase, StopPool, Goto, TypeOK, RunType, RunRow
  <2> QED BY <2>1, <2>2
<1>5. ASSUME NEW u \in Unit, RunUnit(r, u)
      PROVE  run'[r].pc = run[r].pc /\ run'[r].expand = run[r].expand
  BY <1>5
  DEF RunUnit, RefuseSwept, CheckUnit, RefuseUnit, ClaimUnit, SkipUnit, CommitUnit,
      DiscardUnit, CommitRefused, FailScannedUnit, ReleaseUnit, UnitWriteLost, TypeOK,
      RunType, RunRow
<1>6. CASE RunStep(r)
  BY <1>1, <1>2, <1>3, <1>4, <1>5, <1>6 DEF RunStep, ExpandBatch, SweepChunk, RecordLiveness
<1>7. CASE ~RunStep(r)
  BY <1>7, StageStep DEF ListedStage
<1> QED BY <1>6, <1>7

\* The one batch of a target that has no units yet is all of them.
LEMMA ExpandWhole ==
  ASSUME TypeOK, OneBatch, ListedInv, NEW r \in Run, NEW t \in Target, ExpandBatch(r, t)
  PROVE  \E refused \in SUBSET Refusable :
           \A u \in UnitsOf(t) :
              unit'[u].status = IF u \in refused THEN "failed" ELSE "pending"
<1> DEFINE absent == {u \in UnitsOf(t) : unit[u].status = "absent"}
<1>1. PICK B \in SUBSET absent : \E refused \in SUBSET (B \cap Refusable) :
          /\ B # {}
          /\ Cardinality(B) = UnitInsertBatch \/ (B = absent /\ Cardinality(B) < UnitInsertBatch)
          /\ unit' = [u \in Unit |->
                        IF u \in refused THEN [unit[u] EXCEPT !.status = "failed"]
                        ELSE IF u \in B THEN [unit[u] EXCEPT !.status = "pending"]
                        ELSE unit[u]]
  BY DEF ExpandBatch
<1>2. absent = UnitsOf(t)
  BY <1>1 DEF ListedInv, Absent, UnitsOf
<1>3. B = UnitsOf(t)
  <2>1. /\ IsFiniteSet(UnitsOf(t)) /\ B \in SUBSET UnitsOf(t)
        /\ Cardinality(UnitsOf(t)) <= UnitInsertBatch
    BY <1>1 DEF OneBatch
  <2>2. /\ IsFiniteSet(B) /\ Cardinality(B) <= Cardinality(UnitsOf(t))
        /\ Cardinality(B) = Cardinality(UnitsOf(t)) => B = UnitsOf(t)
    BY <2>1, FS_Subset
  <2>3. Cardinality(B) \in Nat /\ Cardinality(UnitsOf(t)) \in Nat
    BY <2>1, <2>2, FS_CardinalityType
  <2>4. CASE Cardinality(B) = UnitInsertBatch
    BY <2>1, <2>2, <2>3, <2>4
  <2>5. CASE B = absent
    BY <1>2, <2>5
  <2> QED BY <1>1, <2>4, <2>5
<1>4. PICK refused \in SUBSET (B \cap Refusable) :
        unit' = [u \in Unit |->
                   IF u \in refused THEN [unit[u] EXCEPT !.status = "failed"]
                   ELSE IF u \in B THEN [unit[u] EXCEPT !.status = "pending"]
                   ELSE unit[u]]
  BY <1>1
<1>5. \A u \in UnitsOf(t) : unit'[u].status = IF u \in refused THEN "failed" ELSE "pending"
  BY <1>3, <1>4 DEF UnitsOf, TypeOK, UnitType
<1> QED BY <1>4, <1>5

\* Every step keeps ListedInv.
LEMMA ListedStep ==
  ASSUME TypeOK, OneBatch, ListedInv, [Next]_vars
  PROVE  ListedInv'
<1>1. ASSUME NEW u \in Unit, Absent(u)' PROVE Absent(u)
  BY <1>1, StatusStep DEF Absent, StatusMove, Same, Inserted, Cancelled, Worked
<1>2. ASSUME NEW u \in Unit, NEW v \in Unit, TargetOf[u] = TargetOf[v], Absent(u)'
      PROVE  Absent(v)'
  <2>1. Absent(v)
    BY <1>1, <1>2 DEF ListedInv
  <2>2. CASE Same(v)
    BY <2>1, <2>2 DEF Same, Absent
  <2>3. CASE Inserted(v)
    <3>1. PICK r \in Run : ExpandBatch(r, TargetOf[u])
      BY <1>2, <2>3 DEF Inserted
    <3>2. u \in UnitsOf(TargetOf[u]) /\ TargetOf[u] \in Target
      BY TargetAssumption DEF UnitsOf
    <3>3. unit'[u].status \in {"failed", "pending"}
      BY <3>1, <3>2, ExpandWhole
    <3> QED BY <1>2, <3>3 DEF Absent
  <2> QED BY <2>1, <2>2, <2>3, StatusStep DEF StatusMove, Cancelled, Worked, Absent
<1>3. ASSUME NEW r \in Run, NEW u \in Unit, Absent(u)'
      PROVE  /\ run'[r].pc = "expanding" => TargetOf[u] \in run'[r].expand
             /\ run'[r].pc \notin ListedStage
  <2>1. Absent(u) /\ TargetOf[u] \in Target
    BY <1>1, <1>3, TargetAssumption
  <2>2. CASE Begin(r)
    <3>1. /\ run'[r].pc = "expanding"
          /\ run'[r].expand = {t \in Target : \A v \in UnitsOf(t) : Absent(v)}
      BY <2>2 DEF Begin, Absent, TypeOK, RunType, RunRow
    <3>2. \A v \in UnitsOf(TargetOf[u]) : Absent(v)
      BY <2>1 DEF ListedInv, UnitsOf
    <3> QED BY <2>1, <3>1, <3>2 DEF ListedStage
  <2>3. CASE \E t \in Target : SettleExpanded(r, t)
    <3>1. PICK t \in Target : SettleExpanded(r, t)
      BY <2>3
    <3>2. t # TargetOf[u]
      BY <2>1, <3>1 DEF SettleExpanded, UnitsOf, Absent
    <3>3. run'[r].pc = "expanding" /\ run'[r].expand = run[r].expand \ {t}
      BY <3>1 DEF SettleExpanded, TypeOK, RunType, RunRow
    <3> QED BY <2>1, <3>1, <3>2, <3>3 DEF SettleExpanded, ListedInv, ListedStage
  <2>4. ~ResetOrphanedUnits(r)
    BY <2>1 DEF ResetOrphanedUnits, ListedInv
  <2> QED BY <2>1, <2>2, <2>3, <2>4, ExpandStep DEF ListedInv
<1> QED BY <1>2, <1>3 DEF ListedInv

\* Every unit has come to an end that is not a cancel.
Scanned == \A u \in Unit : unit[u].status \in {"done", "failed"}

\* It has when the owner has verified it and nobody has cancelled the job, and when
\* the job is completed.
ScannedInv ==
  /\ \A r \in Run : run[r].pc = "completing" /\ job.status = "running" => Scanned
  /\ job.status = "completed" => Scanned

\* A job is completed by the owner that verified its units.
LEMMA CompletedBy ==
  ASSUME TypeOK, [Next]_vars, job.status # "completed", job'.status = "completed"
  PROVE  \E r \in Run : /\ CompleteJob(r) /\ job.status \notin Terminal
                        /\ UNCHANGED unit
<1>1. job'.status # job.status
  OBVIOUS
<1>2. ASSUME NEW r \in Run, RunStep(r) PROVE CompleteJob(r)
  <2>1. ASSUME NEW u \in Unit, RunUnit(r, u) PROVE job'.status = job.status
    BY <2>1
    DEF RunUnit, RefuseSwept, CheckUnit, RefuseUnit, ClaimUnit, SkipUnit, CommitUnit,
        DiscardUnit, CommitRefused, FailScannedUnit, ReleaseUnit, UnitWriteLost, StillRunning,
        TypeOK, JobType
  <2>2. CASE Begin(r) \/ \E C \in SUBSET Unit : SweepChunk(r, C)
    BY <1>1, <2>2 DEF Begin, SweepChunk, StillRunning, TypeOK, JobType
  <2>3. CASE RateLimited(r) \/ ClaimJob(r) \/ HandBack(r) \/ FailJob(r)
    BY <1>1, <2>3
    DEF RateLimited, ClaimJob, HandBack, FailJob, EndJob, MoveJob, TypeOK, JobType
  <2> QED
    BY <1>1, <1>2, <2>1, <2>2, <2>3
    DEF RunStep, LoseClaim, SettleRefused, Register, BeginStopped, ExpandBatch,
        SettleExpanded, ResetOrphanedUnits, ListSweep, RecordLiveness, SweepStopped, ListUnits,
        StopPool, EndPortPhase, SettleStopped, VerifyUnits, CloseTargets, Unregister,
        RunError, EndWriteLost
<1>3. \E r \in Run : CompleteJob(r)
  <2>1. ASSUME NEW p \in Replica, ReplicaStep(p) PROVE job'.status # "completed" \/ job' = job
    BY <2>1
    DEF ReplicaStep, Beat, CancelJob, Stop, Exit, Crash, Gone, Restart, MoveJob, TypeOK, JobType
  <2>2. CASE Lapse \/ ReapStalledJob \/ RequeueJobForRetry
    BY <1>1, <2>2 DEF Lapse, ReapStalledJob, RequeueJobForRetry, MoveJob, TypeOK, JobType
  <2> QED
    BY <1>1, <1>2, <2>1, <2>2
    DEF Next, Deliver, CancelStep, CancelSignal, CancelTargets, CancelUnits, CancelWriteLost, vars
<1> QED
  BY <1>1, <1>3 DEF CompleteJob, EndJob, CanMoveJob, NotTerminal

\* Every step keeps ScannedInv.
LEMMA ScannedStep ==
  ASSUME TypeOK, OwnerInv, CancelInv, ListedInv, ScannedInv, [Next]_vars
  PROVE  ScannedInv'
\* Whoever could change a unit owns the job, retries it or has cancelled it.
<1>1. ASSUME Scanned,
             \/ job.status = "completed"
             \/ \E r \in Run : run[r].pc = "completing" /\ job.status = "running"
      PROVE  Scanned'
  <2> SUFFICES ASSUME NEW u \in Unit PROVE unit'[u].status \in {"done", "failed"}
    BY DEF Scanned
  <2>1. ~Inserted(u)
    BY <1>1 DEF Inserted, Scanned
  <2>2. ~Cancelled(u)
    BY <1>1 DEF Cancelled, CancelInv, CancelUnits
  <2>3. ~Worked(u)
    <3>1. \A r \in Run : run[r].pc \notin {"expanding", "sweeping", "porting"}
      BY <1>1 DEF OwnerInv, Active, ActiveStage
    <3>2. ~ReapStalledJob
      BY <1>1 DEF ReapStalledJob, OwnerInv, Active, ActiveStage
    <3>3. ~RequeueJobForRetry
      BY <1>1 DEF RequeueJobForRetry, CanMoveJob
    <3> QED BY <3>1, <3>2, <3>3 DEF Worked
  <2> QED BY <1>1, <2>1, <2>2, <2>3, StatusStep DEF StatusMove, Same, Scanned
<1>2. ASSUME NEW r \in Run, run'[r].pc = "completing", job'.status = "running" PROVE Scanned'
  <2>1. run[r].pc = "completing" \/ VerifyUnits(r)
    BY <1>2, ExpandStep
  <2>2. CASE run[r].pc = "completing"
    <3>1. job.status = "running"
      BY <1>2, <2>2, EndedStays DEF OwnerInv, Active, ActiveStage
    <3> QED BY <1>1, <2>2, <3>1 DEF ScannedInv
  <2>3. CASE VerifyUnits(r)
    <3>1. run[r].pc = "verifying" /\ UNCHANGED <<unit, job>>
      BY <2>3 DEF VerifyUnits
    <3>2. \A u \in Unit : unit[u].status \notin {"pending", "running"}
      BY <1>2, <2>3 DEF VerifyUnits, Goto, TypeOK, RunType, RunRow
    <3>3. \A u \in Unit : unit[u].status # "absent"
      BY <3>1 DEF ListedInv, ListedStage, Absent
    <3>4. \A u \in Unit : unit[u].status # "cancelled"
      BY <1>2, <3>1 DEF CancelInv
    <3> QED BY <3>1, <3>2, <3>3, <3>4 DEF Scanned, TypeOK, UnitType, UnitStatus
  <2> QED BY <2>1, <2>2, <2>3
<1>3. ASSUME job'.status = "completed" PROVE Scanned'
  <2>1. CASE job.status = "completed"
    BY <1>1, <2>1 DEF ScannedInv
  <2>2. CASE job.status # "completed"
    <3>1. PICK r \in Run : CompleteJob(r) /\ job.status \notin Terminal
      BY <1>3, <2>2, CompletedBy
    <3>2. run[r].pc = "completing" /\ job.status = "running"
      BY <3>1 DEF CompleteJob, EndJob, OwnerInv, Active, ActiveStage, Terminal
    <3> QED BY <1>1, <3>2 DEF ScannedInv
  <2> QED BY <2>1, <2>2
<1> QED BY <1>2, <1>3 DEF ScannedInv

\* If the addresses of a target fit in one batch, a completed job has scanned, or
\* refused with a reason, every address its targets expand to: no crash, Retry or
\* hand-back leaves one out (ensureUnits, ensurePlanUnitsTerminal).
THEOREM CompletedIsScanned ==
  ASSUME OwnReplicas, ReliableLease, OneBatch
  PROVE  Spec => []CompletedMeansScanned
<1>1. Init => CancelInv /\ ListedInv /\ ScannedInv
  BY DEF Init, CancelInv, ListedInv, ScannedInv, ListedStage, Absent, NotStarted
<1>2. TypeOK /\ OwnerInv /\ CancelInv /\ [Next]_vars => CancelInv'
  BY CancelInvStep
<1>3. TypeOK /\ ListedInv /\ [Next]_vars => ListedInv'
  BY ListedStep
<1>4. TypeOK /\ OwnerInv /\ CancelInv /\ ListedInv /\ ScannedInv /\ [Next]_vars => ScannedInv'
  BY ScannedStep
<1>5. ScannedInv => CompletedMeansScanned
  BY DEF ScannedInv, Scanned, CompletedMeansScanned
<1> QED BY <1>1, <1>2, <1>3, <1>4, <1>5, OwnerHolds, TypeCorrect, PTL DEF Spec

-----------------------------------------------------------------------------
(* A completed target has a host that was done *)

\* Each target has an address that is not refused: a target all of whose addresses
\* were, and whose run died before it settled it, is completed by the next run's end.
SomeAllowed == \A t \in Target : \E u \in UnitsOf(t) : u \notin Refusable

\* Of a target that is still open some unit has not failed, unless the job is
\* cancelled; and a run that closes the targets of a completed job finds it completed.
OpenInv ==
  /\ \A r \in Run : run[r].pc = "closing" /\ run[r].verdict = "completed"
                      => job.status = "completed"
  /\ job.status # "cancelled" =>
       \A t \in Target : target[t] \in Open => \E u \in UnitsOf(t) : unit[u].status # "failed"

\* Who fails a unit settles its target, or fails it too.
LEMMA FailStep ==
  ASSUME TypeOK, [Next]_vars, NEW u \in Unit, unit[u].status # "failed", unit'[u].status = "failed"
  PROVE  \/ \E r \in Run : ExpandBatch(r, TargetOf[u])
         \/ target' = SettleTargets(unit', {TargetOf[u]})
         \/ \A t \in Target : target'[t] \notin Open
<1>1. Inserted(u) \/ Worked(u)
  BY StatusStep DEF StatusMove, Same, Cancelled
<1>2. CASE Inserted(u)
  BY <1>2 DEF Inserted
<1>3. ASSUME NEW v \in Unit, NEW from, FailUnit(v, from)
      PROVE  target' = SettleTargets(unit', {TargetOf[u]})
  <2>1. u = v
    BY <1>3 DEF FailUnit, TypeOK, UnitType
  <2> QED BY <1>3, <2>1 DEF FailUnit
<1>4. CASE ReapStalledJob
  <2>1. CASE job.resumes < AutoResumeLimit
    BY <1>4, <2>1, SetUnitsStatus DEF ReapStalledJob
  <2>2. CASE ~(job.resumes < AutoResumeLimit)
    BY <1>4, <2>2 DEF ReapStalledJob, SetTargets, Open, TypeOK, TargetStatus
  <2> QED BY <2>1, <2>2
<1>5. CASE RequeueJobForRetry
  BY <1>5, SetUnitsStatus DEF RequeueJobForRetry
<1>6. ASSUME NEW r \in Run, RunStep(r), Worked(u)
      PROVE  \E v \in Unit : \E from \in {"pending", "running"} : FailUnit(v, from)
  <2>1. unit' # unit
    OBVIOUS
  <2>2. ~ResetOrphanedUnits(r) /\ ~SettleStopped(r)
    BY SetUnitsStatus DEF ResetOrphanedUnits, SettleStopped
  <2>3. ~RecordLiveness(r)
    <3>1. ASSUME RecordLiveness(r)
          PROVE  \/ unit'[u] = unit[u]
                 \/ unit'[u] = [unit[u] EXCEPT !.liveness = "up"]
                 \/ unit'[u] = [status |-> "done", attempts |-> unit[u].attempts + 1,
                               liveness |-> "down"]
      BY <3>1 DEF RecordLiveness
    <3> QED BY <3>1 DEF TypeOK, UnitType
  <2>4. ASSUME NEW v \in Unit, RunUnit(r, v)
        PROVE  \E from \in {"pending", "running"} : FailUnit(v, from)
    <3>1. ~ClaimUnit(r, v) /\ ~CommitUnit(r, v) /\ ~ReleaseUnit(r, v)
      BY DEF ClaimUnit, CommitUnit, ReleaseUnit, TypeOK, UnitType
    <3> QED
      BY <2>1, <2>4, <3>1
      DEF RunUnit, RefuseSwept, CheckUnit, RefuseUnit, SkipUnit, DiscardUnit, CommitRefused,
          FailScannedUnit, UnitWriteLost
  <2>5. ~ \E t \in Target : ExpandBatch(r, t)
    BY <1>6 DEF Worked, ExpandBatch, TypeOK, UnitType
  <2> QED
    BY <1>6, <2>1, <2>2, <2>3, <2>4, <2>5
    DEF RunStep, LoseClaim, RateLimited, SettleRefused, ClaimJob, Register, Begin, BeginStopped,
        SettleExpanded, ListSweep, SweepChunk, SweepStopped, ListUnits, StopPool, EndPortPhase,
        HandBack, VerifyUnits, CompleteJob, FailJob, EndJob, CloseTargets, Unregister,
        RunError, EndWriteLost
<1>7. CASE CancelUnits
  BY <1>7, SetUnitsStatus DEF CancelUnits
<1>8. CASE UNCHANGED unit
  BY <1>8
<1> QED
  BY <1>1, <1>2, <1>3, <1>4, <1>5, <1>6, <1>7, <1>8
  DEF Next, Deliver, ReplicaStep, Beat, CancelJob, Stop, Exit, Crash, Gone, Restart, CancelStep,
      CancelSignal, CancelTargets, CancelWriteLost, Lapse, vars

\* Every step keeps OpenInv.
LEMMA OpenStep ==
  ASSUME TypeOK, OneBatch, SomeAllowed, ListedInv, OpenInv, [Next]_vars
  PROVE  OpenInv'
<1>1. ASSUME NEW r \in Run, run'[r].pc = "closing", run'[r].verdict = "completed"
      PROVE  job'.status = "completed"
  <2>1. CASE run[r].pc = "closing" /\ run[r].verdict = "completed"
    BY <2>1, EndedStays DEF OpenInv
  <2>2. CASE RunStep(r)
    <3>1. CASE CompleteJob(r) \/ FailJob(r)
      BY <1>1, <3>1
      DEF CompleteJob, FailJob, EndJob, Goto, MoveJob, TypeOK, RunType, RunRow, JobType
    <3>2. ASSUME NEW u \in Unit, RunUnit(r, u)
          PROVE  run'[r].pc = run[r].pc /\ run'[r].verdict = run[r].verdict
      BY <3>2
      DEF RunUnit, RefuseSwept, CheckUnit, RefuseUnit, ClaimUnit, SkipUnit, CommitUnit,
          DiscardUnit, CommitRefused, FailScannedUnit, ReleaseUnit, UnitWriteLost, TypeOK,
          RunType, RunRow
    <3>3. CASE \/ Begin(r) \/ (\E t \in Target : SettleExpanded(r, t)) \/ ResetOrphanedUnits(r)
      BY <1>1, <3>3 DEF Begin, SettleExpanded, ResetOrphanedUnits, Goto, TypeOK, RunType, RunRow
    <3>4. CASE \/ LoseClaim(r) \/ RateLimited(r) \/ SettleRefused(r) \/ ClaimJob(r) \/ Register(r)
               \/ BeginStopped(r) \/ CloseTargets(r) \/ Unregister(r) \/ RunError(r)
               \/ EndWriteLost(r) \/ SettleStopped(r) \/ HandBack(r) \/ SweepStopped(r)
      BY <1>1, <3>4
      DEF LoseClaim, RateLimited, SettleRefused, ClaimJob, Register, BeginStopped, CloseTargets,
          Unregister, RunError, EndWriteLost, SettleStopped, HandBack, SweepStopped, Goto,
          Return, Over, NotStarted, TypeOK, RunType, RunRow
    <3>5. CASE ListSweep(r) \/ ListUnits(r) \/ EndPortPhase(r) \/ VerifyUnits(r) \/ StopPool(r)
      BY <1>1, <3>5
      DEF ListSweep, ListUnits, EndPortPhase, VerifyUnits, StopPool, Goto, TypeOK, RunType, RunRow
    <3> QED
      BY <1>1, <2>1, <2>2, <3>1, <3>2, <3>3, <3>4, <3>5
      DEF RunStep, ExpandBatch, SweepChunk, RecordLiveness
  <2>3. CASE ~RunStep(r)
    BY <1>1, <2>1, <2>3, StageStep
  <2> QED BY <2>2, <2>3
<1>2. ASSUME NEW t \in Target, job'.status # "cancelled", target'[t] \in Open
      PROVE  \E u \in UnitsOf(t) : unit'[u].status # "failed"
  <2>1. job.status # "cancelled"
    BY <1>2, EndedStays
  <2>2. CASE target[t] \in Open
    <3>1. PICK u \in UnitsOf(t) : unit[u].status # "failed"
      BY <2>1, <2>2 DEF OpenInv
    <3>2. u \in Unit /\ TargetOf[u] = t
      BY <3>1 DEF UnitsOf
    <3>3. CASE unit'[u].status # "failed"
      BY <3>1, <3>3
    <3>4. CASE unit'[u].status = "failed"
      <4>1. CASE \E r \in Run : ExpandBatch(r, t)
        <5>1. PICK refused \in SUBSET Refusable :
                \A v \in UnitsOf(t) :
                  unit'[v].status = IF v \in refused THEN "failed" ELSE "pending"
          BY <4>1, ExpandWhole
        <5> QED BY <5>1 DEF SomeAllowed
      <4>2. CASE target' = SettleTargets(unit', {t})
        <5>1. \E v \in UnitsOf(t) : unit'[v].status \in Open
          BY <1>2, <2>2, <4>2 DEF SettleTargets, Open
        <5> QED BY <5>1 DEF Open
      <4> QED BY <1>2, <3>1, <3>2, <3>4, <4>1, <4>2, FailStep
    <3> QED BY <3>3, <3>4
  <2>3. CASE target[t] \notin Open
    <3>1. RequeueJobForRetry
      BY <1>2, <2>3, TargetStep
      DEF TargetMove, Settled, CutShort, Closed, Reopened, Open, TypeOK, RunType, RunRow
    <3>2. PICK u \in UnitsOf(t) : u \notin Refusable
      BY DEF SomeAllowed
    <3>3. unit'[u].status # "failed"
      BY <3>1, <3>2, SetUnitsStatus DEF RequeueJobForRetry, UnitsOf, UnitStatus, TypeOK, UnitType
    <3> QED BY <3>2, <3>3
  <2> QED BY <2>2, <2>3
<1> QED BY <1>1, <1>2 DEF OpenInv

\* A target is completed with one of its units done, and it keeps that one.
LEMMA CompletedTargetStep ==
  ASSUME TypeOK, CancelInv, ScannedInv, OpenInv, CompletedTargetHasDoneUnit, [Next]_vars
  PROVE  CompletedTargetHasDoneUnit'
<1> SUFFICES ASSUME NEW t \in Target, target'[t] = "completed"
             PROVE  \E u \in UnitsOf(t) : unit'[u].status = "done"
  BY DEF CompletedTargetHasDoneUnit, UnitsOf
<1>1. ASSUME NEW u \in UnitsOf(t), unit[u].status = "done" PROVE unit'[u].status = "done"
  BY <1>1, FinishStep DEF Done, UnitsOf
<1>2. CASE target[t] = "completed"
  BY <1>1, <1>2 DEF CompletedTargetHasDoneUnit
<1>3. CASE Settled(t)
  BY <1>3 DEF Settled
<1>4. CASE Closed(t)
  <2>1. job.status = "completed"
    BY <1>4 DEF Closed, OpenInv
  <2>2. target[t] \in Open
    BY <1>4, <2>1 DEF Closed, CancelInv, Open, TypeOK, TargetStatus
  <2>3. PICK u \in UnitsOf(t) : unit[u].status # "failed"
    BY <2>1, <2>2 DEF OpenInv
  <2>4. unit[u].status = "done"
    BY <2>1, <2>3 DEF ScannedInv, Scanned, UnitsOf
  <2> QED BY <1>1, <2>4
<1> QED BY <1>2, <1>3, <1>4, TargetStep DEF TargetMove, CutShort, Reopened, Open

\* If, besides, each target has an address that is not refused, a target reads completed
\* only when some host of it was scanned or swept, whichever of SettleTarget and the
\* closing statement of UpdateJobStatusFrom said so.
THEOREM CompletedTargetIsDone ==
  ASSUME OwnReplicas, ReliableLease, OneBatch, SomeAllowed
  PROVE  Spec => []CompletedTargetHasDoneUnit
<1>1. Init => /\ CancelInv /\ ListedInv /\ ScannedInv
              /\ OpenInv /\ CompletedTargetHasDoneUnit
  <2>1. Init => CancelInv /\ ListedInv /\ ScannedInv
    BY DEF Init, CancelInv, ListedInv, ScannedInv, ListedStage, Absent, NotStarted
  <2>2. Init => OpenInv /\ CompletedTargetHasDoneUnit
    BY DEF Init, OpenInv, SomeAllowed, CompletedTargetHasDoneUnit, UnitsOf, NotStarted
  <2> QED BY <2>1, <2>2
<1>2. TypeOK /\ OwnerInv /\ CancelInv /\ [Next]_vars => CancelInv'
  BY CancelInvStep
<1>3. TypeOK /\ ListedInv /\ [Next]_vars => ListedInv'
  BY ListedStep
<1>4. TypeOK /\ OwnerInv /\ CancelInv /\ ListedInv /\ ScannedInv /\ [Next]_vars => ScannedInv'
  BY ScannedStep
<1>5. TypeOK /\ ListedInv /\ OpenInv /\ [Next]_vars => OpenInv'
  BY OpenStep
<1>6. TypeOK /\ CancelInv /\ ScannedInv /\ OpenInv /\ CompletedTargetHasDoneUnit /\ [Next]_vars
        => CompletedTargetHasDoneUnit'
  BY CompletedTargetStep
<1> QED BY <1>1, <1>2, <1>3, <1>4, <1>5, <1>6, OwnerHolds, TypeCorrect, PTL DEF Spec
=============================================================================
