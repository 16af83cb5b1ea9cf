----------------------------- MODULE BatchClaim -----------------------------
(***************************************************************************)
(* The discovery-processor's queue: rows of sensor_discoveries, claimed in *)
(* batches by the drain loop of every replica, imported into               *)
(* inventory-service chunk by chunk, and settled row by row.               *)
(*                                                                         *)
(* A claim is a stamp, claimed_at, that is new every time and only ever    *)
(* compared with the one its worker holds: a row's claim is therefore the  *)
(* worker that holds its stamp, or Lost when no worker does.  Whether a    *)
(* stamp is old enough to be taken over, or a backoff is over, is the      *)
(* row's ripe flag.                                                        *)
(***************************************************************************)
EXTENDS Naturals, FiniteSets

CONSTANTS
  Worker,                \* drain loops, one per replica
  Row,                   \* rows, numbered in the order of created_at
  BatchOf,               \* BatchOf[r]: the batch_id of the row
  Survivor,              \* the passive row a TLS enrichment row folds into, or the row itself
  Late,                  \* rows inserted after the start
  Free, Lost,            \* claims: none (NULL, or the end of a backoff); one no worker holds
  BatchClaimRowLimit, ImportChunkSize,
  MaxAttempts, MaxTransientAttempts,   \* RetryPolicy
  Failures,              \* kinds of row failures that happen, among FailureKind
  FaultLimit             \* bound on crashes, database errors and slow claims

FailureKind == {"permanent", "transient", "plain"}

ASSUME RowAssumption    == Row \subseteq Nat /\ Late \subseteq Row /\ Survivor \in [Row -> Row]
ASSUME FoldAssumption   == \A r \in Row : Survivor[Survivor[r]] = Survivor[r]
ASSUME ClaimAssumption  == Free # Lost /\ Free \notin Worker /\ Lost \notin Worker
ASSUME BudgetAssumption == /\ MaxAttempts \in Nat \ {0} /\ MaxTransientAttempts \in Nat
                           /\ MaxAttempts <= MaxTransientAttempts
ASSUME LimitAssumption  == /\ BatchClaimRowLimit \in Nat \ {0} /\ ImportChunkSize \in Nat \ {0}
                           /\ FaultLimit \in Nat /\ Failures \subseteq FailureKind

VARIABLES
  row,        \* the rows: status (processed_at and approval_status), claim (claimed_at),
              \* ripe, attempts, and plain, how many failures were not transient
  worker,     \* processNextBatch of each worker: where it is, its batch and its verdicts
  imported,   \* rows whose finding inventory-service has accepted at some time
  faults      \* crashes, database errors and slow claims so far

batchVars == <<row, worker, imported, faults>>

-----------------------------------------------------------------------------
RowStatus == {"absent", "pending", "landed", "rejected"}
Verdict   == {"none", "todo", "folded", "landed"} \cup FailureKind
Batch     == {BatchOf[r] : r \in Row}
Idle      == [at |-> "idle", batch |-> Free, verdict |-> [r \in Row |-> "none"]]

TypeOK ==
  /\ row \in [Row -> [status: RowStatus, claim: Worker \cup {Free, Lost}, ripe: BOOLEAN,
                      attempts: 0..MaxTransientAttempts, plain: 0..MaxTransientAttempts]]
  /\ worker \in [Worker -> [at: {"idle", "claimed", "read", "renewing", "sending", "marking",
                                 "settling", "failing"},
                            batch: Batch \cup {Free}, verdict: [Row -> Verdict]]]
  /\ imported \subseteq Row
  /\ faults \in 0..FaultLimit

Init ==
  /\ row = [r \in Row |-> [status |-> IF r \in Late THEN "absent" ELSE "pending", claim |-> Free,
                           ripe |-> TRUE, attempts |-> 0, plain |-> 0]]
  /\ worker = [w \in Worker |-> Idle]
  /\ imported = {}
  /\ faults = 0

-----------------------------------------------------------------------------
(* Rows and claims *)

Oldest(rows, n) == {r \in rows : Cardinality({q \in rows : q < r}) < n}

\* The rows that carry the claim of w.
Ours(w) == {r \in Row : row[r].claim = w}
Read(w) == {r \in Row : worker[w].verdict[r] # "none"}
With(w, v) == {r \in Row : worker[w].verdict[r] = v}

GoTo(w, at) == worker' = [worker EXCEPT ![w].at = at]

\* w returns to the drain loop, leaving the rows as given: a claim among them is lost.
GiveUp(w, rows) ==
  /\ worker' = [worker EXCEPT ![w] = Idle]
  /\ row' = [r \in Row |-> IF rows[r].claim = w THEN [rows[r] EXCEPT !.claim = Lost] ELSE rows[r]]

\* The rows with a new claim of w on those in rs.
Claimed(w, rs) ==
  [r \in Row |-> IF r \in rs THEN [row[r] EXCEPT !.claim = w, !.ripe = FALSE] ELSE row[r]]

CanFault == faults < FaultLimit
Fault    == faults' = faults + 1

-----------------------------------------------------------------------------
(* claimNextBatch *)

\* Variant of Claimable: a claimed row is never taken over.
ClaimableUnclaimed(r) == row[r].status = "pending" /\ row[r].ripe /\ row[r].claim = Free

Claimable(r) == row[r].status = "pending" /\ row[r].ripe

\* A row is written into a batch, possibly one that is being worked on.
Arrive(r) ==
  /\ row[r].status = "absent"
  /\ row' = [row EXCEPT ![r].status = "pending"]
  /\ UNCHANGED <<worker, imported, faults>>

\* The batch of the oldest claimable row, and its oldest claimable rows.
ClaimNextBatch(w) ==
  /\ worker[w].at = "idle"
  /\ \E oldest \in Oldest({r \in Row : Claimable(r)}, 1) :
       LET b == BatchOf[oldest]
       IN /\ row' = Claimed(w, Oldest({r \in Row : Claimable(r) /\ BatchOf[r] = b},
                                      BatchClaimRowLimit))
          /\ worker' = [worker EXCEPT ![w].at = "claimed", ![w].batch = b]
  /\ UNCHANGED <<imported, faults>>

-----------------------------------------------------------------------------
(* processBatch *)

\* The rows of the claim are read: some cannot be decoded, and a TLS enrichment row
\* is folded into its survivor if that was read too.  A read of no rows is an error.
ReadRows(w) ==
  /\ worker[w].at = "claimed"
  /\ \E bad \in SUBSET Ours(w) :
       LET good == Ours(w) \ bad
           v == [r \in Row |-> CASE r \in bad -> "permanent"
                                 [] r \in good /\ Survivor[r] \in good \ {r} -> "folded"
                                 [] r \in good -> "todo"
                                 [] OTHER -> "none"]
       IN /\ bad = {} \/ "permanent" \in Failures
          /\ worker' = [worker EXCEPT
               ![w].verdict = v,
               ![w].at = IF Ours(w) = {} THEN "failing" ELSE IF good = {} THEN "settling" ELSE "read"]
  /\ UNCHANGED <<row, imported, faults>>

ReadFails(w) ==
  /\ worker[w].at = "claimed" /\ CanFault /\ Fault
  /\ GoTo(w, "failing")
  /\ UNCHANGED <<row, imported>>

AfterRenewal(at) == IF at = "read" THEN "renewing" ELSE "sending"

\* renewClaim, before the lookups and before every chunk: the rows that carry the
\* stamp get a new one.  If some do not, the worker leaves them all.
RenewClaim(w) ==
  /\ worker[w].at \in {"read", "renewing"}
  /\ IF Cardinality(Ours(w)) < Cardinality(Read(w)) THEN GiveUp(w, Claimed(w, Ours(w)))
     ELSE row' = Claimed(w, Ours(w)) /\ GoTo(w, AfterRenewal(worker[w].at))
  /\ UNCHANGED <<imported, faults>>

\* Any other failure of the renewal is logged and ignored.
RenewFails(w) ==
  /\ worker[w].at \in {"read", "renewing"} /\ CanFault /\ Fault
  /\ GoTo(w, AfterRenewal(worker[w].at))
  /\ UNCHANGED <<row, imported>>

\* ImportFindings of one chunk, halved where it is refused for its content: a
\* verdict for each row.  One whose answer is lost may have been accepted.
ImportChunk(w) ==
  /\ worker[w].at = "sending"
  /\ LET chunk == Oldest(With(w, "todo"), ImportChunkSize)
     IN \E verdict \in [chunk -> Failures \cup {"landed"}] :
        \E accepted \in SUBSET {r \in chunk : verdict[r] = "transient"} :
          /\ worker' = [worker EXCEPT
               ![w].verdict = [r \in Row |-> IF r \in chunk THEN verdict[r] ELSE @[r]],
               ![w].at = IF chunk = With(w, "todo") THEN "marking" ELSE "renewing"]
          /\ imported' = imported \cup accepted \cup {r \in chunk : verdict[r] = "landed"}
  /\ UNCHANGED <<row, faults>>

-----------------------------------------------------------------------------
(* markProcessed and the row failures *)

\* rows, and the rows folded into one of them.
WithFolded(w, rows) == rows \cup {r \in With(w, "folded") : Survivor[r] \in rows}
Marks(w)    == WithFolded(w, With(w, "landed"))
Failed(w)   == {r \in Row : worker[w].verdict[r] \in Failures}
KindOf(w, r) == IF worker[w].verdict[r] = "folded" THEN worker[w].verdict[Survivor[r]]
                                                   ELSE worker[w].verdict[r]

Landed(rows) == [r \in Row |-> IF r \in rows THEN [row[r] EXCEPT !.status = "landed", !.claim = Free]
                                              ELSE row[r]]

\* Variants of MarkProcessed: the stamps are not fenced; rows that failed are
\* stamped with the rest.
MarkProcessedUnfenced(w) ==
  /\ worker[w].at = "marking"
  /\ row' = Landed(Marks(w)) /\ GoTo(w, "settling")
  /\ UNCHANGED <<imported, faults>>
MarkProcessedAll(w) ==
  /\ worker[w].at = "marking"
  /\ IF Read(w) \subseteq Ours(w) THEN row' = Landed(Read(w)) /\ GoTo(w, "settling")
                                 ELSE GiveUp(w, row)
  /\ UNCHANGED <<imported, faults>>

\* One transaction, fenced on the claim: every row that landed is stamped, or none.
MarkProcessed(w) ==
  /\ worker[w].at = "marking"
  /\ IF Marks(w) \subseteq Ours(w) THEN row' = Landed(Marks(w)) /\ GoTo(w, "settling")
                                  ELSE GiveUp(w, row)
  /\ UNCHANGED <<imported, faults>>

\* A statement that fails, and one that does not reach the database.
DatabaseFailure == {"plain", "transient"} \cap Failures

\* The rows could not be stamped: each is charged an attempt.
MarkFails(w) ==
  /\ worker[w].at = "marking" /\ CanFault /\ Fault
  /\ \E kind \in DatabaseFailure :
       worker' = [worker EXCEPT
         ![w].at = "settling",
         ![w].verdict = [r \in Row |-> IF @[r] = "landed" THEN kind ELSE @[r]]]
  /\ UNCHANGED <<row, imported>>

\* Variants of Terminal: every failure is held to the ordinary budget; one attempt
\* more.
TerminalOneBudget(r, kind) == kind = "permanent" \/ row[r].attempts + 1 >= MaxAttempts
TerminalOneMore(r, kind) ==
  kind = "permanent" \/ row[r].attempts >= IF kind = "transient" THEN MaxTransientAttempts
                                                                   ELSE MaxAttempts

\* failureTerminal: permanent, or the attempts its class allows are spent.
Terminal(r, kind) ==
  kind = "permanent" \/ row[r].attempts + 1 >= IF kind = "transient" THEN MaxTransientAttempts
                                                                     ELSE MaxAttempts

\* failureSet: the attempt is counted, and the row settled or released with a backoff.
Charge(r, kind) ==
  LET charged == [row[r] EXCEPT !.attempts = @ + 1,
                                !.plain = IF kind = "transient" THEN @ ELSE @ + 1]
  IN IF Terminal(r, kind) THEN [charged EXCEPT !.status = "rejected", !.claim = Free]
                          ELSE [charged EXCEPT !.claim = Free, !.ripe = FALSE]

\* Variant of SettleFailures: the rows folded into a failed one are left out.
SettleFailuresUnfolded(w) ==
  /\ worker[w].at = "settling"
  /\ GiveUp(w, [r \in Row |-> IF r \in Failed(w) \cap Ours(w) THEN Charge(r, KindOf(w, r))
                                                             ELSE row[r]])
  /\ UNCHANGED <<imported, faults>>

\* settleFailures, fenced: the rows that failed and those folded into them.
SettleFailures(w) ==
  /\ worker[w].at = "settling"
  /\ GiveUp(w, [r \in Row |-> IF r \in WithFolded(w, Failed(w)) \cap Ours(w)
                             THEN Charge(r, KindOf(w, r)) ELSE row[r]])
  /\ UNCHANGED <<imported, faults>>

SettleFails(w) ==
  /\ worker[w].at = "settling" /\ Failed(w) # {} /\ CanFault /\ Fault
  /\ GoTo(w, "failing")
  /\ UNCHANGED <<row, imported>>

\* Variant of RecordBatchFailure: every unprocessed row of the batch is charged.
RecordBatchFailureWhole(w) ==
  /\ worker[w].at = "failing"
  /\ \E kind \in DatabaseFailure :
       GiveUp(w, [r \in Row |-> IF BatchOf[r] = worker[w].batch /\ row[r].status = "pending"
                               THEN Charge(r, kind) ELSE row[r]])
  /\ UNCHANGED <<imported, faults>>

\* The batch failed as a whole: every row still under the claim is charged.
RecordBatchFailure(w) ==
  /\ worker[w].at = "failing"
  /\ \E kind \in DatabaseFailure :
       GiveUp(w, [r \in Row |-> IF r \in Ours(w) THEN Charge(r, kind) ELSE row[r]])
  /\ UNCHANGED <<imported, faults>>

\* A crash anywhere, or a failure that cannot be recorded: the rows keep their claim.
Crash(w) ==
  /\ worker[w].at # "idle" /\ CanFault /\ Fault
  /\ GiveUp(w, row)
  /\ UNCHANGED imported

-----------------------------------------------------------------------------
(* Time *)

\* The backoff of a row is over.
Ripen(r) ==
  /\ row[r].status = "pending" /\ row[r].claim = Free /\ ~row[r].ripe
  /\ row' = [row EXCEPT ![r].ripe = TRUE]
  /\ UNCHANGED <<worker, imported, faults>>

\* batchClaimTimeout passes: over a claim nobody holds, or over that of a slow worker.
LapseLost(r) ==
  /\ row[r].claim = Lost /\ ~row[r].ripe
  /\ row' = [row EXCEPT ![r].ripe = TRUE]
  /\ UNCHANGED <<worker, imported, faults>>
LapseSlow(w) ==
  /\ \E r \in Ours(w) : ~row[r].ripe
  /\ CanFault /\ Fault
  /\ row' = [r \in Row |-> IF r \in Ours(w) THEN [row[r] EXCEPT !.ripe = TRUE] ELSE row[r]]
  /\ UNCHANGED <<worker, imported>>

-----------------------------------------------------------------------------
WorkerStep(w) ==
  \/ ReadRows(w) \/ RenewClaim(w) \/ ImportChunk(w) \/ MarkProcessed(w)
  \/ SettleFailures(w) \/ RecordBatchFailure(w)

WorkerFault(w) ==
  \/ ReadFails(w) \/ RenewFails(w) \/ MarkFails(w) \/ SettleFails(w)
  \/ Crash(w) \/ LapseSlow(w)

Next ==
  \/ \E w \in Worker : ClaimNextBatch(w) \/ WorkerStep(w) \/ WorkerFault(w)
  \/ \E r \in Row : Arrive(r) \/ Ripen(r) \/ LapseLost(r)

Spec == Init /\ [][Next]_batchVars

\* The drain loops run while their processes live, and time passes.
Fairness ==
  /\ \A w \in Worker : WF_batchVars(ClaimNextBatch(w)) /\ WF_batchVars(WorkerStep(w))
  /\ \A r \in Row : WF_batchVars(Ripen(r)) /\ WF_batchVars(LapseLost(r))

FairSpec == Spec /\ Fairness

-----------------------------------------------------------------------------
(* Properties *)

Settled == {"landed", "rejected"}

\* A row's fate is decided once: a worker whose claim was taken over does not write
\* over what the new owner wrote (the fence of markProcessed and recordRowFailures).
FateIsFinal ==
  [][\A r \in Row : row[r].status \in Settled => row'[r].status = row[r].status]_batchVars

\* A row reads processed only if inventory-service accepted its finding, or that of
\* the row it was folded into (importFailed, processedMarks.followers).
LandedWereImported ==
  \A r \in Row : row[r].status = "landed" => r \in imported \/ Survivor[r] \in imported

\* A row is charged an attempt only by the worker whose claim it carries, not for
\* the failure of its batch-mates under another claim or in backoff.
ChargedByItsClaim ==
  [][\A r \in Row : row'[r].attempts > row[r].attempts
       => row[r].claim \in Worker /\ worker'[row[r].claim].at = "idle"]_batchVars

\* A row folded into another leaves the claim together with it: it lands in the step
\* its survivor lands in, and is charged in the step its survivor is charged in.
FoldedGoTogether ==
  [][\A w \in Worker : \A r \in With(w, "folded") \cap Ours(w) :
       LET s == Survivor[r]
       IN s \in Ours(w) /\ row'[s].claim = Free
            => /\ row'[r].status = "landed" <=> row'[s].status = "landed"
               /\ row'[r].attempts - row[r].attempts = row'[s].attempts - row[s].attempts]_batchVars

\* An outage of inventory-service rejects nothing before the transient budget is
\* spent, however many claims and workers the attempts were spread over.
OutageRejectsNothing ==
  \A r \in Row : row[r].status = "rejected" /\ row[r].plain = 0
                   => row[r].attempts = MaxTransientAttempts

\* Every row is settled in the end, though its workers crash, lose their claims
\* and fail to record what they did, FaultLimit times.
RowsSettle ==
  \A r \in Row : row[r].status = "pending" ~> row[r].status \in Settled

=============================================================================
