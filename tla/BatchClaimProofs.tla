-------------------------- MODULE BatchClaimProofs --------------------------
(***************************************************************************)
(* The safety properties of BatchClaim, for any number of workers, rows    *)
(* and faults.                                                             *)
(***************************************************************************)
EXTENDS BatchClaim, TLAPS

RowRec    == [status: RowStatus, claim: Worker \cup {Free, Lost}, ripe: BOOLEAN,
              attempts: 0..MaxTransientAttempts, plain: 0..MaxTransientAttempts]
WorkerRec == [at: {"idle", "claimed", "read", "renewing", "sending", "marking", "settling",
                   "failing"},
              batch: Batch \cup {Free}, verdict: [Row -> Verdict]]

\* A row has a claim only while its fate is open, and an attempt left as long; an
\* attempt that was not an outage is counted apart.
RowInv(x) ==
  /\ x.claim # Free => x.status = "pending"
  /\ x.status \in {"absent", "pending"} => x.attempts < MaxTransientAttempts
  /\ x.status = "rejected" /\ x.plain = 0 => x.attempts = MaxTransientAttempts
  /\ x.plain <= x.attempts
RowsInv == \A r \in Row : RowInv(row[r])

\* A verdict is given by the policy's classes; what landed was accepted; a row is
\* folded only into another, which is not itself folded.
VerdictOk(x, accepted) ==
  \A r \in Row : /\ x.verdict[r] \in FailureKind => x.verdict[r] \in Failures
                 /\ x.verdict[r] = "landed" => r \in accepted
                 /\ x.verdict[r] = "folded" => Survivor[r] # r
VerdictInv == \A w \in Worker : VerdictOk(worker[w], imported)

BatchInv == TypeOK /\ RowsInv /\ VerdictInv

-----------------------------------------------------------------------------
(* Rows *)

LEMMA Limits ==
  /\ MaxTransientAttempts \in Nat /\ MaxAttempts \in Nat /\ 0 < MaxAttempts
  /\ MaxAttempts <= MaxTransientAttempts
BY BudgetAssumption

LEMMA RowUpdates ==
  ASSUME NEW x \in RowRec, RowInv(x), x.status = "pending", NEW w \in Worker
  PROVE  /\ [x EXCEPT !.claim = w, !.ripe = FALSE] \in RowRec
         /\ RowInv([x EXCEPT !.claim = w, !.ripe = FALSE])
         /\ [x EXCEPT !.status = "landed", !.claim = Free] \in RowRec
         /\ RowInv([x EXCEPT !.status = "landed", !.claim = Free])
         /\ [x EXCEPT !.claim = Lost] \in RowRec
         /\ RowInv([x EXCEPT !.claim = Lost])
         /\ [x EXCEPT !.ripe = TRUE] \in RowRec
         /\ RowInv([x EXCEPT !.ripe = TRUE])
BY ClaimAssumption, Limits DEF RowRec, RowInv, RowStatus

LEMMA ChargeFacts ==
  ASSUME TypeOK, RowsInv, NEW r \in Row, row[r].status = "pending", NEW kind \in FailureKind
  PROVE  /\ Charge(r, kind) \in RowRec /\ RowInv(Charge(r, kind))
         /\ Charge(r, kind).claim = Free /\ Charge(r, kind).status \in {"pending", "rejected"}
         /\ Charge(r, kind).attempts = row[r].attempts + 1
<1> DEFINE x == row[r]
<1>1. /\ x \in RowRec /\ x.attempts \in Nat /\ x.plain \in Nat
      /\ x.attempts < MaxTransientAttempts /\ x.plain <= x.attempts
  BY Limits DEF TypeOK, RowRec, RowsInv, RowInv
<1> DEFINE charged == [x EXCEPT !.attempts = @ + 1,
                                !.plain = IF kind = "transient" THEN @ ELSE @ + 1]
<1>2. /\ charged.attempts = x.attempts + 1
      /\ charged.plain = IF kind = "transient" THEN x.plain ELSE x.plain + 1
      /\ charged.status = "pending" /\ charged \in RowRec
  <2>1. x.attempts + 1 \in 0..MaxTransientAttempts /\ x.plain + 1 \in 0..MaxTransientAttempts
    BY <1>1, Limits
  <2> QED BY <1>1, <2>1 DEF RowRec
<1> HIDE DEF x
<1>3. CASE Terminal(r, kind)
  <2> DEFINE settled == [charged EXCEPT !.status = "rejected", !.claim = Free]
  <2>1. Charge(r, kind) = settled
    BY <1>3 DEF Charge, x
  <2>2. /\ settled.status = "rejected" /\ settled.claim = Free /\ settled \in RowRec
        /\ settled.attempts = charged.attempts /\ settled.plain = charged.plain
    <3> HIDE DEF charged
    <3> QED BY <1>2 DEF RowRec, RowStatus
  <2>3. kind = "transient" => x.attempts + 1 >= MaxTransientAttempts
    BY <1>3 DEF Terminal, x
  <2> HIDE DEF settled, charged
  <2>4. settled.plain = 0 => settled.attempts = MaxTransientAttempts
    BY <1>1, <1>2, <2>2, <2>3, Limits
  <2>5. settled.plain <= settled.attempts
    BY <1>1, <1>2, <2>2
  <2> QED BY <1>2, <2>1, <2>2, <2>4, <2>5 DEF RowInv, x
<1>4. CASE ~Terminal(r, kind)
  <2> DEFINE released == [charged EXCEPT !.claim = Free, !.ripe = FALSE]
  <2>1. Charge(r, kind) = released
    BY <1>4 DEF Charge, x
  <2>2. /\ released.status = "pending" /\ released.claim = Free /\ released \in RowRec
        /\ released.attempts = charged.attempts /\ released.plain = charged.plain
    <3> HIDE DEF charged
    <3> QED BY <1>2 DEF RowRec
  <2>3. x.attempts + 1 < MaxTransientAttempts
    <3>1. ~(x.attempts + 1 >= IF kind = "transient" THEN MaxTransientAttempts ELSE MaxAttempts)
      BY <1>4 DEF Terminal, x
    <3> QED BY <1>1, <3>1, Limits
  <2> HIDE DEF released, charged
  <2>4. released.plain <= released.attempts
    BY <1>1, <1>2, <2>2
  <2> QED BY <1>2, <2>1, <2>2, <2>3, <2>4 DEF RowInv, x
<1> QED BY <1>3, <1>4

-----------------------------------------------------------------------------
(* What a step does to a row *)

\* It is claimed, renewed or left by its worker, or its claim or backoff grows old.
Passes(r) ==
  /\ row[r].status = "pending"
  /\ \/ row'[r] = [row[r] EXCEPT !.ripe = TRUE]
     \/ \E c \in Worker \cup {Lost} : \E b \in BOOLEAN :
          row'[r] = [row[r] EXCEPT !.claim = c, !.ripe = b]

Lands(w, r) ==
  /\ row[r].claim = w /\ MarkProcessed(w) /\ r \in Marks(w)
  /\ row'[r] = [row[r] EXCEPT !.status = "landed", !.claim = Free]

IsCharged(w, r) ==
  /\ row[r].claim = w /\ worker'[w].at = "idle"
  /\ SettleFailures(w) \/ RecordBatchFailure(w)
  /\ \E kind \in FailureKind : row'[r] = Charge(r, kind)

RowMove(r) ==
  \/ row'[r] = row[r]
  \/ row[r].status = "absent" /\ row'[r] = [row[r] EXCEPT !.status = "pending"]
  \/ Passes(r)
  \/ \E w \in Worker : Lands(w, r) \/ IsCharged(w, r)

\* A claimed row is open.
LEMMA OpenClaims ==
  ASSUME TypeOK, RowsInv, NEW w \in Worker, NEW r \in Ours(w)
  PROVE  r \in Row /\ row[r].status = "pending" /\ row[r] \in RowRec /\ row[r].claim = w
BY ClaimAssumption DEF TypeOK, RowsInv, RowInv, Ours, RowRec

LEMMA SameClaim ==
  ASSUME NEW x \in RowRec, x.claim \in Worker \cup {Lost}
  PROVE  /\ x = [x EXCEPT !.claim = x.claim, !.ripe = x.ripe]
         /\ [x EXCEPT !.claim = Lost] = [x EXCEPT !.claim = Lost, !.ripe = x.ripe]
BY DEF RowRec

LEMMA LeavesRow ==
  ASSUME TypeOK, RowsInv, NEW w \in Worker, NEW r \in Row, NEW rows, rows[r] = row[r],
         GiveUp(w, rows)
  PROVE  RowMove(r)
<1>0. row[r] \in RowRec
  BY DEF TypeOK, RowRec
<1>1. row'[r] = IF rows[r].claim = w THEN [rows[r] EXCEPT !.claim = Lost] ELSE rows[r]
  BY DEF GiveUp
<1>2. CASE row[r].claim = w
  <2>1. r \in Ours(w)
    BY <1>2 DEF Ours
  <2>2. row[r].status = "pending" /\ row[r].ripe \in BOOLEAN
    BY <1>0, <2>1, OpenClaims DEF RowRec
  <2>3. row'[r] = [row[r] EXCEPT !.claim = Lost, !.ripe = row[r].ripe]
    BY <1>0, <1>1, <1>2, SameClaim
  <2> QED BY <2>2, <2>3 DEF RowMove, Passes
<1>3. CASE row[r].claim # w
  BY <1>1, <1>3 DEF RowMove
<1> QED BY <1>2, <1>3

LEMMA ChargesRow ==
  ASSUME TypeOK, RowsInv, NEW w \in Worker, NEW r \in Ours(w), NEW kind \in FailureKind,
         NEW rows, rows[r] = Charge(r, kind), GiveUp(w, rows),
         SettleFailures(w) \/ RecordBatchFailure(w)
  PROVE  IsCharged(w, r)
<1>1. row'[r] = IF rows[r].claim = w THEN [rows[r] EXCEPT !.claim = Lost] ELSE rows[r]
  BY OpenClaims DEF GiveUp
<1>2. rows[r].claim # w
  BY OpenClaims, ChargeFacts, ClaimAssumption
<1>3. worker'[w] = Idle
  BY DEF GiveUp, TypeOK
<1> QED BY <1>1, <1>2, <1>3, OpenClaims DEF IsCharged, Idle

LEMMA WorkerMoves ==
  ASSUME BatchInv, NEW w \in Worker, ClaimNextBatch(w) \/ WorkerStep(w) \/ WorkerFault(w),
         NEW r \in Row
  PROVE  RowMove(r)
<1>0. TypeOK /\ RowsInv /\ VerdictInv /\ row[r] \in RowRec
  BY DEF BatchInv, TypeOK, RowRec
<1>1. CASE UNCHANGED row
  BY <1>1 DEF RowMove
<1>2. ASSUME NEW rs \in SUBSET Row, \A q \in rs : row[q].status = "pending",
             row' = Claimed(w, rs)
      PROVE  RowMove(r)
  BY <1>2 DEF Claimed, RowMove, Passes
<1>3. CASE ClaimNextBatch(w)
  <2>1. PICK rs \in SUBSET Row : row' = Claimed(w, rs) /\ \A q \in rs : Claimable(q)
    <3>1. PICK b : row' = Claimed(w, Oldest({q \in Row : Claimable(q) /\ BatchOf[q] = b},
                                            BatchClaimRowLimit))
      BY <1>3 DEF ClaimNextBatch
    <3>2. \A q \in Oldest({q \in Row : Claimable(q) /\ BatchOf[q] = b}, BatchClaimRowLimit) :
            q \in Row /\ Claimable(q)
      BY DEF Oldest
    <3> QED BY <3>1, <3>2
  <2> QED BY <1>2, <2>1 DEF Claimable
<1>4. CASE RenewClaim(w)
  <2>0. Ours(w) \in SUBSET Row /\ \A q \in Ours(w) : row[q].status = "pending"
    BY <1>0, OpenClaims DEF Ours
  <2>1. CASE row' = Claimed(w, Ours(w))
    BY <1>2, <2>0, <2>1
  <2>2. CASE GiveUp(w, Claimed(w, Ours(w)))
    <3>1. CASE r \in Ours(w)
      <4>1. Claimed(w, Ours(w))[r] = [row[r] EXCEPT !.claim = w, !.ripe = FALSE]
        BY <3>1 DEF Claimed
      <4>2. row'[r] = [row[r] EXCEPT !.claim = Lost, !.ripe = FALSE]
        BY <1>0, <2>2, <4>1 DEF GiveUp, RowRec
      <4> QED BY <2>0, <3>1, <4>2 DEF RowMove, Passes
    <3>2. CASE r \notin Ours(w)
      <4>1. Claimed(w, Ours(w))[r] = row[r]
        BY <3>2 DEF Claimed
      <4> QED BY <1>0, <2>2, <4>1, LeavesRow
    <3> QED BY <3>1, <3>2
  <2> QED BY <1>4, <2>1, <2>2 DEF RenewClaim
<1>5. CASE MarkProcessed(w)
  <2>1. CASE GiveUp(w, row)
    BY <1>0, <2>1, LeavesRow
  <2>2. CASE Marks(w) \subseteq Ours(w) /\ row' = Landed(Marks(w))
    <3>1. CASE r \in Marks(w)
      BY <1>0, <1>5, <2>2, <3>1, OpenClaims DEF Landed, RowMove, Lands
    <3>2. CASE r \notin Marks(w)
      BY <2>2, <3>2 DEF Landed, RowMove
    <3> QED BY <3>1, <3>2
  <2> QED BY <1>5, <2>1, <2>2 DEF MarkProcessed
<1>6. CASE SettleFailures(w)
  <2> DEFINE rs == WithFolded(w, Failed(w)) \cap Ours(w)
             rows == [q \in Row |-> IF q \in rs THEN Charge(q, KindOf(w, q)) ELSE row[q]]
  <2>1. GiveUp(w, rows)
    BY <1>6 DEF SettleFailures
  <2>2. CASE r \in rs
    <3>1. KindOf(w, r) \in FailureKind
      BY <1>0, <2>2, LimitAssumption
      DEF WithFolded, Failed, With, KindOf, FailureKind, VerdictInv, VerdictOk
    <3>2. rows[r] = Charge(r, KindOf(w, r)) /\ r \in Ours(w)
      BY <2>2
    <3> HIDE DEF rows
    <3> QED BY <1>0, <1>6, <2>1, <3>1, <3>2, ChargesRow DEF RowMove
  <2>3. CASE r \notin rs
    <3>1. rows[r] = row[r]
      BY <2>3
    <3> HIDE DEF rows
    <3> QED BY <1>0, <2>1, <3>1, LeavesRow
  <2> QED BY <2>2, <2>3
<1>7. CASE RecordBatchFailure(w)
  <2>1. PICK kind \in FailureKind :
          GiveUp(w, [q \in Row |-> IF q \in Ours(w) THEN Charge(q, kind) ELSE row[q]])
    BY <1>7 DEF RecordBatchFailure, DatabaseFailure, FailureKind
  <2> DEFINE rows == [q \in Row |-> IF q \in Ours(w) THEN Charge(q, kind) ELSE row[q]]
  <2>2. GiveUp(w, rows) /\ rows[r] = IF r \in Ours(w) THEN Charge(r, kind) ELSE row[r]
    BY <2>1
  <2> HIDE DEF rows
  <2> QED BY <1>0, <1>7, <2>2, LeavesRow, ChargesRow DEF RowMove
<1>8. CASE Crash(w)
  BY <1>0, <1>8, LeavesRow DEF Crash
<1>9. CASE LapseSlow(w)
  <2>1. row'[r] = row[r] \/ (r \in Ours(w) /\ row'[r] = [row[r] EXCEPT !.ripe = TRUE])
    BY <1>9 DEF LapseSlow
  <2> QED BY <1>0, <2>1, OpenClaims DEF RowMove, Passes
<1> QED
  BY <1>1, <1>3, <1>4, <1>5, <1>6, <1>7, <1>8, <1>9
  DEF WorkerStep, WorkerFault, ReadRows, ImportChunk, ReadFails, RenewFails, MarkFails, SettleFails

LEMMA RowStep == ASSUME BatchInv, [Next]_batchVars, NEW r \in Row PROVE RowMove(r)
<1>0. \A q \in Row : row[q] \in RowRec /\ RowInv(row[q])
  BY DEF BatchInv, TypeOK, RowRec, RowsInv
<1>1. CASE UNCHANGED row
  BY <1>1 DEF RowMove
<1>2. ASSUME NEW q \in Row, Arrive(q) PROVE RowMove(r)
  BY <1>0, <1>2 DEF Arrive, RowMove, BatchInv, TypeOK
<1>3. ASSUME NEW q \in Row, Ripen(q) \/ LapseLost(q) PROVE RowMove(r)
  <2>1. row' = [row EXCEPT ![q].ripe = TRUE] /\ row[q].status = "pending"
    BY <1>0, <1>3, ClaimAssumption DEF Ripen, LapseLost, RowInv
  <2>2. row'[r] = row[r] \/ (r = q /\ row'[r] = [row[r] EXCEPT !.ripe = TRUE])
    BY <2>1 DEF BatchInv, TypeOK
  <2> QED BY <2>1, <2>2 DEF RowMove, Passes
<1> QED BY <1>1, <1>2, <1>3, WorkerMoves DEF Next, batchVars

-----------------------------------------------------------------------------
(* Types and the inductive invariant *)

LEMMA RowShape == ASSUME TypeOK, [Next]_batchVars PROVE row' = [r \in Row |-> row'[r]]
<1>1. \A w, rows : GiveUp(w, rows) => row' = [r \in Row |-> row'[r]]
  BY DEF GiveUp
<1>2. ASSUME \/ row' = row
             \/ \E r, x : \/ row' = [row EXCEPT ![r] = x]
                          \/ row' = [row EXCEPT ![r].status = x]
                          \/ row' = [row EXCEPT ![r].ripe = x]
      PROVE  row' = [r \in Row |-> row'[r]]
  BY <1>2 DEF TypeOK
<1>3. ASSUME NEW w \in Worker, ClaimNextBatch(w) \/ WorkerStep(w) \/ WorkerFault(w)
      PROVE  row' = [r \in Row |-> row'[r]]
  BY <1>1, <1>2, <1>3
  DEF ClaimNextBatch, WorkerStep, WorkerFault, ReadRows, RenewClaim, ImportChunk, MarkProcessed,
      SettleFailures, RecordBatchFailure, ReadFails, RenewFails, MarkFails, SettleFails, Crash,
      LapseSlow, Claimed, Landed
<1>4. ASSUME NEW r \in Row, Arrive(r) \/ Ripen(r) \/ LapseLost(r)
      PROVE  row' = [q \in Row |-> row'[q]]
  BY <1>2, <1>4 DEF Arrive, Ripen, LapseLost
<1> QED BY <1>2, <1>3, <1>4 DEF Next, batchVars

LEMMA RowKept ==
  ASSUME BatchInv, NEW r \in Row, RowMove(r)
  PROVE  row'[r] \in RowRec /\ RowInv(row'[r])
<1>0. row[r] \in RowRec /\ RowInv(row[r])
  BY DEF BatchInv, TypeOK, RowRec, RowsInv
<1>1. CASE row[r].status = "absent" /\ row'[r] = [row[r] EXCEPT !.status = "pending"]
  <2> DEFINE x == row[r]
  <2>1. [x EXCEPT !.status = "pending"] \in RowRec /\ RowInv([x EXCEPT !.status = "pending"])
    BY <1>0, <1>1 DEF RowRec, RowInv, RowStatus
  <2> QED BY <1>1, <2>1
<1>2. CASE Passes(r)
  <2> DEFINE x == row[r]
  <2>1. ASSUME NEW c \in Worker \cup {Lost}, NEW b \in BOOLEAN
        PROVE  /\ [x EXCEPT !.claim = c, !.ripe = b] \in RowRec
               /\ RowInv([x EXCEPT !.claim = c, !.ripe = b])
               /\ [x EXCEPT !.ripe = TRUE] \in RowRec
               /\ RowInv([x EXCEPT !.ripe = TRUE])
    BY <1>0, <1>2 DEF RowRec, RowInv, Passes
  <2>2. Lost \in Worker \cup {Lost} /\ TRUE \in BOOLEAN
    OBVIOUS
  <2> QED BY <1>2, <2>1, <2>2 DEF Passes
<1>3. ASSUME NEW w \in Worker, Lands(w, r) PROVE row'[r] \in RowRec /\ RowInv(row'[r])
  <2>1. row[r].status = "pending"
    BY <1>0, <1>3, ClaimAssumption DEF RowInv, Lands
  <2> QED BY <1>0, <1>3, <2>1, RowUpdates DEF Lands
<1>4. ASSUME NEW w \in Worker, IsCharged(w, r) PROVE row'[r] \in RowRec /\ RowInv(row'[r])
  <2>1. row[r].status = "pending"
    BY <1>0, <1>4, ClaimAssumption DEF RowInv, IsCharged
  <2> QED BY <1>4, <2>1, ChargeFacts DEF IsCharged, BatchInv
<1> QED BY <1>0, <1>1, <1>2, <1>3, <1>4 DEF RowMove

\* A step of w leaves it a record of the worker's type, with sound verdicts.
LEMMA WorkerFacts ==
  ASSUME BatchInv, NEW w \in Worker, ClaimNextBatch(w) \/ WorkerStep(w) \/ WorkerFault(w)
  PROVE  \E x \in WorkerRec : /\ worker' = [worker EXCEPT ![w] = x]
                              /\ VerdictOk(x, imported')
                              /\ imported \subseteq imported' /\ imported' \subseteq Row
<1> DEFINE Good(x) == x \in WorkerRec /\ VerdictOk(x, imported')
           Grows == imported \subseteq imported' /\ imported' \subseteq Row
           y == worker[w]
           Goal == Grows /\ \E x : Good(x) /\ worker' = [worker EXCEPT ![w] = x]
<1>0. /\ y \in WorkerRec /\ worker \in [Worker -> WorkerRec] /\ VerdictOk(y, imported)
      /\ imported \subseteq Row
  BY DEF BatchInv, TypeOK, WorkerRec, VerdictInv
<1>2. ASSUME NEW at \in {"idle", "claimed", "read", "renewing", "sending", "marking", "settling",
                         "failing"}, GoTo(w, at), UNCHANGED imported
      PROVE  Goal
  <2> DEFINE x == [y EXCEPT !.at = at]
  <2>1. x \in WorkerRec /\ x.verdict = y.verdict
    BY <1>0 DEF WorkerRec
  <2>2. VerdictOk(x, imported')
    <3> HIDE DEF x
    <3> QED BY <1>0, <1>2, <2>1 DEF VerdictOk
  <2>3. worker' = [worker EXCEPT ![w] = x]
    BY <1>0, <1>2 DEF GoTo
  <2> QED BY <1>0, <1>2, <2>1, <2>2, <2>3
<1>3. ASSUME NEW rows, GiveUp(w, rows), UNCHANGED imported PROVE Goal
  <2>1. Idle \in WorkerRec /\ VerdictOk(Idle, imported')
    BY DEF Idle, WorkerRec, Verdict, VerdictOk, FailureKind
  <2> QED BY <1>0, <1>3, <2>1 DEF GiveUp
<1>4. ASSUME NEW v \in [Row -> Verdict],
             NEW at \in {"idle", "claimed", "read", "renewing", "sending", "marking", "settling",
                         "failing"},
             worker' = [worker EXCEPT ![w] = [y EXCEPT !.verdict = v, !.at = at]],
             \A r \in Row : /\ v[r] \in FailureKind => v[r] \in Failures
                            /\ v[r] = "landed" => r \in imported'
                            /\ v[r] = "folded" => Survivor[r] # r,
             Grows
      PROVE  Goal
  <2> DEFINE x == [y EXCEPT !.verdict = v, !.at = at]
  <2>1. x \in WorkerRec /\ x.verdict = v
    BY <1>0 DEF WorkerRec
  <2>2. worker' = [worker EXCEPT ![w] = x]
    BY <1>4
  <2> HIDE DEF x
  <2>3. VerdictOk(x, imported')
    BY <1>4, <2>1 DEF VerdictOk
  <2> QED BY <1>4, <2>1, <2>2, <2>3
<1>5. ASSUME ClaimNextBatch(w) PROVE Goal
  <2>1. PICK b \in Batch : worker' = [worker EXCEPT ![w].at = "claimed", ![w].batch = b]
    BY <1>5 DEF ClaimNextBatch, Oldest, Batch
  <2> DEFINE x == [y EXCEPT !.at = "claimed", !.batch = b]
  <2>2. x \in WorkerRec /\ x.verdict = y.verdict
    BY <1>0 DEF WorkerRec
  <2>3. worker' = [worker EXCEPT ![w] = x] /\ imported' = imported
    BY <1>0, <1>5, <2>1 DEF ClaimNextBatch
  <2> HIDE DEF x
  <2>4. VerdictOk(x, imported')
    BY <1>0, <2>2, <2>3 DEF VerdictOk
  <2> QED BY <1>0, <2>2, <2>3, <2>4
<1>6. ASSUME ReadRows(w) PROVE Goal
  <2>1. PICK bad \in SUBSET Ours(w) :
          LET good == Ours(w) \ bad
              v == [r \in Row |-> CASE r \in bad -> "permanent"
                                    [] r \in good /\ Survivor[r] \in good \ {r} -> "folded"
                                    [] r \in good -> "todo"
                                    [] OTHER -> "none"]
          IN /\ bad = {} \/ "permanent" \in Failures
             /\ worker' = [worker EXCEPT
                  ![w].verdict = v,
                  ![w].at = IF Ours(w) = {} THEN "failing"
                            ELSE IF good = {} THEN "settling" ELSE "read"]
    BY <1>6 DEF ReadRows
  <2> DEFINE good == Ours(w) \ bad
             v == [r \in Row |-> CASE r \in bad -> "permanent"
                                   [] r \in good /\ Survivor[r] \in good \ {r} -> "folded"
                                   [] r \in good -> "todo"
                                   [] OTHER -> "none"]
             at == IF Ours(w) = {} THEN "failing" ELSE IF good = {} THEN "settling" ELSE "read"
  <2>2. worker' = [worker EXCEPT ![w] = [y EXCEPT !.verdict = v, !.at = at]]
    BY <1>0, <2>1
  <2>3. ASSUME NEW r \in Row
        PROVE  /\ v[r] \in Verdict
               /\ v[r] \in FailureKind => v[r] \in Failures
               /\ v[r] # "landed"
               /\ v[r] = "folded" => Survivor[r] # r
    <3>1. CASE r \in bad
      BY <2>1, <3>1 DEF Verdict, FailureKind
    <3>2. CASE r \notin bad /\ r \in good /\ Survivor[r] \in good \ {r}
      BY <3>2 DEF Verdict, FailureKind
    <3>3. CASE r \notin bad /\ r \in good /\ Survivor[r] \notin good \ {r}
      BY <3>3 DEF Verdict, FailureKind
    <3>4. CASE r \notin bad /\ r \notin good
      BY <3>4 DEF Verdict, FailureKind
    <3> QED BY <3>1, <3>2, <3>3, <3>4
  <2>4. v \in [Row -> Verdict]
    BY <2>3
  <2>5. at \in {"failing", "settling", "read"}
    OBVIOUS
  <2>6. Grows
    BY <1>0, <1>6 DEF ReadRows
  <2> HIDE DEF v, at, Goal
  <2> QED BY <1>4, <2>2, <2>3, <2>4, <2>5, <2>6
<1>7. ASSUME ImportChunk(w) PROVE Goal
  <2> DEFINE chunk == Oldest(With(w, "todo"), ImportChunkSize)
  <2>0. PICK verdict \in [chunk -> Failures \cup {"landed"}] :
          \E accepted \in SUBSET {r \in chunk : verdict[r] = "transient"} :
            /\ worker' = [worker EXCEPT
                 ![w].verdict = [r \in Row |-> IF r \in chunk THEN verdict[r] ELSE @[r]],
                 ![w].at = IF chunk = With(w, "todo") THEN "marking" ELSE "renewing"]
            /\ imported' = imported \cup accepted \cup {r \in chunk : verdict[r] = "landed"}
    BY <1>7 DEF ImportChunk
  <2>1. PICK accepted \in SUBSET {r \in chunk : verdict[r] = "transient"} :
          /\ worker' = [worker EXCEPT
               ![w].verdict = [r \in Row |-> IF r \in chunk THEN verdict[r] ELSE @[r]],
               ![w].at = IF chunk = With(w, "todo") THEN "marking" ELSE "renewing"]
          /\ imported' = imported \cup accepted \cup {r \in chunk : verdict[r] = "landed"}
    BY <2>0
  <2> DEFINE v == [r \in Row |-> IF r \in chunk THEN verdict[r] ELSE y.verdict[r]]
             at == IF chunk = With(w, "todo") THEN "marking" ELSE "renewing"
  <2>2. worker' = [worker EXCEPT ![w] = [y EXCEPT !.verdict = v, !.at = at]]
    BY <1>0, <2>1
  <2>3. chunk \subseteq Row
    BY DEF Oldest, With
  <2> HIDE DEF chunk
  <2>4. Grows
    BY <1>0, <2>1, <2>3
  <2>5. ASSUME NEW r \in Row
        PROVE  /\ v[r] \in Verdict
               /\ v[r] \in FailureKind => v[r] \in Failures
               /\ v[r] = "landed" => r \in imported'
               /\ v[r] = "folded" => Survivor[r] # r
    <3>1. CASE r \in chunk
      <4>1. v[r] \in Failures \cup {"landed"}
        BY <2>1, <3>1
      <4>2. v[r] = "landed" => r \in imported'
        BY <2>1, <3>1
      <4>3. Failures \subseteq {"permanent", "transient", "plain"}
        BY LimitAssumption DEF FailureKind
      <4> HIDE DEF v
      <4> QED BY <4>1, <4>2, <4>3 DEF Verdict, FailureKind
    <3>2. CASE r \notin chunk
      BY <1>0, <2>4, <3>2 DEF VerdictOk, WorkerRec
    <3> QED BY <3>1, <3>2
  <2>6. v \in [Row -> Verdict]
    BY <2>5
  <2>7. at \in {"marking", "renewing"}
    OBVIOUS
  <2> HIDE DEF v, at, Goal
  <2> QED BY <1>4, <2>2, <2>4, <2>5, <2>6, <2>7
<1>8. ASSUME MarkFails(w) PROVE Goal
  <2>1. PICK kind \in DatabaseFailure :
          worker' = [worker EXCEPT
            ![w].at = "settling",
            ![w].verdict = [r \in Row |-> IF @[r] = "landed" THEN kind ELSE @[r]]]
    BY <1>8 DEF MarkFails
  <2> DEFINE v == [r \in Row |-> IF y.verdict[r] = "landed" THEN kind ELSE y.verdict[r]]
  <2>2. worker' = [worker EXCEPT ![w] = [y EXCEPT !.verdict = v, !.at = "settling"]]
    BY <1>0, <2>1
  <2>3. kind \in Failures /\ kind \in FailureKind
    BY DEF DatabaseFailure, FailureKind
  <2>4. ASSUME NEW r \in Row
        PROVE  /\ v[r] \in Verdict
               /\ v[r] \in FailureKind => v[r] \in Failures
               /\ v[r] # "landed"
               /\ v[r] = "folded" => Survivor[r] # r
    BY <1>0, <2>3 DEF VerdictOk, WorkerRec, Verdict, FailureKind
  <2>5. v \in [Row -> Verdict]
    BY <2>4
  <2>6. Grows
    BY <1>0, <1>8 DEF MarkFails
  <2> HIDE DEF v, Goal
  <2> QED BY <1>4, <2>2, <2>4, <2>5, <2>6
<1>9. ASSUME LapseSlow(w) PROVE Goal
  <2>1. worker' = [worker EXCEPT ![w] = y] /\ imported' = imported
    BY <1>0, <1>9 DEF LapseSlow
  <2> QED BY <1>0, <2>1
<1>10. ASSUME UNCHANGED imported,
              (\E rows : GiveUp(w, rows))
              \/ \E at \in {"renewing", "sending", "settling", "failing"} : GoTo(w, at)
       PROVE  Goal
  <2> HIDE DEF Goal
  <2> QED BY <1>2, <1>3, <1>10
<1>11. ASSUME RenewClaim(w) \/ MarkProcessed(w) \/ SettleFailures(w) \/ RecordBatchFailure(w)
              \/ ReadFails(w) \/ RenewFails(w) \/ SettleFails(w) \/ Crash(w)
       PROVE  Goal
  <2> HIDE DEF Goal
  <2>1. \A at : AfterRenewal(at) \in {"renewing", "sending"}
    BY DEF AfterRenewal
  <2> QED
    BY <1>10, <1>11, <2>1
    DEF RenewClaim, MarkProcessed, SettleFailures, RecordBatchFailure, ReadFails, RenewFails,
        SettleFails, Crash
<1>12. Goal
  <2> HIDE DEF Goal
  <2> QED BY <1>5, <1>6, <1>7, <1>8, <1>9, <1>11 DEF WorkerStep, WorkerFault
<1> QED BY <1>12

LEMMA WorkersKept ==
  ASSUME BatchInv, [Next]_batchVars
  PROVE  /\ worker' \in [Worker -> WorkerRec] /\ VerdictInv'
         /\ imported \subseteq imported' /\ imported' \subseteq Row
<1>0. worker \in [Worker -> WorkerRec] /\ VerdictInv /\ imported \subseteq Row
  BY DEF BatchInv, TypeOK, WorkerRec
<1>1. ASSUME NEW w \in Worker, ClaimNextBatch(w) \/ WorkerStep(w) \/ WorkerFault(w)
      PROVE  /\ worker' \in [Worker -> WorkerRec] /\ VerdictInv'
             /\ imported \subseteq imported' /\ imported' \subseteq Row
  <2>1. PICK x \in WorkerRec : /\ worker' = [worker EXCEPT ![w] = x]
                               /\ VerdictOk(x, imported')
                               /\ imported \subseteq imported' /\ imported' \subseteq Row
    BY <1>1, WorkerFacts
  <2>2. \A u \in Worker : VerdictOk(worker'[u], imported')
    <3>1. \A u \in Worker : VerdictOk(worker[u], imported')
      BY <1>0, <2>1 DEF VerdictInv, VerdictOk
    <3> QED BY <1>0, <2>1, <3>1
  <2> QED BY <1>0, <2>1, <2>2 DEF VerdictInv
<1>2. CASE UNCHANGED <<worker, imported>>
  BY <1>0, <1>2 DEF VerdictInv, VerdictOk
<1> QED BY <1>1, <1>2 DEF Next, Arrive, Ripen, LapseLost, batchVars

LEMMA BatchInvStep == BatchInv /\ [Next]_batchVars => BatchInv'
<1> SUFFICES ASSUME BatchInv, [Next]_batchVars PROVE BatchInv'
  OBVIOUS
<1>1. \A r \in Row : row'[r] \in RowRec /\ RowInv(row'[r])
  BY RowStep, RowKept
<1>2. row' \in [Row -> RowRec]
  BY <1>1, RowShape DEF BatchInv
<1>3. faults' \in 0..FaultLimit
  <2>0. faults \in 0..FaultLimit /\ FaultLimit \in Nat
    BY LimitAssumption DEF BatchInv, TypeOK
  <2>1. faults' = faults \/ (CanFault /\ Fault)
    BY DEF Next, ClaimNextBatch, WorkerStep, WorkerFault, ReadRows, RenewClaim, ImportChunk,
        MarkProcessed, SettleFailures, RecordBatchFailure, ReadFails, RenewFails, MarkFails,
        SettleFails, Crash, LapseSlow, Arrive, Ripen, LapseLost, batchVars
  <2> QED BY <2>0, <2>1 DEF CanFault, Fault
<1>4. worker' \in [Worker -> WorkerRec] /\ VerdictInv' /\ imported' \subseteq Row
  BY WorkersKept
<1>5. TypeOK'
  BY <1>2, <1>3, <1>4 DEF TypeOK, RowRec, WorkerRec
<1> QED BY <1>1, <1>4, <1>5 DEF BatchInv, RowsInv

LEMMA BatchInvHolds == Spec => []BatchInv
<1>1. Init => BatchInv
  <2> SUFFICES ASSUME Init PROVE BatchInv
    OBVIOUS
  <2>1. \A r \in Row : row[r] \in RowRec /\ RowInv(row[r])
    BY Limits, ClaimAssumption DEF Init, RowRec, RowInv, RowStatus
  <2>2. row \in [Row -> RowRec]
    BY <2>1 DEF Init
  <2>3. Idle \in WorkerRec /\ VerdictOk(Idle, imported)
    BY DEF Idle, WorkerRec, Verdict, VerdictOk, FailureKind
  <2>4. worker \in [Worker -> WorkerRec] /\ VerdictInv
    BY <2>3 DEF Init, VerdictInv
  <2>5. imported \subseteq Row /\ faults \in 0..FaultLimit
    BY LimitAssumption DEF Init
  <2> QED BY <2>1, <2>2, <2>4, <2>5 DEF BatchInv, TypeOK, RowsInv, RowRec, WorkerRec
<1> QED BY <1>1, BatchInvStep, PTL DEF Spec

-----------------------------------------------------------------------------
(* Theorems *)

\* Every reachable state is well typed: no row is charged more attempts than the
\* transient budget of RetryPolicy.
THEOREM TypeCorrect == Spec => []TypeOK
BY BatchInvHolds, PTL DEF BatchInv

\* An outage of inventory-service rejects no row before the transient budget is spent
\* (failureTerminal), over any number of claims, workers and crashes.
THEOREM OutagesAreRetried == Spec => []OutageRejectsNothing
<1>1. BatchInv => OutageRejectsNothing
  BY DEF BatchInv, RowsInv, RowInv, OutageRejectsNothing
<1> QED BY <1>1, BatchInvHolds, PTL

\* A worker whose claim was taken over never writes over a row that is settled: the
\* fence of markProcessed and recordRowFailures, and no claim outlives a settlement.
THEOREM SettledStaysSettled == Spec => FateIsFinal
<1> DEFINE Final == \A r \in Row : row[r].status \in Settled => row'[r].status = row[r].status
<1>1. ASSUME BatchInv, [Next]_batchVars, NEW r \in Row, row[r].status \in Settled
      PROVE  row'[r].status = row[r].status
  <2>1. row[r].claim = Free
    BY <1>1 DEF BatchInv, RowsInv, RowInv, Settled
  <2>2. ~Passes(r) /\ row[r].status # "absent" /\ \A w \in Worker : ~Lands(w, r) /\ ~IsCharged(w, r)
    BY <1>1, <2>1, ClaimAssumption DEF Passes, Settled, Lands, IsCharged
  <2> QED BY <1>1, <2>2, RowStep DEF RowMove
<1>2. BatchInv /\ [Next]_batchVars => [Final]_batchVars
  BY <1>1
<1> QED BY <1>2, BatchInvHolds, PTL DEF Spec, FateIsFinal

\* A row is charged only by the worker that holds its claim, as that worker ends its
\* batch (recordRowFailures and recordBatchFailure, fenced on claimed_at).
THEOREM ChargesAreFenced == Spec => ChargedByItsClaim
<1> DEFINE Fenced == \A r \in Row : row'[r].attempts > row[r].attempts
                       => row[r].claim \in Worker /\ worker'[row[r].claim].at = "idle"
<1>1. ASSUME BatchInv, [Next]_batchVars, NEW r \in Row, row'[r].attempts > row[r].attempts
      PROVE  row[r].claim \in Worker /\ worker'[row[r].claim].at = "idle"
  <2>0. row[r] \in RowRec /\ row[r].attempts \in Nat
    BY <1>1, Limits DEF BatchInv, TypeOK, RowRec
  <2>1. row'[r].attempts # row[r].attempts
    BY <1>1, <2>0
  <2>2. ~Passes(r) /\ row'[r] # row[r]
    BY <2>0, <2>1 DEF Passes, RowRec
  <2>3. row'[r] # [row[r] EXCEPT !.status = "pending"] /\ \A w \in Worker : ~Lands(w, r)
    BY <2>0, <2>1 DEF Lands, RowRec
  <2>4. PICK w \in Worker : IsCharged(w, r)
    BY <1>1, <2>2, <2>3, RowStep DEF RowMove
  <2> QED BY <2>4 DEF IsCharged
<1>2. BatchInv /\ [Next]_batchVars => [Fenced]_batchVars
  BY <1>1
<1> QED BY <1>2, BatchInvHolds, PTL DEF Spec, ChargedByItsClaim

\* Only rows that inventory-service accepted, or that were folded into such a row, are
\* stamped processed (processedMarks, importFailed).
THEOREM LandedWereAccepted == Spec => []LandedWereImported
<1>1. Init => LandedWereImported
  BY DEF Init, LandedWereImported
<1>2. BatchInv /\ LandedWereImported /\ [Next]_batchVars => LandedWereImported'
  <2> SUFFICES ASSUME BatchInv, LandedWereImported, [Next]_batchVars,
                      NEW r \in Row, row'[r].status = "landed"
               PROVE  r \in imported' \/ Survivor[r] \in imported'
    BY DEF LandedWereImported
  <2>0. row[r] \in RowRec /\ imported \subseteq imported'
    BY WorkersKept DEF BatchInv, TypeOK, RowRec
  <2>1. CASE row[r].status = "landed"
    BY <2>0, <2>1 DEF LandedWereImported
  <2>2. ASSUME NEW w \in Worker, Lands(w, r) PROVE r \in imported \/ Survivor[r] \in imported
    <3>1. \A q \in With(w, "landed") : q \in imported
      BY DEF With, BatchInv, VerdictInv, VerdictOk
    <3> QED BY <2>2, <3>1 DEF Lands, Marks, WithFolded
  <2>3. ASSUME NEW w \in Worker, IsCharged(w, r) PROVE FALSE
    <3>1. row[r].status = "pending"
      BY <2>3, ClaimAssumption DEF IsCharged, BatchInv, RowsInv, RowInv
    <3>2. row'[r].status \in {"pending", "rejected"}
      BY <2>3, <3>1, ChargeFacts DEF IsCharged, BatchInv
    <3> QED BY <3>2
  <2>4. row'[r] # [row[r] EXCEPT !.status = "pending"] /\ ~Passes(r)
    BY <2>0 DEF Passes, RowRec
  <2> QED BY <2>0, <2>1, <2>2, <2>3, <2>4, RowStep DEF RowMove
<1> QED BY <1>1, <1>2, BatchInvHolds, PTL DEF Spec

\* A charge of w to the rows it leaves: to all of rs, and of the rest none is released.
LEMMA ChargedRows ==
  ASSUME BatchInv, NEW w \in Worker, SettleFailures(w) \/ RecordBatchFailure(w),
         NEW s \in Ours(w), row'[s].claim = Free, NEW r \in Ours(w),
         SettleFailures(w) /\ s \in WithFolded(w, Failed(w)) => r \in WithFolded(w, Failed(w))
  PROVE  /\ row'[r].attempts = row[r].attempts + 1
         /\ row'[r].status # "landed"
<1>0. /\ \A q \in Ours(w) : q \in Row /\ row[q].status = "pending" /\ row[q] \in RowRec
                            /\ row[q].claim = w
      /\ VerdictInv /\ w # Free /\ Lost # Free
  BY OpenClaims, ClaimAssumption DEF BatchInv
<1>1. ASSUME NEW rows, GiveUp(w, rows), NEW kind \in FailureKind, rows[r] = Charge(r, kind)
      PROVE  /\ row'[r].attempts = row[r].attempts + 1
             /\ row'[r].status # "landed"
  <2>1. row'[r] = IF rows[r].claim = w THEN [rows[r] EXCEPT !.claim = Lost] ELSE rows[r]
    BY <1>0, <1>1 DEF GiveUp
  <2>2. rows[r].claim = Free /\ rows[r].attempts = row[r].attempts + 1 /\ rows[r].status # "landed"
    BY <1>0, <1>1, ChargeFacts DEF BatchInv
  <2> QED BY <1>0, <2>1, <2>2
<1>2. CASE SettleFailures(w)
  <2> DEFINE rs == WithFolded(w, Failed(w)) \cap Ours(w)
             rows == [q \in Row |-> IF q \in rs THEN Charge(q, KindOf(w, q)) ELSE row[q]]
  <2>1. GiveUp(w, rows)
    BY <1>2 DEF SettleFailures
  <2>2. s \in rs
    <3>1. CASE s \notin rs
      <4>1. rows[s] = row[s]
        BY <1>0, <3>1
      <4>2. row'[s] = [row[s] EXCEPT !.claim = Lost]
        <5> HIDE DEF rows
        <5> QED BY <1>0, <2>1, <4>1 DEF GiveUp
      <4>3. row'[s].claim = Lost
        BY <1>0, <4>2 DEF RowRec
      <4> QED BY <1>0, <4>3
    <3> QED BY <3>1
  <2>3. r \in rs
    BY <1>2, <2>2
  <2>4. rows[r] = Charge(r, KindOf(w, r))
    BY <1>0, <2>3
  <2>5. KindOf(w, r) \in FailureKind
    BY <1>0, <2>3, LimitAssumption
    DEF WithFolded, Failed, With, KindOf, FailureKind
  <2> HIDE DEF rows
  <2> QED BY <1>1, <2>1, <2>4, <2>5
<1>3. CASE RecordBatchFailure(w)
  <2>1. PICK kind \in FailureKind :
          GiveUp(w, [q \in Row |-> IF q \in Ours(w) THEN Charge(q, kind) ELSE row[q]])
    BY <1>3 DEF RecordBatchFailure, DatabaseFailure, FailureKind
  <2> DEFINE rows == [q \in Row |-> IF q \in Ours(w) THEN Charge(q, kind) ELSE row[q]]
  <2>2. GiveUp(w, rows) /\ rows[r] = Charge(r, kind)
    BY <1>0, <2>1
  <2> HIDE DEF rows
  <2> QED BY <1>1, <2>2
<1> QED BY <1>2, <1>3

\* A row folded into another lands in the step that lands it, and is charged in the step
\* that charges it (processedMarks.followers and expandToFollowers), if a row that
\* absorbs others is itself folded into none.
THEOREM FoldedRowsFollow == Spec => FoldedGoTogether
<1> DEFINE Follows(w, r) ==
      LET s == Survivor[r]
      IN s \in Ours(w) /\ row'[s].claim = Free
           => /\ row'[r].status = "landed" <=> row'[s].status = "landed"
              /\ row'[r].attempts - row[r].attempts = row'[s].attempts - row[s].attempts
    Together == \A w \in Worker : \A r \in With(w, "folded") \cap Ours(w) : Follows(w, r)
<1>1. ASSUME BatchInv, [Next]_batchVars, NEW w \in Worker, NEW r \in With(w, "folded") \cap Ours(w),
             NEW s \in Ours(w), s = Survivor[r], row'[s].claim = Free
      PROVE  /\ row'[r].status = "landed" <=> row'[s].status = "landed"
             /\ row'[r].attempts - row[r].attempts = row'[s].attempts - row[s].attempts
  <2>0. /\ r \in Row /\ s \in Row /\ row[r].claim = w /\ row[s].claim = w
        /\ row[r] \in RowRec /\ row[s] \in RowRec
        /\ row[r].attempts \in Nat /\ row[s].attempts \in Nat
        /\ row[s].status = "pending"
        /\ w # Free /\ Lost # Free /\ \A v \in Worker : v # Free
    BY <1>1, OpenClaims, ClaimAssumption, Limits DEF BatchInv, RowRec
  <2>1. s \notin With(w, "folded")
    BY <1>1, <2>0, FoldAssumption DEF With, BatchInv, VerdictInv, VerdictOk
  <2>2. row'[s] # row[s] /\ ~Passes(s)
    BY <1>1, <2>0 DEF Passes, RowRec
  <2>3. \E v \in Worker : Lands(v, s) \/ IsCharged(v, s)
    BY <1>1, <2>0, <2>2, RowStep DEF RowMove
  <2>4. CASE Lands(w, s)
    <3>1. Marks(w) \subseteq Ours(w) /\ row' = Landed(Marks(w))
      <4>1. GiveUp(w, row) => row'[s].claim = Lost
        BY <2>0 DEF GiveUp, RowRec
      <4> QED BY <1>1, <2>0, <2>4, <4>1 DEF Lands, MarkProcessed
    <3>2. s \in Marks(w) /\ r \in Marks(w)
      BY <1>1, <2>1, <2>4 DEF Lands, Marks, WithFolded, With
    <3>3. /\ row'[s] = [row[s] EXCEPT !.status = "landed", !.claim = Free]
          /\ row'[r] = [row[r] EXCEPT !.status = "landed", !.claim = Free]
      BY <2>0, <3>1, <3>2 DEF Landed
    <3>4. /\ row'[s].status = "landed" /\ row'[s].attempts = row[s].attempts
          /\ row'[r].status = "landed" /\ row'[r].attempts = row[r].attempts
      BY <2>0, <3>3 DEF RowRec
    <3> QED BY <2>0, <3>4
  <2>5. CASE IsCharged(w, s)
    <3>1. SettleFailures(w) \/ RecordBatchFailure(w)
      BY <2>5 DEF IsCharged
    <3>2. s \in WithFolded(w, Failed(w)) => r \in WithFolded(w, Failed(w))
      BY <1>1, <2>1 DEF WithFolded
    <3>3. /\ row'[r].attempts = row[r].attempts + 1 /\ row'[r].status # "landed"
          /\ row'[s].attempts = row[s].attempts + 1 /\ row'[s].status # "landed"
      BY <1>1, <3>1, <3>2, ChargedRows
    <3> QED BY <2>0, <3>3
  <2> QED BY <2>0, <2>3, <2>4, <2>5 DEF Lands, IsCharged
<1>2. BatchInv /\ [Next]_batchVars => [Together]_batchVars
  BY <1>1
<1> QED BY <1>2, BatchInvHolds, PTL DEF Spec, FoldedGoTogether
=============================================================================
