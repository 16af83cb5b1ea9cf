------------------------ MODULE DeliveryRetryProofs ------------------------
(***************************************************************************)
(* What the delivery queue guarantees for any workers, channels and        *)
(* limits, and with any number of faults.                                  *)
(***************************************************************************)
EXTENDS DeliveryRetry, TLAPS

-----------------------------------------------------------------------------
(* Types *)

RowRec    == [status: RowStatus, count: 0..MaxAttempts, due: BOOLEAN]
WorkerRec == [at: {"idle", "claiming", "sending", "recording", "syncing"},
              left: SUBSET Channel, count: [Channel -> 0..(MaxAttempts - 1)],
              cur: Channel \cup {NoChannel}, verdict: SendVerdict \cup {"none", "gone"}]

\* A row that is not settled has an attempt left; what is still to be enqueued is not
\* there, what a worker has in hand is.
CountInv ==
  /\ \A c \in Channel : row[c].status \notin Terminal => row[c].count < MaxAttempts
  /\ \A c \in sender.left : row[c].status = "absent"
  /\ \A w \in Worker : \A c \in worker[w].left : row[c].status # "absent"
  /\ \A w \in Worker : worker[w].at \in {"recording", "syncing"} =>
       worker[w].cur \in Channel /\ row[worker[w].cur].status # "absent"

TypeInv == TypeOK /\ CountInv

LEMMA IdleType == Idle \in WorkerRec
<1>1. 0 \in 0..(MaxAttempts - 1)
  BY AttemptAssumption
<1> QED BY <1>1 DEF WorkerRec, Idle

\* Where a worker is once the row in hand is dealt with.
LEMMA NextRowFacts ==
  ASSUME worker \in [Worker -> WorkerRec], NEW w \in Worker
  PROVE  /\ NextRow(w) \in [Worker -> WorkerRec]
         /\ \A v \in Worker \ {w} : NextRow(w)[v] = worker[v]
         /\ \/ worker[w].left = {} /\ NextRow(w)[w] = Idle
            \/ /\ NextRow(w)[w].at = "sending"
               /\ NextRow(w)[w].left = worker[w].left
               /\ NextRow(w)[w].count = worker[w].count
<1> DEFINE next == IF worker[w].left = {} THEN Idle
                   ELSE [worker[w] EXCEPT !.at = "sending", !.cur = NoChannel, !.verdict = "none"]
<1>1. worker[w] \in WorkerRec
  OBVIOUS
<1>2. next \in WorkerRec
  BY <1>1, IdleType DEF WorkerRec
<1>3. NextRow(w) = [worker EXCEPT ![w] = next]
  BY DEF NextRow
<1>4. worker[w].left # {} =>
        next.at = "sending" /\ next.left = worker[w].left /\ next.count = worker[w].count
  BY <1>1 DEF WorkerRec
<1> HIDE DEF next
<1>5. NextRow(w)[w] = next
  BY <1>3
<1>6. worker[w].left = {} => next = Idle
  BY DEF next
<1> QED BY <1>2, <1>3, <1>4, <1>5, <1>6

\* The counts of a batch of due rows.
LEMMA HoldingType ==
  ASSUME TypeInv, NEW w \in Worker, NEW batch \in Batch(Due)
  PROVE  /\ Holding(w, batch) \in WorkerRec
         /\ batch \subseteq Due
         /\ Holding(w, batch).left = batch
         /\ Holding(w, batch).at = IF batch = {} THEN "idle" ELSE "sending"
         /\ \A c \in batch : Holding(w, batch).count[c] = row[c].count
<1>1. batch \subseteq Due
  BY DEF Batch
<1>2. \A c \in batch : row[c].count \in 0..(MaxAttempts - 1)
  <2>1. \A c \in batch : row[c].status = "retrying" /\ row[c].count \in 0..MaxAttempts
    BY <1>1 DEF Due, TypeInv, TypeOK
  <2> QED BY <2>1, <1>1, AttemptAssumption DEF Due, TypeInv, CountInv, Terminal
<1> DEFINE count == [c \in Channel |-> IF c \in batch THEN row[c].count ELSE 0]
<1>3. count \in [Channel -> 0..(MaxAttempts - 1)]
  BY <1>2, AttemptAssumption
<1>4. batch \subseteq Channel
  BY <1>1 DEF Due
<1>5. Holding(w, batch) = [Idle EXCEPT !.at = IF batch = {} THEN "idle" ELSE "sending",
                                       !.left = batch, !.count = count]
  BY DEF Holding
<1>6. \A c \in batch : count[c] = row[c].count
  BY <1>4
<1> HIDE DEF count
<1> QED BY <1>1, <1>3, <1>4, <1>5, <1>6, IdleType DEF WorkerRec, Idle

\* One step of a worker, by what becomes of it.
LEMMA WorkerStepType ==
  ASSUME TypeInv, NEW w \in Worker, Pass(w) \/ PassFault(w)
  PROVE  /\ worker' \in [Worker -> WorkerRec]
         /\ \A v \in Worker \ {w} : worker'[v] = worker[v]
         /\ \A c \in worker'[w].left : row'[c].status # "absent"
         /\ worker'[w].at \in {"recording", "syncing"} =>
              worker'[w].cur \in Channel /\ row'[worker'[w].cur].status # "absent"
<1>0. worker \in [Worker -> WorkerRec] /\ worker[w] \in WorkerRec /\ row \in [Channel -> RowRec]
  BY DEF TypeInv, TypeOK, WorkerRec, RowRec
<1> DEFINE Good(x) == /\ \A c \in x.left : row'[c].status # "absent"
                      /\ x.at \in {"recording", "syncing"} =>
                           x.cur \in Channel /\ row'[x.cur].status # "absent"
<1>1. ASSUME NEW x \in WorkerRec, Good(x), worker' = [worker EXCEPT ![w] = x]
      PROVE  /\ worker' \in [Worker -> WorkerRec]
             /\ \A v \in Worker \ {w} : worker'[v] = worker[v]
             /\ Good(worker'[w])
  BY <1>0, <1>1
<1>2. ASSUME worker' = NextRow(w), \A c \in worker[w].left : row'[c].status # "absent"
      PROVE  /\ worker' \in [Worker -> WorkerRec]
             /\ \A v \in Worker \ {w} : worker'[v] = worker[v]
             /\ Good(worker'[w])
  BY <1>0, <1>2, NextRowFacts DEF Idle
<1>3. CASE StartPass(w)
  <2> DEFINE x == [worker[w] EXCEPT !.at = "claiming"]
  <2>1. x \in WorkerRec /\ x.left = worker[w].left /\ x.at = "claiming" /\ x.left \subseteq Channel
    BY <1>0 DEF WorkerRec
  <2>2. \A c \in Channel : row[c].status # "absent" => row'[c].status # "absent"
    BY <1>0, <1>3 DEF StartPass, RowRec
  <2>3. Good(x)
    BY <2>1, <2>2 DEF TypeInv, CountInv
  <2>4. worker' = [worker EXCEPT ![w] = x]
    BY <1>0, <1>3 DEF StartPass
  <2> HIDE DEF x
  <2> QED BY <1>1, <2>1, <2>3, <2>4
<1>4. CASE ClaimDue(w)
  <2>1. PICK batch \in Batch(Due) :
          /\ row' = [c \in Channel |-> IF c \in batch
                       THEN [row[c] EXCEPT !.status = "pending", !.due = FALSE] ELSE row[c]]
          /\ worker' = [worker EXCEPT ![w] = Holding(w, batch)]
    BY <1>4 DEF ClaimDue
  <2>2. \A c \in batch : c \in Channel
    BY HoldingType DEF Due
  <2>3. \A c \in batch : row'[c].status = "pending"
    BY <1>0, <2>1, <2>2 DEF RowRec
  <2>4. Holding(w, batch) \in WorkerRec /\ Good(Holding(w, batch))
    BY <2>3, HoldingType
  <2> HIDE DEF Good
  <2>5. /\ worker' \in [Worker -> WorkerRec]
        /\ \A v \in Worker \ {w} : worker'[v] = worker[v]
        /\ Good(worker'[w])
    BY <1>1, <2>1, <2>4
  <2> QED BY <2>5 DEF Good
<1>5. CASE Deliver(w)
  <2>1. PICK c \in worker[w].left, verdict \in SendVerdict \cup {"gone"} :
          worker' = [worker EXCEPT ![w].at = "recording", ![w].left = @ \ {c}, ![w].cur = c,
                                   ![w].verdict = verdict]
    BY <1>5 DEF Deliver
  <2> DEFINE x == [worker[w] EXCEPT !.at = "recording", !.left = @ \ {c}, !.cur = c,
                                    !.verdict = verdict]
  <2>2. c \in Channel /\ row' = row
    BY <1>0, <1>5 DEF WorkerRec, Deliver
  <2>3. x \in WorkerRec /\ x.left = worker[w].left \ {c} /\ x.cur = c
    BY <1>0, <2>2 DEF WorkerRec
  <2>4. Good(x)
    BY <2>2, <2>3 DEF TypeInv, CountInv
  <2>5. worker' = [worker EXCEPT ![w] = x]
    BY <1>0, <2>1 DEF WorkerRec
  <2> HIDE DEF x
  <2> QED BY <1>1, <2>3, <2>4, <2>5
<1>6. CASE Record(w)
  <2> DEFINE x == [worker[w] EXCEPT !.at = "syncing"]
  <2>1. Outcome(w) # "absent" /\ worker[w].cur \in Channel
    BY <1>6 DEF Outcome, Record, TypeInv, CountInv
  <2>2. \A c \in Channel : row[c].status # "absent" => row'[c].status # "absent"
    BY <1>0, <1>6, <2>1 DEF Record, InHand, RowRec
  <2>3. row'[worker[w].cur].status # "absent"
    BY <1>0, <1>6, <2>1 DEF Record, InHand
  <2>4. x \in WorkerRec /\ x.left = worker[w].left /\ x.cur = worker[w].cur
    BY <1>0 DEF WorkerRec
  <2>5. \A c \in worker[w].left : row'[c].status # "absent"
    BY <1>0, <2>2 DEF TypeInv, CountInv, WorkerRec
  <2>6. worker' = [worker EXCEPT ![w] = x] \/ worker' = NextRow(w)
    BY <1>0, <1>6 DEF Record
  <2> HIDE DEF x
  <2> QED BY <1>1, <1>2, <2>1, <2>3, <2>4, <2>5, <2>6
<1>7. CASE SyncHistory(w) \/ RecordLost(w) \/ SyncLost(w)
  BY <1>2, <1>7 DEF SyncHistory, RecordLost, SyncLost, TypeInv, CountInv
<1>8. CASE Crash(w)
  BY <1>1, <1>8, IdleType DEF Crash, Idle
<1> QED BY <1>3, <1>4, <1>5, <1>6, <1>7, <1>8 DEF Pass, PassFault

\* What a step does to a row.
RowStep(c) ==
  \/ row'[c] = row[c]
  \/ /\ c \in sender.left /\ c \notin sender'.left
     /\ row'[c].status \in {"retrying", "failed"} /\ row'[c].count = row[c].count
     /\ row'[c].due = row[c].due
  \/ /\ row[c].status = "pending" /\ row[c].due
     /\ row'[c] = [row[c] EXCEPT !.status = "retrying"]
  \/ /\ row[c].status = "retrying" /\ row[c].due
     /\ row'[c] = [row[c] EXCEPT !.status = "pending", !.due = FALSE]
  \/ \E w \in Worker :
       /\ Record(w) /\ worker[w].at = "recording" /\ worker[w].cur = c
       /\ row'[c] = [status |-> Outcome(w), count |-> Attempt(w), due |-> FALSE]
  \/ /\ row[c].status \in {"retrying", "pending"} /\ ~row[c].due /\ sender.at = "done"
     /\ row'[c] = [row[c] EXCEPT !.due = TRUE]
     /\ row[c].status = "pending" /\ Held(c) => "slow" \in DeliveryEvents

LEMMA RowTypes == ASSUME TypeInv, Next PROVE row' \in [Channel -> RowRec]
<1>0. row \in [Channel -> RowRec]
  BY DEF TypeInv, TypeOK, RowRec
<1>1. CASE UNCHANGED row
  BY <1>0, <1>1
<1>2. ASSUME NEW c \in Channel, Enqueue(c) PROVE row' \in [Channel -> RowRec]
  <2>1. \/ UNCHANGED row
        \/ \E s \in {"failed", "retrying"} : row' = [row EXCEPT ![c].status = s]
    BY <1>2 DEF Enqueue
  <2> QED BY <1>0, <2>1 DEF RowRec, RowStatus
<1>3. ASSUME NEW w \in Worker, StartPass(w) \/ ClaimDue(w) PROVE row' \in [Channel -> RowRec]
  <2>1. \A c \in Channel : /\ [row[c] EXCEPT !.status = "retrying"] \in RowRec
                           /\ [row[c] EXCEPT !.status = "pending", !.due = FALSE] \in RowRec
    BY <1>0 DEF RowRec, RowStatus
  <2> QED BY <1>0, <1>3, <2>1 DEF StartPass, ClaimDue
<1>4. ASSUME NEW w \in Worker, Record(w) PROVE row' \in [Channel -> RowRec]
  <2> DEFINE c   == worker[w].cur
             rec == [status |-> Outcome(w), count |-> Attempt(w), due |-> FALSE]
  <2>1. c \in Channel /\ worker[w].count \in [Channel -> 0..(MaxAttempts - 1)]
    BY <1>4 DEF Record, TypeInv, CountInv, TypeOK
  <2>2. Attempt(w) \in 0..MaxAttempts
    <3>1. worker[w].count[c] \in 0..(MaxAttempts - 1)
      BY <2>1
    <3> QED BY <3>1, AttemptAssumption DEF Attempt
  <2>3. rec \in RowRec
    BY <2>2 DEF RowRec, RowStatus, Outcome
  <2>4. row' = [row EXCEPT ![c] = rec]
    BY <1>4 DEF Record, InHand
  <2> QED BY <1>0, <2>3, <2>4
<1>5. ASSUME NEW c \in Channel, BecomeDue(c) PROVE row' \in [Channel -> RowRec]
  BY <1>0, <1>5 DEF BecomeDue, RowRec
<1> QED BY <1>1, <1>2, <1>3, <1>4, <1>5 DEF Next, Send, SaveHistory, HistoryLost, Pass, Deliver,
                                          SyncHistory, PassFault, RecordLost, SyncLost, Crash

LEMMA RowSteps == ASSUME TypeInv, Next, NEW c \in Channel PROVE RowStep(c)
<1>0. row \in [Channel -> RowRec]
  BY DEF TypeInv, TypeOK, RowRec
<1>1. ASSUME row'[c] = row[c] PROVE RowStep(c)
  BY <1>1 DEF RowStep
<1>2. ASSUME NEW d \in Channel, Enqueue(d) PROVE RowStep(c)
  <2>1. d \in sender.left /\ sender'.left = sender.left \ {d}
    BY <1>2 DEF Enqueue
  <2>2. CASE UNCHANGED row
    BY <1>1, <2>2
  <2>3. ASSUME NEW s \in {"failed", "retrying"}, row' = [row EXCEPT ![d].status = s]
        PROVE  RowStep(c)
    <3>1. c # d => row'[c] = row[c]
      BY <1>0, <2>3
    <3>2. row'[d].status = s /\ row'[d].count = row[d].count /\ row'[d].due = row[d].due
      BY <1>0, <2>3 DEF RowRec
    <3> QED BY <2>1, <3>1, <3>2 DEF RowStep
  <2> QED BY <1>2, <2>2, <2>3 DEF Enqueue
<1>3. ASSUME NEW w \in Worker, StartPass(w) PROVE RowStep(c)
  BY <1>3 DEF StartPass, RowStep
<1>4. ASSUME NEW w \in Worker, ClaimDue(w) PROVE RowStep(c)
  <2>1. PICK batch \in Batch(Due) :
          row' = [d \in Channel |-> IF d \in batch
                   THEN [row[d] EXCEPT !.status = "pending", !.due = FALSE] ELSE row[d]]
    BY <1>4 DEF ClaimDue
  <2>2. batch \subseteq Due
    BY DEF Batch
  <2> QED BY <2>1, <2>2 DEF RowStep, Due
<1>5. ASSUME NEW w \in Worker, Record(w) PROVE RowStep(c)
  <2>1. /\ row' = [row EXCEPT ![worker[w].cur] =
                     [status |-> Outcome(w), count |-> Attempt(w), due |-> FALSE]]
        /\ worker[w].at = "recording" /\ worker[w].cur \in Channel
    BY <1>5 DEF Record, InHand, TypeInv, CountInv
  <2> QED BY <1>0, <1>5, <2>1 DEF RowStep
<1>6. ASSUME NEW d \in Channel, BecomeDue(d) PROVE RowStep(c)
  <2>1. c # d => row'[c] = row[c]
    BY <1>0, <1>6 DEF BecomeDue
  <2>2. row'[d] = [row[d] EXCEPT !.due = TRUE]
    BY <1>0, <1>6 DEF BecomeDue
  <2>3. row[d].status = "pending" /\ Held(d) => "slow" \in DeliveryEvents
    BY <1>6 DEF BecomeDue, Fault
  <2> QED BY <1>6, <2>1, <2>2, <2>3 DEF RowStep, BecomeDue
<1> QED BY <1>1, <1>2, <1>3, <1>4, <1>5, <1>6
        DEF Next, Send, SaveHistory, HistoryLost, Pass, Deliver, SyncHistory, PassFault,
            RecordLost, SyncLost, Crash

LEMMA RowTypeFact == ASSUME TypeInv, NEW c \in Channel PROVE row[c] \in RowRec
BY DEF TypeInv, TypeOK, RowRec

\* The count of a row that is not settled, and what a step may do to its presence.
LEMMA RowStepFacts ==
  ASSUME TypeInv, NEW c \in Channel, row'[c] \in RowRec, RowStep(c)
  PROVE  /\ row'[c].status \notin Terminal => row'[c].count < MaxAttempts
         /\ row[c].status # "absent" => row'[c].status # "absent"
         /\ c \in sender'.left => row'[c].status = row[c].status \/ row[c].status # "absent"
<1>0. row[c] \in RowRec /\ (row[c].status \notin Terminal => row[c].count < MaxAttempts)
      /\ (c \in sender.left => row[c].status = "absent")
  BY DEF TypeInv, TypeOK, RowRec, CountInv
<1>1. ASSUME NEW w \in Worker, worker[w].at = "recording", worker[w].cur = c,
             row'[c] = [status |-> Outcome(w), count |-> Attempt(w), due |-> FALSE]
      PROVE  /\ row'[c].status \notin Terminal => row'[c].count < MaxAttempts
             /\ row'[c].status # "absent" /\ row[c].status # "absent"
  <2>1. row'[c].status = Outcome(w) /\ row'[c].count = Attempt(w)
    BY <1>1
  <2>2. Outcome(w) \notin Terminal => ~Exhausted(w)
    BY DEF Outcome, Terminal
  <2>3. Attempt(w) \in Nat
    BY <1>1, <2>1 DEF RowRec
  <2> QED BY <1>1, <2>1, <2>2, <2>3, AttemptAssumption DEF Exhausted, Outcome, TypeInv, CountInv
<1> QED BY <1>0, <1>1 DEF RowStep, RowRec, Terminal

\* When a row appears, and when it comes due.
LEMMA RowStepPresence ==
  ASSUME TypeInv, NEW c \in Channel, row'[c] \in RowRec, RowStep(c)
  PROVE  /\ (row'[c].status # "absent" /\ row[c].status = "absent") => c \notin sender'.left
         /\ (row'[c].status # "absent" /\ row[c].status = "absent") => c \in sender.left
         /\ row[c].status # "absent" => row'[c].status # "absent"
         /\ row'[c].due => row[c].due \/ sender.at = "done"
<1>0. row[c] \in RowRec
  BY RowTypeFact
<1>1. ASSUME NEW w \in Worker, worker[w].at = "recording", worker[w].cur = c,
             row'[c] = [status |-> Outcome(w), count |-> Attempt(w), due |-> FALSE]
      PROVE  row'[c].status # "absent" /\ row[c].status # "absent" /\ ~row'[c].due
  <2>1. row'[c].status = Outcome(w) /\ ~row'[c].due
    BY <1>1
  <2>2. Outcome(w) # "absent"
    BY DEF Outcome
  <2> QED BY <1>1, <2>1, <2>2 DEF TypeInv, CountInv
<1> QED BY <1>0, <1>1 DEF RowStep, RowRec

LEMMA SenderStep ==
  ASSUME TypeInv, Next
  PROVE  /\ sender' \in [at: {"saving", "enqueueing", "done"}, left: SUBSET Channel]
         /\ sender'.left \subseteq sender.left
<1>0. sender \in [at: {"saving", "enqueueing", "done"}, left: SUBSET Channel]
  BY DEF TypeInv, TypeOK
<1>1. CASE UNCHANGED sender
  BY <1>0, <1>1
<1>2. CASE SaveHistory
  BY <1>0, <1>2 DEF SaveHistory
<1>3. CASE HistoryLost
  BY <1>0, <1>3 DEF HistoryLost
<1>4. ASSUME NEW c \in Channel, Enqueue(c)
      PROVE  /\ sender' \in [at: {"saving", "enqueueing", "done"}, left: SUBSET Channel]
             /\ sender'.left \subseteq sender.left
  BY <1>0, <1>4 DEF Enqueue
<1> QED BY <1>1, <1>2, <1>3, <1>4 DEF Next, Send, Pass, StartPass, ClaimDue, Deliver, Record, SyncHistory, PassFault,
                          RecordLost, SyncLost, Crash, BecomeDue

\* The variables no other lemma speaks of.
LEMMA OtherTypes ==
  ASSUME TypeInv, Next
  PROVE  /\ first' = first /\ faults' \in 0..FaultLimit /\ lost' \in BOOLEAN
         /\ arrived' \subseteq Channel /\ tries' \in [Channel -> Nat]
         /\ history' \in [status: {"absent", "sent", "partial", "failed"}, used: SUBSET Channel,
                          result: [Channel -> {"none", "sent", "retrying", "failed"}]]
<1> DEFINE HistoryRec == [status: {"absent", "sent", "partial", "failed"}, used: SUBSET Channel,
                          result: [Channel -> {"none", "sent", "retrying", "failed"}]]
<1>1. first' = first
  BY DEF Next, Send, SaveHistory, HistoryLost, Enqueue, Pass, StartPass, ClaimDue, Deliver, Record,
         SyncHistory, PassFault, RecordLost, SyncLost, Crash, BecomeDue
<1>2. faults' = faults \/ (faults < FaultLimit /\ faults' = faults + 1)
  BY DEF Next, Send, SaveHistory, HistoryLost, Enqueue, Pass, StartPass, ClaimDue, Deliver, Record,
         SyncHistory, PassFault, RecordLost, SyncLost, Crash, BecomeDue, Fault
<1>3. faults' \in 0..FaultLimit
  BY <1>2, EventAssumption DEF TypeInv, TypeOK
<1>4. lost' \in BOOLEAN
  BY DEF Next, Send, SaveHistory, HistoryLost, Enqueue, Pass, StartPass, ClaimDue, Deliver, Record,
         SyncHistory, PassFault, RecordLost, SyncLost, Crash, BecomeDue, TypeInv, TypeOK
<1>5. arrived' \subseteq Channel /\ tries' \in [Channel -> Nat]
  <2>1. ASSUME NEW w \in Worker, Deliver(w)
        PROVE  arrived' \subseteq Channel /\ tries' \in [Channel -> Nat]
    <3>1. worker[w].left \subseteq Channel
      BY DEF TypeInv, TypeOK
    <3> QED BY <2>1, <3>1 DEF Deliver, TypeInv, TypeOK
  <2> QED BY <2>1 DEF Next, Send, SaveHistory, HistoryLost, Enqueue, Pass, StartPass, ClaimDue,
                      Record, SyncHistory, PassFault, RecordLost, SyncLost, Crash, BecomeDue,
                      TypeInv, TypeOK
<1>6. history' \in HistoryRec
  <2>0. history \in HistoryRec
    BY DEF TypeInv, TypeOK
  <2>1. CASE SaveHistory
    BY <2>1 DEF SaveHistory, HistoryStatus
  <2>2. ASSUME NEW w \in Worker, SyncHistory(w) PROVE history' \in HistoryRec
    <3>1. worker[w].cur \in Channel
      BY <2>2 DEF SyncHistory, TypeInv, CountInv
    <3>2. history'.status \in {"sent", "partial", "failed"} /\ history'.used \in SUBSET Channel
      BY <2>0, <2>2, <3>1 DEF SyncHistory, HistoryStatus, InHand
    <3>3. history'.result \in [Channel -> {"none", "sent", "retrying", "failed"}]
      BY <2>0, <2>2, <3>1 DEF SyncHistory, InHand
    <3>4. history' = [status |-> history'.status, used |-> history'.used, result |-> history'.result]
      BY <2>2 DEF SyncHistory
    <3> QED BY <3>2, <3>3, <3>4
  <2> QED BY <2>0, <2>1, <2>2 DEF Next, Send, HistoryLost, Enqueue, Pass, StartPass, ClaimDue,
                      Deliver, Record, PassFault, RecordLost, SyncLost, Crash, BecomeDue
<1> QED BY <1>1, <1>3, <1>4, <1>5, <1>6

LEMMA TypeStep == TypeInv /\ [Next]_deliveryVars => TypeInv'
<1>1. CASE UNCHANGED deliveryVars
  BY <1>1 DEF deliveryVars, TypeInv, TypeOK, CountInv
<1> SUFFICES ASSUME TypeInv, Next PROVE TypeInv'
  BY <1>1
<1>2. row' \in [Channel -> RowRec]
  BY RowTypes
<1>3. \A c \in Channel : RowStep(c) /\ row'[c] \in RowRec
  BY <1>2, RowSteps
<1>4. worker' \in [Worker -> WorkerRec]
  <2>1. worker' = worker \/ \E w \in Worker : Pass(w) \/ PassFault(w)
    BY DEF Next, Send, SaveHistory, HistoryLost, Enqueue, BecomeDue
  <2> QED BY <2>1, WorkerStepType DEF TypeInv, TypeOK, WorkerRec
<1>5. CountInv'
  <2>1. \A c \in Channel : row'[c].status \notin Terminal => row'[c].count < MaxAttempts
    BY <1>3, RowStepFacts
  <2>2. ASSUME NEW c \in sender'.left PROVE row'[c].status = "absent"
    <3>1. c \in sender.left /\ c \in Channel /\ row[c].status = "absent"
      BY SenderStep DEF TypeInv, TypeOK, CountInv
    <3> QED BY <1>3, <3>1, RowStepFacts
  <2>3. ASSUME NEW w \in Worker
        PROVE  /\ \A c \in worker'[w].left : row'[c].status # "absent"
               /\ worker'[w].at \in {"recording", "syncing"} =>
                    worker'[w].cur \in Channel /\ row'[worker'[w].cur].status # "absent"
    <3>1. CASE Pass(w) \/ PassFault(w)
      BY <3>1, WorkerStepType
    <3>2. CASE worker'[w] = worker[w]
      <4>1. worker[w].left \subseteq Channel
        BY DEF TypeInv, TypeOK
      <4> QED BY <1>3, <3>2, <4>1, RowStepFacts DEF TypeInv, CountInv
    <3>3. worker'[w] = worker[w] \/ Pass(w) \/ PassFault(w)
      <4>1. worker' = worker \/ \E v \in Worker : Pass(v) \/ PassFault(v)
        BY DEF Next, Send, SaveHistory, HistoryLost, Enqueue, BecomeDue
      <4> QED BY <4>1, WorkerStepType
    <3> QED BY <3>1, <3>2, <3>3
  <2> QED BY <2>1, <2>2, <2>3 DEF CountInv
<1> QED BY <1>2, <1>4, <1>5, SenderStep, OtherTypes DEF TypeInv, TypeOK, RowRec, WorkerRec

LEMMA TypeInvHolds == Spec => []TypeInv
<1>1. Init => TypeInv
  <2> SUFFICES ASSUME Init PROVE TypeInv
    OBVIOUS
  <2>1. 0 \in 0..MaxAttempts /\ 0 < MaxAttempts /\ 0 \in 0..FaultLimit
    BY AttemptAssumption, EventAssumption
  <2>2. worker \in [Worker -> WorkerRec] /\ \A w \in Worker : worker[w] = Idle
    BY IdleType DEF Init
  <2>3. TypeOK
    BY <2>1, <2>2 DEF Init, TypeOK, RowStatus, WorkerRec
  <2>4. CountInv
    BY <2>1, <2>2 DEF Init, CountInv, Idle
  <2> QED BY <2>3, <2>4 DEF TypeInv
<1> QED BY <1>1, TypeStep, PTL DEF Spec

\* Every reachable state is well typed, and no row is tried more than MaxAttempts
\* times (retryOneDelivery).
THEOREM TypeCorrect == Spec => []TypeOK
BY TypeInvHolds, PTL DEF TypeInv

-----------------------------------------------------------------------------
(* Attempts *)

\* Nobody counts attempts that were not made.
TriesInv ==
  /\ \A c \in Channel : row[c].status \notin Terminal => row[c].count <= tries[c]
  /\ \A w \in Worker : \A c \in worker[w].left : worker[w].count[c] <= tries[c]
  /\ \A w \in Worker : worker[w].at = "recording" /\ worker[w].verdict # "gone"
                         => worker[w].count[worker[w].cur] < tries[worker[w].cur]

LEMMA TriesGrow ==
  ASSUME TypeInv, Next, NEW c \in Channel
  PROVE  tries'[c] \in Nat /\ tries[c] \in Nat /\ tries'[c] >= tries[c]
<1>1. tries \in [Channel -> Nat]
  BY DEF TypeInv, TypeOK
<1>2. UNCHANGED tries \/ \E d \in Channel : tries' = [tries EXCEPT ![d] = @ + 1]
  <2>1. ASSUME NEW w \in Worker, Deliver(w)
        PROVE  UNCHANGED tries \/ \E d \in Channel : tries' = [tries EXCEPT ![d] = @ + 1]
    <3>1. worker[w].left \subseteq Channel
      BY DEF TypeInv, TypeOK
    <3> QED BY <2>1, <3>1 DEF Deliver
  <2> QED BY <2>1 DEF Next, Send, SaveHistory, HistoryLost, Enqueue, Pass, StartPass, ClaimDue,
                      Record, SyncHistory, PassFault, RecordLost, SyncLost, Crash, BecomeDue
<1> QED BY <1>1, <1>2

\* What TriesInv says of one worker.
Honest(x, t) ==
  /\ \A c \in x.left : x.count[c] <= t[c]
  /\ x.at = "recording" /\ x.verdict # "gone" => x.count[x.cur] < t[x.cur]

LEMMA HonestGrows ==
  ASSUME TypeInv, Next, NEW w \in Worker, Honest(worker[w], tries)
  PROVE  Honest(worker[w], tries')
<1>1. /\ worker[w].left \subseteq Channel
      /\ worker[w].count \in [Channel -> 0..(MaxAttempts - 1)]
      /\ worker[w].at = "recording" => worker[w].cur \in Channel
  BY DEF TypeInv, TypeOK, CountInv
<1>2. \A c \in Channel : worker[w].count[c] \in Nat
  BY <1>1
<1> QED BY <1>1, <1>2, TriesGrow DEF Honest

LEMMA HonestStep ==
  ASSUME TypeInv, TriesInv, NEW w \in Worker, Pass(w) \/ PassFault(w)
  PROVE  Honest(worker'[w], tries')
<1>0. /\ worker[w] \in WorkerRec /\ worker \in [Worker -> WorkerRec] /\ tries \in [Channel -> Nat]
      /\ Honest(worker[w], tries)
  BY DEF TypeInv, TypeOK, WorkerRec, TriesInv, Honest
<1>1. Honest(worker[w], tries')
  BY <1>0, HonestGrows DEF Next
<1>2. CASE StartPass(w)
  <2>1. /\ worker'[w].left = worker[w].left /\ worker'[w].count = worker[w].count
        /\ worker'[w].at = "claiming"
    BY <1>0, <1>2 DEF StartPass, WorkerRec
  <2> QED BY <1>1, <2>1 DEF Honest
<1>3. CASE ClaimDue(w)
  <2>1. PICK batch \in Batch(Due) : worker' = [worker EXCEPT ![w] = Holding(w, batch)]
    BY <1>3 DEF ClaimDue
  <2>2. \A c \in batch : row[c].count <= tries[c]
    BY HoldingType DEF TriesInv, Due, Terminal
  <2>3. worker'[w] = Holding(w, batch) /\ tries' = tries
    BY <1>0, <1>3, <2>1 DEF ClaimDue
  <2>4. /\ Holding(w, batch).left = batch /\ Holding(w, batch).at # "recording"
        /\ \A c \in batch : Holding(w, batch).count[c] = row[c].count
    BY HoldingType
  <2> QED BY <2>2, <2>3, <2>4 DEF Honest
<1>4. CASE Deliver(w)
  <2>1. PICK c \in worker[w].left, verdict \in SendVerdict \cup {"gone"} :
          /\ worker' = [worker EXCEPT ![w].at = "recording", ![w].left = @ \ {c}, ![w].cur = c,
                                      ![w].verdict = verdict]
          /\ tries' = IF verdict = "gone" THEN tries ELSE [tries EXCEPT ![c] = @ + 1]
    BY <1>4 DEF Deliver
  <2>2. /\ worker'[w].left \subseteq worker[w].left /\ worker'[w].count = worker[w].count
        /\ worker'[w].cur = c /\ worker'[w].verdict = verdict
    BY <1>0, <2>1 DEF WorkerRec
  <2>3. c \in Channel /\ worker[w].count[c] \in Nat /\ worker[w].count[c] <= tries[c]
    BY <1>0 DEF WorkerRec, Honest
  <2>4. verdict # "gone" => worker[w].count[c] < tries'[c]
    BY <1>0, <2>1, <2>3
  <2> QED BY <1>1, <2>2, <2>4 DEF Honest
<1>5. CASE Record(w) /\ Outcome(w) \in Terminal
  <2>1. /\ worker'[w].left = worker[w].left /\ worker'[w].count = worker[w].count
        /\ worker'[w].at = "syncing"
    BY <1>0, <1>5 DEF Record, WorkerRec
  <2> QED BY <1>1, <2>1 DEF Honest
<1>6. CASE worker' = NextRow(w)
  BY <1>0, <1>1, <1>6, NextRowFacts DEF Honest, Idle
<1>7. CASE Crash(w)
  BY <1>0, <1>7 DEF Crash, Honest, Idle
<1> QED BY <1>2, <1>3, <1>4, <1>5, <1>6, <1>7
        DEF Pass, PassFault, Record, SyncHistory, RecordLost, SyncLost

LEMMA TriesStep == TypeInv /\ TriesInv /\ [Next]_deliveryVars => TriesInv'
<1>1. CASE UNCHANGED deliveryVars
  BY <1>1 DEF deliveryVars, TriesInv
<1> SUFFICES ASSUME TypeInv, TriesInv, Next PROVE TriesInv'
  BY <1>1
<1>2. ASSUME NEW c \in Channel, row'[c].status \notin Terminal PROVE row'[c].count <= tries'[c]
  <2>1. RowStep(c) /\ row[c] \in RowRec /\ row'[c] \in RowRec
    BY RowSteps, RowTypes DEF TypeInv, TypeOK, RowRec
  <2>2. CASE row'[c].count = row[c].count /\ row[c].status \notin Terminal
    <3>1. row[c].count <= tries[c] /\ row[c].count \in Nat
      BY <2>1, <2>2 DEF TriesInv, RowRec
    <3> QED BY <2>2, <3>1, TriesGrow
  <2>3. ASSUME NEW w \in Worker, worker[w].at = "recording", worker[w].cur = c,
               row'[c] = [status |-> Outcome(w), count |-> Attempt(w), due |-> FALSE]
        PROVE  row'[c].count <= tries'[c]
    <3>1. worker[w].verdict # "gone"
      BY <1>2, <2>3 DEF Outcome, Terminal
    <3>2. worker[w].count[c] < tries[c] /\ worker[w].count[c] \in Nat
      BY <2>3, <3>1 DEF TriesInv, TypeInv, TypeOK
    <3>3. row'[c].count = worker[w].count[c] + 1
      BY <2>3 DEF Attempt
    <3> QED BY <3>2, <3>3, TriesGrow
  <2>4. c \in sender.left => row[c].status = "absent"
    BY DEF TypeInv, CountInv
  <2> QED BY <1>2, <2>1, <2>2, <2>3, <2>4 DEF RowStep, Terminal, RowRec
<1>3. ASSUME NEW w \in Worker PROVE Honest(worker'[w], tries')
  <2>1. worker'[w] = worker[w] \/ Pass(w) \/ PassFault(w)
    <3>1. worker' = worker \/ \E v \in Worker : Pass(v) \/ PassFault(v)
      BY DEF Next, Send, SaveHistory, HistoryLost, Enqueue, BecomeDue
    <3> QED BY <3>1, WorkerStepType
  <2>2. Honest(worker[w], tries)
    BY DEF TriesInv, Honest
  <2> QED BY <2>1, <2>2, HonestStep, HonestGrows
<1> QED BY <1>2, <1>3 DEF TriesInv, Honest

LEMMA TriesInvHolds == Spec => []TriesInv
<1>1. Init => TriesInv
  BY DEF Init, TriesInv, Idle
<1> QED BY <1>1, TriesStep, TypeInvHolds, PTL DEF Spec

-----------------------------------------------------------------------------
(* Claims *)

Holds(w, c) == c \in worker[w].left \/ (worker[w].at = "recording" /\ worker[w].cur = c)

\* A row in a worker's hands is claimed, by that worker alone, and its claim has not
\* ended; a row not enqueued yet is not there.
HeldInv ==
  /\ \A w \in Worker, c \in Channel :
       Holds(w, c) => row[c].status = "pending" /\ ~row[c].due
  /\ \A w, v \in Worker, c \in Channel : Holds(w, c) /\ Holds(v, c) => w = v
  /\ \A w \in Worker : /\ worker[w].at = "recording" => worker[w].cur \notin worker[w].left
                       /\ worker[w].at \in {"idle", "claiming"} => worker[w].left = {}
  /\ \A c \in sender.left : row[c].status = "absent"

\* A step of a worker that claims nothing takes nothing into its hands, and lets go of
\* a row it records.
LEMMA HandsShrink ==
  ASSUME TypeInv, HeldInv, NEW w \in Worker, Pass(w) \/ PassFault(w), ~ClaimDue(w)
  PROVE  /\ \A c \in Channel : Holds(w, c)' => Holds(w, c) /\ (Record(w) => c # worker[w].cur)
         /\ worker'[w].at = "recording" => worker'[w].cur \notin worker'[w].left
         /\ worker'[w].at \in {"idle", "claiming"} => worker'[w].left = {}
<1>0. /\ worker[w] \in WorkerRec /\ worker \in [Worker -> WorkerRec]
      /\ worker[w].at = "recording" => worker[w].cur \notin worker[w].left
      /\ worker[w].at \in {"idle", "claiming"} => worker[w].left = {}
  BY DEF TypeInv, TypeOK, WorkerRec, HeldInv
<1>1. CASE StartPass(w)
  <2>1. worker'[w].left = {} /\ worker'[w].at = "claiming" /\ ~Record(w)
    BY <1>0, <1>1 DEF StartPass, WorkerRec, Record
  <2> QED BY <2>1 DEF Holds
<1>2. CASE Deliver(w)
  <2>1. PICK c \in worker[w].left, verdict \in SendVerdict \cup {"gone"} :
          worker' = [worker EXCEPT ![w].at = "recording", ![w].left = @ \ {c}, ![w].cur = c,
                                   ![w].verdict = verdict]
    BY <1>2 DEF Deliver
  <2>2. /\ worker'[w].left = worker[w].left \ {c} /\ worker'[w].cur = c
        /\ worker'[w].at = "recording" /\ ~Record(w)
    BY <1>0, <1>2, <2>1 DEF WorkerRec, Deliver, Record
  <2> QED BY <2>2 DEF Holds
<1>3. CASE Record(w) /\ Outcome(w) \in Terminal
  <2>1. worker'[w].left = worker[w].left /\ worker'[w].at = "syncing" /\ worker[w].at = "recording"
    BY <1>0, <1>3 DEF Record, WorkerRec
  <2> QED BY <1>0, <2>1 DEF Holds
<1>4. CASE worker' = NextRow(w) /\ worker[w].at \in {"recording", "syncing"}
  <2>1. \/ worker'[w].left = worker[w].left /\ worker'[w].at = "sending"
        \/ worker'[w].left = {} /\ worker'[w].at = "idle"
    BY <1>0, <1>4, NextRowFacts DEF Idle
  <2>2. Record(w) => worker[w].at = "recording"
    BY DEF Record
  <2> QED BY <1>0, <2>1, <2>2 DEF Holds
<1>5. CASE Crash(w)
  <2>1. worker'[w].left = {} /\ worker'[w].at = "idle"
    BY <1>0, <1>5 DEF Crash, Idle
  <2> QED BY <2>1 DEF Holds
<1> QED BY <1>1, <1>2, <1>3, <1>4, <1>5
        DEF Pass, PassFault, Record, SyncHistory, RecordLost, SyncLost

\* A row that stays in a worker's hands is changed by nobody.
LEMMA HeldRowStays ==
  ASSUME "slow" \notin DeliveryEvents, TypeInv, HeldInv, Next,
         NEW w \in Worker, NEW c \in Channel, Holds(w, c), Holds(w, c)'
  PROVE  row'[c] = row[c]
<1>1. RowStep(c) /\ row[c].status = "pending" /\ ~row[c].due
  BY RowSteps DEF HeldInv
<1>2. c \notin sender.left /\ Held(c)
  BY <1>1 DEF HeldInv, Held, Holds
<1>3. ASSUME NEW v \in Worker, Record(v), worker[v].at = "recording", worker[v].cur = c
      PROVE  FALSE
  <2>1. v = w
    BY <1>3 DEF HeldInv, Holds
  <2>2. Pass(v) /\ ~ClaimDue(v)
    BY <1>3 DEF Pass, ClaimDue
  <2> QED BY <1>3, <2>1, <2>2, HandsShrink
<1> QED BY <1>1, <1>2, <1>3 DEF RowStep

LEMMA HeldStep ==
  ASSUME "slow" \notin DeliveryEvents
  PROVE  TypeInv /\ HeldInv /\ [Next]_deliveryVars => HeldInv'
<1>1. CASE UNCHANGED deliveryVars
  BY <1>1 DEF deliveryVars, HeldInv, Holds
<1> SUFFICES ASSUME TypeInv, HeldInv, Next PROVE HeldInv'
  BY <1>1
<1>2. \A c \in sender'.left : row'[c].status = "absent"
  BY TypeStep DEF TypeInv, CountInv
<1>3. ASSUME \A w \in Worker, c \in Channel : Holds(w, c)' => Holds(w, c),
             \A w \in Worker : /\ worker'[w].at = "recording" => worker'[w].cur \notin worker'[w].left
                               /\ worker'[w].at \in {"idle", "claiming"} => worker'[w].left = {}
      PROVE  HeldInv'
  <2>1. ASSUME NEW w \in Worker, NEW c \in Channel, Holds(w, c)'
        PROVE  row'[c].status = "pending" /\ ~row'[c].due
    BY <1>3, <2>1, HeldRowStays DEF HeldInv
  <2>2. \A w, v \in Worker, c \in Channel : Holds(w, c)' /\ Holds(v, c)' => w = v
    BY <1>3 DEF HeldInv
  <2> QED BY <1>2, <1>3, <2>1, <2>2 DEF HeldInv
<1>4. CASE UNCHANGED worker
  BY <1>3, <1>4 DEF HeldInv, Holds
<1>5. ASSUME NEW w \in Worker, Pass(w) \/ PassFault(w), ~ClaimDue(w) PROVE HeldInv'
  <2>1. \A v \in Worker \ {w} : worker'[v] = worker[v]
    BY <1>5, WorkerStepType
  <2>2. \A v \in Worker, c \in Channel : Holds(v, c)' => Holds(v, c)
    BY <1>5, <2>1, HandsShrink DEF Holds
  <2>3. \A v \in Worker : /\ worker'[v].at = "recording" => worker'[v].cur \notin worker'[v].left
                          /\ worker'[v].at \in {"idle", "claiming"} => worker'[v].left = {}
    BY <1>5, <2>1, HandsShrink DEF HeldInv
  <2> QED BY <1>3, <2>2, <2>3
<1>6. ASSUME NEW w \in Worker, ClaimDue(w) PROVE HeldInv'
  <2>1. PICK batch \in Batch(Due) :
          /\ row' = [c \in Channel |-> IF c \in batch
                       THEN [row[c] EXCEPT !.status = "pending", !.due = FALSE] ELSE row[c]]
          /\ worker' = [worker EXCEPT ![w] = Holding(w, batch)]
    BY <1>6 DEF ClaimDue
  <2>2. /\ \A v \in Worker \ {w} : worker'[v] = worker[v]
        /\ worker'[w] = Holding(w, batch)
    BY <2>1 DEF TypeInv, TypeOK
  <2>3. /\ batch \subseteq Due /\ worker'[w].left = batch
        /\ worker'[w].at = IF batch = {} THEN "idle" ELSE "sending"
    BY <2>2, HoldingType
  <2>4. \A c \in Channel : Holds(w, c)' <=> c \in batch
    BY <2>3 DEF Holds
  <2>5. \A v \in Worker \ {w}, c \in Channel : Holds(v, c)' <=> Holds(v, c)
    BY <2>2 DEF Holds
  <2>6. \A c \in batch : row'[c].status = "pending" /\ ~row'[c].due
    BY <2>1, <2>3, RowTypeFact DEF Due, RowRec
  <2>7. \A v \in Worker, c \in batch : ~Holds(v, c)
    BY <2>3 DEF HeldInv, Due
  <2>8. \A v \in Worker, c \in Channel : Holds(v, c)' => row'[c].status = "pending" /\ ~row'[c].due
    BY <2>1, <2>4, <2>5, <2>6 DEF HeldInv
  <2>9. \A u, v \in Worker, c \in Channel : Holds(u, c)' /\ Holds(v, c)' => u = v
    BY <2>4, <2>5, <2>7 DEF HeldInv
  <2>10. \A v \in Worker : /\ worker'[v].at = "recording" => worker'[v].cur \notin worker'[v].left
                           /\ worker'[v].at \in {"idle", "claiming"} => worker'[v].left = {}
    BY <2>2, <2>3 DEF HeldInv
  <2> QED BY <1>2, <2>8, <2>9, <2>10 DEF HeldInv
<1>7. UNCHANGED worker \/ \E w \in Worker : Pass(w) \/ PassFault(w)
  BY DEF Next, Send, SaveHistory, HistoryLost, Enqueue, BecomeDue
<1> QED BY <1>4, <1>5, <1>6, <1>7

LEMMA HeldInvHolds == ASSUME "slow" \notin DeliveryEvents PROVE Spec => []HeldInv
<1>1. Init => HeldInv
  BY DEF Init, HeldInv, Holds, Idle
<1>2. TypeInv /\ HeldInv /\ [Next]_deliveryVars => HeldInv'
  BY HeldStep
<1> QED BY <1>1, <1>2, TypeInvHolds, PTL DEF Spec

\* If no worker outlives its claim, nothing is sent for a row that reads sent: the
\* row of every send is claimed (claimDueDeliveries, retryOneDelivery).
THEOREM NotSentAgain ==
  ASSUME "slow" \notin DeliveryEvents
  PROVE  Spec => NotResent
<1>1. TypeInv /\ HeldInv /\ [Next]_deliveryVars
        => [\A c \in Channel : row[c].status = "sent" => tries'[c] = tries[c]]_deliveryVars
  <2> SUFFICES ASSUME TypeInv, HeldInv, Next, NEW c \in Channel, row[c].status = "sent"
               PROVE  tries'[c] = tries[c]
    BY DEF deliveryVars
  <2>1. ASSUME NEW w \in Worker, Deliver(w) PROVE tries'[c] = tries[c]
    <3>1. PICK d \in worker[w].left, verdict \in SendVerdict \cup {"gone"} :
            tries' = IF verdict = "gone" THEN tries ELSE [tries EXCEPT ![d] = @ + 1]
      BY <2>1 DEF Deliver
    <3>2. c \notin worker[w].left
      BY DEF HeldInv, Holds
    <3> QED BY <3>1, <3>2 DEF TypeInv, TypeOK
  <2> QED BY <2>1 DEF Next, Send, SaveHistory, HistoryLost, Enqueue, Pass, StartPass, ClaimDue,
                      Record, SyncHistory, PassFault, RecordLost, SyncLost, Crash, BecomeDue
<1>2. Spec => []HeldInv
  BY HeldInvHolds
<1> QED BY <1>1, <1>2, TypeInvHolds, PTL DEF Spec, NotResent

\* If no worker outlives its claim, a delivery that is given up as exhausted has been
\* sent MaxAttempts times, whichever workers sent it (retryOneDelivery's count).
THEOREM GivenUpInTime ==
  ASSUME "slow" \notin DeliveryEvents
  PROVE  Spec => GivenUpAfterAllAttempts
<1> DEFINE GivesUp(c, w) ==
      /\ worker[w].at = "recording" /\ worker[w].cur = c /\ worker[w].verdict = "transient"
      /\ row'[c].status = "failed" /\ row[c].status # "failed"
<1>1. ASSUME TypeInv, TriesInv, HeldInv, Next, NEW c \in Channel, NEW w \in Worker, GivesUp(c, w)
      PROVE  tries[c] >= MaxAttempts
  <2>1. /\ RowStep(c) /\ row[c].status = "pending" /\ ~row[c].due
        /\ row[c] \in RowRec /\ row'[c] \in RowRec
    BY <1>1, RowSteps, RowTypes, RowTypeFact DEF HeldInv, Holds
  <2>2. c \notin sender.left
    BY <1>1, <2>1 DEF HeldInv
  <2>3. \E v \in Worker : /\ worker[v].at = "recording" /\ worker[v].cur = c
                          /\ row'[c] = [status |-> Outcome(v), count |-> Attempt(v), due |-> FALSE]
    BY <1>1, <2>1, <2>2 DEF RowStep, RowRec
  <2>4. row'[c] = [status |-> Outcome(w), count |-> Attempt(w), due |-> FALSE]
    BY <1>1, <2>3 DEF HeldInv, Holds
  <2>5. Exhausted(w)
    BY <1>1, <2>4 DEF Outcome
  <2>6. worker[w].count[c] < tries[c] /\ worker[w].count[c] \in Nat /\ tries[c] \in Nat
    BY <1>1 DEF TriesInv, TypeInv, TypeOK
  <2> QED BY <1>1, <2>5, <2>6, AttemptAssumption DEF Exhausted, Attempt
<1>2. TypeInv /\ TriesInv /\ HeldInv /\ [Next]_deliveryVars
        => [\A c \in Channel : \A w \in Worker :
              worker[w].at = "recording" /\ worker[w].cur = c /\ worker[w].verdict = "transient"
                /\ row'[c].status = "failed" /\ row[c].status # "failed"
                => tries[c] >= MaxAttempts]_deliveryVars
  BY <1>1 DEF deliveryVars
<1>3. Spec => []HeldInv
  BY HeldInvHolds
<1> QED BY <1>2, <1>3, TypeInvHolds, TriesInvHolds, PTL DEF Spec, GivenUpAfterAllAttempts

-----------------------------------------------------------------------------
(* History *)

\* What reads sent has arrived.
SentInv ==
  /\ \A c \in Channel : first[c] = "sent" \/ row[c].status = "sent" => c \in arrived
  /\ \A w \in Worker : worker[w].at = "recording" /\ worker[w].verdict = "sent"
                         => worker[w].cur \in arrived

LEMMA ArrivedStay == ASSUME TypeInv, Next PROVE arrived \subseteq arrived' /\ first' = first
<1>1. ASSUME NEW w \in Worker, Deliver(w) PROVE arrived \subseteq arrived'
  BY <1>1 DEF Deliver
<1>2. CASE UNCHANGED arrived
  BY <1>2, OtherTypes
<1> QED BY <1>1, <1>2, OtherTypes
        DEF Next, Send, SaveHistory, HistoryLost, Enqueue, Pass, StartPass, ClaimDue, Record,
            SyncHistory, PassFault, RecordLost, SyncLost, Crash, BecomeDue

LEMMA SentStep == TypeInv /\ SentInv /\ [Next]_deliveryVars => SentInv'
<1>1. CASE UNCHANGED deliveryVars
  BY <1>1 DEF deliveryVars, SentInv
<1> SUFFICES ASSUME TypeInv, SentInv, Next PROVE SentInv'
  BY <1>1
<1>2. ASSUME NEW c \in Channel, row'[c].status = "sent" PROVE c \in arrived'
  <2>1. RowStep(c) /\ row[c] \in RowRec
    BY RowSteps, RowTypeFact
  <2>2. ASSUME NEW w \in Worker, worker[w].at = "recording", worker[w].cur = c,
               row'[c] = [status |-> Outcome(w), count |-> Attempt(w), due |-> FALSE]
        PROVE  c \in arrived'
    <3>1. worker[w].verdict = "sent"
      BY <1>2, <2>2 DEF Outcome
    <3> QED BY <2>2, <3>1, ArrivedStay DEF SentInv
  <2>3. row[c].status = "sent" => c \in arrived'
    BY ArrivedStay DEF SentInv
  <2>4. \/ row[c].status = "sent"
        \/ \E w \in Worker :
             /\ worker[w].at = "recording" /\ worker[w].cur = c
             /\ row'[c] = [status |-> Outcome(w), count |-> Attempt(w), due |-> FALSE]
    <3>1. row[c].status \in {"retrying", "pending"} =>
            /\ row'[c] # [row[c] EXCEPT !.status = "retrying"]
            /\ row'[c] # [row[c] EXCEPT !.status = "pending", !.due = FALSE]
            /\ row'[c] # [row[c] EXCEPT !.due = TRUE]
      BY <1>2, <2>1 DEF RowRec
    <3>2. row'[c] = row[c] => row[c].status = "sent"
      BY <1>2
    <3> QED BY <1>2, <2>1, <3>1, <3>2, Zenon DEF RowStep
  <2> QED BY <2>2, <2>3, <2>4
<1>3. ASSUME NEW w \in Worker, worker'[w].at = "recording", worker'[w].verdict = "sent"
      PROVE  worker'[w].cur \in arrived'
  <2>0. worker \in [Worker -> WorkerRec] /\ worker[w] \in WorkerRec
    BY DEF TypeInv, TypeOK, WorkerRec
  <2>1. CASE worker'[w] = worker[w]
    BY <1>3, <2>1, ArrivedStay DEF SentInv
  <2>2. CASE Deliver(w)
    <3>1. PICK c \in worker[w].left, verdict \in SendVerdict \cup {"gone"} :
            /\ worker' = [worker EXCEPT ![w].at = "recording", ![w].left = @ \ {c}, ![w].cur = c,
                                        ![w].verdict = verdict]
            /\ \/ verdict # "gone" /\ arrived' = arrived \cup {c}
               \/ verdict # "sent" /\ UNCHANGED arrived
      BY <2>2 DEF Deliver
    <3>2. worker'[w].cur = c /\ worker'[w].verdict = verdict
      BY <2>0, <3>1 DEF WorkerRec
    <3> QED BY <1>3, <3>1, <3>2
  <2>3. CASE StartPass(w) \/ (Record(w) /\ Outcome(w) \in Terminal)
    <3>1. \E at \in {"claiming", "syncing"} : worker' = [worker EXCEPT ![w].at = at]
      BY <2>3 DEF StartPass, Record
    <3>2. worker'[w].at \in {"claiming", "syncing"}
      BY <2>0, <3>1 DEF WorkerRec
    <3> QED BY <1>3, <3>2
  <2>4. CASE worker' = NextRow(w) \/ Crash(w)
    BY <1>3, <2>0, <2>4, NextRowFacts DEF Crash, Idle
  <2>5. CASE ClaimDue(w)
    <3>1. PICK batch \in Batch(Due) : worker' = [worker EXCEPT ![w] = Holding(w, batch)]
      BY <2>5 DEF ClaimDue
    <3> QED BY <1>3, <2>0, <3>1, HoldingType
  <2>6. worker'[w] = worker[w] \/ Pass(w) \/ PassFault(w)
    <3>1. worker' = worker \/ \E v \in Worker : Pass(v) \/ PassFault(v)
      BY DEF Next, Send, SaveHistory, HistoryLost, Enqueue, BecomeDue
    <3> QED BY <3>1, WorkerStepType
  <2> QED BY <2>1, <2>2, <2>3, <2>4, <2>5, <2>6
          DEF Pass, PassFault, Record, SyncHistory, RecordLost, SyncLost
<1> QED BY <1>2, <1>3, ArrivedStay DEF SentInv

\* The history is saved before anything is queued, and all is queued before a worker
\* acts.
OrderInv ==
  /\ sender.at = "saving" => /\ history.status = "absent"
                             /\ sender.left = {c \in Channel : first[c] # "sent"}
  /\ sender.at = "enqueueing" => history.status # "absent"
  /\ sender.at = "done" => sender.left = {}
  /\ \A c \in Channel : /\ row[c].due => sender.at = "done"
                        /\ row[c].status # "absent" => history.status # "absent"
  /\ \A w \in Worker : worker[w].at \in {"sending", "recording", "syncing"}
                         => sender.at = "done" /\ history.status # "absent"

LEMMA OrderStep == TypeInv /\ OrderInv /\ [Next]_deliveryVars => OrderInv'
<1>1. CASE UNCHANGED deliveryVars
  BY <1>1 DEF deliveryVars, OrderInv
<1> SUFFICES ASSUME TypeInv, OrderInv, Next PROVE OrderInv'
  BY <1>1
<1>0. /\ sender \in [at: {"saving", "enqueueing", "done"}, left: SUBSET Channel]
      /\ row \in [Channel -> RowRec] /\ first' = first
  BY OtherTypes DEF TypeInv, TypeOK, RowRec
<1>2. CASE SaveHistory
  <2>1. /\ history'.status # "absent" /\ sender'.left = sender.left
        /\ sender'.at = IF sender.left = {} THEN "done" ELSE "enqueueing"
        /\ UNCHANGED <<row, worker>> /\ sender.left = {c \in Channel : first[c] # "sent"}
        /\ sender.at # "done"
    BY <1>0, <1>2 DEF SaveHistory, HistoryStatus, OrderInv
  <2> QED BY <1>0, <2>1 DEF OrderInv
<1>3. CASE HistoryLost
  <2>1. /\ sender' = [at |-> "done", left |-> {}] /\ UNCHANGED <<row, worker, history>>
        /\ history.status = "absent"
    BY <1>3 DEF HistoryLost, OrderInv
  <2> QED BY <1>0, <2>1 DEF OrderInv
<1>4. ASSUME NEW d \in Channel, Enqueue(d) PROVE OrderInv'
  <2>0. sender' = [at |-> IF sender.left = {d} THEN "done" ELSE "enqueueing",
                   left |-> sender.left \ {d}]
    BY <1>4 DEF Enqueue
  <2>1. /\ sender'.at = IF sender.left = {d} THEN "done" ELSE "enqueueing"
        /\ sender'.left = sender.left \ {d}
    BY <2>0
  <2>6. UNCHANGED <<history, worker>> /\ d \in sender.left /\ sender.at = "enqueueing"
    BY <1>4 DEF Enqueue
  <2>2. UNCHANGED row \/ \E s \in {"failed", "retrying"} : row' = [row EXCEPT ![d].status = s]
    BY <1>4 DEF Enqueue
  <2>3. \A c \in Channel : c # d => row'[c] = row[c]
    BY <1>0, <2>2
  <2>4. row'[d].due = row[d].due
    BY <1>0, <2>2 DEF RowRec
  <2>5. history.status # "absent"
    BY <2>6 DEF OrderInv
  <2> QED BY <1>0, <2>1, <2>3, <2>4, <2>5, <2>6 DEF OrderInv
<1>5. ASSUME NEW w \in Worker, Pass(w) \/ PassFault(w) PROVE OrderInv'
  <2>1. UNCHANGED sender
    BY <1>5 DEF Pass, StartPass, ClaimDue, Deliver, Record, SyncHistory, PassFault, RecordLost,
                SyncLost, Crash
  <2>2. UNCHANGED history \/ (history'.status # "absent" /\ worker[w].at = "syncing")
    <3>1. CASE SyncHistory(w)
      <4>1. worker[w].at = "syncing" /\ \E used : history'.status = HistoryStatus(used, Unresolved)
        BY <3>1 DEF SyncHistory
      <4> QED BY <4>1 DEF HistoryStatus
    <3>2. ~SyncHistory(w) => UNCHANGED history
      BY <1>5 DEF Pass, StartPass, ClaimDue, Deliver, Record, PassFault, RecordLost, SyncLost, Crash
    <3> QED BY <3>1, <3>2
  <2>3. history'.status # "absent" <=> history.status # "absent"
    BY <2>2 DEF OrderInv
  <2>4. ASSUME NEW c \in Channel
        PROVE  /\ row'[c].status # "absent" <=> row[c].status # "absent"
               /\ row'[c].due => row[c].due \/ sender.at = "done"
    <3>1. RowStep(c) /\ row[c] \in RowRec /\ row'[c] \in RowRec
      BY <1>5, RowSteps, RowTypes, RowTypeFact DEF Next
    <3> QED BY <2>1, <3>1, RowStepPresence
  <2>5. ASSUME NEW v \in Worker, worker'[v].at \in {"sending", "recording", "syncing"}
        PROVE  sender.at = "done" /\ history.status # "absent"
    <3>1. CASE worker[v].at \in {"sending", "recording", "syncing"}
      BY <3>1 DEF OrderInv
    <3>2. CASE ClaimDue(w) /\ v = w
      <4>1. PICK batch \in Batch(Due) : worker' = [worker EXCEPT ![w] = Holding(w, batch)]
        BY <3>2 DEF ClaimDue
      <4>2. worker'[w].at = IF batch = {} THEN "idle" ELSE "sending"
        <5>1. worker'[w] = Holding(w, batch)
          BY <4>1 DEF TypeInv, TypeOK
        <5>2. Holding(w, batch).at = IF batch = {} THEN "idle" ELSE "sending"
          BY HoldingType
        <5> QED BY <5>1, <5>2
      <4>3. PICK c \in batch : c \in Due
        BY <2>5, <3>2, <4>2, HoldingType
      <4> QED BY <4>3 DEF Due, OrderInv
    <3>3. CASE StartPass(w) /\ v = w
      <4>1. worker'[w].at = "claiming"
        BY <3>3 DEF StartPass, TypeInv, TypeOK
      <4> QED BY <2>5, <3>3, <4>1
    <3>4. worker[w].at \in {"sending", "recording", "syncing"} \/ ClaimDue(w) \/ StartPass(w)
      BY <1>5 DEF Pass, Deliver, Record, SyncHistory, PassFault, RecordLost, SyncLost, Crash
    <3> QED BY <1>5, <2>5, <3>1, <3>2, <3>3, <3>4, WorkerStepType
  <2> QED BY <1>0, <2>1, <2>3, <2>4, <2>5 DEF OrderInv
<1>6. ASSUME NEW d \in Channel, BecomeDue(d) PROVE OrderInv'
  <2>1. /\ UNCHANGED <<sender, worker, history>> /\ sender.at = "done"
        /\ row[d].status # "absent"
        /\ row' = [row EXCEPT ![d].due = TRUE]
    BY <1>6 DEF BecomeDue
  <2>2. \A c \in Channel : row'[c].status = row[c].status
    BY <1>0, <2>1 DEF RowRec
  <2> QED BY <1>0, <2>1, <2>2 DEF OrderInv
<1> QED BY <1>2, <1>3, <1>4, <1>5, <1>6 DEF Next, Send

LEMMA OrderInvHolds == Spec => []OrderInv
<1>1. Init => OrderInv
  <2> SUFFICES ASSUME Init PROVE OrderInv
    OBVIOUS
  <2>1. \A w \in Worker : worker[w].at = "idle"
    BY DEF Init, Idle
  <2>2. /\ sender.at = "saving" /\ sender.left = {c \in Channel : first[c] # "sent"}
        /\ history.status = "absent"
    BY DEF Init
  <2>3. \A c \in Channel : row[c].status = "absent" /\ ~row[c].due
    BY DEF Init
  <2> QED BY <2>1, <2>2, <2>3 DEF OrderInv
<1> QED BY <1>1, OrderStep, TypeInvHolds, PTL DEF Spec

\* Once the history is saved, a channel that was not reached at first has a queue row
\* or is about to get one.
QueuedInv ==
  history.status # "absent" =>
    \A c \in Channel : first[c] = "sent" \/ c \in sender.left \/ row[c].status # "absent"

LEMMA QueuedStep ==
  ASSUME "enqueue lost" \notin DeliveryEvents
  PROVE  TypeInv /\ OrderInv /\ QueuedInv /\ [Next]_deliveryVars => QueuedInv'
<1>1. CASE UNCHANGED deliveryVars
  BY <1>1 DEF deliveryVars, QueuedInv
<1> SUFFICES ASSUME TypeInv, OrderInv, QueuedInv, Next, history'.status # "absent",
                    NEW c \in Channel, first'[c] # "sent"
             PROVE  c \in sender'.left \/ row'[c].status # "absent"
  BY <1>1 DEF QueuedInv
<1>2. first' = first /\ (row[c].status # "absent" => row'[c].status # "absent")
  BY OtherTypes, RowTypes, RowSteps, RowStepPresence
<1>3. CASE SaveHistory
  <2>1. sender.left = {d \in Channel : first[d] # "sent"} /\ sender'.left = sender.left
    BY <1>3 DEF SaveHistory, OrderInv, TypeInv, TypeOK
  <2> QED BY <1>2, <2>1
<1>4. ASSUME ~SaveHistory, c \in sender.left \/ row[c].status # "absent"
      PROVE  c \in sender'.left \/ row'[c].status # "absent"
  <2>1. CASE HistoryLost
    <3>1. history.status = "absent" /\ history' = history
      BY <2>1 DEF HistoryLost, OrderInv
    <3> QED BY <3>1
  <2>2. ASSUME NEW d \in Channel, Enqueue(d)
        PROVE  c \in sender'.left \/ row'[c].status # "absent"
    <3>1. sender'.left = sender.left \ {d}
      BY <2>2 DEF Enqueue
    <3>2. PICK s \in {"failed", "retrying"} : row' = [row EXCEPT ![d].status = s]
      BY <2>2 DEF Enqueue, Fault
    <3>3. row'[d].status # "absent"
      <4>1. row \in [Channel -> RowRec]
        BY DEF TypeInv, TypeOK, RowRec
      <4>2. row'[d].status = s
        BY <3>2, <4>1 DEF RowRec
      <4> QED BY <4>2
    <3> QED BY <1>2, <1>4, <3>1, <3>3
  <2>3. CASE UNCHANGED sender
    BY <1>2, <1>4, <2>3
  <2> QED BY <1>4, <2>1, <2>2, <2>3
          DEF Next, Send, Pass, StartPass, ClaimDue, Deliver, Record, SyncHistory, PassFault,
              RecordLost, SyncLost, Crash, BecomeDue
<1>5. ~SaveHistory => history.status # "absent"
  <2>1. ASSUME NEW w \in Worker, SyncHistory(w) PROVE history.status # "absent"
    BY <2>1 DEF SyncHistory, OrderInv
  <2> QED BY <2>1 DEF Next, Send, HistoryLost, Enqueue, Pass, StartPass, ClaimDue, Deliver, Record,
                      PassFault, RecordLost, SyncLost, Crash, BecomeDue
<1> QED BY <1>2, <1>3, <1>4, <1>5 DEF QueuedInv

LEMMA QueuedInvHolds == ASSUME "enqueue lost" \notin DeliveryEvents PROVE Spec => []QueuedInv
<1>1. Init => QueuedInv
  <2> SUFFICES ASSUME Init PROVE QueuedInv
    OBVIOUS
  <2>1. history = [status |-> "absent", used |-> {}, result |-> [c \in Channel |-> "none"]]
    BY DEF Init
  <2>2. history.status = "absent"
    BY <2>1
  <2> QED BY <2>2 DEF QueuedInv
<1>2. TypeInv /\ OrderInv /\ QueuedInv /\ [Next]_deliveryVars => QueuedInv'
  BY QueuedStep
<1> QED BY <1>1, <1>2, OrderInvHolds, TypeInvHolds, PTL DEF Spec

\* If every failure that can be queued is queued, the history reads sent only once the
\* notification has reached every channel (historyStatusFor, syncHistory).
THEOREM SentIsDelivered ==
  ASSUME "enqueue lost" \notin DeliveryEvents
  PROVE  Spec => []SentMeansDelivered
<1>1. Init => SentInv /\ SentMeansDelivered
  <2> SUFFICES ASSUME Init PROVE SentInv /\ SentMeansDelivered
    OBVIOUS
  <2>1. \A w \in Worker : worker[w].at = "idle"
    BY DEF Init, Idle
  <2>2. history.status = "absent" /\ \A c \in Channel : row[c].status = "absent"
    BY DEF Init
  <2>3. \A c \in Channel : first[c] = "sent" => c \in arrived
    BY DEF Init
  <2> QED BY <2>1, <2>2, <2>3 DEF SentInv, SentMeansDelivered
<1>2. Spec => []QueuedInv
  BY QueuedInvHolds
<1>3. TypeInv /\ OrderInv /\ SentInv /\ QueuedInv /\ SentMeansDelivered /\ [Next]_deliveryVars
        => SentMeansDelivered'
  <2>1. CASE UNCHANGED deliveryVars
    BY <2>1 DEF deliveryVars, SentMeansDelivered
  <2> SUFFICES ASSUME TypeInv, OrderInv, SentInv, QueuedInv, SentMeansDelivered, Next
               PROVE  SentMeansDelivered'
    BY <2>1
  <2>2. arrived \subseteq arrived' /\ arrived' \subseteq Channel
    BY ArrivedStay, OtherTypes
  <2>3. CASE UNCHANGED history
    BY <2>2, <2>3 DEF SentMeansDelivered
  <2>4. CASE SaveHistory
    <3>1. history'.status = HistoryStatus(Channel \ sender.left, sender.left)
          /\ sender.left = {c \in Channel : first[c] # "sent"}
      BY <2>4 DEF SaveHistory, OrderInv
    <3>2. history'.status = "sent" => \A c \in Channel : first[c] = "sent"
      BY <3>1 DEF HistoryStatus
    <3> QED BY <2>2, <3>2 DEF SentMeansDelivered, SentInv
  <2>5. ASSUME NEW w \in Worker, SyncHistory(w), history'.status = "sent"
        PROVE  \A c \in Channel : c \in arrived
    <3>1. worker[w].at = "syncing" /\ \E used : history'.status = HistoryStatus(used, Unresolved)
      BY <2>5 DEF SyncHistory
    <3>2. Unresolved = {}
      BY <2>5, <3>1 DEF HistoryStatus
    <3>3. sender.left = {} /\ history.status # "absent"
      BY <3>1 DEF OrderInv
    <3>4. \A c \in Channel : first[c] = "sent" \/ row[c].status = "sent"
      BY <3>2, <3>3 DEF QueuedInv, Unresolved
    <3> QED BY <3>4 DEF SentInv
  <2>6. UNCHANGED history \/ SaveHistory \/ \E w \in Worker : SyncHistory(w)
    BY DEF Next, Send, HistoryLost, Enqueue, Pass, StartPass, ClaimDue, Deliver, Record, PassFault,
           RecordLost, SyncLost, Crash, BecomeDue
  <2> QED BY <2>2, <2>3, <2>4, <2>5, <2>6 DEF SentMeansDelivered
<1> QED BY <1>1, <1>2, <1>3, SentStep, OrderInvHolds, TypeInvHolds, PTL DEF Spec
-----------------------------------------------------------------------------
(* Outcome *)

\* Channels whose outcome is on its row and not yet in the history, and those whose
\* row reads sent.
InSync   == {c \in Channel : \E w \in Worker : worker[w].at = "syncing" /\ worker[w].cur = c}
SentRows == {c \in Channel : row[c].status = "sent"}

\* A row that appears is that of a failed send; one that is synced holds its worker's
\* outcome, and no other worker syncs it.
SyncInv ==
  /\ \A c \in Channel : row[c].status # "absent" \/ c \in sender.left => first[c] # "sent"
  /\ \A w \in Worker : worker[w].at = "syncing" =>
       row[worker[w].cur].status = IF worker[w].verdict = "sent" THEN "sent" ELSE "failed"
  /\ \A w, v \in Worker : worker[w].at = "syncing" /\ worker[v].at = "syncing"
                            /\ worker[w].cur = worker[v].cur => w = v

\* While no step of it was lost, the history is behind the rows by those in sync; its
\* status is stale only while one that reads sent is among them.
ToldInv ==
  ~lost /\ history.status # "absent" =>
    /\ history.used = {c \in Channel : first[c] = "sent"} \cup (SentRows \ InSync)
    /\ \A c \in Channel :
         /\ c \in history.used => history.result[c] = "sent"
         /\ row[c].status = "failed" /\ c \notin InSync => history.result[c] = "failed"
         /\ c \in sender.left /\ first[c] = "permanent" => history.result[c] = "failed"
    /\ SentRows \cap InSync = {} =>
         history.status = HistoryStatus(history.used, Unresolved \cup sender.left)

\* A settled row is never written again.
LEMMA SettledStays ==
  ASSUME TypeInv, HeldInv, Next, NEW c \in Channel, row[c].status \in Terminal
  PROVE  row'[c] = row[c]
<1>1. RowStep(c) /\ c \notin sender.left
  BY RowSteps DEF HeldInv, Terminal
<1>2. \A w \in Worker : ~(worker[w].at = "recording" /\ worker[w].cur = c)
  BY DEF HeldInv, Holds, Terminal
<1> QED BY <1>1, <1>2 DEF RowStep, Terminal

\* Syncing follows a settling Record, and ends with the next step.
LEMMA SyncFacts ==
  ASSUME TypeInv, NEW w \in Worker, Pass(w) \/ PassFault(w)
  PROVE  /\ worker'[w].at = "syncing" =>
              /\ Record(w) /\ Outcome(w) \in Terminal /\ worker[w].at = "recording"
              /\ worker'[w].cur = worker[w].cur /\ worker'[w].verdict = worker[w].verdict
         /\ Record(w) /\ Outcome(w) \in Terminal => worker'[w].at = "syncing"
<1>0. worker \in [Worker -> WorkerRec] /\ worker[w] \in WorkerRec
  BY DEF TypeInv, TypeOK, WorkerRec
<1>1. CASE StartPass(w)
  <2>1. worker'[w].at = "claiming" /\ ~Record(w)
    BY <1>0, <1>1 DEF StartPass, Record, WorkerRec
  <2> QED BY <2>1
<1>2. CASE ClaimDue(w)
  <2>1. PICK batch \in Batch(Due) : worker' = [worker EXCEPT ![w] = Holding(w, batch)]
    BY <1>2 DEF ClaimDue
  <2>2. worker'[w] = Holding(w, batch) /\ ~Record(w)
    BY <1>0, <1>2, <2>1 DEF ClaimDue, Record
  <2> QED BY <2>2, HoldingType
<1>3. CASE Deliver(w)
  <2>1. PICK c \in worker[w].left, verdict \in SendVerdict \cup {"gone"} :
          worker' = [worker EXCEPT ![w].at = "recording", ![w].left = @ \ {c}, ![w].cur = c,
                                   ![w].verdict = verdict]
    BY <1>3 DEF Deliver
  <2>2. worker'[w].at = "recording" /\ ~Record(w)
    BY <1>0, <1>3, <2>1 DEF Deliver, Record, WorkerRec
  <2> QED BY <2>2
<1>4. CASE Record(w) /\ Outcome(w) \in Terminal
  <2>1. worker' = [worker EXCEPT ![w].at = "syncing"] /\ worker[w].at = "recording"
    BY <1>4 DEF Record
  <2>2. /\ worker'[w].at = "syncing" /\ worker'[w].cur = worker[w].cur
        /\ worker'[w].verdict = worker[w].verdict
    BY <1>0, <2>1 DEF WorkerRec
  <2> QED BY <1>4, <2>1, <2>2
<1>5. CASE worker' = NextRow(w) /\ ~(Record(w) /\ Outcome(w) \in Terminal)
  BY <1>0, <1>5, NextRowFacts DEF Idle
<1>6. CASE Crash(w) /\ ~Record(w)
  BY <1>0, <1>6 DEF Crash, Idle
<1> QED BY <1>1, <1>2, <1>3, <1>4, <1>5, <1>6
        DEF Pass, PassFault, Record, SyncHistory, RecordLost, SyncLost

\* No other step leads to it.
LEMMA QuietSteps ==
  ASSUME TypeInv, NEW w \in Worker,
         StartPass(w) \/ ClaimDue(w) \/ Deliver(w) \/ SyncHistory(w) \/ PassFault(w)
  PROVE  worker'[w].at # "syncing"
<1>0. worker \in [Worker -> WorkerRec] /\ (Pass(w) \/ PassFault(w))
  BY DEF TypeInv, TypeOK, WorkerRec, Pass
<1>1. CASE worker[w].at # "recording"
  BY <1>0, <1>1, SyncFacts
<1>2. CASE RecordLost(w)
  <2>1. worker' = NextRow(w)
    BY <1>2 DEF RecordLost
  <2> QED BY <1>0, <2>1, NextRowFacts DEF Idle
<1>3. CASE Crash(w)
  BY <1>0, <1>3 DEF Crash, Idle
<1>4. CASE StartPass(w) \/ ClaimDue(w) \/ Deliver(w) \/ SyncHistory(w) \/ SyncLost(w)
  <2>1. worker[w].at # "recording"
    BY <1>4 DEF StartPass, ClaimDue, Deliver, SyncHistory, SyncLost
  <2> QED BY <1>1, <2>1
<1> QED BY <1>2, <1>3, <1>4 DEF PassFault

\* A worker that records holds a row that waits for it, and leaves its outcome on it.
LEMMA RecordFacts ==
  ASSUME TypeInv, HeldInv, NEW w \in Worker, Record(w)
  PROVE  LET c == worker[w].cur
         IN  /\ c \in Channel /\ row[c].status = "pending" /\ worker[w].at = "recording"
             /\ row'[c].status = Outcome(w)
             /\ \A d \in Channel \ {c} : row'[d] = row[d]
<1>1. worker[w].at = "recording" /\ worker[w].cur \in Channel
  BY DEF Record, TypeInv, CountInv
<1>2. row[worker[w].cur].status = "pending"
  BY <1>1 DEF HeldInv, Holds
<1>3. row' = [row EXCEPT ![worker[w].cur] =
                [status |-> Outcome(w), count |-> Attempt(w), due |-> FALSE]]
  BY DEF Record, InHand
<1>4. row \in [Channel -> RowRec]
  BY DEF TypeInv, TypeOK, RowRec
<1> QED BY <1>1, <1>2, <1>3, <1>4

\* Who steps, if anybody's state changes.
LEMMA OneSteps ==
  ASSUME TypeInv, Next
  PROVE  \A w \in Worker : worker'[w] = worker[w] \/ Pass(w) \/ PassFault(w)
<1>1. worker' = worker \/ \E v \in Worker : Pass(v) \/ PassFault(v)
  BY DEF Next, Send, SaveHistory, HistoryLost, Enqueue, BecomeDue
<1> QED BY <1>1, WorkerStepType

LEMMA SyncStep == TypeInv /\ HeldInv /\ SyncInv /\ [Next]_deliveryVars => SyncInv'
<1>1. CASE UNCHANGED deliveryVars
  BY <1>1 DEF deliveryVars, SyncInv
<1> SUFFICES ASSUME TypeInv, HeldInv, SyncInv, Next PROVE SyncInv'
  BY <1>1
<1>2. ASSUME NEW c \in Channel, row'[c].status # "absent" \/ c \in sender'.left
      PROVE  first'[c] # "sent"
  <2>1. RowStep(c) /\ row'[c] \in RowRec
    BY RowSteps, RowTypes
  <2>2. row[c].status # "absent" \/ c \in sender.left
    BY <1>2, <2>1, RowStepPresence, SenderStep
  <2> QED BY <2>2, OtherTypes DEF SyncInv
\* Who syncs afterwards did so before, of a settled row, or has just settled it.
<1>3. ASSUME NEW w \in Worker, worker'[w].at = "syncing"
      PROVE  \/ /\ worker'[w] = worker[w] /\ row'[worker[w].cur] = row[worker[w].cur]
                /\ row[worker[w].cur].status \in Terminal
             \/ /\ Record(w) /\ row[worker[w].cur].status = "pending"
                /\ worker'[w].cur = worker[w].cur /\ worker'[w].verdict = worker[w].verdict
                /\ Outcome(w) \in Terminal /\ row'[worker[w].cur].status = Outcome(w)
  <2>1. CASE worker'[w] = worker[w]
    <3>1. worker[w].cur \in Channel /\ row[worker[w].cur].status \in Terminal
      BY <1>3, <2>1 DEF SyncInv, TypeInv, CountInv, Terminal
    <3> QED BY <2>1, <3>1, SettledStays
  <2>2. CASE Pass(w) \/ PassFault(w)
    BY <1>3, <2>2, SyncFacts, RecordFacts
  <2> QED BY <2>1, <2>2, OneSteps
<1>4. ASSUME NEW w \in Worker, worker'[w].at = "syncing"
      PROVE  row'[worker'[w].cur].status = IF worker'[w].verdict = "sent" THEN "sent" ELSE "failed"
  <2>1. Outcome(w) \in Terminal =>
          Outcome(w) = IF worker[w].verdict = "sent" THEN "sent" ELSE "failed"
    BY DEF Outcome, Terminal
  <2> QED BY <1>3, <1>4, <2>1 DEF SyncInv
<1>5. ASSUME NEW w \in Worker, NEW v \in Worker, worker'[w].at = "syncing",
             worker'[v].at = "syncing", worker'[w].cur = worker'[v].cur
      PROVE  w = v
  <2>1. CASE Record(w) /\ Record(v)
    <3>1. /\ worker[w].at = "recording" /\ worker[v].at = "recording"
          /\ worker[w].cur = worker[v].cur /\ worker[w].cur \in Channel
      BY <1>3, <1>5, <2>1, RecordFacts
    <3> QED BY <3>1 DEF HeldInv, Holds
  <2>2. CASE worker'[w] = worker[w] /\ worker'[v] = worker[v]
    BY <1>5, <2>2 DEF SyncInv
  <2> QED BY <1>3, <1>5, <2>1, <2>2 DEF Terminal
<1> QED BY <1>2, <1>4, <1>5 DEF SyncInv

LEMMA SyncInvHolds == ASSUME "slow" \notin DeliveryEvents PROVE Spec => []SyncInv
<1>1. Init => SyncInv
  BY DEF Init, SyncInv, Idle
<1> QED BY <1>1, SyncStep, HeldInvHolds, TypeInvHolds, PTL DEF Spec

\* A step that leaves the history alone, settles no row but by giving up what it
\* could not queue, and neither starts nor ends a sync.
LEMMA ToldStays ==
  ASSUME ToldInv, first' = first, history' = history, lost' = lost,
         InSync' = InSync, SentRows' = SentRows,
         (Unresolved \cup sender.left)' = Unresolved \cup sender.left,
         sender'.left \subseteq sender.left,
         \A c \in Channel : row'[c].status = "failed" =>
            row[c].status = "failed" \/ (c \in sender.left /\ first[c] = "permanent")
  PROVE  ToldInv'
BY DEF ToldInv

\* Who is in sync after a step of one worker.
LEMMA InSyncStep ==
  ASSUME TypeInv, SyncInv, NEW w \in Worker, Pass(w) \/ PassFault(w)
  PROVE  InSync' = IF worker'[w].at = "syncing" THEN InSync \cup {worker[w].cur}
                   ELSE IF worker[w].at = "syncing" THEN InSync \ {worker[w].cur} ELSE InSync
<1>1. \A v \in Worker \ {w} : worker'[v] = worker[v]
  BY WorkerStepType
<1>2. worker'[w].at = "syncing" =>
        /\ worker'[w].cur = worker[w].cur /\ worker[w].cur \in Channel
        /\ worker[w].at = "recording"
  BY SyncFacts DEF TypeInv, CountInv
<1> QED BY <1>1, <1>2 DEF InSync, SyncInv

LEMMA ToldStep ==
  ASSUME "enqueue lost" \notin DeliveryEvents
  PROVE  TypeInv /\ HeldInv /\ OrderInv /\ QueuedInv /\ SyncInv /\ ToldInv /\ [Next]_deliveryVars
           => ToldInv'
<1>1. CASE UNCHANGED deliveryVars
  <2>1. UNCHANGED <<first, sender, row, worker, history, lost>>
    BY <1>1 DEF deliveryVars
  <2>2. InSync' = InSync /\ SentRows' = SentRows /\ Unresolved' = Unresolved
    BY <2>1 DEF InSync, SentRows, Unresolved
  <2> QED BY <2>1, <2>2 DEF ToldInv
<1> SUFFICES ASSUME TypeInv, HeldInv, OrderInv, QueuedInv, SyncInv, ToldInv, Next PROVE ToldInv'
  BY <1>1
<1>0. /\ row \in [Channel -> RowRec] /\ row' \in [Channel -> RowRec] /\ first' = first
      /\ sender'.left \subseteq sender.left /\ sender.left \subseteq Channel
  BY RowTypes, OtherTypes, SenderStep DEF TypeInv, TypeOK, RowRec
<1>2. CASE SaveHistory
  <2>1. /\ row' = row /\ worker' = worker /\ sender'.left = sender.left
        /\ history' = [status |-> HistoryStatus(Channel \ sender.left, sender.left),
                       used   |-> Channel \ sender.left,
                       result |-> [c \in Channel |-> CASE first[c] = "sent"      -> "sent"
                                                       [] first[c] = "transient" -> "retrying"
                                                       [] OTHER                  -> "failed"]]
    BY <1>0, <1>2 DEF SaveHistory, TypeInv, TypeOK
  <2>2. /\ \A c \in Channel : row[c].status = "absent"
        /\ \A w \in Worker : worker[w].at # "syncing"
        /\ sender.left = {c \in Channel : first[c] # "sent"}
    BY <1>2 DEF SaveHistory, OrderInv
  <2>3. InSync' = {} /\ SentRows' = {} /\ Unresolved' = {}
    BY <2>1, <2>2 DEF InSync, SentRows, Unresolved
  <2>4. /\ history'.status = HistoryStatus(history'.used, sender.left)
        /\ history'.used = {c \in Channel : first[c] = "sent"}
        /\ \A c \in Channel : /\ first[c] = "sent" => history'.result[c] = "sent"
                              /\ first[c] = "permanent" => history'.result[c] = "failed"
    BY <2>1, <2>2
  <2>5. (Unresolved \cup sender.left)' = sender.left
    BY <2>1, <2>3
  <2> QED BY <1>0, <2>1, <2>2, <2>3, <2>4, <2>5 DEF ToldInv
<1>3. CASE HistoryLost
  BY <1>3 DEF HistoryLost, OrderInv, ToldInv
<1>4. ASSUME NEW d \in Channel, Enqueue(d) PROVE ToldInv'
  <2>1. /\ UNCHANGED <<worker, history, lost>> /\ d \in sender.left
        /\ sender'.left = sender.left \ {d}
        /\ row' = [row EXCEPT ![d].status =
                     IF first[d] = "permanent" THEN "failed" ELSE "retrying"]
    BY <1>4 DEF Enqueue, Fault
  <2>2. row[d].status = "absent"
    BY <2>1 DEF HeldInv
  <2>3. /\ \A c \in Channel \ {d} : row'[c] = row[c]
        /\ row'[d].status = IF first[d] = "permanent" THEN "failed" ELSE "retrying"
    BY <1>0, <2>1 DEF RowRec
  <2>4. InSync' = InSync
    BY <2>1 DEF InSync
  <2>5. row[d].status # "sent" /\ row'[d].status \notin {"absent", "sent"}
    BY <2>2, <2>3
  <2>6. SentRows' = SentRows
    BY <2>3, <2>5 DEF SentRows
  <2>7. Unresolved' = Unresolved \cup {d}
    BY <2>3, <2>5, <1>0, <2>1 DEF Unresolved
  <2>8. (Unresolved \cup sender.left)' = Unresolved \cup sender.left
    BY <2>1, <2>7
  <2>9. \A c \in Channel : row'[c].status = "failed" =>
          row[c].status = "failed" \/ (c \in sender.left /\ first[c] = "permanent")
    <3>1. row'[d].status = "failed" => first[d] = "permanent"
      BY <2>3
    <3>2. \A c \in Channel \ {d} : row'[c].status = "failed" => row[c].status = "failed"
      BY <2>3
    <3> QED BY <2>1, <3>1, <3>2
  <2> QED BY <1>0, <2>1, <2>4, <2>6, <2>8, <2>9, ToldStays
\* A step that turns no row's status from or to a settled one, and touches no sync.
<1>5. ASSUME UNCHANGED <<sender, history, lost>>, InSync' = InSync,
             \A c \in Channel : \/ row'[c].status = row[c].status
                                \/ {row[c].status, row'[c].status} \subseteq {"pending", "retrying"}
      PROVE  ToldInv'
  <2>1. SentRows' = SentRows /\ Unresolved' = Unresolved
    BY <1>5 DEF SentRows, Unresolved
  <2>2. \A c \in Channel : row'[c].status = "failed" => row[c].status = "failed"
    BY <1>5
  <2>3. (Unresolved \cup sender.left)' = Unresolved \cup sender.left
    BY <1>5, <2>1
  <2> QED BY <1>0, <1>5, <2>1, <2>2, <2>3, ToldStays
<1>6. ASSUME NEW w \in Worker, StartPass(w) \/ ClaimDue(w) \/ Deliver(w) \/ RecordLost(w)
      PROVE  ToldInv'
  <2>1. UNCHANGED <<sender, history, lost>> /\ worker[w].at # "syncing"
    BY <1>6 DEF StartPass, ClaimDue, Deliver, RecordLost
  <2>4. worker'[w].at # "syncing"
    BY <1>6, QuietSteps DEF PassFault
  <2>2. InSync' = InSync
    BY <1>6, <2>1, <2>4, InSyncStep DEF Pass, PassFault
  <2>3. \A c \in Channel : \/ row'[c].status = row[c].status
                           \/ {row[c].status, row'[c].status} \subseteq {"pending", "retrying"}
    <3> SUFFICES ASSUME NEW c \in Channel
                 PROVE  \/ row'[c].status = row[c].status
                        \/ {row[c].status, row'[c].status} \subseteq {"pending", "retrying"}
      OBVIOUS
    <3>1. CASE StartPass(w)
      BY <1>0, <3>1 DEF StartPass, RowRec
    <3>2. CASE ClaimDue(w)
      <4>1. PICK batch \in Batch(Due) :
              row' = [d \in Channel |-> IF d \in batch
                       THEN [row[d] EXCEPT !.status = "pending", !.due = FALSE] ELSE row[d]]
        BY <3>2 DEF ClaimDue
      <4>2. c \in batch => row[c].status = "retrying"
        BY DEF Batch, Due
      <4> QED BY <1>0, <4>1, <4>2 DEF RowRec
    <3>3. CASE UNCHANGED row
      BY <3>3
    <3> QED BY <1>6, <3>1, <3>2, <3>3 DEF Deliver, RecordLost
  <2> QED BY <1>5, <2>1, <2>2, <2>3
<1>7. ASSUME NEW w \in Worker, Record(w) PROVE ToldInv'
  <2> DEFINE c == worker[w].cur
  <2>1. /\ c \in Channel /\ row[c].status = "pending" /\ worker[w].at = "recording"
        /\ row'[c].status = Outcome(w) /\ \A d \in Channel \ {c} : row'[d] = row[d]
    BY <1>7, RecordFacts
  <2>2. UNCHANGED <<sender, history, lost>>
    BY <1>7 DEF Record
  <2>3. c \notin InSync
    BY <2>1 DEF InSync, SyncInv
  <2>4. worker'[w].at = "syncing" <=> Outcome(w) \in Terminal
    BY <1>7, SyncFacts DEF Pass
  <2>5. InSync' = IF Outcome(w) \in Terminal THEN InSync \cup {c} ELSE InSync
    BY <1>7, <2>1, <2>4, InSyncStep DEF Pass
  <2>6. CASE Outcome(w) = "retrying"
    BY <1>5, <2>1, <2>2, <2>5, <2>6 DEF Terminal
  <2>7. CASE Outcome(w) \in Terminal
    <3>1. InSync' = InSync \cup {c}
      BY <2>5, <2>7
    <3>2. /\ SentRows' = IF Outcome(w) = "sent" THEN SentRows \cup {c} ELSE SentRows
          /\ c \notin SentRows
      BY <2>1 DEF SentRows
    <3>3. SentRows' \ InSync' = SentRows \ InSync
      BY <3>1, <3>2
    <3>4. SentRows' \cap InSync' = {} => SentRows \cap InSync = {} /\ Outcome(w) # "sent"
      BY <3>1, <3>2
    <3>5. Outcome(w) # "sent" => Unresolved' = Unresolved
      BY <2>1, <2>7 DEF Unresolved, Terminal
    <3>6. \A d \in Channel : row'[d].status = "failed" /\ d \notin InSync'
                               => row[d].status = "failed" /\ d \notin InSync
      BY <2>1, <3>1
    <3> QED BY <1>0, <2>2, <3>3, <3>4, <3>5, <3>6 DEF ToldInv
  <2>8. Outcome(w) = "retrying" \/ Outcome(w) \in Terminal
    BY DEF Outcome, Terminal
  <2> QED BY <2>6, <2>7, <2>8
<1>8. ASSUME NEW w \in Worker, SyncHistory(w) PROVE ToldInv'
  <2> DEFINE c         == worker[w].cur
             delivered == worker[w].verdict = "sent"
  <2>1. /\ worker[w].at = "syncing" /\ UNCHANGED <<sender, row, lost>> /\ c \in Channel
        /\ row[c].status = IF delivered THEN "sent" ELSE "failed"
    BY <1>8 DEF SyncHistory, SyncInv, TypeInv, CountInv
  <2>2. /\ history'.used = IF delivered THEN history.used \cup {c} ELSE history.used
        /\ history'.result = [history.result EXCEPT ![c] = IF delivered THEN "sent" ELSE "failed"]
        /\ history'.status = HistoryStatus(history'.used, Unresolved)
    BY <1>8 DEF SyncHistory, InHand
  <2>3. InSync' = InSync \ {c} /\ c \in InSync
    <3>1. worker'[w].at # "syncing"
      BY <1>8, QuietSteps
    <3> QED BY <1>8, <2>1, <3>1, InSyncStep DEF Pass, InSync
  <2>4. SentRows' = SentRows /\ Unresolved' = Unresolved /\ (c \in SentRows <=> delivered)
    BY <2>1 DEF SentRows, Unresolved
  <2>5. sender.left = {} /\ history.status # "absent"
    BY <2>1 DEF OrderInv
  <2>6. history.result \in [Channel -> {"none", "sent", "retrying", "failed"}]
    BY DEF TypeInv, TypeOK
  <2>7. ASSUME ~lost
        PROVE  history'.used = {d \in Channel : first[d] = "sent"} \cup (SentRows' \ InSync')
    BY <2>2, <2>3, <2>4, <2>5, <2>7 DEF ToldInv
  <2>8. ASSUME ~lost, NEW d \in Channel
        PROVE  /\ d \in history'.used => history'.result[d] = "sent"
               /\ row'[d].status = "failed" /\ d \notin InSync' => history'.result[d] = "failed"
    <3>1. CASE d = c
      <4>1. first[c] # "sent"
        BY <2>1 DEF SyncInv
      <4>2. ~delivered => c \notin history.used
        BY <2>4, <2>5, <2>8, <4>1 DEF ToldInv
      <4> QED BY <2>1, <2>2, <2>6, <3>1, <4>2
    <3>2. CASE d # c
      <4>1. /\ d \in history'.used <=> d \in history.used
            /\ history'.result[d] = history.result[d]
            /\ d \in InSync' <=> d \in InSync
            /\ row'[d] = row[d]
        BY <2>1, <2>2, <2>3, <2>6, <3>2
      <4> QED BY <2>5, <2>8, <4>1 DEF ToldInv
    <3> QED BY <3>1, <3>2
  <2>9. (Unresolved \cup sender.left)' = Unresolved
    BY <2>1, <2>4, <2>5
  <2> HIDE DEF c, delivered
  <2> QED BY <1>0, <2>1, <2>2, <2>5, <2>7, <2>8, <2>9 DEF ToldInv
<1>9. ASSUME NEW w \in Worker, SyncLost(w) \/ Crash(w) PROVE ToldInv'
  <2>1. CASE worker[w].at = "syncing"
    <3>1. lost' = TRUE
      BY <1>9, <2>1 DEF SyncLost, Crash
    <3> QED BY <3>1 DEF ToldInv
  <2>2. CASE worker[w].at # "syncing"
    <3>1. UNCHANGED <<sender, history, row>> /\ lost' = lost
      <4>1. Crash(w)
        BY <1>9, <2>2 DEF SyncLost
      <4>2. UNCHANGED <<sender, history, row>> /\ lost' = (lost \/ worker[w].at = "syncing")
        BY <4>1 DEF Crash
      <4> QED BY <2>2, <4>2 DEF TypeInv, TypeOK
    <3>2. worker'[w].at # "syncing"
      BY <1>9, QuietSteps DEF PassFault
    <3>3. InSync' = InSync
      BY <1>9, <2>2, <3>2, InSyncStep DEF PassFault
    <3> QED BY <1>5, <3>1, <3>3
  <2> QED BY <2>1, <2>2
<1>10. ASSUME NEW d \in Channel, BecomeDue(d) PROVE ToldInv'
  <2>1. UNCHANGED <<sender, history, lost, worker>> /\ row' = [row EXCEPT ![d].due = TRUE]
    BY <1>10 DEF BecomeDue
  <2>2. \A c \in Channel : row'[c].status = row[c].status
    BY <1>0, <2>1 DEF RowRec
  <2>3. InSync' = InSync
    BY <2>1 DEF InSync
  <2> QED BY <1>5, <2>1, <2>2, <2>3
<1> QED BY <1>2, <1>3, <1>4, <1>6, <1>7, <1>8, <1>9, <1>10 DEF Next, Send, Pass, PassFault

\* When all is quiet, nothing is in sync: the history has caught up with the rows.
LEMMA QuietHistory ==
  ASSUME TypeInv, OrderInv, QueuedInv, SyncInv, ToldInv
  PROVE  HistoryTellsOutcome
<1> SUFFICES ASSUME Quiet, history.status # "absent"
             PROVE  /\ history.status = HistoryStatus(Delivered, Channel \ Delivered)
                    /\ \A c \in Channel :
                         history.result[c] = IF c \in Delivered THEN "sent" ELSE "failed"
  BY DEF HistoryTellsOutcome
<1>1. InSync = {} /\ ~lost /\ sender.left = {}
  BY DEF Quiet, InSync, OrderInv
<1>2. \A c \in Channel : \/ first[c] = "sent" /\ row[c].status = "absent"
                         \/ first[c] # "sent" /\ row[c].status \in {"sent", "failed"}
  <2> SUFFICES ASSUME NEW c \in Channel
               PROVE  \/ first[c] = "sent" /\ row[c].status = "absent"
                      \/ first[c] # "sent" /\ row[c].status \in {"sent", "failed"}
    OBVIOUS
  <2>1. row[c].status \in {"sent", "failed", "absent"}
    BY DEF Quiet, Terminal
  <2>2. first[c] = "sent" \/ row[c].status # "absent"
    BY <1>1 DEF QueuedInv
  <2>3. row[c].status # "absent" => first[c] # "sent"
    BY DEF SyncInv
  <2> QED BY <2>1, <2>2, <2>3
<1>3. history.used = Delivered
  BY <1>1 DEF ToldInv, Delivered, SentRows
<1>4. Unresolved = Channel \ Delivered
  BY <1>2 DEF Unresolved, Delivered
<1>5. history.status = HistoryStatus(Delivered, Channel \ Delivered)
  <2>1. history.status = HistoryStatus(history.used, Unresolved \cup sender.left)
    BY <1>1 DEF ToldInv
  <2>2. Unresolved \cup sender.left = Channel \ Delivered
    BY <1>1, <1>4
  <2> QED BY <1>3, <2>1, <2>2
<1>6. ASSUME NEW c \in Channel
      PROVE  history.result[c] = IF c \in Delivered THEN "sent" ELSE "failed"
  <2>1. c \in Delivered => history.result[c] = "sent"
    BY <1>1, <1>3 DEF ToldInv
  <2>2. c \notin Delivered => row[c].status = "failed"
    BY <1>2 DEF Delivered
  <2>3. row[c].status = "failed" => history.result[c] = "failed"
    BY <1>1 DEF ToldInv
  <2> QED BY <2>1, <2>2, <2>3
<1> QED BY <1>5, <1>6

\* If no worker outlives its claim and every failure is queued, then once every row is
\* settled and no sync was lost the history says what became of each channel, however
\* the syncs of several workers were interleaved (syncHistory, historyStatusFor).
THEOREM HistoryCatchesUp ==
  ASSUME "slow" \notin DeliveryEvents, "enqueue lost" \notin DeliveryEvents
  PROVE  Spec => []HistoryTellsOutcome
<1>1. Init => ToldInv
  <2> SUFFICES ASSUME Init PROVE ToldInv
    OBVIOUS
  <2>1. history = [status |-> "absent", used |-> {}, result |-> [c \in Channel |-> "none"]]
    BY DEF Init
  <2>2. history.status = "absent"
    BY <2>1
  <2> QED BY <2>2 DEF ToldInv
<1>2. Spec => []HeldInv
  BY HeldInvHolds
<1>3. Spec => []QueuedInv
  BY QueuedInvHolds
<1>4. Spec => []SyncInv
  BY SyncInvHolds
<1>5. TypeInv /\ HeldInv /\ OrderInv /\ QueuedInv /\ SyncInv /\ ToldInv /\ [Next]_deliveryVars
        => ToldInv'
  BY ToldStep
<1>6. TypeInv /\ OrderInv /\ QueuedInv /\ SyncInv /\ ToldInv => HistoryTellsOutcome
  BY QuietHistory
<1> QED BY <1>1, <1>2, <1>3, <1>4, <1>5, <1>6, OrderInvHolds, TypeInvHolds, PTL DEF Spec

\* A history that reads sent has nothing left to wait for.
NothingLeftInv == history.status = "sent" => Unresolved = {} /\ sender.left = {}

LEMMA NothingLeftStep ==
  TypeInv /\ HeldInv /\ OrderInv /\ NothingLeftInv /\ [Next]_deliveryVars
    => /\ NothingLeftInv'
       /\ history.status = "sent" => history'.status = "sent"
<1>1. CASE UNCHANGED deliveryVars
  BY <1>1 DEF deliveryVars, NothingLeftInv, Unresolved
<1> SUFFICES ASSUME TypeInv, HeldInv, OrderInv, NothingLeftInv, Next
             PROVE  /\ NothingLeftInv'
                    /\ history.status = "sent" => history'.status = "sent"
  BY <1>1
\* Nothing comes back once nothing is left.
<1>2. ASSUME Unresolved = {}, sender.left = {} PROVE Unresolved' = {} /\ sender'.left = {}
  <2>1. sender'.left = {}
    BY <1>2, SenderStep
  <2>2. ASSUME NEW c \in Channel PROVE row'[c].status \in {"absent", "sent"}
    <3>1. RowStep(c) /\ row'[c] \in RowRec /\ row[c].status \in {"absent", "sent"}
      BY <1>2, RowSteps, RowTypes DEF Unresolved
    <3>2. CASE row[c].status = "sent"
      BY <3>2, SettledStays DEF Terminal
    <3>3. CASE row[c].status = "absent"
      BY <1>2, <3>1, <3>3, RowStepPresence
    <3> QED BY <3>1, <3>2, <3>3
  <2> QED BY <2>1, <2>2 DEF Unresolved
<1>3. CASE UNCHANGED history
  BY <1>2, <1>3 DEF NothingLeftInv
<1>4. CASE SaveHistory
  <2>1. /\ history'.status = HistoryStatus(Channel \ sender.left, sender.left)
        /\ history.status = "absent" /\ \A c \in Channel : row[c].status = "absent"
    BY <1>4 DEF SaveHistory, OrderInv
  <2>2. history'.status = "sent" => sender.left = {}
    BY <2>1 DEF HistoryStatus
  <2>3. Unresolved = {}
    BY <2>1 DEF Unresolved
  <2> QED BY <1>2, <2>1, <2>2, <2>3 DEF NothingLeftInv
<1>5. ASSUME NEW w \in Worker, SyncHistory(w)
      PROVE  /\ NothingLeftInv'
             /\ history.status = "sent" => history'.status = "sent"
  <2>1. worker[w].at = "syncing" /\ \E used : history'.status = HistoryStatus(used, Unresolved)
    BY <1>5 DEF SyncHistory
  <2>2. sender.left = {}
    BY <2>1 DEF OrderInv
  <2>3. history'.status = "sent" <=> Unresolved = {}
    BY <2>1 DEF HistoryStatus
  <2> QED BY <1>2, <2>2, <2>3 DEF NothingLeftInv
<1>6. UNCHANGED history \/ SaveHistory \/ \E w \in Worker : SyncHistory(w)
  BY DEF Next, Send, HistoryLost, Enqueue, Pass, StartPass, ClaimDue, Deliver, Record, PassFault,
         RecordLost, SyncLost, Crash, BecomeDue
<1> QED BY <1>3, <1>4, <1>5, <1>6

\* If no worker outlives its claim, a history that reads sent reads so for good: no
\* late outcome of a retry takes it back (syncHistory).
THEOREM SentIsFinal ==
  ASSUME "slow" \notin DeliveryEvents
  PROVE  Spec => [][history.status = "sent" => history'.status = "sent"]_deliveryVars
<1>1. Init => NothingLeftInv
  <2> SUFFICES ASSUME Init PROVE NothingLeftInv
    OBVIOUS
  <2>1. history = [status |-> "absent", used |-> {}, result |-> [c \in Channel |-> "none"]]
    BY DEF Init
  <2>2. history.status = "absent"
    BY <2>1
  <2> QED BY <2>2 DEF NothingLeftInv
<1>2. TypeInv /\ HeldInv /\ OrderInv /\ NothingLeftInv /\ [Next]_deliveryVars => NothingLeftInv'
  BY NothingLeftStep
<1>3. TypeInv /\ HeldInv /\ OrderInv /\ NothingLeftInv /\ [Next]_deliveryVars
        => [history.status = "sent" => history'.status = "sent"]_deliveryVars
  BY NothingLeftStep
<1>4. Spec => []HeldInv
  BY HeldInvHolds
<1> QED BY <1>1, <1>2, <1>3, <1>4, OrderInvHolds, TypeInvHolds, PTL DEF Spec
=============================================================================
