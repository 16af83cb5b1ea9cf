---------------------------- MODULE DeliveryRetry ----------------------------
(***************************************************************************)
(* The retries of one notification by the notification-service: the rows   *)
(* of notification_delivery_queue, one per channel whose first send        *)
(* failed, drained by the retry worker of every replica, and the           *)
(* notification_history row the tenant reads.                              *)
(*                                                                         *)
(* next_retry_at is the row's due flag: it is past.  For a row that waits  *)
(* it ends the backoff, for a claimed one the claim.  The first backoff is *)
(* longer than the enqueueing takes, so no row is due before that is over. *)
(***************************************************************************)
EXTENDS Naturals, FiniteSets

CONSTANTS
  Worker,          \* retry workers, one per replica
  Channel,         \* channels the notification was sent to
  NoChannel,
  MaxAttempts,     \* MaxDeliveryAttempts
  RetryBatchSize,
  DeliveryEvents,  \* faults that happen, among DeliveryEvent
  FaultLimit       \* bound on their number

DeliveryEvent == {"crash", "record lost", "sync lost", "history lost", "enqueue lost", "slow"}

ASSUME ChannelAssumption == NoChannel \notin Channel
ASSUME AttemptAssumption == MaxAttempts \in Nat \ {0} /\ RetryBatchSize \in Nat \ {0}
ASSUME EventAssumption   == DeliveryEvents \subseteq DeliveryEvent /\ FaultLimit \in Nat

VARIABLES
  first,     \* what the first send said of each channel
  sender,    \* SendNotification after the sends: where it is, and the failures left to enqueue
  row,       \* the queue row of each channel
  worker,    \* RetryDueDeliveries of each worker: the rows it holds and the one in hand
  history,   \* the notification_history row
  arrived,   \* channels the notification has reached
  tries,     \* sends of each row so far
  faults,    \* faults so far
  lost       \* a step of the history was lost

deliveryVars == <<first, sender, row, worker, history, arrived, tries, faults, lost>>

-----------------------------------------------------------------------------
SendVerdict == {"sent", "transient", "permanent"}
RowStatus   == {"absent", "retrying", "pending", "sent", "failed"}
Terminal    == {"sent", "failed"}
Idle        == [at |-> "idle", left |-> {}, count |-> [c \in Channel |-> 0],
                cur |-> NoChannel, verdict |-> "none"]

TypeOK ==
  /\ first \in [Channel -> SendVerdict]
  /\ sender \in [at: {"saving", "enqueueing", "done"}, left: SUBSET Channel]
  /\ row \in [Channel -> [status: RowStatus, count: 0..MaxAttempts, due: BOOLEAN]]
  /\ worker \in [Worker -> [at: {"idle", "claiming", "sending", "recording", "syncing"},
                            left: SUBSET Channel, count: [Channel -> 0..(MaxAttempts - 1)],
                            cur: Channel \cup {NoChannel},
                            verdict: SendVerdict \cup {"none", "gone"}]]
  /\ history \in [status: {"absent", "sent", "partial", "failed"}, used: SUBSET Channel,
                  result: [Channel -> {"none", "sent", "retrying", "failed"}]]
  /\ arrived \subseteq Channel
  /\ tries \in [Channel -> Nat]
  /\ faults \in 0..FaultLimit
  /\ lost \in BOOLEAN

\* The first send is over; a channel may have got a message whose send failed.
Init ==
  /\ first \in [Channel -> SendVerdict]
  /\ sender = [at |-> "saving", left |-> {c \in Channel : first[c] # "sent"}]
  /\ row = [c \in Channel |-> [status |-> "absent", count |-> 0, due |-> FALSE]]
  /\ worker = [w \in Worker |-> Idle]
  /\ history = [status |-> "absent", used |-> {}, result |-> [c \in Channel |-> "none"]]
  /\ arrived = {c \in Channel : first[c] = "sent"}
  /\ tries = [c \in Channel |-> 0]
  /\ faults = 0
  /\ lost = FALSE

Fault(event) == event \in DeliveryEvents /\ faults < FaultLimit /\ faults' = faults + 1

-----------------------------------------------------------------------------
(* The end of SendNotification: the history row, then a queue row per failure *)

\* historyStatusFor
HistoryStatus(delivered, unresolved) ==
  IF unresolved = {} THEN "sent" ELSE IF delivered = {} THEN "failed" ELSE "partial"

SaveHistory ==
  /\ sender.at = "saving"
  /\ history' = [status |-> HistoryStatus(Channel \ sender.left, sender.left),
                 used   |-> Channel \ sender.left,
                 result |-> [c \in Channel |-> CASE first[c] = "sent"      -> "sent"
                                                 [] first[c] = "transient" -> "retrying"
                                                 [] OTHER                  -> "failed"]]
  /\ sender' = [sender EXCEPT !.at = IF sender.left = {} THEN "done" ELSE "enqueueing"]
  /\ UNCHANGED <<first, row, worker, arrived, tries, faults, lost>>

\* Without the history row no retry can be queued: the failures are only logged.
HistoryLost ==
  /\ sender.at = "saving" /\ Fault("history lost")
  /\ sender' = [at |-> "done", left |-> {}]
  /\ UNCHANGED <<first, row, worker, history, arrived, tries, lost>>

\* enqueueFailedDelivery: a failure that cannot be retried is recorded as final.  One
\* that cannot be written is logged.
Enqueue(c) ==
  /\ sender.at = "enqueueing" /\ c \in sender.left
  /\ sender' = [at |-> IF sender.left = {c} THEN "done" ELSE "enqueueing", left |-> sender.left \ {c}]
  /\ \/ row' = [row EXCEPT ![c].status = IF first[c] = "permanent" THEN "failed" ELSE "retrying"]
        /\ UNCHANGED faults
     \/ Fault("enqueue lost") /\ UNCHANGED row
  /\ UNCHANGED <<first, worker, history, arrived, tries, lost>>

-----------------------------------------------------------------------------
(* One pass of a retry worker *)

\* Variant of StartPass: rows of a dead worker are not returned.
StartPassNoReclaim(w) ==
  /\ worker[w].at = "idle"
  /\ worker' = [worker EXCEPT ![w].at = "claiming"]
  /\ UNCHANGED <<first, sender, row, history, arrived, tries, faults, lost>>

\* reclaimStaleClaims; its failure is logged, and the next pass tries again.
StartPass(w) ==
  /\ worker[w].at = "idle"
  /\ row' = [c \in Channel |-> IF row[c].status = "pending" /\ row[c].due
                               THEN [row[c] EXCEPT !.status = "retrying"] ELSE row[c]]
  /\ worker' = [worker EXCEPT ![w].at = "claiming"]
  /\ UNCHANGED <<first, sender, history, arrived, tries, faults, lost>>

Due == {c \in Channel : row[c].status = "retrying" /\ row[c].due}

Batch(due) == {b \in SUBSET due : \/ Cardinality(b) = RetryBatchSize
                                  \/ Cardinality(b) < RetryBatchSize /\ b = due}

Holding(w, batch) ==
  [Idle EXCEPT !.at = IF batch = {} THEN "idle" ELSE "sending", !.left = batch,
               !.count = [c \in Channel |-> IF c \in batch THEN row[c].count ELSE 0]]

\* Variant of ClaimDue: the rows are read and left as they are.
ClaimDueUnmarked(w) ==
  /\ worker[w].at = "claiming"
  /\ \E batch \in Batch(Due) : worker' = [worker EXCEPT ![w] = Holding(w, batch)]
  /\ UNCHANGED <<first, sender, row, history, arrived, tries, faults, lost>>

\* claimDueDeliveries: the oldest due rows become pending, with a claim that ends;
\* their retry_count is what the worker will count from.
ClaimDue(w) ==
  /\ worker[w].at = "claiming"
  /\ \E batch \in Batch(Due) :
       /\ row' = [c \in Channel |-> IF c \in batch THEN [row[c] EXCEPT !.status = "pending", !.due = FALSE]
                                                   ELSE row[c]]
       /\ worker' = [worker EXCEPT ![w] = Holding(w, batch)]
  /\ UNCHANGED <<first, sender, history, arrived, tries, faults, lost>>

\* retryOneDelivery up to the answer of the channel: it may be gone, or its tenant
\* blocked, and nothing is sent.  A message whose send fails may have arrived.
Deliver(w) ==
  /\ worker[w].at = "sending"
  /\ \E c \in worker[w].left, verdict \in SendVerdict \cup {"gone"} :
       /\ worker' = [worker EXCEPT ![w].at = "recording", ![w].left = @ \ {c}, ![w].cur = c,
                                   ![w].verdict = verdict]
       /\ tries' = IF verdict = "gone" THEN tries ELSE [tries EXCEPT ![c] = @ + 1]
       /\ \/ verdict # "gone" /\ arrived' = arrived \cup {c}
          \/ verdict # "sent" /\ UNCHANGED arrived
  /\ UNCHANGED <<first, sender, row, history, faults, lost>>

InHand(w)  == worker[w].cur
Attempt(w) == worker[w].count[worker[w].cur] + 1

\* The worker's state once the row in hand is dealt with.
NextRow(w) == [worker EXCEPT ![w] = IF @.left = {} THEN Idle
                                    ELSE [@ EXCEPT !.at = "sending", !.cur = NoChannel, !.verdict = "none"]]

\* Variants of Exhausted: one attempt short; one too many.
ExhaustedEarly(w) == Attempt(w) + 1 >= MaxAttempts
ExhaustedLate(w) == Attempt(w) > MaxAttempts

Exhausted(w) == Attempt(w) >= MaxAttempts

Outcome(w) ==
  CASE worker[w].verdict = "sent" -> "sent"
    [] worker[w].verdict = "transient" /\ ~Exhausted(w) -> "retrying"
    [] OTHER -> "failed"

\* finishDeliveryOutcome and rescheduleDelivery: the row is found by its id alone.
Record(w) ==
  /\ worker[w].at = "recording"
  /\ row' = [row EXCEPT ![InHand(w)] = [status |-> Outcome(w), count |-> Attempt(w), due |-> FALSE]]
  /\ worker' = IF Outcome(w) \in Terminal THEN [worker EXCEPT ![w].at = "syncing"] ELSE NextRow(w)
  /\ UNCHANGED <<first, sender, history, arrived, tries, faults, lost>>

\* The outcome could not be written: the row stays pending and the history as it was.
RecordLost(w) ==
  /\ worker[w].at = "recording" /\ Fault("record lost")
  /\ worker' = NextRow(w)
  /\ UNCHANGED <<first, sender, row, history, arrived, tries, lost>>

Unresolved == {c \in Channel : row[c].status \notin {"absent", "sent"}}

\* Variants of SyncHistory: the status is that of the worker's own delivery; a failed
\* row counts as resolved.
SyncHistoryOwn(w) ==
  /\ worker[w].at = "syncing"
  /\ LET c    == InHand(w)
         used == IF worker[w].verdict = "sent" THEN history.used \cup {c} ELSE history.used
     IN history' = [status |-> HistoryStatus(used, IF worker[w].verdict = "sent" THEN {} ELSE {c}),
                    used |-> used, result |-> [history.result EXCEPT ![c] = row[c].status]]
  /\ worker' = NextRow(w)
  /\ UNCHANGED <<first, sender, row, arrived, tries, faults, lost>>
SyncHistoryQueuedOnly(w) ==
  /\ worker[w].at = "syncing"
  /\ LET c    == InHand(w)
         used == IF worker[w].verdict = "sent" THEN history.used \cup {c} ELSE history.used
     IN history' = [status |-> HistoryStatus(used, {d \in Unresolved : row[d].status # "failed"}),
                    used |-> used, result |-> [history.result EXCEPT ![c] = row[c].status]]
  /\ worker' = NextRow(w)
  /\ UNCHANGED <<first, sender, row, arrived, tries, faults, lost>>

\* syncHistory: the status is recomputed from the queue, with the history row locked.
SyncHistory(w) ==
  /\ worker[w].at = "syncing"
  /\ LET c         == InHand(w)
         delivered == worker[w].verdict = "sent"
         used      == IF delivered THEN history.used \cup {c} ELSE history.used
     IN history' = [status |-> HistoryStatus(used, Unresolved), used |-> used,
                    result |-> [history.result EXCEPT ![c] = IF delivered THEN "sent" ELSE "failed"]]
  /\ worker' = NextRow(w)
  /\ UNCHANGED <<first, sender, row, arrived, tries, faults, lost>>

SyncLost(w) ==
  /\ worker[w].at = "syncing" /\ Fault("sync lost")
  /\ worker' = NextRow(w) /\ lost' = TRUE
  /\ UNCHANGED <<first, sender, row, history, arrived, tries>>

Crash(w) ==
  /\ worker[w].at \in {"sending", "recording", "syncing"} /\ Fault("crash")
  /\ worker' = [worker EXCEPT ![w] = Idle]
  /\ lost' = (lost \/ worker[w].at = "syncing")
  /\ UNCHANGED <<first, sender, row, history, arrived, tries>>

-----------------------------------------------------------------------------
(* Time *)

Held(c) == \E w \in Worker : \/ c \in worker[w].left
                             \/ worker[w].at = "recording" /\ worker[w].cur = c

\* The backoff of a waiting row ends, or the claim of a pending one: that of a dead
\* worker, or of one that is slow.
BecomeDue(c) ==
  /\ row[c].status \in {"retrying", "pending"} /\ ~row[c].due /\ sender.at = "done"
  /\ IF row[c].status = "pending" /\ Held(c) THEN Fault("slow") ELSE UNCHANGED faults
  /\ row' = [row EXCEPT ![c].due = TRUE]
  /\ UNCHANGED <<first, sender, worker, history, arrived, tries, lost>>

-----------------------------------------------------------------------------
Send == SaveHistory \/ HistoryLost \/ \E c \in Channel : Enqueue(c)

Pass(w) == StartPass(w) \/ ClaimDue(w) \/ Deliver(w) \/ Record(w) \/ SyncHistory(w)

PassFault(w) == RecordLost(w) \/ SyncLost(w) \/ Crash(w)

Next ==
  \/ Send
  \/ \E w \in Worker : Pass(w) \/ PassFault(w)
  \/ \E c \in Channel : BecomeDue(c)

Spec == Init /\ [][Next]_deliveryVars

\* The sender and the ticker of every replica run on, and time passes.
Fairness ==
  /\ WF_deliveryVars(Send)
  /\ \A w \in Worker : WF_deliveryVars(Pass(w))
  /\ \A c \in Channel : WF_deliveryVars(BecomeDue(c))

FairSpec == Spec /\ Fairness

-----------------------------------------------------------------------------
(* Properties *)

\* The history reads sent only if the notification reached every channel, whatever
\* the retries of its channels on several replicas, their crashes and their lost
\* writes were (historyStatusFor, syncHistory).
SentMeansDelivered == history.status = "sent" => arrived = Channel

Quiet == /\ sender.at = "done" /\ ~lost
         /\ \A c \in Channel : row[c].status \in Terminal \cup {"absent"}
         /\ \A w \in Worker : worker[w].at # "syncing"

Delivered == {c \in Channel : first[c] = "sent" \/ row[c].status = "sent"}

\* Once every row is terminal and no sync was lost, the history row says what
\* became of the notification, and of each channel: retries that end at the same
\* time on two replicas do not overwrite each other.
HistoryTellsOutcome ==
  Quiet /\ history.status # "absent" =>
    /\ history.status = HistoryStatus(Delivered, Channel \ Delivered)
    /\ \A c \in Channel : history.result[c] = IF c \in Delivered THEN "sent" ELSE "failed"

\* A delivery is given up as exhausted only after MaxAttempts sends, whichever
\* workers made them and whatever they failed to record.
GivenUpAfterAllAttempts ==
  [][\A c \in Channel : \A w \in Worker :
       worker[w].at = "recording" /\ worker[w].cur = c /\ worker[w].verdict = "transient"
         /\ row'[c].status = "failed" /\ row[c].status # "failed"
         => tries[c] >= MaxAttempts]_deliveryVars

\* "Retries never re-send on a channel that already succeeded" (delivery_retry.go:15):
\* nothing is sent for a row that reads sent.
NotResent ==
  [][\A c \in Channel : row[c].status = "sent" => tries'[c] = tries[c]]_deliveryVars

\* Every failure that was queued is delivered or given up in the end, though workers
\* die with rows in their hands.
RowsSettle ==
  \A c \in Channel : row[c].status \in {"retrying", "pending"} ~> row[c].status \in Terminal
=============================================================================
