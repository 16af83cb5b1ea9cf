--------------------------- MODULE EvalCoalescers ---------------------------
(***************************************************************************)
(* The two coalescers in front of compliance-engine's evaluations, in one  *)
(* process: assetEvalCoalescer, which joins requests for one asset that    *)
(* arrive while its next evaluation has not started, and tenantCoalescer,  *)
(* whose running pass answers for the requests that arrive meanwhile.      *)
(*                                                                         *)
(* Keys do not meet: one asset and one tenant stand for all.  What an      *)
(* evaluation must not miss is a commit of inventory-service; commits are  *)
(* counted, and an evaluation reads the count that it starts from.         *)
(***************************************************************************)
EXTENDS Naturals

CONSTANTS
  Request,             \* handlers of messages about the asset
  Caller,              \* callers that reconcile the tenant, one message at a time each
  None,
  CommitLimit,         \* bound on the commits
  MaxCoalescedFollowups,
  EvalFailures         \* what may go wrong, among EvalFailure

EvalFailure == {"error", "timeout", "panic"}

ASSUME NoneAssumption   == None \notin Request
ASSUME CommitAssumption == CommitLimit \in Nat /\ MaxCoalescedFollowups \in Nat
ASSUME EvalAssumption   == EvalFailures \subseteq EvalFailure

VARIABLES
  stored,     \* commits so far
  pending,    \* assetEvalCoalescer.pending: the request whose batch accepts joiners
  req,        \* Do of each request
  inFlight, dirty,    \* tenantCoalescer, for the tenant's key
  call,       \* Run of each caller, and the message it holds
  covered,    \* the commits that completed passes have read
  promised    \* the commits that acknowledged reconcile requests were about

assetVars  == <<pending, req>>
tenantVars == <<inFlight, dirty, call, covered, promised>>
evalVars   == <<stored, pending, req, inFlight, dirty, call, covered, promised>>

-----------------------------------------------------------------------------
Commits == 0..CommitLimit
NoReq   == [at |-> "idle", batch |-> None, need |-> 0, read |-> 0, verdict |-> "none"]
NoCall  == [at |-> "idle", passes |-> 0, read |-> 0, need |-> 0, verdict |-> "none"]

TypeOK ==
  /\ stored \in Commits
  /\ pending \in Request \cup {None}
  /\ req \in [Request -> [at: {"idle", "window", "joined", "sealed", "evaluating", "told"},
                          batch: Request \cup {None}, need: Commits, read: Commits,
                          verdict: {"none", "ok", "failed"}]]
  /\ inFlight \in BOOLEAN /\ dirty \in BOOLEAN
  /\ call \in [Caller -> [at: {"idle", "starting", "running", "checking", "leaving", "owed"},
                          passes: 0..(MaxCoalescedFollowups + 1), read: Commits, need: Commits,
                          verdict: {"none", "ok", "error", "panic"}]]
  /\ covered \in Commits /\ promised \in Commits

Init ==
  /\ stored = 0 /\ pending = None /\ req = [r \in Request |-> NoReq]
  /\ inFlight = FALSE /\ dirty = FALSE /\ call = [c \in Caller |-> NoCall]
  /\ covered = 0 /\ promised = 0

\* inventory-service commits a change; it is announced afterwards.
Commit ==
  /\ stored < CommitLimit /\ stored' = stored + 1
  /\ UNCHANGED <<assetVars, tenantVars>>

Larger(a, b) == IF a > b THEN a ELSE b

-----------------------------------------------------------------------------
(* assetEvalCoalescer.Do *)

\* The first request opens a batch, a later one joins it.
Open(r) ==
  /\ req[r].at = "idle" /\ pending = None
  /\ pending' = r
  /\ req' = [req EXCEPT ![r] = [NoReq EXCEPT !.at = "window", !.batch = r, !.need = stored]]
  /\ UNCHANGED <<stored, tenantVars>>

Join(r) ==
  /\ req[r].at = "idle" /\ pending # None
  /\ req' = [req EXCEPT ![r] = [NoReq EXCEPT !.at = "joined", !.batch = pending, !.need = stored]]
  /\ UNCHANGED <<stored, pending, tenantVars>>

Seal(r) == pending' = IF pending = r THEN None ELSE pending

\* Variant of EndWindow: the batch is left open to joiners while it evaluates.
EndWindowUnsealed(r) ==
  /\ req[r].at = "window"
  /\ req' = [req EXCEPT ![r].at = "sealed"]
  /\ UNCHANGED <<stored, pending, tenantVars>>

\* The window is over: the batch is closed to joiners before its evaluation starts,
\* which may have to wait for the gate of a bulk message.
EndWindow(r) ==
  /\ req[r].at = "window"
  /\ Seal(r)
  /\ req' = [req EXCEPT ![r].at = "sealed"]
  /\ UNCHANGED <<stored, tenantVars>>

Evaluate(r) ==
  /\ req[r].at = "sealed"
  /\ req' = [req EXCEPT ![r].at = "evaluating", ![r].read = stored]
  /\ UNCHANGED <<stored, pending, tenantVars>>

\* close(b.done): r and all who joined it have its verdict.
Told(r, verdict) ==
  [q \in Request |-> IF q = r \/ (req[q].at = "joined" /\ req[q].batch = r)
                     THEN [req[q] EXCEPT !.at = "told", !.verdict = verdict, !.read = req[r].read]
                     ELSE req[q]]

EndEvaluation(r) ==
  /\ req[r].at = "evaluating"
  /\ \E verdict \in {"ok"} \cup (IF "error" \in EvalFailures THEN {"failed"} ELSE {}) :
       req' = Told(r, verdict)
  /\ UNCHANGED <<stored, pending, tenantVars>>

\* Variant of Panic: the panic unwinds past the joiners.
PanicUntold(r) ==
  /\ "panic" \in EvalFailures /\ req[r].at = "evaluating"
  /\ req' = [req EXCEPT ![r].at = "told", ![r].verdict = "failed"]
  /\ UNCHANGED <<stored, pending, tenantVars>>

\* The deferred release of the joiners of an evaluation that panicked.
Panic(r) ==
  /\ "panic" \in EvalFailures /\ req[r].at = "evaluating"
  /\ req' = Told(r, "failed")
  /\ UNCHANGED <<stored, pending, tenantVars>>

\* Variant of LeaderTimesOut: the batch is not taken out of pending.
LeaderTimesOutUnsealed(r) ==
  /\ "timeout" \in EvalFailures /\ req[r].at \in {"window", "sealed"}
  /\ req' = Told(r, "failed")
  /\ UNCHANGED <<stored, pending, tenantVars>>

\* The context of the request that leads ends in the window or at the gate.
LeaderTimesOut(r) ==
  /\ "timeout" \in EvalFailures /\ req[r].at \in {"window", "sealed"}
  /\ Seal(r)
  /\ req' = Told(r, "failed")
  /\ UNCHANGED <<stored, tenantVars>>

\* The context of a joiner ends; the batch runs on for the others.
JoinerTimesOut(r) ==
  /\ "timeout" \in EvalFailures
  /\ req[r].at \in {"joined", "told"} /\ req[r].batch # r
  /\ req' = [req EXCEPT ![r].at = "told", ![r].verdict = "failed", ![r].batch = None]
  /\ UNCHANGED <<stored, pending, tenantVars>>

\* settleMessage: acknowledged if ok, delivered again if not; either way the handler
\* is free.
Settle(r) ==
  /\ req[r].at = "told"
  /\ req' = [req EXCEPT ![r] = NoReq]
  /\ UNCHANGED <<stored, pending, tenantVars>>

AssetStep(r) == EndWindow(r) \/ Evaluate(r) \/ EndEvaluation(r) \/ Panic(r) \/ Settle(r)

-----------------------------------------------------------------------------
(* tenantCoalescer.Run *)

\* A request while another runs marks the key dirty and is acknowledged at once.
Absorbed(c) ==
  /\ call[c].at \in {"idle", "owed"} /\ inFlight
  /\ dirty' = TRUE /\ promised' = stored
  /\ call' = [call EXCEPT ![c] = NoCall]
  /\ UNCHANGED <<stored, assetVars, inFlight, covered>>

StartRun(c) ==
  /\ call[c].at \in {"idle", "owed"} /\ ~inFlight
  /\ inFlight' = TRUE /\ dirty' = FALSE
  /\ call' = [call EXCEPT ![c] = [NoCall EXCEPT !.at = "starting", !.passes = 1, !.need = stored]]
  /\ UNCHANGED <<stored, assetVars, covered, promised>>

StartPass(c) ==
  /\ call[c].at = "starting"
  /\ call' = [call EXCEPT ![c].at = "running", ![c].read = stored]
  /\ UNCHANGED <<stored, assetVars, inFlight, dirty, covered, promised>>

EndPass(c) ==
  /\ call[c].at = "running"
  /\ covered' = Larger(covered, call[c].read)
  /\ call' = [call EXCEPT ![c].at = "checking"]
  /\ UNCHANGED <<stored, assetVars, inFlight, dirty, promised>>

\* dirty is left set.  After an error the message is delivered again; after a panic
\* it is terminated.
FailPass(c) ==
  /\ call[c].at = "running"
  /\ \E failure \in {"error", "panic"} \cap EvalFailures :
       call' = [call EXCEPT ![c].at = "leaving", ![c].verdict = failure]
  /\ UNCHANGED <<stored, assetVars, inFlight, dirty, covered, promised>>

\* Variants of Check: the run that is out of passes is a success; one pass too many.
CheckLenient(c) ==
  /\ call[c].at = "checking"
  /\ IF dirty /\ call[c].passes <= MaxCoalescedFollowups
     THEN dirty' = FALSE /\ call' = [call EXCEPT ![c].at = "starting", ![c].passes = @ + 1]
     ELSE UNCHANGED dirty /\ call' = [call EXCEPT ![c].at = "leaving", ![c].verdict = "ok"]
  /\ UNCHANGED <<stored, assetVars, inFlight, covered, promised>>

CheckOneMore(c) ==
  /\ call[c].at = "checking"
  /\ IF dirty /\ call[c].passes <= MaxCoalescedFollowups + 1
     THEN dirty' = FALSE /\ call' = [call EXCEPT ![c].at = "starting", ![c].passes = @ + 1]
     ELSE /\ UNCHANGED dirty
          /\ call' = [call EXCEPT ![c].at = "leaving", ![c].verdict = IF dirty THEN "error" ELSE "ok"]
  /\ UNCHANGED <<stored, assetVars, inFlight, covered, promised>>

\* Clean: done.  Dirty: one pass more, or, out of passes, an error.
Check(c) ==
  /\ call[c].at = "checking"
  /\ IF dirty /\ call[c].passes <= MaxCoalescedFollowups
     THEN dirty' = FALSE /\ call' = [call EXCEPT ![c].at = "starting", ![c].passes = @ + 1]
     ELSE /\ UNCHANGED dirty
          /\ call' = [call EXCEPT ![c].at = "leaving", ![c].verdict = IF dirty THEN "error" ELSE "ok"]
  /\ UNCHANGED <<stored, assetVars, inFlight, covered, promised>>

\* The deferred delete of the in-flight mark, and the message settled.
Leave(c) ==
  /\ call[c].at = "leaving"
  /\ inFlight' = FALSE
  /\ call' = [call EXCEPT ![c] = IF @.verdict = "error" THEN [NoCall EXCEPT !.at = "owed"]
                                                         ELSE NoCall]
  /\ UNCHANGED <<stored, assetVars, dirty, covered, promised>>

TenantStep(c) ==
  \/ StartPass(c) \/ EndPass(c) \/ FailPass(c) \/ Check(c) \/ Leave(c)
  \/ call[c].at = "owed" /\ (Absorbed(c) \/ StartRun(c))

-----------------------------------------------------------------------------
Next ==
  \/ Commit
  \/ \E r \in Request : \/ Open(r) \/ Join(r) \/ LeaderTimesOut(r) \/ JoinerTimesOut(r)
                        \/ AssetStep(r)
  \/ \E c \in Caller : Absorbed(c) \/ StartRun(c) \/ TenantStep(c)

Spec == Init /\ [][Next]_evalVars

\* Timers fire, evaluations end and a message not acknowledged is delivered again.
Fairness ==
  /\ \A r \in Request : WF_evalVars(AssetStep(r))
  /\ \A c \in Caller : WF_evalVars(TenantStep(c))

FairSpec == Spec /\ Fairness

-----------------------------------------------------------------------------
(* Properties *)

\* A request returns success only once an evaluation that started after the request
\* was received has ended well: what was committed before is in it.
SuccessIsCovered ==
  \A r \in Request : req[r].at = "told" /\ req[r].verdict = "ok" => req[r].read >= req[r].need

\* A batch that can be joined has not started: no request waits for an evaluation
\* that has read already, or for a leader that has gone.
JoinableMeansWaiting == pending # None => req[pending].at = "window"

\* Every request gets an answer, though the evaluation it joined fails, panics or
\* loses its leader.
RequestsAnswered == \A r \in Request : req[r].at # "idle" ~> req[r].at \in {"told", "idle"}

\* A run that ends well has covered every request that was absorbed before it looked,
\* those that an earlier run left behind included.
CleanRunCoversAll ==
  [][\A c \in Caller :
       call[c].at = "checking" /\ call'[c].at = "leaving" /\ call'[c].verdict = "ok"
         => covered >= promised /\ covered >= call[c].need]_evalVars

\* "A request that landed mid-pass is never dropped, it is merged into the next pass"
\* (reconcile_worker.go:150): what an acknowledged request was about has been read by a
\* pass, or a run is in flight or about to be delivered again.
NoneDropped ==
  covered >= promised \/ inFlight \/ \E c \in Caller : call[c].at = "owed"
=============================================================================
