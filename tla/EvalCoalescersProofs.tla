------------------------ MODULE EvalCoalescersProofs ------------------------
(***************************************************************************)
(* What the coalescers guarantee for any requests, callers and number of   *)
(* commits, and whatever goes wrong.                                       *)
(***************************************************************************)
EXTENDS EvalCoalescers, TLAPS

USE NoneAssumption, CommitAssumption

-----------------------------------------------------------------------------
(* Types *)

\* What a step of assetEvalCoalescer leaves as it is, and of tenantCoalescer.
AssetNext ==
  \E r \in Request : \/ Open(r) \/ Join(r) \/ LeaderTimesOut(r) \/ JoinerTimesOut(r)
                     \/ AssetStep(r)
TenantNext == \E c \in Caller : Absorbed(c) \/ StartRun(c) \/ TenantStep(c)

LEMMA NextSplit == Next <=> Commit \/ AssetNext \/ TenantNext
BY DEF Next, AssetNext, TenantNext

\* The records of a request and of a call.
ReqType  == [at: {"idle", "window", "joined", "sealed", "evaluating", "told"},
             batch: Request \cup {None}, need: Commits, read: Commits,
             verdict: {"none", "ok", "failed"}]
CallType == [at: {"idle", "starting", "running", "checking", "leaving", "owed"},
             passes: 0..(MaxCoalescedFollowups + 1), read: Commits, need: Commits,
             verdict: {"none", "ok", "error", "panic"}]

LEMMA AssetFrame == AssetNext => UNCHANGED <<stored, tenantVars>>
BY DEF AssetNext, Open, Join, LeaderTimesOut, JoinerTimesOut, AssetStep, EndWindow, Evaluate,
       EndEvaluation, Panic, Settle
LEMMA TenantFrame == TenantNext => UNCHANGED <<stored, assetVars>>
BY DEF TenantNext, Absorbed, StartRun, TenantStep, StartPass, EndPass, FailPass, Check, Leave

LEMMA AssetTypeStep == TypeOK /\ AssetNext => TypeOK'
<1> SUFFICES ASSUME TypeOK, NEW r \in Request,
                    \/ Open(r) \/ Join(r) \/ LeaderTimesOut(r) \/ JoinerTimesOut(r)
                    \/ AssetStep(r)
             PROVE  TypeOK'
  BY DEF AssetNext
<1>0. req \in [Request -> ReqType] /\ 0 \in Commits /\ stored \in Commits
  BY DEF TypeOK, ReqType, Commits
<1>1. req' \in [Request -> ReqType]
  <2>1. ASSUME NEW verdict \in {"ok", "failed"}, req' = Told(r, verdict)
        PROVE  req' \in [Request -> ReqType]
    <3>1. ASSUME NEW q \in Request
          PROVE  [req[q] EXCEPT !.at = "told", !.verdict = verdict, !.read = req[r].read] \in ReqType
      BY <1>0 DEF ReqType
    <3> QED BY <1>0, <2>1, <3>1 DEF Told
  <2>2. CASE Open(r)
    BY <1>0, <2>2 DEF Open, NoReq, ReqType
  <2>3. CASE Join(r)
    BY <1>0, <2>3 DEF Join, NoReq, ReqType, TypeOK
  <2>4. CASE EndWindow(r)
    BY <1>0, <2>4 DEF EndWindow, ReqType
  <2>5. CASE Evaluate(r)
    BY <1>0, <2>5 DEF Evaluate, ReqType
  <2>6. CASE JoinerTimesOut(r)
    <3> DEFINE gone == [req[r] EXCEPT !.at = "told", !.verdict = "failed", !.batch = None]
    <3>1. gone \in ReqType
      BY <1>0 DEF ReqType
    <3>2. req' = [req EXCEPT ![r] = gone]
      BY <1>0, <2>6 DEF JoinerTimesOut, ReqType
    <3> QED BY <1>0, <3>1, <3>2
  <2>7. CASE Settle(r)
    BY <1>0, <2>7 DEF Settle, NoReq, ReqType
  <2>8. CASE EndEvaluation(r) \/ Panic(r) \/ LeaderTimesOut(r)
    BY <2>1, <2>8 DEF EndEvaluation, Panic, LeaderTimesOut
  <2> QED BY <2>2, <2>3, <2>4, <2>5, <2>6, <2>7, <2>8 DEF AssetStep
<1>2. pending' \in Request \cup {None}
  BY DEF TypeOK, Open, Join, LeaderTimesOut, JoinerTimesOut, AssetStep, EndWindow, Evaluate,
         EndEvaluation, Panic, Settle, Seal
<1>3. UNCHANGED <<stored, tenantVars>>
  BY AssetFrame DEF AssetNext
<1> QED BY <1>1, <1>2, <1>3 DEF TypeOK, ReqType, tenantVars

LEMMA TenantTypeStep == TypeOK /\ TenantNext => TypeOK'
<1> SUFFICES ASSUME TypeOK, NEW c \in Caller, Absorbed(c) \/ StartRun(c) \/ TenantStep(c)
             PROVE  TypeOK'
  BY DEF TenantNext
<1>0. call \in [Caller -> CallType] /\ 0 \in Commits /\ stored \in Commits
  BY DEF TypeOK, CallType, Commits
<1>1. call' \in [Caller -> CallType]
  <2>1. CASE Absorbed(c)
    BY <1>0, <2>1 DEF Absorbed, NoCall, CallType
  <2>2. CASE StartRun(c)
    <3>1. [NoCall EXCEPT !.at = "starting", !.passes = 1, !.need = stored] \in CallType
      <4>1. 1 \in 0..(MaxCoalescedFollowups + 1)
        OBVIOUS
      <4> QED BY <1>0, <4>1 DEF NoCall, CallType
    <3> QED BY <1>0, <2>2, <3>1 DEF StartRun
  <2>3. CASE StartPass(c)
    BY <1>0, <2>3 DEF StartPass, CallType
  <2>4. CASE EndPass(c)
    BY <1>0, <2>4 DEF EndPass, CallType
  <2>5. CASE FailPass(c)
    <3>1. PICK failure \in {"error", "panic"} :
            call' = [call EXCEPT ![c].at = "leaving", ![c].verdict = failure]
      BY <2>5 DEF FailPass
    <3> QED BY <1>0, <3>1 DEF CallType
  <2>6. CASE Check(c)
    BY <1>0, <2>6 DEF Check, CallType
  <2>7. CASE Leave(c)
    BY <1>0, <2>7 DEF Leave, NoCall, CallType
  <2> QED BY <2>1, <2>2, <2>3, <2>4, <2>5, <2>6, <2>7 DEF TenantStep
<1>2. covered' \in Commits /\ promised' \in Commits /\ inFlight' \in BOOLEAN /\ dirty' \in BOOLEAN
  <2>1. call[c].read \in Commits
    BY <1>0 DEF CallType
  <2> QED BY <1>0, <2>1 DEF TypeOK, Absorbed, StartRun, TenantStep, StartPass, EndPass, FailPass,
                            Check, Leave, Larger
<1>3. UNCHANGED <<stored, assetVars>>
  BY TenantFrame DEF TenantNext
<1> QED BY <1>1, <1>2, <1>3 DEF TypeOK, CallType, assetVars

LEMMA TypeStep == TypeOK /\ [Next]_evalVars => TypeOK'
<1>1. TypeOK /\ Commit => TypeOK'
  BY DEF TypeOK, Commit, Commits, assetVars, tenantVars
<1>2. TypeOK /\ UNCHANGED evalVars => TypeOK'
  BY DEF TypeOK, evalVars
<1> QED BY <1>1, <1>2, AssetTypeStep, TenantTypeStep, NextSplit

\* Every reachable state is well typed; in particular no run makes more than
\* MaxCoalescedFollowups passes after its first (tenantCoalescer.Run).
THEOREM TypeCorrect == Spec => []TypeOK
<1>1. Init => TypeOK
  <2> SUFFICES ASSUME Init PROVE TypeOK
    OBVIOUS
  <2>1. 0 \in Commits /\ NoReq \in ReqType /\ NoCall \in CallType
    BY DEF Commits, NoReq, NoCall, ReqType, CallType
  <2> QED BY <2>1 DEF Init, TypeOK, ReqType, CallType
<1> QED BY <1>1, TypeStep, PTL DEF Spec

-----------------------------------------------------------------------------
(* The batches of an asset *)

\* Where the leader of a batch is while others may wait for it.
Leading == {"window", "sealed", "evaluating"}

\* A request does not know of commits to come; an evaluation reads all that its batch
\* asked for, and who joined a batch has a leader that will tell.
BatchInv ==
  /\ \A r \in Request : req[r].need <= stored
  /\ \A r \in Request : req[r].at = "evaluating" => req[r].need <= req[r].read
  /\ \A r \in Request : req[r].at = "joined" =>
       /\ req[r].batch \in Request \ {r}
       /\ req[req[r].batch].at \in Leading
       /\ req[req[r].batch].at = "evaluating" => req[r].need <= req[req[r].batch].read

AssetInv == BatchInv /\ JoinableMeansWaiting /\ SuccessIsCovered

\* What close(b.done) does: r and those who joined it are told, the others untouched.
LEMMA ToldEffect ==
  ASSUME req \in [Request -> ReqType], NEW r \in Request, NEW verdict, req' = Told(r, verdict)
  PROVE  /\ \A q \in Request :
              \/ req'[q] = req[q]
              \/ /\ q = r \/ (req[q].at = "joined" /\ req[q].batch = r)
                 /\ req'[q].at = "told" /\ req'[q].verdict = verdict
                 /\ req'[q].read = req[r].read /\ req'[q].need = req[q].need
         /\ \A q \in Request :
              req'[q].at = "joined" => req'[q] = req[q] /\ req[q].batch # r
<1> SUFFICES ASSUME NEW q \in Request
             PROVE  \/ /\ req'[q] = req[q]
                       /\ q # r /\ ~(req[q].at = "joined" /\ req[q].batch = r)
                    \/ /\ q = r \/ (req[q].at = "joined" /\ req[q].batch = r)
                       /\ req'[q].at = "told" /\ req'[q].verdict = verdict
                       /\ req'[q].read = req[r].read /\ req'[q].need = req[q].need
  OBVIOUS
<1>1. req[q] \in ReqType
  OBVIOUS
<1>2. req'[q] = IF q = r \/ (req[q].at = "joined" /\ req[q].batch = r)
                THEN [req[q] EXCEPT !.at = "told", !.verdict = verdict, !.read = req[r].read]
                ELSE req[q]
  BY DEF Told
<1> QED BY <1>1, <1>2 DEF ReqType

LEMMA AssetInvStep == TypeOK /\ AssetInv /\ AssetNext => AssetInv'
<1> SUFFICES ASSUME TypeOK, AssetInv, NEW r \in Request,
                    \/ Open(r) \/ Join(r) \/ LeaderTimesOut(r) \/ JoinerTimesOut(r)
                    \/ AssetStep(r)
             PROVE  AssetInv'
  BY DEF AssetNext
<1>0. req \in [Request -> ReqType]
  BY DEF TypeOK, ReqType
<1> USE DEF TypeOK, AssetInv, BatchInv, JoinableMeansWaiting, SuccessIsCovered, Leading, Commits
<1>1. CASE Open(r)
  BY <1>1 DEF Open, NoReq
<1>2. CASE Join(r)
  BY <1>2 DEF Join, NoReq
<1>3. CASE EndWindow(r)
  BY <1>3 DEF EndWindow, Seal
<1>4. CASE Evaluate(r)
  BY <1>4 DEF Evaluate
\* The verdict reaches all who joined r, and nobody waits for r any more.
<1>5. ASSUME NEW verdict \in {"ok", "failed"}, req' = Told(r, verdict), stored' = stored,
             req[r].at \in Leading, verdict = "ok" => req[r].at = "evaluating",
             pending' # None => pending' = pending /\ pending # r
      PROVE  AssetInv'
  <2>1. \A q \in Request : req'[q] = req[q] \/
          /\ q = r \/ (req[q].at = "joined" /\ req[q].batch = r)
          /\ req'[q].at = "told" /\ req'[q].verdict = verdict /\ req'[q].read = req[r].read
          /\ req'[q].need = req[q].need
    BY <1>0, <1>5, ToldEffect
  <2>2. \A q \in Request : req'[q].at = "joined" => req'[q] = req[q] /\ req[q].batch # r
    BY <1>0, <1>5, ToldEffect
  <2>3. \A q \in Request : req'[q].at # "told" => req'[q] = req[q]
    BY <2>1
  <2>4. JoinableMeansWaiting'
    <3> SUFFICES ASSUME pending' # None PROVE req'[pending'].at = "window"
      OBVIOUS
    <3>1. pending' = pending /\ pending # r /\ pending \in Request /\ req[pending].at = "window"
      BY <1>5
    <3> QED BY <2>1, <3>1
  <2>5. SuccessIsCovered'
    <3> SUFFICES ASSUME NEW q \in Request, req'[q].at = "told", req'[q].verdict = "ok"
                 PROVE  req'[q].read >= req'[q].need
      OBVIOUS
    <3>1. CASE req'[q] = req[q]
      BY <3>1
    <3>2. CASE req'[q] # req[q]
      <4>1. /\ verdict = "ok" /\ req[r].at = "evaluating"
            /\ req'[q].read = req[r].read /\ req'[q].need = req[q].need
        BY <1>5, <2>1, <3>2
      <4>2. req[q].need <= req[r].read
        BY <2>1, <3>2, <4>1
      <4>3. req[q].need \in Nat /\ req[r].read \in Nat
        OBVIOUS
      <4> QED BY <4>1, <4>2, <4>3
    <3> QED BY <3>1, <3>2
  <2>6. BatchInv'
    <3> HIDE DEF SuccessIsCovered, JoinableMeansWaiting
    <3>1. \A q \in Request : req'[q].need <= stored'
      BY <1>5, <2>1
    <3>2. \A q \in Request : req'[q].at = "evaluating" => req'[q].need <= req'[q].read
      BY <2>3
    <3>3. ASSUME NEW q \in Request, req'[q].at = "joined"
          PROVE  /\ req'[q].batch \in Request \ {q}
                 /\ req'[req'[q].batch] = req[req[q].batch]
      <4> DEFINE b == req[q].batch
      <4>1. req'[q] = req[q] /\ b # r /\ b \in Request \ {q}
        BY <2>2, <3>3
      <4>2. req[b].at # "joined"
        BY <3>3, <4>1
      <4> QED BY <2>1, <4>1, <4>2
    <3> QED BY <2>3, <3>1, <3>2, <3>3
  <2> QED BY <2>4, <2>5, <2>6
<1>6. CASE EndEvaluation(r) \/ Panic(r) \/ LeaderTimesOut(r)
  BY <1>5, <1>6 DEF EndEvaluation, Panic, LeaderTimesOut, Seal
<1>7. CASE JoinerTimesOut(r)
  BY <1>7 DEF JoinerTimesOut
<1>8. CASE Settle(r)
  BY <1>8 DEF Settle, NoReq
<1> QED BY <1>1, <1>2, <1>3, <1>4, <1>6, <1>7, <1>8 DEF AssetStep

LEMMA AssetInvHolds == Spec => []AssetInv
<1>1. Init => AssetInv
  BY DEF Init, AssetInv, BatchInv, JoinableMeansWaiting, SuccessIsCovered, NoReq
<1>2. TypeOK /\ AssetInv /\ [Next]_evalVars => AssetInv'
  <2>1. TypeOK /\ AssetInv /\ Commit => AssetInv'
    BY DEF TypeOK, AssetInv, BatchInv, JoinableMeansWaiting, SuccessIsCovered, Commit, Commits,
           assetVars
  <2>2. AssetInv /\ (TenantNext \/ UNCHANGED evalVars) => AssetInv'
    <3>1. TenantNext \/ UNCHANGED evalVars => UNCHANGED <<stored, pending, req>>
      BY TenantFrame DEF assetVars, evalVars
    <3> QED BY <3>1 DEF AssetInv, BatchInv, JoinableMeansWaiting, SuccessIsCovered
  <2> QED BY <2>1, <2>2, AssetInvStep, NextSplit
<1> QED BY <1>1, <1>2, TypeCorrect, PTL DEF Spec

\* Success is an evaluation that began after the request was received, for whoever
\* opened the batch and whoever joined it (assetEvalCoalescer.Do).
THEOREM SuccessCovered == Spec => []SuccessIsCovered
BY AssetInvHolds, PTL DEF AssetInv

\* A batch is taken out of pending before its evaluation starts, and when its leader
\* leaves (seal).
THEOREM JoinableWaits == Spec => []JoinableMeansWaiting
BY AssetInvHolds, PTL DEF AssetInv

-----------------------------------------------------------------------------
(* The runs of a tenant *)

Busy(c) == call[c].at \in {"starting", "running", "checking", "leaving"}

\* One run at a time, the one that is in flight; unless a request was absorbed since,
\* its pass reads all that was promised.
RunInv ==
  /\ \A c \in Caller : Busy(c) => inFlight /\ \A d \in Caller : Busy(d) => d = c
  /\ promised <= stored
  /\ \A c \in Caller :
       /\ call[c].need <= stored
       /\ call[c].at = "running" =>
            call[c].need <= call[c].read /\ (dirty \/ promised <= call[c].read)
       /\ call[c].at = "checking" =>
            call[c].need <= covered /\ (dirty \/ promised <= covered)

LEMMA RunInvStep == TypeOK /\ RunInv /\ TenantNext => RunInv'
<1> SUFFICES ASSUME TypeOK, RunInv, NEW c \in Caller,
                    Absorbed(c) \/ StartRun(c) \/ TenantStep(c)
             PROVE  RunInv'
  BY DEF TenantNext
<1> USE DEF TypeOK, RunInv, Busy, NoCall, Commits
<1>1. CASE Absorbed(c)
  BY <1>1 DEF Absorbed
<1>2. CASE StartRun(c)
  BY <1>2 DEF StartRun
<1>3. CASE StartPass(c)
  BY <1>3 DEF StartPass
<1>4. CASE EndPass(c)
  BY <1>4 DEF EndPass, Larger
<1>5. CASE FailPass(c)
  BY <1>5 DEF FailPass
<1>6. CASE Check(c)
  BY <1>6 DEF Check
<1>7. CASE Leave(c)
  BY <1>7 DEF Leave
<1> QED BY <1>1, <1>2, <1>3, <1>4, <1>5, <1>6, <1>7 DEF TenantStep

LEMMA RunInvHolds == Spec => []RunInv
<1>1. Init => RunInv
  BY DEF Init, RunInv, Busy, NoCall
<1>2. TypeOK /\ RunInv /\ [Next]_evalVars => RunInv'
  <2>1. TypeOK /\ RunInv /\ Commit => RunInv'
    BY DEF TypeOK, RunInv, Busy, Commit, Commits, tenantVars
  <2>2. RunInv /\ (AssetNext \/ UNCHANGED evalVars) => RunInv'
    <3>1. AssetNext \/ UNCHANGED evalVars => UNCHANGED <<stored, tenantVars>>
      BY AssetFrame DEF evalVars, tenantVars
    <3> QED BY <3>1 DEF RunInv, Busy, tenantVars
  <2> QED BY <2>1, <2>2, RunInvStep, NextSplit
<1> QED BY <1>1, <1>2, TypeCorrect, PTL DEF Spec

\* A run whose message is acknowledged has covered its own request and all that were
\* absorbed before its last look (tenantCoalescer.Run).
THEOREM CleanRunCovers == Spec => CleanRunCoversAll
<1>1. TypeOK /\ RunInv /\ [Next]_evalVars =>
        [\A c \in Caller :
           call[c].at = "checking" /\ call'[c].at = "leaving" /\ call'[c].verdict = "ok"
             => covered >= promised /\ covered >= call[c].need]_evalVars
  <2> SUFFICES ASSUME TypeOK, RunInv, Next, NEW c \in Caller,
                      call[c].at = "checking", call'[c].at = "leaving", call'[c].verdict = "ok"
               PROVE  covered >= promised /\ covered >= call[c].need
    OBVIOUS
  <2>1. ~dirty
    <3>1. PICK d \in Caller : Absorbed(d) \/ StartRun(d) \/ TenantStep(d)
      BY AssetFrame, NextSplit DEF Commit, tenantVars, TenantNext
    <3>2. d = c
      BY <3>1 DEF TypeOK, Absorbed, StartRun, TenantStep, StartPass, EndPass, FailPass, Check, Leave
    <3>3. Check(c)
      BY <3>1, <3>2 DEF TypeOK, Absorbed, StartRun, TenantStep, StartPass, EndPass, FailPass, Leave
    <3> QED BY <3>3 DEF TypeOK, Check
  <2> QED BY <2>1 DEF RunInv, TypeOK, Commits
<1> QED BY <1>1, TypeCorrect, RunInvHolds, PTL DEF Spec, CleanRunCoversAll
=============================================================================
