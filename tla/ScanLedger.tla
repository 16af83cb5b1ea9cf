----------------------------- MODULE ScanLedger -----------------------------
(***************************************************************************)
(* What a scan-plan job promises to those who read its rows, whatever      *)
(* happens to the replicas that run it: its status moves only along these  *)
(* lines, it is resumed without a person at most AutoResumeLimit times,    *)
(* and a host that is done stays done, its findings queued for inventory   *)
(* once, in the step that made it done.                                    *)
(*                                                                         *)
(* PlanJob implements this specification; its refinement mapping reads     *)
(* every variable off the rows.                                            *)
(***************************************************************************)
EXTENDS Naturals

CONSTANTS Host, AutoResumeLimit

VARIABLES status, resumes, done, queued

ledgerVars == <<status, resumes, done, queued>>

Ended == {"completed", "failed", "cancelled"}

LedgerInit ==
  /\ status = "queued"
  /\ resumes = 0
  /\ done = {}
  /\ queued = [h \in Host |-> 0]

Claim ==
  /\ status = "queued" /\ status' = "running"
  /\ UNCHANGED <<resumes, done, queued>>

HandBack ==
  /\ status = "running" /\ status' = "queued"
  /\ UNCHANGED <<resumes, done, queued>>

Resume ==
  /\ status = "running" /\ status' = "queued"
  /\ resumes < AutoResumeLimit /\ resumes' = resumes + 1
  /\ UNCHANGED <<done, queued>>

End ==
  /\ status \notin Ended /\ status' \in Ended
  /\ UNCHANGED <<resumes, done, queued>>

\* Only a failed job is taken up again, and only by a person's Retry.
Retry ==
  /\ status = "failed" /\ status' = "queued"
  /\ UNCHANGED <<resumes, done, queued>>

\* Hosts finish, some of them with findings; possibly after the job has ended.
Finish ==
  \E hosts \in SUBSET (Host \ done) : \E found \in SUBSET hosts :
    /\ done' = done \cup hosts
    /\ queued' = [h \in Host |-> IF h \in found THEN queued[h] + 1 ELSE queued[h]]
    /\ UNCHANGED <<status, resumes>>

LedgerNext == Claim \/ HandBack \/ Resume \/ End \/ Retry \/ Finish

LedgerSpec == LedgerInit /\ [][LedgerNext]_ledgerVars
=============================================================================
