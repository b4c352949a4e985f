--------------------------- MODULE AssessmentRow ---------------------------
(***************************************************************************)
(* What the status column of an assessment promises to everybody who reads *)
(* it, whatever the schedule of the workers and the clients that write it: *)
(* a verdict stands until a resume, and a completed assessment is never    *)
(* touched again.  ScanLifecycle implements this specification.            *)
(***************************************************************************)
CONSTANT Assessment
VARIABLE status

Open == {"queued", "running", "paused"}
Verdict == {"completed", "failed", "cancelled", "partial"}

Init == status = [a \in Assessment |-> "none"]

Set(a, value) == status' = [status EXCEPT ![a] = value]

Create(a) == status[a] = "none" /\ Set(a, "running")

Steer(a) ==
    /\ status[a] \in Open
    /\ \E s \in {"running", "paused"} : Set(a, s)

Decide(a) ==
    /\ status[a] \in Open
    /\ \E v \in Verdict : Set(a, v)

Reopen(a) ==
    /\ status[a] \in Verdict \ {"completed"}
    /\ Set(a, "running")

Next == \E a \in Assessment : Create(a) \/ Steer(a) \/ Decide(a) \/ Reopen(a)

Spec == Init /\ [][Next]_status

TypeOK == status \in [Assessment -> {"none"} \cup Open \cup Verdict]

\* A completed assessment is never reopened, paused or overruled.
CompletedIsFinal ==
    [][\A a \in Assessment :
          status[a] = "completed" => status'[a] = "completed"]_status

\* The first verdict stands: only a resume changes it, and to running.
FirstVerdictStands ==
    [][\A a \in Assessment :
          status[a] \in Verdict => status'[a] \in {status[a], "running"}]_status
=============================================================================
