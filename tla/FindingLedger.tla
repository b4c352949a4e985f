--------------------------- MODULE FindingLedger ---------------------------
(***************************************************************************)
(* What the findings of a ledger promise to those who read and triage      *)
(* them, whatever scans overlap, are cancelled, stop and resume: a finding *)
(* is never deleted, a scan reports and closes only while it has a worker, *)
(* which a cancelled one may and a completed one never has; it never       *)
(* closes what it has seen itself, a report reopens what was fixed and     *)
(* nothing else, and everything else is triage.  ScanLedger implements it, *)
(* although its workers and triagers read a row, wait, and write it later. *)
(***************************************************************************)
CONSTANTS Finding, Assessment, None

VARIABLES row,     \* the findings, by fingerprint
          status,  \* each scan's, all that a resume takes as "stopped"
          atWork   \* the scans that have a worker
vars == <<row, status, atWork>>

State == {"open", "confirmed", "dismissed", "verified_fixed"}
Unknown == [state |-> "none", seen |-> None, reason |-> "none", mark |-> FALSE]
Known == [state : State, seen : Assessment, mark : BOOLEAN,
          reason : {"none", "false_positive", "absent_from_scan"}]

TypeOK ==
    /\ row \in [Finding -> Known \cup {Unknown}]
    /\ status \in [Assessment -> {"none", "running", "stopped", "completed"}]
    /\ atWork \subseteq Assessment

Init ==
    /\ row = [f \in Finding |-> Unknown]
    /\ status = [a \in Assessment |-> "none"]
    /\ atWork = {}

Start(a) ==
    /\ status[a] \in {"none", "stopped"} /\ a \notin atWork
    /\ status' = [status EXCEPT ![a] = "running"]
    /\ atWork' = atWork \cup {a}
    /\ UNCHANGED row

\* The row says so before the worker knows.
Cancel(a) ==
    /\ status[a] = "running"
    /\ status' = [status EXCEPT ![a] = "stopped"]
    /\ UNCHANGED <<row, atWork>>

End(a) ==
    /\ a \in atWork
    /\ \/ status' = [status EXCEPT ![a] = "stopped"]
       \/ status[a] = "running" /\ status' = [status EXCEPT ![a] = "completed"]
    /\ atWork' = atWork \ {a}
    /\ UNCHANGED row

Reopens(state) == state \in {"none", "verified_fixed"}

\* The mark in the evidence is the one promise a report does not keep.
Report(a, f) ==
    /\ a \in atWork
    /\ \E m \in BOOLEAN :
          row' = [row EXCEPT ![f] =
            [state  |-> IF Reopens(@.state) THEN "open" ELSE @.state,
             reason |-> IF Reopens(@.state) THEN "none" ELSE @.reason,
             seen   |-> a,
             mark   |-> m]]
    /\ UNCHANGED <<status, atWork>>

Close(a, f) ==
    /\ a \in atWork
    /\ row[f] # Unknown /\ row[f].seen # a
    /\ row' = [row EXCEPT ![f].state = "verified_fixed",
                          ![f].reason = "absent_from_scan",
                          ![f].seen = a]
    /\ UNCHANGED <<status, atWork>>

Triage(f) ==
    /\ row[f] # Unknown
    /\ \E to \in State, why \in {"none", "false_positive"}, m \in BOOLEAN :
          /\ why = "false_positive" => to = "dismissed" /\ m
          /\ row' = [row EXCEPT ![f].state = to, ![f].reason = why, ![f].mark = m]
    /\ UNCHANGED <<status, atWork>>

Next ==
    \/ \E a \in Assessment : Start(a) \/ Cancel(a) \/ End(a)
    \/ \E f \in Finding : Triage(f) \/ \E a \in Assessment : Report(a, f) \/ Close(a, f)

Spec == Init /\ [][Next]_vars
-----------------------------------------------------------------------------
\* The reason shown with a finding is the reason of its state.
ReasonFitsState ==
    \A f \in Finding :
       /\ row[f].reason = "absent_from_scan" => row[f].state = "verified_fixed"
       /\ row[f].reason = "false_positive" => row[f].state = "dismissed"

\* A finding is never deleted.
NeverDeleted ==
    [][\A f \in Finding : row[f] # Unknown => row'[f] # Unknown]_vars

\* A scan that has completed changes no finding any more, nor does one that
\* never started; one that was cancelled may, until its worker knows.
CompletedIsSilent ==
    [][\A f \in Finding, a \in Assessment :
         row'[f].seen = a /\ row[f].seen # a =>
           status[a] \notin {"none", "completed"}]_vars

\* A completed scan is never taken up again.
CompletedIsFinal ==
    [][\A a \in Assessment :
         status[a] = "completed" => status'[a] = "completed"]_vars
=============================================================================
