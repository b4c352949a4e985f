--------------------------- MODULE MCScanLedger ---------------------------
(* Small instances of ScanLedger. *)
EXTENDS ScanLedger, TLC

CONSTANTS leak, vuln

\* An optional engine, a keyed and filtered one, and the dependency scan.
ThreeEngines == <<"literals", "secrets", "sca">>
SkippableEngines == <<"literals", "secrets">>
KeyedEngine == <<"secrets">>
DependencyEngine == <<"sca">>
GitEngine == <<"history">>

\* `leak` is a secret, `vuln` a vulnerable dependency.
CategoryOf == [f \in Finding |-> IF f = vuln THEN "sca" ELSE "secrets"]
InHistory == [f \in Finding |-> "history"]

Quick == {"quick"}
AllModes == {"quick", "diff"}

ScanSymmetry == Permutations(Assessment)
=============================================================================
