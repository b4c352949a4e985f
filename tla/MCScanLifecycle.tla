-------------------------- MODULE MCScanLifecycle --------------------------
(* Instances of ScanLifecycle small enough for TLC. *)
EXTENDS ScanLifecycle

CONSTANTS a1, r1, r2, c1, c2, desktop, cli

InDesktop == [x \in Run \cup Caller |-> desktop]

\* The clients and the first run share the desktop server; the others are
\* scans of the command line on the same ledger.
SplitProcs ==
    [x \in Run \cup Caller |-> IF x \in Caller \cup {r1} THEN desktop ELSE cli]

\* The client is in the desktop server, the only scan on the command line.
ScanInCli == [x \in Run \cup Caller |-> IF x \in Run THEN cli ELSE desktop]
=============================================================================
