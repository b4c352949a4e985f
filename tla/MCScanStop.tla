----------------------------- MODULE MCScanStop -----------------------------
(* A small instance of ScanStop: a client that cancels, and the caller of a *)
(* scan that is dropped while it waits for it (CancelOnDrop).               *)
EXTENDS ScanStop

CONSTANTS client, dropped, w1, w2
=============================================================================
