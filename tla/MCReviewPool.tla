--------------------------- MODULE MCReviewPool ---------------------------
(* Small instances of ReviewPool. *)
EXTENDS ReviewPool

CONSTANTS hit, other, byFinding, byOther, byCand

\* Two findings; `byCand` reviews a leftover candidate of `hit`.
AboutOf == [j \in Job |-> IF j = byOther THEN other ELSE hit]
=============================================================================
