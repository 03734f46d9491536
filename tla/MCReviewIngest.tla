---------------------------- MODULE MCReviewIngest ----------------------------
(* Collection jobs over two places that have the same name. *)
EXTENDS ReviewIngest

CONSTANTS A, x1, x2

MCRegionOf == [p \in Places |-> A]
MCNameOf == [p \in Places |-> "same"]
MCPlaceOf == [x \in Posts |-> IF x = x1 THEN 1 ELSE 2]
===============================================================================
