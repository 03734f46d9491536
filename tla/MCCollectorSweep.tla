--------------------------- MODULE MCCollectorSweep ---------------------------
(* Two overlapping jobs over a region of three places and an empty region; *)
(* the sweep starts from a state file of the older contract.               *)
EXTENDS CollectorSweep, TLC

CONSTANTS A, B

MCRegionOf == [p \in Places |-> A]
MCNameOf == [p \in Places |-> p]
MCPlaceOf == [x \in Posts |-> 2]

LegacyWhole ==
    [input |-> 0, next |-> 3, exhausted |-> TRUE, whole |-> TRUE, kind |-> "none",
     blocked |-> FALSE, time |-> 0, qualified |-> FALSE, pages |-> 0, chain |-> 0,
     clean |-> FALSE]

MCInitialFiles == {(A :> LegacyWhole) @@ (B :> NoEntry)}

Symmetry == Permutations(Jobs) \cup Permutations(Writers)
            \cup Permutations(Licences) \cup Permutations(Posts)
===============================================================================
