--------------------------- MODULE MCPhase4Defer ----------------------------
(* Small instances of Phase4Defer.  Threads and actors are interchangeable, *)
(* which the safety runs use; the liveness run does not.                    *)
EXTENDS Phase4Defer

Symmetry == Permutations(Threads) \cup Permutations(Actors)
=============================================================================
