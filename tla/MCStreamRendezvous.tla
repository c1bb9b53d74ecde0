------------------------- MODULE MCStreamRendezvous -------------------------
(***************************************************************************)
(* Instances of StreamRendezvous for TLC.                                  *)
(***************************************************************************)
EXTENDS StreamRendezvous, TLC

Symmetry ==
    Permutations(Streams) \cup Permutations(Waiters)
        \cup Permutations(Drainers) \cup Permutations(Loops)

=============================================================================
