----------------------------- MODULE MCRelayHub -----------------------------
(***************************************************************************)
(* Instances of RelayHub for TLC.                                          *)
(***************************************************************************)
EXTENDS RelayHub, TLC

Symmetry ==
    Permutations(Ids) \cup Permutations(Controls)
        \cup Permutations(Listens) \cup Permutations(Clients)

=============================================================================
