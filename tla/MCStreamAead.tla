---------------------------- MODULE MCStreamAead ----------------------------
(***************************************************************************)
(* Instances of StreamAead for TLC.                                        *)
(***************************************************************************)
EXTENDS StreamAead, TLC

Symmetry == Permutations(Senders)

=============================================================================
