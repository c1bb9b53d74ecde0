--------------------------- MODULE MCListenerPool ---------------------------
(***************************************************************************)
(* Instances of ListenerPool for TLC.                                      *)
(***************************************************************************)
EXTENDS ListenerPool, TLC

Symmetry == Permutations(Workers) \cup Permutations(ListenConns)

=============================================================================
