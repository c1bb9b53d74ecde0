----------------------------- MODULE MCCeremony -----------------------------
(* One acceptor and one initiator; nothing is bounded but the one call of  *)
(* Confirm on each side.                                                   *)
EXTENDS Ceremony
=============================================================================
