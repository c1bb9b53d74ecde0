--------------------------- MODULE MCSessionPath ---------------------------
(* Two direct connections at once, one fault or forced fallback.           *)
EXTENDS SessionPath

MCPipes == {1, 2}
=============================================================================
