--------------------------- MODULE MCDatagramParts ---------------------------
EXTENDS DatagramParts

MCProfiles ==
  {[NoFaults EXCEPT !.delay = TRUE, !.corrupt = TRUE, !.loss = TRUE],
   [NoFaults EXCEPT !.blackhole = TRUE, !.from = 2, !.to = 3, !.dropAfter = 4]}
=============================================================================
