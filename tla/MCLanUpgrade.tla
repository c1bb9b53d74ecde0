---------------------------- MODULE MCLanUpgrade ----------------------------
(***************************************************************************)
(* Instances of LanUpgrade for TLC: two Sessions of one client.            *)
(***************************************************************************)
EXTENDS LanUpgrade

\* Concurrent Sessions of one client, as several routes give them.
OnePeer == [s \in Sessions |-> CHOOSE p \in Peers : TRUE]

\* Either end of the impatient Sessions may be closed.
ImpatientClosers == Impatient \X Ends

=============================================================================
