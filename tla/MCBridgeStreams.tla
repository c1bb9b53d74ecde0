-------------------------- MODULE MCBridgeStreams --------------------------
(***************************************************************************)
(* Instances of BridgeStreams for TLC.                                     *)
(***************************************************************************)
EXTENDS BridgeStreams

\* The client opens every stream.
ByClient == [s \in Streams |-> "client"]

\* The client sends a header and a request; the backend answers by CloseWrite
\* or Reset alone.
HeaderAndRequest == [x \in Ends |-> IF x = "client" THEN 2 ELSE 0]

\* The client sends a header, and the backend an answer.
HeaderAndAnswer == [x \in Ends |-> 1]

=============================================================================
