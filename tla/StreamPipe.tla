----------------------------- MODULE StreamPipe -----------------------------
(***************************************************************************)
(* What a bridged stream promises to the two applications at its ends: in  *)
(* each direction the messages arrive in order and once, the reader is told*)
(* of the end only when the writer has finished and everything has arrived,*)
(* and of an abort only when one of the two has aborted.  The promises     *)
(* about the end are off for a stream that the bridge no longer carries.   *)
(***************************************************************************)
EXTENDS Naturals

CONSTANTS Streams, Ends

VARIABLES
    sent,     \* sent[s][x]: messages written at end x
    got,      \* got[s][x]: messages read at end x
    writer,   \* writer[s][x]: "open", "fin" or "reset"
    aborted,  \* pairs <<s, x>>: end x has reset s
    verdict,  \* verdict[s][x]: how reading at x ended, or "open"
    cut       \* streams that the bridge has refused or carries no more

vars == <<sent, got, writer, aborted, verdict, cut>>

Init ==
    /\ sent = [s \in Streams |-> [x \in Ends |-> 0]]
    /\ got = [s \in Streams |-> [x \in Ends |-> 0]]
    /\ writer = [s \in Streams |-> [x \in Ends |-> "open"]]
    /\ aborted = {}
    /\ verdict = [s \in Streams |-> [x \in Ends |-> "open"]]
    /\ cut = {}

Put(s, x) ==
    /\ writer[s][x] = "open"
    /\ sent' = [sent EXCEPT ![s][x] = @ + 1]
    /\ UNCHANGED <<got, writer, aborted, verdict, cut>>

Finish(s, x) ==
    /\ writer[s][x] = "open"
    /\ writer' = [writer EXCEPT ![s][x] = "fin"]
    /\ UNCHANGED <<sent, got, aborted, verdict, cut>>

\* An abort after the end of writing may come too late for the reader.
Abort(s, x) ==
    /\ aborted' = aborted \cup {<<s, x>>}
    /\ \E w \in {"reset", writer[s][x]} \ {"open"} : writer' = [writer EXCEPT ![s][x] = w]
    /\ UNCHANGED <<sent, got, verdict, cut>>

Deliver(s, x, y) ==
    /\ verdict[s][y] = "open"
    /\ got[s][y] < sent[s][x]
    /\ got' = [got EXCEPT ![s][y] = @ + 1]
    /\ UNCHANGED <<sent, writer, aborted, verdict, cut>>

End(s, x, y) ==
    /\ verdict[s][y] = "open"
    /\ s \in cut \/ (writer[s][x] = "fin" /\ got[s][y] = sent[s][x])
    /\ verdict' = [verdict EXCEPT ![s][y] = "eof"]
    /\ UNCHANGED <<sent, got, writer, aborted, cut>>

Break(s, x, y) ==
    /\ verdict[s][y] = "open"
    /\ {<<s, x>>, <<s, y>>} \cap aborted # {}
    /\ verdict' = [verdict EXCEPT ![s][y] = "reset"]
    /\ UNCHANGED <<sent, got, writer, aborted, cut>>

Cut ==
    /\ \E C \in SUBSET Streams : cut' = cut \cup C
    /\ UNCHANGED <<sent, got, writer, aborted, verdict>>

Next ==
    \/ Cut
    \/ \E s \in Streams, x, y \in Ends :
          /\ x # y
          /\ \/ Put(s, x) \/ Finish(s, x) \/ Abort(s, x)
             \/ Deliver(s, x, y) \/ End(s, x, y) \/ Break(s, x, y)

Spec == Init /\ [][Next]_vars

=============================================================================
