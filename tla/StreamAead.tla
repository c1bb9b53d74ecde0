----------------------------- MODULE StreamAead -----------------------------
(***************************************************************************)
(* One direction of the streams of one name in a Session: Stream.Send and  *)
(* Stream.Recv (api.go) over the strict AEAD channel that streamChannel    *)
(* keeps per name (cwire/session.go, c/src/crypto.c).                      *)
(*                                                                         *)
(* Every QUIC stream that is opened under the name shares the channel and  *)
(* its two counters.  Send seals under the channel's mutex and writes      *)
(* under the stream's, in two steps; Recv reads and opens in a goroutine   *)
(* that a cancelled caller leaves behind.                                  *)
(*                                                                         *)
(* The Sends are numbered as the application makes them.  A ciphertext is  *)
(* the sequence number it was sealed with and the number of its Send.      *)
(***************************************************************************)
EXTENDS Naturals, Sequences

CONSTANTS Senders,      \* goroutines that call Send
          Receivers,    \* goroutines that call Recv
          Streams,      \* QUIC streams opened under the name
          Resettable,   \* streams that one end resets at some point
          Cancellable,  \* receivers whose context may be done during Recv
          MaxSends,     \* bound on the number of Sends
          None

ASSUME AeadAssumption ==
    /\ Resettable \subseteq Streams
    /\ Cancellable \subseteq Receivers
    /\ MaxSends \in Nat
    /\ None \notin Streams \cup (Nat \X Nat)

VARIABLES
    issued,    \* number of Sends made so far
    sendSeq,   \* send_seq of the sender's channel
    sealed,    \* the ciphertexts made so far
    spc,       \* spc[p]: where the Send of p is
    smsg,      \* smsg[p]: the number of that Send
    sstream,   \* sstream[p]: its stream
    sct,       \* sct[p]: its ciphertext
    state,     \* state[s]: "new", "open", "finished" (FIN) or "reset"
    wire,      \* wire[s]: ciphertexts written to s and not yet read
    torn,      \* streams on which two goroutines read into one message
    recvSeq,   \* recv_seq of the receiver's channel
    rpc,       \* rpc[r]: where the reader goroutine of r's Recv is
    rstream,   \* rstream[r]: the stream it reads
    rct,       \* rct[r]: what it has read
    orphan,    \* receivers whose Recv returned before its reader did
    opened,    \* the Sends opened, in order
    received,  \* the Sends that Recv returned, in order
    rejected   \* streams on which a ciphertext did not open

sendVars == <<issued, sendSeq, sealed, spc, smsg, sstream, sct>>
recvVars == <<recvSeq, rpc, rstream, rct, orphan, opened, received, rejected>>
vars == <<sendVars, state, wire, torn, recvVars>>

Ciphertexts == Nat \X Nat

TypeOK ==
    /\ issued \in 0..MaxSends
    /\ sendSeq \in Nat /\ recvSeq \in Nat
    /\ sealed \subseteq Ciphertexts
    /\ spc \in [Senders -> {"idle", "sealing", "writing"}]
    /\ smsg \in [Senders -> Nat]
    /\ sstream \in [Senders -> Streams \cup {None}]
    /\ sct \in [Senders -> Ciphertexts \cup {None}]
    /\ state \in [Streams -> {"new", "open", "finished", "reset"}]
    /\ wire \in [Streams -> Seq(Ciphertexts)]
    /\ torn \subseteq Streams /\ rejected \subseteq Streams
    /\ rpc \in [Receivers -> {"idle", "reading", "opening", "delivering", "failing"}]
    /\ rstream \in [Receivers -> Streams \cup {None}]
    /\ rct \in [Receivers -> Ciphertexts \cup {None}]
    /\ orphan \subseteq Receivers
    /\ opened \in Seq(Nat) /\ received \in Seq(Nat)

\* streamChannel has made the channel on both sides.
Init ==
    /\ issued = 0 /\ sendSeq = 0 /\ recvSeq = 0
    /\ sealed = {}
    /\ spc = [p \in Senders |-> "idle"]
    /\ smsg = [p \in Senders |-> 0]
    /\ sstream = [p \in Senders |-> None]
    /\ sct = [p \in Senders |-> None]
    /\ state = [s \in Streams |-> "new"]
    /\ wire = [s \in Streams |-> <<>>]
    /\ torn = {} /\ rejected = {}
    /\ rpc = [r \in Receivers |-> "idle"]
    /\ rstream = [r \in Receivers |-> None]
    /\ rct = [r \in Receivers |-> None]
    /\ orphan = {}
    /\ opened = <<>> /\ received = <<>>

-----------------------------------------------------------------------------
(* The stream.                                                             *)

\* OpenStream: a new QUIC stream, the name's channel.
OpenStream(s) ==
    /\ state[s] = "new"
    /\ state' = [state EXCEPT ![s] = "open"]
    /\ UNCHANGED <<sendVars, wire, torn, recvVars>>

\* CloseWrite: FIN after what was written.
CloseWrite(s) ==
    /\ state[s] = "open"
    /\ state' = [state EXCEPT ![s] = "finished"]
    /\ UNCHANGED <<sendVars, wire, torn, recvVars>>

\* Reset by either application, or by the accepting side because no
\* AcceptStream came in time: what was not yet read is gone.
Reset(s) ==
    /\ s \in Resettable
    /\ state[s] \in {"open", "finished"}
    /\ state' = [state EXCEPT ![s] = "reset"]
    /\ wire' = [wire EXCEPT ![s] = <<>>]
    /\ UNCHANGED <<sendVars, torn, recvVars>>

-----------------------------------------------------------------------------
(* Send.                                                                   *)

Send(p, s) ==
    /\ spc[p] = "idle"
    /\ state[s] # "new"
    /\ issued < MaxSends
    /\ issued' = issued + 1
    /\ smsg' = [smsg EXCEPT ![p] = issued + 1]
    /\ sstream' = [sstream EXCEPT ![p] = s]
    /\ spc' = [spc EXCEPT ![p] = "sealing"]
    /\ UNCHANGED <<sendSeq, sealed, sct, state, wire, torn, recvVars>>

\* Channel.Encrypt, under the channel's mutex.
Encrypt(p) ==
    /\ spc[p] = "sealing"
    /\ sct' = [sct EXCEPT ![p] = <<sendSeq, smsg[p]>>]
    /\ sealed' = sealed \cup {<<sendSeq, smsg[p]>>}
    /\ sendSeq' = sendSeq + 1
    /\ spc' = [spc EXCEPT ![p] = "writing"]
    /\ UNCHANGED <<issued, smsg, sstream, state, wire, torn, recvVars>>

\* writeMessage, under sendMu; on a stream that was finished or reset it fails.
Write(p) ==
    /\ spc[p] = "writing"
    /\ wire' = IF state[sstream[p]] = "open"
               THEN [wire EXCEPT ![sstream[p]] = Append(@, sct[p])]
               ELSE wire
    /\ sct' = [sct EXCEPT ![p] = None]
    /\ sstream' = [sstream EXCEPT ![p] = None]
    /\ spc' = [spc EXCEPT ![p] = "idle"]
    /\ UNCHANGED <<issued, sendSeq, sealed, smsg, state, torn, recvVars>>

-----------------------------------------------------------------------------
(* Recv and its reader goroutine.                                          *)

\* The call starts the reader.
Recv(r, s) ==
    /\ rpc[r] = "idle"
    /\ state[s] # "new"
    /\ rstream' = [rstream EXCEPT ![r] = s]
    /\ rpc' = [rpc EXCEPT ![r] = "reading"]
    /\ UNCHANGED <<sendVars, state, wire, torn, recvSeq, rct, orphan, opened, received, rejected>>

\* readMessage returns the next message of the stream.
ReadMessage(r) ==
    /\ rpc[r] = "reading"
    /\ rstream[r] \notin torn
    /\ wire[rstream[r]] # <<>>
    /\ rct' = [rct EXCEPT ![r] = Head(wire[rstream[r]])]
    /\ wire' = [wire EXCEPT ![rstream[r]] = Tail(@)]
    /\ rpc' = [rpc EXCEPT ![r] = "opening"]
    /\ UNCHANGED <<sendVars, state, torn, recvSeq, rstream, orphan, opened, received, rejected>>

\* Two readers on one stream: one takes the length and the other what
\* follows it, and neither finds a message on the stream again.
ReadsTorn(r) ==
    /\ rpc[r] = "reading"
    /\ wire[rstream[r]] # <<>>
    /\ \/ rstream[r] \in torn
       \/ \E q \in Receivers \ {r} : rpc[q] = "reading" /\ rstream[q] = rstream[r]
    /\ torn' = torn \cup {rstream[r]}
    /\ wire' = [wire EXCEPT ![rstream[r]] = Tail(@)]
    /\ rpc' = [rpc EXCEPT ![r] = "failing"]
    /\ UNCHANGED <<sendVars, state, recvSeq, rstream, rct, orphan, opened, received, rejected>>

\* readMessage returns an error: the stream was reset, or it was finished and
\* everything on it has been read.
ReadFails(r) ==
    /\ rpc[r] = "reading"
    /\ state[rstream[r]] \in {"finished", "reset"}
    /\ wire[rstream[r]] = <<>>
    /\ rpc' = [rpc EXCEPT ![r] = "failing"]
    /\ UNCHANGED <<sendVars, state, wire, torn, recvSeq, rstream, rct, orphan, opened, received, rejected>>

\* Mutant: a gap in the sequence is accepted, as on a datagram channel.
Expected_Gaps(ct) == ct[1] >= recvSeq

\* pigeon_channel_decrypt in strict mode.
Expected(ct) == ct[1] = recvSeq

\* Mutant: the counter is not advanced.
Advance_Forgets(ct) == UNCHANGED recvSeq

Advance(ct) == recvSeq' = ct[1] + 1

\* Channel.Decrypt, under the channel's mutex: on a failure recv_seq stays.
Decrypt(r) ==
    /\ rpc[r] = "opening"
    /\ IF Expected(rct[r])
       THEN /\ Advance(rct[r])
            /\ opened' = Append(opened, rct[r][2])
            /\ rpc' = [rpc EXCEPT ![r] = "delivering"]
            /\ UNCHANGED <<rct, rejected>>
       ELSE /\ rejected' = rejected \cup {rstream[r]}
            /\ rpc' = [rpc EXCEPT ![r] = "failing"]
            /\ rct' = [rct EXCEPT ![r] = None]
            /\ UNCHANGED <<recvSeq, opened>>
    /\ UNCHANGED <<sendVars, state, wire, torn, rstream, orphan, received>>

\* The select of Recv takes the reader's result; nobody takes the result of
\* a reader that was left behind.
Return(r) ==
    /\ rpc[r] \in {"delivering", "failing"}
    /\ received' = IF rpc[r] = "delivering" /\ r \notin orphan
                   THEN Append(received, rct[r][2])
                   ELSE received
    /\ rpc' = [rpc EXCEPT ![r] = "idle"]
    /\ rstream' = [rstream EXCEPT ![r] = None]
    /\ rct' = [rct EXCEPT ![r] = None]
    /\ orphan' = orphan \ {r}
    /\ UNCHANGED <<sendVars, state, wire, torn, recvSeq, opened, rejected>>

\* The select of Recv takes the context's arm; the reader goes on.
Cancel(r) ==
    /\ r \in Cancellable \ orphan
    /\ rpc[r] # "idle"
    /\ orphan' = orphan \cup {r}
    /\ UNCHANGED <<sendVars, state, wire, torn, recvSeq, rpc, rstream, rct, opened, received, rejected>>

-----------------------------------------------------------------------------

SenderStep(p) == Encrypt(p) \/ Write(p)

ReaderStep(r) == ReadMessage(r) \/ ReadsTorn(r) \/ ReadFails(r) \/ Decrypt(r) \/ Return(r)

Next ==
    \/ \E s \in Streams : OpenStream(s) \/ CloseWrite(s) \/ Reset(s)
    \/ \E p \in Senders : SenderStep(p) \/ \E s \in Streams : Send(p, s)
    \/ \E r \in Receivers : ReaderStep(r) \/ Cancel(r) \/ \E s \in Streams : Recv(r, s)

Spec == Init /\ [][Next]_vars

\* A Send and a reader run on once started.  The receiving application calls
\* Recv again on a stream that has something to read.
Fairness ==
    /\ \A p \in Senders : WF_vars(SenderStep(p))
    /\ \A r \in Receivers : WF_vars(ReaderStep(r))
    /\ \A r \in Receivers, s \in Streams : WF_vars(wire[s] # <<>> /\ Recv(r, s))

FairSpec == Spec /\ Fairness

-----------------------------------------------------------------------------
(* Properties.                                                             *)

\* No two messages are sealed with one sequence number, whichever goroutines
\* send them on whichever streams of the name (Channel.Encrypt, the cache in
\* streamChannel).
SequenceNumbersUnique == \A c, d \in sealed : c[1] = d[1] => c = d

\* What the receiver opens is exactly what the sender sealed, in that order,
\* without a gap and nothing twice, whatever streams it came by.
OpenedAsSealed ==
    /\ Len(opened) = recvSeq
    /\ \A i \in DOMAIN opened : <<i - 1, opened[i]>> \in sealed

\* What was sealed has a number below send_seq.
SealedBelow == \A c \in sealed : c[1] < sendSeq

\* What the goroutines hold and what is on the wire was sealed.
SendersSealed ==
    \A p \in Senders : /\ spc[p] = "writing" => sct[p] \in sealed
                       /\ spc[p] # "idle" => sstream[p] \in Streams

WireSealed == \A s \in Streams : \A i \in DOMAIN wire[s] : wire[s][i] \in sealed

ReadersSealed ==
    \A r \in Receivers : /\ rpc[r] \in {"opening", "delivering"} => rct[r] \in sealed
                         /\ rpc[r] # "idle" => rstream[r] \in Streams

InFlightSealed == SealedBelow /\ SendersSealed /\ WireSealed /\ ReadersSealed

\* Encrypt, the streams and Decrypt keep the two counters, the ciphertexts in
\* flight and what was opened consistent.
AeadInv == TypeOK /\ InFlightSealed /\ SequenceNumbersUnique /\ OpenedAsSealed

\* A second stream of the name is in use beside, or after, the first.
SharedChannel == \E s, t \in Streams : s # t /\ state[s] # "new" /\ state[t] # "new"

\* Every message that is read off the one stream of a name opens, unless that
\* stream was reset: Send and Recv are reliable.
ReadableUnlessReset ==
    rejected # {} => SharedChannel \/ \E s \in Streams : state[s] = "reset"

\* Recv returns the messages in the order of their Sends and skips none, on
\* any stream and after any reset: what it cannot open it refuses.
RecvReturnsNext == \A i \in DOMAIN received : received[i] = i

\* The application sends from one goroutine, and receives in one.
OneSender == \A p, q \in Senders : p = q
OneReceiver == \A q, r \in Receivers : q = r

\* One sender's messages are sealed in the order of its Sends.
SealedInTurn ==
    /\ \A c \in sealed : c[2] = c[1] + 1
    /\ \A p \in Senders : spc[p] = "sealing" => smsg[p] = issued /\ issued = sendSeq + 1
    /\ (\A p \in Senders : spc[p] # "sealing") => issued = sendSeq

\* What one receiver has not returned of what was opened is what it holds.
ReturnedInTurn ==
    /\ orphan = {}
    /\ \A r \in Receivers :
          rpc[r] = "delivering" => rct[r][1] + 1 = recvSeq /\ Len(received) + 1 = recvSeq
    /\ (\A r \in Receivers : rpc[r] # "delivering") => Len(received) = recvSeq

\* One for the ciphertext that a reader has taken off the stream, and one for
\* that which a Send has not yet written.
AtReader == IF \E r \in Receivers : rpc[r] = "opening" THEN 1 ELSE 0
AtSender == IF \E p \in Senders : spc[p] = "writing" THEN 1 ELSE 0

\* The ciphertexts on s follow the one that is expected next, without a gap,
\* up to the last one sealed as long as s is open for writing.
StreamConsecutive(s) ==
    /\ \A i \in 1..Len(wire[s]) : wire[s][i][1] + 1 = recvSeq + AtReader + i
    /\ state[s] = "open" => recvSeq + AtReader + Len(wire[s]) + AtSender = sendSeq

\* Where one goroutine sends and one receives on the one stream of a name, and
\* nobody resets it, the channel's numbers run through without a gap.
RunsThrough ==
    /\ rejected = {} /\ torn = {}
    /\ \A s \in Streams : state[s] # "new" => StreamConsecutive(s)
    /\ \A p \in Senders : spc[p] = "writing" => sct[p][1] + 1 = sendSeq
    /\ \A r \in Receivers : rpc[r] = "opening" => rct[r][1] = recvSeq

\* A stream is opened before it is used.
OpenedFirst ==
    /\ \A s \in Streams : state[s] = "new" => wire[s] = <<>>
    /\ \A p \in Senders : spc[p] # "idle" => state[sstream[p]] # "new"
    /\ \A r \in Receivers : rpc[r] # "idle" => state[rstream[r]] # "new"
    /\ sendSeq # 0 \/ recvSeq # 0 => \E s \in Streams : state[s] # "new"

\* What ReadableUnlessReset rests on beside AeadInv.
SoleStreamInv ==
    /\ OpenedFirst
    /\ SharedChannel \/ (\E s \in Streams : state[s] = "reset") \/ RunsThrough

\* Every message that Send has written on the one stream of a name is returned
\* by a Recv in the end, unless the stream is reset.
SentIsReceived ==
    \A m \in 1..MaxSends :
        (\E s \in Streams : \E i \in DOMAIN wire[s] : wire[s][i][2] = m)
            ~> \/ \E i \in DOMAIN received : received[i] = m
               \/ SharedChannel \/ \E s \in Streams : state[s] = "reset"

=============================================================================
