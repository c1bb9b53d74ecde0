-------------------------- MODULE StreamAeadProofs --------------------------
(***************************************************************************)
(* Proof that AeadInv is an inductive invariant of StreamAead, and with it *)
(* that sequence numbers are never used twice and that messages open as    *)
(* they were sealed, for any goroutines, streams and number of Sends.      *)
(***************************************************************************)
EXTENDS StreamAead, TLAPS

\* The initial state: nothing is sealed, in flight or opened.
LEMMA InitAead == Init => AeadInv
<1> SUFFICES ASSUME Init PROVE AeadInv
    OBVIOUS
<1>1. TypeOK
  BY AeadAssumption DEF Init, TypeOK, Ciphertexts
<1>2. InFlightSealed
  BY DEF Init, InFlightSealed, SealedBelow, SendersSealed, WireSealed, ReadersSealed
<1>3. SequenceNumbersUnique /\ OpenedAsSealed
  BY DEF Init, SequenceNumbersUnique, OpenedAsSealed
<1> QED
  BY <1>1, <1>2, <1>3 DEF AeadInv

\* Opening, finishing and resetting a stream changes neither counters nor
\* what was sealed.
LEMMA StreamSteps ==
    ASSUME AeadInv, NEW s \in Streams, OpenStream(s) \/ CloseWrite(s) \/ Reset(s)
    PROVE  AeadInv'
<1>1. wire' = wire \/ wire' = [wire EXCEPT ![s] = <<>>]
  BY DEF OpenStream, CloseWrite, Reset
<1>2. wire' \in [Streams -> Seq(Ciphertexts)]
  <2>1. wire \in [Streams -> Seq(Ciphertexts)] /\ <<>> \in Seq(Ciphertexts)
    BY DEF AeadInv, TypeOK
  <2> QED
    BY ZenonT(60), <1>1, <2>1
<1>3. TypeOK'
  <2>1. state' \in [Streams -> {"new", "open", "finished", "reset"}]
    BY ZenonT(60) DEF AeadInv, TypeOK, OpenStream, CloseWrite, Reset
  <2> QED
    BY SMTT(60), Z3T(60), <1>2, <2>1 DEF AeadInv, TypeOK, OpenStream, CloseWrite, Reset, sendVars, recvVars
<1>4. \A u \in Streams : \A i \in DOMAIN wire'[u] : wire'[u][i] \in sealed
  <2> SUFFICES ASSUME NEW u \in Streams PROVE \A i \in DOMAIN wire'[u] : wire'[u][i] \in sealed
      OBVIOUS
  <2>1. wire'[u] = <<>> \/ wire'[u] = wire[u]
    BY <1>1 DEF AeadInv, TypeOK
  <2> QED
    BY <2>1 DEF AeadInv, InFlightSealed, SealedBelow, SendersSealed, WireSealed, ReadersSealed
<1>5. InFlightSealed'
  BY <1>4 DEF AeadInv, InFlightSealed,
              SealedBelow, SendersSealed, WireSealed, ReadersSealed, OpenStream, CloseWrite, Reset, sendVars, recvVars
<1>6. SequenceNumbersUnique' /\ OpenedAsSealed'
  BY ZenonT(60) DEF AeadInv, SequenceNumbersUnique, OpenedAsSealed,
         OpenStream, CloseWrite, Reset, sendVars, recvVars
<1> QED
  BY <1>3, <1>5, <1>6 DEF AeadInv

\* A Send begins.
LEMMA SendStep ==
    ASSUME AeadInv, NEW p \in Senders, NEW s \in Streams, Send(p, s)
    PROVE  AeadInv'
<1>1. TypeOK'
  BY SMTT(60), Z3T(60), AeadAssumption DEF AeadInv, TypeOK, Send, recvVars
<1>2. InFlightSealed'
  BY DEF AeadInv, TypeOK, InFlightSealed,
         SealedBelow, SendersSealed, WireSealed, ReadersSealed, Send, recvVars
<1>3. SequenceNumbersUnique' /\ OpenedAsSealed'
  BY DEF AeadInv, SequenceNumbersUnique, OpenedAsSealed, Send, recvVars
<1> QED
  BY <1>1, <1>2, <1>3 DEF AeadInv

\* Encrypt: the new ciphertext has a number above all earlier ones.
LEMMA EncryptStep ==
    ASSUME AeadInv, NEW p \in Senders, Encrypt(p)
    PROVE  AeadInv'
<1> DEFINE ct == <<sendSeq, smsg[p]>>
<1>1. ct \in Ciphertexts /\ ct[1] = sendSeq
  BY DEF AeadInv, TypeOK, Ciphertexts
<1>2. /\ sct' = [sct EXCEPT ![p] = ct] /\ spc' = [spc EXCEPT ![p] = "writing"]
      /\ sealed' = sealed \cup {ct} /\ sendSeq' = sendSeq + 1 /\ sendSeq \in Nat
      /\ UNCHANGED <<issued, smsg, sstream, state, wire, torn, recvSeq, rpc, rstream, rct,
                     orphan, opened, received, rejected>>
  BY DEF AeadInv, TypeOK, Encrypt, recvVars
<1>3. \A c \in sealed : c \in Ciphertexts /\ c[1] \in Nat /\ c[1] < sendSeq
  BY DEF AeadInv, TypeOK, InFlightSealed, SealedBelow, Ciphertexts
<1> HIDE DEF ct
<1>4. TypeOK'
  BY <1>1, <1>2 DEF AeadInv, TypeOK
<1>5. SealedBelow'
  BY <1>1, <1>2, <1>3 DEF SealedBelow
<1>6. SendersSealed'
  <2> SUFFICES ASSUME NEW q \in Senders
               PROVE  /\ spc'[q] = "writing" => sct'[q] \in sealed'
                      /\ spc'[q] # "idle" => sstream'[q] \in Streams
      BY DEF SendersSealed
  <2>1. CASE q = p
    BY <1>2, <2>1 DEF AeadInv, TypeOK, InFlightSealed, SendersSealed, Encrypt
  <2>2. CASE q # p
    BY SMTT(60), Z3T(60), <1>2, <2>2 DEF AeadInv, TypeOK, InFlightSealed, SendersSealed
  <2> QED
    BY <2>1, <2>2
<1>7. WireSealed' /\ ReadersSealed'
  BY <1>2 DEF AeadInv, InFlightSealed, WireSealed, ReadersSealed
<1>8. SequenceNumbersUnique'
  BY <1>1, <1>2, <1>3 DEF AeadInv, SequenceNumbersUnique
<1>9. OpenedAsSealed'
  BY <1>2 DEF AeadInv, OpenedAsSealed
<1> QED
  BY <1>4, <1>5, <1>6, <1>7, <1>8, <1>9 DEF AeadInv, InFlightSealed

\* Write: the ciphertext goes from the goroutine to the stream or is dropped.
LEMMA WriteStep ==
    ASSUME AeadInv, NEW p \in Senders, Write(p)
    PROVE  AeadInv'
<1> DEFINE t == sstream[p]
<1>1. t \in Streams /\ sct[p] \in sealed /\ sct[p] \in Ciphertexts
  BY DEF AeadInv, TypeOK, InFlightSealed, SendersSealed, Write
<1>2. wire' = wire \/ wire' = [wire EXCEPT ![t] = Append(@, sct[p])]
  BY DEF Write
<1>3. wire' \in [Streams -> Seq(Ciphertexts)]
  <2>1. wire \in [Streams -> Seq(Ciphertexts)]
    BY DEF AeadInv, TypeOK
  <2>2. Append(wire[t], sct[p]) \in Seq(Ciphertexts)
    BY SMTT(60), Z3T(60), <1>1, <2>1
  <2> QED
    BY ZenonT(60), <1>1, <1>2, <2>1, <2>2
<1>4. TypeOK'
  BY SMTT(60), Z3T(60), <1>3 DEF AeadInv, TypeOK, Write, recvVars
<1>5. \A u \in Streams : \A i \in DOMAIN wire'[u] : wire'[u][i] \in sealed
  <2> SUFFICES ASSUME NEW u \in Streams, NEW i \in DOMAIN wire'[u]
               PROVE  wire'[u][i] \in sealed
      OBVIOUS
  <2>1. CASE wire'[u] = wire[u]
    BY <2>1 DEF AeadInv, InFlightSealed, SealedBelow, SendersSealed, WireSealed, ReadersSealed
  <2>2. CASE wire'[u] = Append(wire[u], sct[p])
    <3>1. wire[u] \in Seq(Ciphertexts) /\ i \in 1..(Len(wire[u]) + 1)
      BY <2>2, <1>1 DEF AeadInv, TypeOK
    <3>2. i \in DOMAIN wire[u] => wire[u][i] \in sealed
      BY SMTT(60), Z3T(60) DEF AeadInv, InFlightSealed, SealedBelow, SendersSealed, WireSealed, ReadersSealed
    <3> QED
      BY <1>1, <2>2, <3>1, <3>2
  <2> QED
    BY SMTT(60), Z3T(60), <1>1, <1>2, <2>1, <2>2 DEF AeadInv, TypeOK
<1>6. InFlightSealed'
  BY SMTT(60), Z3T(60), <1>5 DEF AeadInv, TypeOK, InFlightSealed,
              SealedBelow, SendersSealed, WireSealed, ReadersSealed, Write, recvVars
<1>7. SequenceNumbersUnique' /\ OpenedAsSealed'
  BY DEF AeadInv, SequenceNumbersUnique, OpenedAsSealed, Write, recvVars
<1> QED
  BY <1>4, <1>6, <1>7 DEF AeadInv

\* A Recv begins, its caller gives up, or its reader finds no message.
LEMMA RecvSteps ==
    ASSUME AeadInv, NEW r \in Receivers,
           (\E s \in Streams : Recv(r, s)) \/ Cancel(r) \/ ReadFails(r)
    PROVE  AeadInv'
<1>1. TypeOK'
  <2>1. CASE \E s \in Streams : Recv(r, s)
    BY <2>1 DEF AeadInv, TypeOK, Recv, sendVars
  <2>2. CASE Cancel(r)
    BY <2>2 DEF AeadInv, TypeOK, Cancel, sendVars
  <2>3. CASE ReadFails(r)
    BY SMTT(60), Z3T(60), <2>3 DEF AeadInv, TypeOK, ReadFails, sendVars
  <2> QED
    BY <2>1, <2>2, <2>3
<1>2. InFlightSealed'
  <2>1. CASE \E s \in Streams : Recv(r, s)
    BY SMTT(60), Z3T(60), <2>1 DEF AeadInv, TypeOK, InFlightSealed, SealedBelow, SendersSealed, WireSealed,
           ReadersSealed, Recv, sendVars
  <2>2. CASE Cancel(r)
    BY <2>2 DEF AeadInv, TypeOK, InFlightSealed, SealedBelow, SendersSealed, WireSealed,
           ReadersSealed, Cancel, sendVars
  <2>3. CASE ReadFails(r)
    BY SMTT(60), Z3T(60), <2>3 DEF AeadInv, TypeOK, InFlightSealed, SealedBelow, SendersSealed, WireSealed,
           ReadersSealed, ReadFails, sendVars
  <2> QED
    BY <2>1, <2>2, <2>3
<1>3. SequenceNumbersUnique' /\ OpenedAsSealed'
  BY ZenonT(60) DEF AeadInv, SequenceNumbersUnique, OpenedAsSealed, Recv, Cancel, ReadFails, sendVars
<1> QED
  BY <1>1, <1>2, <1>3 DEF AeadInv

\* readMessage takes the first message of the stream, whole or torn.
LEMMA ReadSteps ==
    ASSUME AeadInv, NEW r \in Receivers, ReadMessage(r) \/ ReadsTorn(r)
    PROVE  AeadInv'
<1> DEFINE t == rstream[r]
           q == wire[t]
<1>1. t \in Streams
  BY DEF AeadInv, InFlightSealed, ReadersSealed, ReadMessage, ReadsTorn
<1>2. q \in Seq(Ciphertexts) /\ q # <<>>
  BY <1>1 DEF AeadInv, TypeOK, ReadMessage, ReadsTorn
<1>3. /\ Head(q) \in Ciphertexts /\ Tail(q) \in Seq(Ciphertexts)
      /\ Head(q) = q[1] /\ 1 \in DOMAIN q
      /\ \A i \in DOMAIN Tail(q) : i + 1 \in DOMAIN q /\ Tail(q)[i] = q[i + 1]
  BY <1>2
<1>4. \A i \in DOMAIN q : q[i] \in sealed
  BY <1>1 DEF AeadInv, InFlightSealed, SealedBelow, SendersSealed, WireSealed, ReadersSealed
<1>5. Head(q) \in sealed /\ \A i \in DOMAIN Tail(q) : Tail(q)[i] \in sealed
  BY <1>3, <1>4
<1>6. wire' = [wire EXCEPT ![t] = Tail(q)]
  BY DEF ReadMessage, ReadsTorn
<1>7. \/ rct' = [rct EXCEPT ![r] = Head(q)] /\ rpc' = [rpc EXCEPT ![r] = "opening"] /\ torn' = torn
      \/ rct' = rct /\ rpc' = [rpc EXCEPT ![r] = "failing"] /\ torn' = torn \cup {t}
  BY DEF ReadMessage, ReadsTorn
<1>8. UNCHANGED <<issued, sendSeq, sealed, spc, smsg, sstream, sct, state, recvSeq, rstream,
                  orphan, opened, received, rejected>>
  BY DEF ReadMessage, ReadsTorn, sendVars
<1> HIDE DEF t, q
<1>9. TypeOK'
  <2>1. wire' \in [Streams -> Seq(Ciphertexts)]
    BY SMTT(60), Z3T(60), <1>1, <1>3, <1>6 DEF AeadInv, TypeOK
  <2>2. rct' \in [Receivers -> Ciphertexts \cup {None}]
    BY ZenonT(60), <1>3, <1>7 DEF AeadInv, TypeOK
  <2>4. torn' \subseteq Streams
    BY <1>1, <1>7 DEF AeadInv, TypeOK
  <2>3. rpc' \in [Receivers -> {"idle", "reading", "opening", "delivering", "failing"}]
    BY ZenonT(60), <1>7 DEF AeadInv, TypeOK
  <2> QED
    BY SMTT(60), Z3T(60), <1>8, <2>1, <2>2, <2>3, <2>4 DEF AeadInv, TypeOK
<1>10. WireSealed'
  <2> SUFFICES ASSUME NEW u \in Streams PROVE \A i \in DOMAIN wire'[u] : wire'[u][i] \in sealed
      BY <1>8 DEF WireSealed
  <2>1. wire'[u] = Tail(q) \/ wire'[u] = wire[u]
    BY SMTT(60), Z3T(60), <1>6 DEF AeadInv, TypeOK
  <2> QED
    BY ZenonT(60), <1>5, <2>1 DEF AeadInv, InFlightSealed, WireSealed
<1>11. ReadersSealed'
  BY SMTT(60), Z3T(60), <1>1, <1>5, <1>7, <1>8 DEF AeadInv, TypeOK, InFlightSealed, ReadersSealed, t
<1>12. SealedBelow' /\ SendersSealed'
  BY <1>8 DEF AeadInv, InFlightSealed, SealedBelow, SendersSealed
<1>13. SequenceNumbersUnique' /\ OpenedAsSealed'
  BY <1>8 DEF AeadInv, SequenceNumbersUnique, OpenedAsSealed
<1> QED
  BY <1>9, <1>10, <1>11, <1>12, <1>13 DEF AeadInv, InFlightSealed

\* Decrypt opens the message whose number is the next one, or none.
LEMMA DecryptStep ==
    ASSUME AeadInv, NEW r \in Receivers, Decrypt(r)
    PROVE  AeadInv'
<1> DEFINE ct == rct[r]
<1>1. /\ ct \in sealed /\ ct \in Ciphertexts /\ ct = <<ct[1], ct[2]>>
      /\ ct[1] \in Nat /\ ct[2] \in Nat /\ rstream[r] \in Streams
  BY SMTT(60), Z3T(60) DEF AeadInv, TypeOK, InFlightSealed, ReadersSealed, Decrypt, Ciphertexts
<1>2. UNCHANGED <<issued, sendSeq, sealed, spc, smsg, sstream, sct, state, wire, torn,
                  rstream, orphan, received>>
  BY DEF Decrypt, sendVars
<1>3. CASE ct[1] = recvSeq
  <2>1. /\ recvSeq' = recvSeq + 1 /\ opened' = Append(opened, ct[2])
        /\ rpc' = [rpc EXCEPT ![r] = "delivering"] /\ UNCHANGED <<rct, rejected>>
    BY ZenonT(60), <1>3 DEF Decrypt, Expected, Advance
  <2>2. TypeOK'
    BY SMTT(60), Z3T(60), <1>1, <1>2, <2>1 DEF AeadInv, TypeOK
  <2>3. InFlightSealed'
    BY <1>1, <1>2, <2>1 DEF AeadInv, TypeOK, InFlightSealed,
                            SealedBelow, SendersSealed, WireSealed, ReadersSealed
  <2>4. OpenedAsSealed'
    <3>1. /\ opened \in Seq(Nat) /\ Len(opened) = recvSeq /\ recvSeq \in Nat
          /\ \A i \in DOMAIN opened : <<i - 1, opened[i]>> \in sealed
      BY DEF AeadInv, TypeOK, OpenedAsSealed
    <3>2. /\ Len(opened') = recvSeq + 1 /\ DOMAIN opened' = 1..(recvSeq + 1)
          /\ opened'[recvSeq + 1] = ct[2]
          /\ \A i \in DOMAIN opened : opened'[i] = opened[i]
      BY SMTT(60), Z3T(60), <1>1, <2>1, <3>1
    <3>3. <<recvSeq, ct[2]>> \in sealed
      BY ZenonT(60), <1>1, <1>3
    <3>4. ASSUME NEW i \in DOMAIN opened' PROVE <<i - 1, opened'[i]>> \in sealed
      <4>1. CASE i = recvSeq + 1
        BY SMTT(60), Z3T(60), <3>1, <3>2, <3>3, <4>1
      <4>2. CASE i \in DOMAIN opened
        BY <3>1, <3>2, <4>2
      <4> QED
        BY <3>1, <3>2, <4>1, <4>2
    <3> QED
      BY <1>2, <2>1, <3>2, <3>4 DEF OpenedAsSealed
  <2>5. SequenceNumbersUnique'
    BY <1>2 DEF AeadInv, SequenceNumbersUnique
  <2> QED
    BY SMTT(60), Z3T(60), <2>2, <2>3, <2>4, <2>5 DEF AeadInv
<1>4. CASE ct[1] # recvSeq
  <2>1. /\ UNCHANGED <<recvSeq, opened>> /\ rejected' = rejected \cup {rstream[r]}
        /\ rpc' = [rpc EXCEPT ![r] = "failing"] /\ rct' = [rct EXCEPT ![r] = None]
    BY <1>4 DEF Decrypt, Expected
  <2>2. TypeOK'
    BY SMTT(60), Z3T(60), <1>1, <1>2, <2>1 DEF AeadInv, TypeOK
  <2>3. InFlightSealed'
    BY <1>1, <1>2, <2>1 DEF AeadInv, TypeOK, InFlightSealed,
                            SealedBelow, SendersSealed, WireSealed, ReadersSealed
  <2>4. SequenceNumbersUnique' /\ OpenedAsSealed'
    BY <1>2, <2>1 DEF AeadInv, SequenceNumbersUnique, OpenedAsSealed
  <2> QED
    BY <2>2, <2>3, <2>4 DEF AeadInv
<1> QED
  BY SMTT(60), Z3T(60), <1>3, <1>4

\* Recv takes the reader's result, or nobody does.
LEMMA ReturnStep ==
    ASSUME AeadInv, NEW r \in Receivers, Return(r)
    PROVE  AeadInv'
<1>1. rpc[r] = "delivering" => rct[r] \in Ciphertexts /\ rct[r][2] \in Nat
  BY DEF AeadInv, TypeOK, InFlightSealed, ReadersSealed, Ciphertexts
<1>2. received' \in Seq(Nat)
  BY SMTT(60), Z3T(60), <1>1 DEF AeadInv, TypeOK, Return
<1>3. TypeOK'
  BY SMTT(60), Z3T(60), <1>2 DEF AeadInv, TypeOK, Return, sendVars
<1>4. InFlightSealed'
  BY DEF AeadInv, TypeOK, InFlightSealed,
         SealedBelow, SendersSealed, WireSealed, ReadersSealed, Return, sendVars
<1>5. SequenceNumbersUnique' /\ OpenedAsSealed'
  BY DEF AeadInv, SequenceNumbersUnique, OpenedAsSealed, Return, sendVars
<1> QED
  BY <1>3, <1>4, <1>5 DEF AeadInv

\* Every step of the senders, the streams and the receivers keeps AeadInv.
LEMMA NextAead == AeadInv /\ [Next]_vars => AeadInv'
<1> SUFFICES ASSUME AeadInv, [Next]_vars PROVE AeadInv'
    BY SMTT(60), Z3T(60)
<1>1. CASE UNCHANGED vars
  BY <1>1 DEF AeadInv, TypeOK, InFlightSealed,
              SealedBelow, SendersSealed, WireSealed, ReadersSealed, SequenceNumbersUnique, OpenedAsSealed,
              vars, sendVars, recvVars
<1>2. CASE Next
  BY <1>2, StreamSteps, SendStep, EncryptStep, WriteStep, RecvSteps, ReadSteps, DecryptStep,
     ReturnStep DEF Next, SenderStep, ReaderStep
<1> QED
  BY <1>1, <1>2

\* The counters of the channel, the ciphertexts in flight and what was opened
\* stay consistent, whatever Send, Recv, Reset and cancellation do.
THEOREM AeadInvariant == Spec => []AeadInv
  BY InitAead, NextAead, PTL DEF Spec

\* Channel.Encrypt, shared by all streams of a name, never seals two messages
\* with one sequence number.
THEOREM SequenceNumbersAlwaysUnique == Spec => []SequenceNumbersUnique
<1>1. AeadInv => SequenceNumbersUnique
  BY DEF AeadInv
<1> QED
  BY AeadInvariant, <1>1, PTL

\* Channel.Decrypt in strict mode opens what was sealed, in that order,
\* without a gap and nothing twice.
THEOREM AlwaysOpenedAsSealed == Spec => []OpenedAsSealed
<1>1. AeadInv => OpenedAsSealed
  BY DEF AeadInv
<1> QED
  BY AeadInvariant, <1>1, PTL

-----------------------------------------------------------------------------
(* One goroutine sends and one receives.                                   *)

\* The steps of the streams and of Recv leave the sender's side alone, and
\* those of Send and of the streams the receiver's.
LEMMA SidesApart ==
    ASSUME [Next]_vars
    PROVE  /\ (\E p \in Senders : SenderStep(p) \/ \E s \in Streams : Send(p, s)) \/ UNCHANGED sendVars
           /\ (\E r \in Receivers : ReaderStep(r) \/ Cancel(r) \/ \E s \in Streams : Recv(r, s))
              \/ UNCHANGED recvVars
<1>1. CASE UNCHANGED vars
  BY <1>1 DEF vars
<1>2. ASSUME NEW s \in Streams, OpenStream(s) \/ CloseWrite(s) \/ Reset(s)
      PROVE  UNCHANGED <<sendVars, recvVars>>
  BY <1>2 DEF OpenStream, CloseWrite, Reset
<1>3. ASSUME NEW p \in Senders, SenderStep(p) \/ \E s \in Streams : Send(p, s)
      PROVE  UNCHANGED recvVars
  BY <1>3 DEF SenderStep, Encrypt, Write, Send
<1>4. ASSUME NEW r \in Receivers, ReaderStep(r) \/ Cancel(r) \/ \E s \in Streams : Recv(r, s)
      PROVE  UNCHANGED sendVars
  BY <1>4 DEF ReaderStep, ReadMessage, ReadsTorn, ReadFails, Decrypt, Return, Cancel, Recv
<1> QED
  BY <1>1, <1>2, <1>3, <1>4 DEF Next

\* Encrypt seals the messages of one sender in the order of its Sends.
LEMMA SealedInTurnKept ==
    ASSUME OneSender, AeadInv, SealedInTurn, [Next]_vars
    PROVE  SealedInTurn'
<1>1. CASE UNCHANGED sendVars
  BY <1>1 DEF SealedInTurn, sendVars
<1>2. ASSUME NEW p \in Senders, NEW s \in Streams, Send(p, s) PROVE SealedInTurn'
  <2>1. \A q \in Senders : q = p
    BY DEF OneSender
  <2>2. /\ issued = sendSeq /\ issued \in Nat /\ issued' = issued + 1 /\ smsg'[p] = issued + 1
        /\ spc'[p] = "sealing" /\ UNCHANGED <<sendSeq, sealed>>
    BY <1>2, <2>1 DEF AeadInv, TypeOK, SealedInTurn, Send
  <2> QED
    BY <2>1, <2>2 DEF SealedInTurn
<1>3. ASSUME NEW p \in Senders, Encrypt(p) PROVE SealedInTurn'
  <2>1. \A q \in Senders : q = p
    BY DEF OneSender
  <2>2. /\ smsg[p] = issued /\ issued = sendSeq + 1 /\ sendSeq \in Nat
        /\ sendSeq' = sendSeq + 1 /\ spc'[p] = "writing" /\ issued' = issued
        /\ sealed' = sealed \cup {<<sendSeq, smsg[p]>>}
    BY <1>3 DEF AeadInv, TypeOK, SealedInTurn, Encrypt
  <2> QED
    BY <2>1, <2>2 DEF SealedInTurn
<1>4. ASSUME NEW p \in Senders, Write(p) PROVE SealedInTurn'
  <2>1. \A q \in Senders : q = p
    BY DEF OneSender
  <2>2. spc[p] = "writing" /\ spc'[p] = "idle" /\ UNCHANGED <<issued, sendSeq, sealed>>
    BY <1>4 DEF AeadInv, TypeOK, Write
  <2> QED
    BY <2>1, <2>2 DEF SealedInTurn
<1> QED
  BY <1>1, <1>2, <1>3, <1>4, SidesApart DEF SenderStep

\* Recv returns what was opened, before it opens more.
LEMMA ReturnedInTurnKept ==
    ASSUME OneReceiver, Cancellable = {}, AeadInv, SealedInTurn, ReturnedInTurn, RecvReturnsNext, [Next]_vars
    PROVE  ReturnedInTurn' /\ RecvReturnsNext'
<1>1. CASE UNCHANGED recvVars
  BY <1>1 DEF ReturnedInTurn, RecvReturnsNext, recvVars
<1>2. ASSUME NEW r \in Receivers, (\E s \in Streams : Recv(r, s)) \/ ReadMessage(r) \/ ReadsTorn(r) \/ ReadFails(r)
      PROVE  ReturnedInTurn' /\ RecvReturnsNext'
  <2>1. \A q \in Receivers : q = r
    BY DEF OneReceiver
  <2>2. /\ rpc[r] \in {"idle", "reading"} /\ rpc'[r] \in {"reading", "opening", "failing"}
        /\ UNCHANGED <<orphan, recvSeq, received>>
    BY <1>2 DEF AeadInv, TypeOK, Recv, ReadMessage, ReadsTorn, ReadFails
  <2> QED
    BY <2>1, <2>2 DEF ReturnedInTurn, RecvReturnsNext
<1>3. ASSUME NEW r \in Receivers, Decrypt(r) PROVE ReturnedInTurn' /\ RecvReturnsNext'
  <2>1. \A q \in Receivers : q = r
    BY DEF OneReceiver
  <2>2. /\ Len(received) = recvSeq /\ recvSeq \in Nat /\ rpc[r] = "opening"
        /\ UNCHANGED <<orphan, received>>
    BY <1>3, <2>1 DEF AeadInv, TypeOK, ReturnedInTurn, Decrypt
  <2>3. CASE rct[r][1] = recvSeq
    <3>1. recvSeq' = recvSeq + 1 /\ rpc'[r] = "delivering" /\ rct' = rct
      BY <1>3, <2>3 DEF AeadInv, TypeOK, Decrypt, Expected, Advance
    <3> QED
      BY <2>1, <2>2, <2>3, <3>1 DEF ReturnedInTurn, RecvReturnsNext
  <2>4. CASE rct[r][1] # recvSeq
    <3>1. recvSeq' = recvSeq /\ rpc'[r] = "failing"
      BY <1>3, <2>4 DEF AeadInv, TypeOK, Decrypt, Expected
    <3> QED
      BY <2>1, <2>2, <3>1 DEF ReturnedInTurn, RecvReturnsNext
  <2> QED
    BY <2>3, <2>4
<1>4. ASSUME NEW r \in Receivers, Return(r) PROVE ReturnedInTurn' /\ RecvReturnsNext'
  <2>1. \A q \in Receivers : q = r
    BY DEF OneReceiver
  <2>2. /\ rpc'[r] = "idle" /\ orphan' = {} /\ recvSeq' = recvSeq /\ recvSeq \in Nat
        /\ received \in Seq(Nat) /\ \A i \in DOMAIN received : received[i] = i
    BY <1>4 DEF AeadInv, TypeOK, ReturnedInTurn, RecvReturnsNext, Return
  <2>3. CASE rpc[r] = "delivering"
    <3>1. received' = Append(received, rct[r][2]) /\ Len(received) + 1 = recvSeq /\ rct[r][1] + 1 = recvSeq
      BY <1>4, <2>3 DEF ReturnedInTurn, Return
    <3>2. rct[r] \in sealed /\ rct[r][1] \in Nat /\ rct[r][2] \in Nat
      BY <2>3 DEF AeadInv, TypeOK, InFlightSealed, ReadersSealed, Ciphertexts
    <3>3. rct[r][2] = Len(received) + 1
      BY <3>1, <3>2 DEF SealedInTurn
    <3>4. Len(received') = recvSeq /\ \A i \in DOMAIN received' : received'[i] = i
      BY <2>2, <3>1, <3>2, <3>3
    <3> QED
      BY <2>1, <2>2, <3>4 DEF ReturnedInTurn, RecvReturnsNext
  <2>4. CASE rpc[r] # "delivering"
    <3>1. received' = received /\ Len(received) = recvSeq
      BY <1>4, <2>1, <2>4 DEF ReturnedInTurn, Return
    <3> QED
      BY <2>1, <2>2, <3>1 DEF ReturnedInTurn, RecvReturnsNext
  <2> QED
    BY <2>3, <2>4
<1>5. ASSUME NEW r \in Receivers PROVE ~Cancel(r)
  BY DEF Cancel
<1> QED
  BY <1>1, <1>2, <1>3, <1>4, <1>5, SidesApart DEF ReaderStep

\* Where one goroutine sends and one receives without giving up, Recv returns
\* the messages in the order of their Sends and skips none, on any number of
\* streams of the name and after any Reset (streamChannel, strict Decrypt).
THEOREM RecvAlwaysReturnsNext ==
    ASSUME OneSender, OneReceiver, Cancellable = {}
    PROVE  Spec => []RecvReturnsNext
<1> DEFINE Turn == SealedInTurn /\ ReturnedInTurn /\ RecvReturnsNext
<1>1. Init => Turn
  BY DEF Init, SealedInTurn, ReturnedInTurn, RecvReturnsNext
<1>2. AeadInv /\ Turn /\ [Next]_vars => Turn'
  BY SealedInTurnKept, ReturnedInTurnKept
<1>3. Turn => RecvReturnsNext
  BY SMTT(60), Z3T(60)
<1> HIDE DEF Turn
<1> QED
  BY <1>1, <1>2, <1>3, AeadInvariant, PTL DEF Spec

\* Streams are opened before they are used.
LEMMA OpenedFirstKept ==
    ASSUME AeadInv, OpenedFirst, [Next]_vars
    PROVE  OpenedFirst' /\ \A s \in Streams : state[s] # "new" => state'[s] # "new"
<1>0. /\ TypeOK
      /\ \A p \in Senders : spc[p] # "idle" => sstream[p] \in Streams
      /\ \A r \in Receivers : rpc[r] # "idle" => rstream[r] \in Streams
  BY DEF AeadInv, InFlightSealed, SendersSealed, ReadersSealed
<1>1. CASE UNCHANGED vars
  BY <1>1 DEF OpenedFirst, vars, sendVars, recvVars
<1>2. ASSUME NEW s \in Streams, OpenStream(s) \/ CloseWrite(s) \/ Reset(s)
      PROVE  OpenedFirst' /\ \A u \in Streams : state[u] # "new" => state'[u] # "new"
  <2>1. /\ \A u \in Streams : state'[u] = state[u] \/ state'[u] # "new"
        /\ state'[s] # "new" /\ \A u \in Streams : wire'[u] = wire[u] \/ wire'[u] = <<>>
        /\ UNCHANGED <<sendVars, recvVars>>
    BY <1>0, <1>2 DEF TypeOK, OpenStream, CloseWrite, Reset
  <2> QED
    BY <1>0, <2>1 DEF OpenedFirst, sendVars, recvVars
<1>3. ASSUME NEW p \in Senders, NEW s \in Streams, Send(p, s)
      PROVE  OpenedFirst' /\ \A u \in Streams : state[u] # "new" => state'[u] # "new"
  BY <1>0, <1>3 DEF OpenedFirst, TypeOK, Send, recvVars
<1>4. ASSUME NEW p \in Senders, Encrypt(p)
      PROVE  OpenedFirst' /\ \A u \in Streams : state[u] # "new" => state'[u] # "new"
  BY <1>0, <1>4 DEF OpenedFirst, TypeOK, Encrypt, recvVars
<1>5. ASSUME NEW p \in Senders, Write(p)
      PROVE  OpenedFirst' /\ \A u \in Streams : state[u] # "new" => state'[u] # "new"
  BY <1>0, <1>5 DEF OpenedFirst, TypeOK, Write, recvVars
<1>6. ASSUME NEW r \in Receivers, Cancel(r) \/ ReadFails(r) \/ \E s \in Streams : Recv(r, s)
      PROVE  OpenedFirst' /\ \A u \in Streams : state[u] # "new" => state'[u] # "new"
  BY ZenonT(60), <1>0, <1>6 DEF OpenedFirst, TypeOK, Cancel, ReadFails, Recv, sendVars
<1>7. ASSUME NEW r \in Receivers, ReadMessage(r) \/ ReadsTorn(r)
      PROVE  OpenedFirst' /\ \A u \in Streams : state[u] # "new" => state'[u] # "new"
  BY <1>0, <1>7 DEF OpenedFirst, TypeOK, ReadMessage, ReadsTorn, sendVars
<1>8. ASSUME NEW r \in Receivers, Decrypt(r)
      PROVE  OpenedFirst' /\ \A u \in Streams : state[u] # "new" => state'[u] # "new"
  <2>1. rpc[r] = "opening" /\ rpc'[r] # "idle" /\ \A q \in Receivers \ {r} : rpc'[q] = rpc[q]
    BY <1>0, <1>8 DEF TypeOK, Decrypt
  <2>2. \E s \in Streams : state[s] # "new"
    BY <1>0, <2>1 DEF OpenedFirst
  <2> QED
    BY <1>0, <1>8, <2>1, <2>2 DEF OpenedFirst, Decrypt, sendVars
<1>9. ASSUME NEW r \in Receivers, Return(r)
      PROVE  OpenedFirst' /\ \A u \in Streams : state[u] # "new" => state'[u] # "new"
  BY <1>0, <1>9 DEF OpenedFirst, TypeOK, Return, sendVars
<1> QED
  BY <1>1, <1>2, <1>3, <1>4, <1>5, <1>6, <1>7, <1>8, <1>9 DEF Next, SenderStep, ReaderStep

\* The counts of what is on the way to and from the stream.
LEMMA SenderCount ==
    ASSUME OneSender, NEW p \in Senders
    PROVE  /\ AtSender = IF spc[p] = "writing" THEN 1 ELSE 0
           /\ AtSender' = IF spc'[p] = "writing" THEN 1 ELSE 0
  BY DEF OneSender, AtSender

\* With one receiver, a message is with the reader while that one opens it.
LEMMA ReaderCount ==
    ASSUME OneReceiver, NEW r \in Receivers
    PROVE  /\ AtReader = IF rpc[r] = "opening" THEN 1 ELSE 0
           /\ AtReader' = IF rpc'[r] = "opening" THEN 1 ELSE 0
  BY DEF OneReceiver, AtReader

\* The steps of Send on the one stream.
LEMMA RunsThroughSends ==
    ASSUME OneSender, AeadInv, OpenedFirst, RunsThrough, ~SharedChannel,
           \A s \in Streams : state[s] # "reset",
           NEW p \in Senders, SenderStep(p) \/ \E s \in Streams : Send(p, s)
    PROVE  RunsThrough'
<1>0. /\ TypeOK /\ AtReader' = AtReader /\ AtReader \in Nat /\ sendSeq \in Nat /\ recvSeq \in Nat
      /\ AtSender = (IF spc[p] = "writing" THEN 1 ELSE 0) /\ AtSender' = IF spc'[p] = "writing" THEN 1 ELSE 0
      /\ \A q \in Senders : q = p
  <2>1. rpc' = rpc
    BY DEF SenderStep, Encrypt, Write, Send, recvVars
  <2> QED
    BY <2>1, SenderCount DEF AeadInv, TypeOK, AtReader, OneSender
<1>1. CASE \E s \in Streams : Send(p, s)
  <2>1. /\ spc[p] = "idle" /\ spc'[p] = "sealing"
        /\ UNCHANGED <<sendSeq, state, wire, torn, recvSeq, rpc, rct, rejected>>
    BY SMTT(60), Z3T(60), <1>0, <1>1 DEF TypeOK, Send, recvVars
  <2> QED
    BY ZenonT(60), <1>0, <2>1 DEF RunsThrough, StreamConsecutive
<1>2. CASE Encrypt(p)
  <2>1. /\ spc[p] = "sealing" /\ spc'[p] = "writing" /\ sendSeq' = sendSeq + 1 /\ sct'[p] = <<sendSeq, smsg[p]>>
        /\ UNCHANGED <<state, wire, torn, recvSeq, rpc, rct, rejected>>
    BY <1>0, <1>2 DEF TypeOK, Encrypt, recvVars
  <2>2. \A s \in Streams : Len(wire[s]) \in Nat
    BY <1>0 DEF TypeOK
  <2>3. /\ AtSender = 0 /\ AtSender' = 1 /\ AtReader' = AtReader
        /\ AtReader \in Nat /\ recvSeq \in Nat /\ sendSeq \in Nat
    BY SMTT(60), Z3T(60), <1>0, <2>1
  <2>4. ASSUME NEW s \in Streams, StreamConsecutive(s) PROVE StreamConsecutive(s)'
    <3>1. ASSUME state[s] = "open"
          PROVE  recvSeq + AtReader + Len(wire[s]) + 1 = sendSeq + 1
      <4> DEFINE n == Len(wire[s])
      <4>1. recvSeq + AtReader + n + 0 = sendSeq
        BY ZenonT(60), <2>3, <2>4, <3>1 DEF StreamConsecutive
      <4>2. n \in Nat
        BY ZenonT(60), <2>2
      <4>3. recvSeq + AtReader + n + 1 = sendSeq + 1
        <5> HIDE DEF n
        <5> QED BY ONLY SMTT(60), Z3T(60), <2>3, <4>1, <4>2
      <4> QED
        BY ONLY <4>3
    <3> QED
      BY ZenonT(60), <2>1, <2>3, <2>4, <3>1 DEF StreamConsecutive
  <2>5. sct'[p][1] + 1 = sendSeq'
    BY SMTT(60), Z3T(60), <2>1
  <2> QED
    BY ZenonT(60), <1>0, <2>1, <2>4, <2>5 DEF RunsThrough
<1>3. CASE Write(p)
  <2> DEFINE t == sstream[p]
  <2>1. /\ spc[p] = "writing" /\ spc'[p] = "idle" /\ t \in Streams /\ state[t] \in {"open", "finished"}
        /\ UNCHANGED <<state, torn, recvSeq, sendSeq, rpc, rct, rejected>>
        /\ wire' = IF state[t] = "open" THEN [wire EXCEPT ![t] = Append(@, sct[p])] ELSE wire
    BY <1>0, <1>3 DEF AeadInv, TypeOK, InFlightSealed, SendersSealed, OpenedFirst, Write, recvVars
  <2>2. sct[p][1] + 1 = sendSeq /\ sct[p] \in Ciphertexts
    BY SMTT(60), Z3T(60), <2>1 DEF RunsThrough, AeadInv, TypeOK, InFlightSealed, SendersSealed
  <2>3. \A u \in Streams : state[u] # "new" => u = t
    BY ZenonT(60), <2>1 DEF SharedChannel
  <2>4. ASSUME NEW u \in Streams, state'[u] # "new" PROVE StreamConsecutive(u)'
    <3>1. u = t /\ StreamConsecutive(t) /\ wire[t] \in Seq(Ciphertexts)
      BY SMTT(60), Z3T(60), <1>0, <2>1, <2>3, <2>4 DEF RunsThrough, TypeOK
    <3>2. CASE state[t] = "open"
      <4>1. wire'[t] = Append(wire[t], sct[p])
        BY SMTT(60), Z3T(60), <1>0, <2>1, <3>2 DEF TypeOK
      <4>2. /\ Len(wire'[t]) = Len(wire[t]) + 1 /\ wire'[t][Len(wire[t]) + 1] = sct[p]
            /\ \A i \in 1..Len(wire[t]) : wire'[t][i] = wire[t][i]
            /\ Len(wire[t]) \in Nat
        BY SMTT(60), Z3T(60), <2>2, <3>1, <4>1
      <4>3. recvSeq + AtReader + Len(wire[t]) + 1 = sendSeq
        BY ZenonT(60), <1>0, <2>1, <3>1, <3>2 DEF StreamConsecutive
      <4>4. \A i \in 1..Len(wire'[t]) : wire'[t][i][1] + 1 = recvSeq + AtReader + i
        <5> SUFFICES ASSUME NEW i \in 1..Len(wire'[t]) PROVE wire'[t][i][1] + 1 = recvSeq + AtReader + i
            OBVIOUS
        <5>1. CASE i = Len(wire[t]) + 1
          <6>1. wire'[t][i] = sct[p] /\ sct[p][1] + 1 = sendSeq
            BY <2>2, <4>2, <5>1
          <6>2. sendSeq = recvSeq + AtReader + i
            <7>1. /\ recvSeq \in Nat /\ AtReader \in Nat /\ Len(wire[t]) \in Nat
                  /\ \A a, b, n \in Nat : a + b + n + 1 = a + b + (n + 1)
              BY <1>0, <4>2
            <7> QED
              BY ZenonT(60), <4>3, <5>1, <7>1
          <6> QED
            BY ONLY <6>1, <6>2
        <5>2. CASE i \in 1..Len(wire[t])
          <6>1. wire'[t][i] = wire[t][i]
            BY ZenonT(60), <4>2, <5>2
          <6>2. wire[t][i][1] + 1 = recvSeq + AtReader + i
            BY ZenonT(60), <3>1, <5>2 DEF StreamConsecutive
          <6> QED
            BY ONLY <6>1, <6>2
        <5> QED
          BY <4>2, <5>1, <5>2
      <4>5. /\ recvSeq' = recvSeq /\ AtReader' = AtReader /\ AtSender' = 0 /\ sendSeq' = sendSeq
            /\ recvSeq \in Nat /\ AtReader \in Nat
        BY SMTT(60), Z3T(60), <1>0, <2>1
      <4>6. recvSeq' + AtReader' + Len(wire'[t]) + AtSender' = sendSeq'
        <5>1. \A a, b, n \in Nat : a + b + (n + 1) + 0 = a + b + n + 1
          BY ONLY SMT
        <5>2. Len(wire'[t]) = Len(wire[t]) + 1 /\ Len(wire[t]) \in Nat
          BY ONLY ZenonT(60), <4>2
        <5>3. recvSeq + AtReader + (Len(wire[t]) + 1) + 0 = sendSeq
          BY ONLY ZenonT(60), <4>3, <4>5, <5>1, <5>2
        <5> QED
          BY ONLY ZenonT(60), <4>5, <5>2, <5>3
      <4>7. \A i \in 1..Len(wire'[t]) : wire'[t][i][1] + 1 = recvSeq' + AtReader' + i
        BY ONLY ZenonT(60), <4>4, <4>5
      <4> QED
        BY ZenonT(60), <3>1, <4>6, <4>7 DEF StreamConsecutive
    <3>3. CASE state[t] = "finished"
      BY ZenonT(60), <1>0, <2>1, <3>1, <3>3 DEF StreamConsecutive
    <3> QED
      BY ZenonT(60), <2>1, <3>2, <3>3
  <2> QED
    BY <1>0, <2>1, <2>4 DEF RunsThrough
<1> QED
  BY <1>1, <1>2, <1>3 DEF SenderStep

\* What is left of a queue when its head is taken.
LEMMA HeadTail ==
    ASSUME NEW S, NEW q \in Seq(S), q # <<>>
    PROVE  /\ Head(q) = q[1] /\ Len(Tail(q)) = Len(q) - 1
           /\ \A i \in 1..Len(Tail(q)) : Tail(q)[i] = q[i + 1] /\ i + 1 \in 1..Len(q)
  OBVIOUS

\* The steps of Recv on the one stream.
LEMMA RunsThroughRecvs ==
    ASSUME OneReceiver, AeadInv, OpenedFirst, RunsThrough, ~SharedChannel,
           NEW r \in Receivers, ReaderStep(r) \/ Cancel(r) \/ \E s \in Streams : Recv(r, s)
    PROVE  RunsThrough'
<1>0. /\ TypeOK /\ AtSender' = AtSender /\ AtSender \in Nat /\ sendSeq \in Nat /\ recvSeq \in Nat
      /\ AtReader = (IF rpc[r] = "opening" THEN 1 ELSE 0) /\ AtReader' = IF rpc'[r] = "opening" THEN 1 ELSE 0
      /\ \A q \in Receivers : q = r
  <2>1. spc' = spc
    BY SMTT(60), Z3T(60) DEF ReaderStep, ReadMessage, ReadsTorn, ReadFails, Decrypt, Return, Cancel, Recv, sendVars
  <2> QED
    BY SMTT(60), Z3T(60), <2>1, ReaderCount DEF AeadInv, TypeOK, AtSender, OneReceiver
<1>1. CASE Cancel(r) \/ ReadFails(r) \/ Return(r) \/ \E s \in Streams : Recv(r, s)
  <2>1. /\ rpc'[r] = "opening" <=> rpc[r] = "opening"
        /\ rpc'[r] = "opening" => rct'[r] = rct[r]
        /\ UNCHANGED <<spc, sct, sendSeq, state, wire, torn, recvSeq, rejected>>
    BY <1>0, <1>1 DEF TypeOK, Cancel, ReadFails, Return, Recv, sendVars
  <2> QED
    BY ZenonT(60), <1>0, <2>1 DEF RunsThrough, StreamConsecutive
<1>2. CASE ReadMessage(r)
  <2> DEFINE t == rstream[r]
  <2>1. /\ rpc[r] = "reading" /\ rpc'[r] = "opening" /\ t \in Streams /\ state[t] # "new" /\ wire[t] # <<>>
        /\ rct'[r] = Head(wire[t]) /\ wire' = [wire EXCEPT ![t] = Tail(wire[t])]
        /\ UNCHANGED <<spc, sct, sendSeq, state, torn, recvSeq, rstream, rejected>>
    BY SMTT(60), Z3T(60), <1>0, <1>2 DEF AeadInv, TypeOK, InFlightSealed, ReadersSealed, OpenedFirst, ReadMessage, sendVars
  <2>2. \A u \in Streams : state[u] # "new" => u = t
    BY ZenonT(60), <2>1 DEF SharedChannel
  <2>3. /\ StreamConsecutive(t) /\ wire[t] \in Seq(Ciphertexts) /\ wire'[t] = Tail(wire[t])
        /\ Len(wire[t]) \in Nat /\ Len(wire[t]) >= 1
    BY SMTT(60), Z3T(60), <1>0, <2>1 DEF RunsThrough, TypeOK
  <2>4. /\ rct'[r] = wire[t][1] /\ Len(wire'[t]) = Len(wire[t]) - 1
        /\ \A i \in 1..Len(wire'[t]) : wire'[t][i] = wire[t][i + 1] /\ i + 1 \in 1..Len(wire[t])
    <3>1. /\ Head(wire[t]) = wire[t][1] /\ Len(Tail(wire[t])) = Len(wire[t]) - 1
          /\ \A i \in 1..Len(Tail(wire[t])) : Tail(wire[t])[i] = wire[t][i + 1] /\ i + 1 \in 1..Len(wire[t])
      <4>1. wire[t] \in Seq(Ciphertexts) /\ wire[t] # <<>>
        BY ZenonT(60), <2>1, <2>3
      <4> HIDE DEF t
      <4> QED
        BY ONLY <4>1, HeadTail
    <3>2. rct'[r] = Head(wire[t]) /\ wire'[t] = Tail(wire[t])
      BY SMTT(60), Z3T(60), <2>1, <2>3
    <3> QED
      BY ZenonT(60), <3>1, <3>2
  <2>5. rct'[r][1] + 1 = recvSeq + 0 + 1 /\ rct'[r] \in Ciphertexts
    BY <1>0, <2>1, <2>3, <2>4 DEF StreamConsecutive
  <2>6. rct'[r][1] = recvSeq
    BY <1>0, <2>5 DEF Ciphertexts
  <2>7. StreamConsecutive(t)'
    <3>1. \A i \in 1..Len(wire'[t]) : wire'[t][i][1] + 1 = recvSeq + 1 + i
      <4> SUFFICES ASSUME NEW i \in 1..Len(wire'[t]) PROVE wire'[t][i][1] + 1 = recvSeq + 1 + i
          BY SMTT(60), Z3T(60)
      <4>1. wire[t][i + 1][1] + 1 = recvSeq + 0 + (i + 1)
        BY SMTT(60), Z3T(60), <1>0, <2>1, <2>3, <2>4 DEF StreamConsecutive
      <4> QED
        BY <1>0, <2>4, <4>1
    <3>2. state[t] = "open" => recvSeq + 1 + Len(wire'[t]) + AtSender = sendSeq
      BY SMTT(60), Z3T(60), <1>0, <2>1, <2>3, <2>4 DEF StreamConsecutive
    <3> QED
      BY <1>0, <2>1, <3>1, <3>2 DEF StreamConsecutive
  <2> QED
    BY ZenonT(60), <1>0, <2>1, <2>2, <2>6, <2>7 DEF RunsThrough
<1>3. CASE ReadsTorn(r)
  BY SMTT(60), Z3T(60), <1>0, <1>3 DEF RunsThrough, ReadsTorn
<1>4. CASE Decrypt(r)
  <2>1. rpc[r] = "opening" /\ rct[r][1] = recvSeq
    BY ZenonT(60), <1>4 DEF RunsThrough, Decrypt
  <2>2. /\ rpc'[r] = "delivering" /\ recvSeq' = recvSeq + 1
        /\ UNCHANGED <<spc, sct, sendSeq, state, wire, torn, rejected>>
    BY <1>0, <1>4, <2>1 DEF TypeOK, Decrypt, Expected, Advance, sendVars
  <2>3. \A s \in Streams : Len(wire[s]) \in Nat
    BY SMTT(60), Z3T(60), <1>0 DEF TypeOK
  <2> QED
    BY SMTT(60), Z3T(60), <1>0, <2>1, <2>2, <2>3 DEF RunsThrough, StreamConsecutive
<1> QED
  BY <1>1, <1>2, <1>3, <1>4 DEF ReaderStep

\* The first stream is opened, or the one there is is finished.
LEMMA RunsThroughStreams ==
    ASSUME AeadInv, OpenedFirst, RunsThrough, ~SharedChannel', NEW s \in Streams, OpenStream(s) \/ CloseWrite(s)
    PROVE  RunsThrough'
<1>0. /\ TypeOK /\ state'[s] # "new" /\ UNCHANGED <<sendVars, wire, torn, recvVars>>
      /\ \A u \in Streams \ {s} : state'[u] = state[u]
      /\ AtReader' = AtReader /\ AtSender' = AtSender
  BY SMTT(60), Z3T(60) DEF AeadInv, TypeOK, OpenStream, CloseWrite, AtReader, AtSender, sendVars, recvVars
<1>1. \A u \in Streams \ {s} : state'[u] = "new"
  BY ZenonT(60), <1>0 DEF SharedChannel
<1>2. StreamConsecutive(s)'
  <2>1. CASE OpenStream(s)
    <3>1. \A u \in Streams : state[u] = "new"
      BY <1>0, <1>1, <2>1 DEF OpenStream
    <3>2. sendSeq = 0 /\ recvSeq = 0 /\ wire[s] = <<>>
      BY <3>1 DEF OpenedFirst
    <3>3. /\ \A p \in Senders : spc[p] # "writing"
          /\ \A r \in Receivers : rpc[r] # "opening"
      BY <3>1 DEF AeadInv, InFlightSealed, SendersSealed, ReadersSealed, OpenedFirst
    <3>4. AtReader = 0 /\ AtSender = 0
      BY SMTT(60), Z3T(60), <3>3 DEF AtReader, AtSender
    <3> QED
      BY SMTT(60), Z3T(60), <1>0, <3>2, <3>4 DEF StreamConsecutive, sendVars, recvVars
  <2>2. CASE CloseWrite(s)
    <3>1. state[s] = "open" /\ state'[s] = "finished"
      BY SMTT(60), Z3T(60), <1>0, <2>2 DEF CloseWrite, TypeOK
    <3> QED
      BY <1>0, <3>1 DEF RunsThrough, StreamConsecutive, recvVars
  <2> QED
    BY SMTT(60), Z3T(60), <2>1, <2>2
<1> QED
  BY ZenonT(60), <1>0, <1>1, <1>2 DEF RunsThrough, sendVars, recvVars

\* Every step keeps SoleStreamInv.
LEMMA NextSoleStream ==
    ASSUME OneSender, OneReceiver, AeadInv, SoleStreamInv, [Next]_vars
    PROVE  SoleStreamInv'
<1>1. OpenedFirst' /\ \A s \in Streams : state[s] # "new" => state'[s] # "new"
  BY SMTT(60), Z3T(60), OpenedFirstKept DEF SoleStreamInv
<1>2. ASSUME ~SharedChannel', \A s \in Streams : state'[s] # "reset" PROVE RunsThrough'
  <2>1. \A s \in Streams : state[s] # "reset"
    BY ZenonT(60), <1>2 DEF AeadInv, TypeOK, Next, OpenStream, CloseWrite, Reset, SenderStep, Encrypt, Write, Send,
       ReaderStep, ReadMessage, ReadsTorn, ReadFails, Decrypt, Return, Cancel, Recv, vars
  <2>2. ~SharedChannel
    BY <1>1, <1>2 DEF SharedChannel
  <2>3. OpenedFirst /\ RunsThrough
    BY SMTT(60), Z3T(60), <2>1, <2>2 DEF SoleStreamInv
  <2>4. CASE UNCHANGED vars
    BY ZenonT(60), <2>3, <2>4 DEF RunsThrough, StreamConsecutive, AtReader, AtSender, vars, sendVars, recvVars
  <2>5. ASSUME NEW s \in Streams PROVE ~Reset(s)
    BY <1>2 DEF AeadInv, TypeOK, Reset
  <2> QED
    BY ZenonT(60), <1>2, <2>1, <2>2, <2>3, <2>4, <2>5, RunsThroughStreams, RunsThroughSends, RunsThroughRecvs DEF Next
<1> QED
  BY SMTT(60), Z3T(60), <1>1, <1>2 DEF SoleStreamInv

\* Where one goroutine sends and one receives, a message that was read off the
\* one stream of a name opens unless the stream was reset, also after a
\* cancelled Recv and after CloseWrite (Stream.Send, Stream.Recv).
THEOREM AlwaysReadableUnlessReset ==
    ASSUME OneSender, OneReceiver
    PROVE  Spec => []ReadableUnlessReset
<1>1. Init => SoleStreamInv
  BY DEF Init, SoleStreamInv, OpenedFirst, RunsThrough
<1>2. AeadInv /\ SoleStreamInv /\ [Next]_vars => SoleStreamInv'
  BY NextSoleStream
<1>3. SoleStreamInv => ReadableUnlessReset
  BY DEF SoleStreamInv, RunsThrough, ReadableUnlessReset
<1> QED
  BY <1>1, <1>2, <1>3, AeadInvariant, PTL DEF Spec

=============================================================================
