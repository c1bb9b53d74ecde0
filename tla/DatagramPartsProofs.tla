------------------------- MODULE DatagramPartsProofs -------------------------
(* Proofs about DatagramParts for any profiles, names, payload lengths and *)
(* bounds: what Recv returns is in order, and nothing is refused without a *)
(* cause.                                                                  *)
EXTENDS DatagramParts, Integers, FiniteSetTheorems, TLAPS

(* What the steps do to a queue.                                           *)
LEMMA QueueOps ==
  ASSUME NEW S
  PROVE  /\ << >> \in Seq(S)
         /\ \A q \in Seq(S), p \in S : Append(q, p) \in Seq(S)
         /\ \A q \in Seq(S) : q # << >> => Head(q) \in S /\ Tail(q) \in Seq(S)
<1>1. << >> \in Seq(S)
  OBVIOUS
<1>2. \A q \in Seq(S), p \in S : Append(q, p) \in Seq(S)
  OBVIOUS
<1>3. \A q \in Seq(S) : q # << >> => Head(q) \in S /\ Tail(q) \in Seq(S)
  OBVIOUS
<1>4. QED
  BY <1>1, <1>2, <1>3

(* The first message of a queue moved to the end of what was read before.  *)
LEMMA MoveHead ==
  ASSUME NEW S, NEW s \in Seq(S), NEW t \in Seq(S), t # << >>
  PROVE  /\ Append(s, Head(t)) \in Seq(S) /\ Tail(t) \in Seq(S)
         /\ Append(s, Head(t)) \o Tail(t) = s \o t
<1>1. Append(s, Head(t)) \in Seq(S) /\ Tail(t) \in Seq(S) /\ Head(t) \in S
  OBVIOUS
<1> DEFINE u == Append(s, Head(t)) \o Tail(t)
           v == s \o t
<1>2. u \in Seq(S) /\ v \in Seq(S)
  BY <1>1
<1>3. Len(u) = Len(v)
  BY <1>1
<1>4. ASSUME NEW i \in 1 .. Len(v) PROVE u[i] = v[i]
  <2>1. CASE i <= Len(s)
    BY <2>1, <1>1
  <2>2. CASE i = Len(s) + 1
    BY <2>2, <1>1
  <2>3. CASE i > Len(s) + 1
    BY <2>3, <1>1
  <2>4. QED
    BY <2>1, <2>2, <2>3
<1>5. u = v
  <2> HIDE DEF u, v
  <2>1. QED
    BY SMTT(60), Z3T(60), <1>2, <1>3, <1>4
<1>6. QED
  BY SMTT(60), Z3T(60), <1>1, <1>5

(* A message put at the end of the queue.                                  *)
LEMMA ConcatAppend ==
  \A s, t \in Seq(Packet), p \in Packet : s \o Append(t, p) = Append(s \o t, p)
<1> TAKE s, t \in Seq(Packet), p \in Packet
<1> DEFINE u == s \o Append(t, p)
           v == Append(s \o t, p)
<1>1. u \in Seq(Packet) /\ v \in Seq(Packet) /\ s \o t \in Seq(Packet)
  OBVIOUS
<1>2. Len(u) = Len(s) + Len(t) + 1 /\ Len(v) = Len(s) + Len(t) + 1
  OBVIOUS
<1>3. ASSUME NEW i \in 1 .. Len(v) PROVE u[i] = v[i]
  <2>1. CASE i <= Len(s)
    BY <2>1
  <2>2. CASE i > Len(s) /\ i <= Len(s) + Len(t)
    BY <2>2
  <2>3. CASE i = Len(s) + Len(t) + 1
    BY <2>3
  <2>4. QED
    BY <1>2, <2>1, <2>2, <2>3
<1>4. QED
  <2> HIDE DEF u, v
  <2>1. u = v
    BY <1>1, <1>2, <1>3
  <2>2. QED
    BY <2>1 DEF u, v

(* An increasing sequence stays so with a greater number at its end.       *)
LEMMA AppendIncreasing ==
  ASSUME NEW q \in Seq(Packet), NEW p \in Packet, Increasing(q),
         \A i \in 1 .. Len(q) : q[i].seq < p.seq
  PROVE  /\ Append(q, p) \in Seq(Packet) /\ Increasing(Append(q, p))
         /\ Len(Append(q, p)) = Len(q) + 1
         /\ \A i \in 1 .. Len(q) : Append(q, p)[i] = q[i]
         /\ Append(q, p)[Len(q) + 1] = p
<1>1. /\ Append(q, p) \in Seq(Packet) /\ Len(Append(q, p)) = Len(q) + 1
      /\ \A i \in 1 .. Len(q) : Append(q, p)[i] = q[i]
      /\ Append(q, p)[Len(q) + 1] = p
  OBVIOUS
<1>2. ASSUME NEW i \in 1 .. Len(q) + 1, NEW j \in 1 .. Len(q) + 1, i < j
      PROVE  Append(q, p)[i].seq < Append(q, p)[j].seq
  <2>1. i \in 1 .. Len(q)
    BY <1>2
  <2>2. CASE j = Len(q) + 1
    BY <2>1, <2>2, <1>1
  <2>3. CASE j \in 1 .. Len(q)
    BY <2>1, <2>3, <1>1, <1>2 DEF Increasing
  <2>4. QED
    BY <2>2, <2>3
<1>3. QED
  BY SMTT(60), Z3T(60), <1>1, <1>2 DEF Increasing

(* Taking the first message off.                                           *)
LEMMA TailIncreasing ==
  ASSUME NEW q \in Seq(Packet), q # << >>, Increasing(q)
  PROVE  /\ Head(q) \in Packet /\ Head(q) = q[1] /\ Len(q) >= 1
         /\ Tail(q) \in Seq(Packet) /\ Increasing(Tail(q)) /\ Len(Tail(q)) = Len(q) - 1
         /\ \A i \in 1 .. Len(Tail(q)) : Tail(q)[i] = q[i + 1] /\ Head(q).seq < Tail(q)[i].seq
<1>1. /\ Head(q) \in Packet /\ Head(q) = q[1] /\ Len(q) \in Nat /\ Len(q) >= 1
      /\ Tail(q) \in Seq(Packet) /\ Len(Tail(q)) = Len(q) - 1
      /\ \A i \in 1 .. Len(Tail(q)) : Tail(q)[i] = q[i + 1]
  OBVIOUS
<1>2. \A i \in 1 .. Len(Tail(q)) : i + 1 \in 1 .. Len(q) /\ 1 \in 1 .. Len(q) /\ 1 < i + 1
  BY <1>1
<1>3. \A i \in 1 .. Len(Tail(q)) : Head(q).seq < Tail(q)[i].seq
  BY <1>1, <1>2 DEF Increasing
<1>4. Increasing(Tail(q))
  <2>1. ASSUME NEW i \in 1 .. Len(Tail(q)), NEW j \in 1 .. Len(Tail(q)), i < j
        PROVE  Tail(q)[i].seq < Tail(q)[j].seq
    <3>1. i + 1 \in 1 .. Len(q) /\ j + 1 \in 1 .. Len(q) /\ i + 1 < j + 1
      BY <1>1, <2>1
    <3>2. q[i + 1].seq < q[j + 1].seq
      BY <3>1 DEF Increasing
    <3>3. QED
      BY <1>1, <3>2
  <2>2. QED
    BY <2>1 DEF Increasing
<1>5. QED
  BY <1>1, <1>3, <1>4

---------------------------------------------------------------------------
(* The chunks of a message are parts.                                      *)
LEMMA SplitType ==
  ASSUME NEW call \in Nat, NEW id \in Nat, NEW len \in Nat
  PROVE  Split(call, id, len) \in Seq(PartSet)
<1> DEFINE budget == maxAppChunk(MaxDatagram, 1 + FragHeaderSize, cidAllowance)
           total == PartCount(len)
           end(i) == IF (i + 1) * budget > len THEN len ELSE (i + 1) * budget
<1>1. budget \in Nat /\ budget >= 1
  BY DatagramAssumption DEF maxAppChunk, FragHeaderSize, cidAllowance, aeadOverhead
<1>2. total \in Nat
  <2> HIDE DEF budget
  <2>1. (len + budget - 1) \div budget \in Int
    BY <1>1
  <2>2. PartCount(len) = IF (len + budget - 1) \div budget < 2 THEN 2
                         ELSE (len + budget - 1) \div budget
    BY DEF PartCount, budget
  <2>3. QED
    BY <2>1, <2>2
<1>3. ASSUME NEW i \in 1 .. total
      PROVE  Part(call, id, i - 1, total, (i - 1) * budget, end(i - 1)) \in PartSet
  <2> HIDE DEF budget, total
  <2>1. i \in Nat /\ i - 1 \in Nat
    BY <1>2
  <2>2. (i - 1) * budget \in Nat /\ ((i - 1) + 1) * budget \in Nat
    BY <1>1, <2>1
  <2>3. end(i - 1) \in Nat
    BY <2>2
  <2> HIDE DEF end
  <2>4. QED
    BY <1>2, <2>1, <2>2, <2>3 DEF Part, PartSet
<1>4. Split(call, id, len) =
        [i \in 1 .. total |-> Part(call, id, i - 1, total, (i - 1) * budget, end(i - 1))]
  BY DEF Split
<1>5. QED
  <2> HIDE DEF budget, total, end
  <2>1. QED
    BY <1>2, <1>3, <1>4

---------------------------------------------------------------------------
\* The initial state satisfies DatagramInv.
LEMMA InitInv == Init => DatagramInv
<1> SUFFICES ASSUME Init PROVE DatagramInv
  OBVIOUS
<1>1. TypeOK
  <2>1. << >> \in Seq(Packet) /\ << >> \in Seq(PartSet) /\ << >> \in Seq(Nat)
    BY QueueOps
  <2>2. QED
    BY ZenonT(60), <2>1 DEF Init, ProxyInit, TypeOK
<1>2. TakenBehind
  <2>1. ASSUME NEW c \in Channels PROVE Taken(c) = << >>
    BY DEF Init, Taken
  <2>2. Len(<< >>) = 0
    OBVIOUS
  <2>3. QED
    BY <2>1, <2>2 DEF TakenBehind, Increasing
<1>3. LinkInOrder
  BY DEF Init, ProxyInit, LinkInOrder, Increasing
<1>4. QED
  BY <1>1, <1>2, <1>3 DEF DatagramInv

(* A packet that is written arrives or is lost.                            *)
LEMMA SendEffect ==
  ASSUME NEW p, send(p)
  PROVE  arrived' = arrived \/ (p # NoPacket /\ arrived' = Append(arrived, p))
BY SMTT(60), Z3T(60) DEF send

(* The proxy's steps, one by one.                                          *)
LEMMA ProxyType ==
  ASSUME TypeOK, ProxyNext, UNCHANGED dgVars
  PROVE  TypeOK'
<1> USE DEF TypeOK, dgVars
<1>1. CASE ReadFromUDP
  <2>1. CASE inbox # << >> /\ pkt' = [pkt EXCEPT !["client"] = Head(inbox)] /\ inbox' = Tail(inbox)
    <3>1. Head(inbox) \in Packet /\ Tail(inbox) \in Seq(Packet)
      BY <2>1, QueueOps
    <3>2. QED
      BY <1>1, <2>1, <3>1 DEF ReadFromUDP
  <2>2. CASE UNCHANGED <<pkt, inbox>>
    BY <1>1, <2>2 DEF ReadFromUDP
  <2>3. QED
    BY SMTT(60), Z3T(60), <1>1, <2>1, <2>2 DEF ReadFromUDP
<1>2. CASE getOrCreateUpstream
  BY ZenonT(60), <1>2 DEF getOrCreateUpstream
<1>3. ASSUME NEW g \in {"client", "reply"}, ApplyFaults(g) PROVE TypeOK'
  BY <1>3 DEF ApplyFaults
<1>4. ASSUME NEW g \in {"client", "reply"}, SendOrHold(g) PROVE TypeOK'
  <2>1. pkt[g] \in Packet \union {NoPacket}
    OBVIOUS
  <2>2. arrived' \in Seq(Packet)
    <3>1. arrived' = arrived \/ (pkt[g] # NoPacket /\ arrived' = Append(arrived, pkt[g]))
      BY <1>4, SendEffect DEF SendOrHold
    <3>2. arrived \in Seq(Packet)
      OBVIOUS
    <3>3. QED
      BY ONLY SMTT(60), Z3T(60), <2>1, <3>1, <3>2, QueueOps
  <2>3. held' \subseteq Packet \union {NoPacket} /\ slowed' \in BOOLEAN
    BY ZenonT(60), <1>4, <2>1 DEF SendOrHold
  <2>4. pkt' \in [{"client", "reply"} -> Packet \union {NoPacket}] /\ inbox' = inbox
    BY <1>4 DEF SendOrHold
  <2>5. QED
    BY <2>2, <2>3, <2>4
<1>5. CASE UpstreamRead
  BY <1>5 DEF UpstreamRead
<1>6. CASE TimerFires
  <2>1. PICK p \in held :
          /\ held' = held \ {p}
          /\ send(p) \/ (Done /\ UNCHANGED arrived)
          /\ UNCHANGED <<inbox, pkt, slowed>>
    BY <1>6 DEF TimerFires
  <2>2. arrived' \in Seq(Packet)
    <3>1. arrived' = arrived \/ (p # NoPacket /\ arrived' = Append(arrived, p))
      BY <2>1, SendEffect
    <3>2. arrived \in Seq(Packet) /\ p \in Packet \union {NoPacket}
      OBVIOUS
    <3>3. QED
      BY ONLY <3>1, <3>2, QueueOps
  <2>3. QED
    BY <2>1, <2>2
<1>7. CASE blackholeLoop \/ UpdateProfile
  BY <1>7 DEF blackholeLoop, UpdateProfile
<1>8. CASE (CloseBegins /\ UNCHANGED RestOfProxy) \/ CloseGoesOn
  BY ZenonT(60), <1>8, QueueOps DEF CloseBegins, CloseGoesOn, CloseSocket, CloseClients, CloseWaits, RestOfProxy
<1>9. QED
  BY SMTT(60), Z3T(60), <1>1, <1>2, <1>3, <1>4, <1>5, <1>6, <1>7, <1>8
     DEF ProxyNext, ReadLoop, ReplyLoop, Forwards

(* The Sessions' steps.                                                    *)
LEMMA SendType ==
  ASSUME TypeOK, NEW c \in Channels, Send(c)
  PROVE  TypeOK'
<1>1. PICK len \in Lengths :
        /\ calls' = Append(calls, len)
        /\ \/ /\ todo' = [todo EXCEPT ![c] = <<Part(Len(calls) + 1, 0, 0, 1, 0, len)>>]
              /\ UNCHANGED msgIDs
           \/ /\ todo' = [todo EXCEPT ![c] = Split(Len(calls) + 1, msgIDs', len)]
              /\ msgIDs' = (msgIDs + 1) % MsgIDSpace
  BY DEF Send
<1>2. len \in Nat /\ Len(calls) + 1 \in Nat /\ msgIDs \in Nat /\ (msgIDs + 1) % MsgIDSpace \in Nat
  BY DatagramAssumption DEF TypeOK
<1>3. calls' \in Seq(Nat)
  BY <1>1, <1>2, QueueOps DEF TypeOK
<1>4. <<Part(Len(calls) + 1, 0, 0, 1, 0, len)>> \in Seq(PartSet)
  BY <1>2 DEF Part, PartSet
<1>5. msgIDs' \in Nat
  BY <1>1, <1>2
<1>6. Split(Len(calls) + 1, msgIDs', len) \in Seq(PartSet)
  BY <1>2, <1>5, SplitType
<1>7. todo' \in [Channels -> Seq(PartSet)]
  BY ZenonT(60), <1>1, <1>4, <1>6 DEF TypeOK
<1>8. QED
  BY SMTT(60), Z3T(60), <1>3, <1>5, <1>7 DEF TypeOK, Send

\* Sealing a part keeps the types.
LEMMA EncryptType ==
  ASSUME TypeOK, NEW c \in Channels, Encrypt(c)
  PROVE  TypeOK'
<1>1. todo[c] \in Seq(PartSet) /\ todo[c] # << >>
  BY DEF TypeOK, Encrypt
<1>2. Head(todo[c]) \in PartSet /\ Tail(todo[c]) \in Seq(PartSet)
  BY SMTT(60), Z3T(60), <1>1, QueueOps
<1>3. [seq |-> sendSeq, name |-> c, part |-> Head(todo[c])] \in Packet
  <2>1. sendSeq \in Nat
    BY ZenonT(60) DEF TypeOK
  <2>2. c \in Channels
    BY ZenonT(60)
  <2>3. QED
    BY ONLY SMTT(60), Z3T(60), <1>2, <2>1, <2>2 DEF Packet
<1>4. /\ todo' \in [Channels -> Seq(PartSet)]
      /\ sealed' \in [Channels -> Packet \union {NoPacket}]
      /\ sendSeq' \in Nat
  BY SMTT(60), Z3T(60), <1>2, <1>3 DEF TypeOK, Encrypt
<1>5. QED
  BY SMTT(60), Z3T(60), <1>4 DEF TypeOK, Encrypt, proxyVars

\* Sending a sealed part keeps the types.
LEMMA SendDatagramType ==
  ASSUME TypeOK, NEW c \in Channels, SendDatagram(c)
  PROVE  TypeOK'
<1>1. sealed[c] \in Packet
  BY DEF TypeOK, SendDatagram
<1>2. sealed[c].seq \in Nat
  BY <1>1 DEF Packet
<1>3. inbox' = inbox \/ inbox' = Append(inbox, sealed[c])
  BY ZenonT(60) DEF SendDatagram
<1>4. inbox' \in Seq(Packet)
  <2>1. inbox \in Seq(Packet)
    BY SMTT(60), Z3T(60) DEF TypeOK
  <2>2. QED
    BY ONLY <1>1, <1>3, <2>1, QueueOps
<1>5. lastSent' \in Nat
  BY SMTT(60), Z3T(60), <1>2 DEF TypeOK, SendDatagram
<1>6. overtaken' \in BOOLEAN
  BY ZenonT(60) DEF TypeOK, SendDatagram
<1>7. todo' \in [Channels -> Seq(PartSet)] /\ sealed' \in [Channels -> Packet \union {NoPacket}]
  <2>1. << >> \in Seq(PartSet)
    BY QueueOps
  <2>2. QED
    BY ZenonT(60), <2>1 DEF TypeOK, SendDatagram
<1>8. QED
  BY SMTT(60), Z3T(60), <1>4, <1>5, <1>6, <1>7 DEF TypeOK, SendDatagram

\* deliverIncomingDatagram keeps the types.
LEMMA DeliverType ==
  ASSUME TypeOK, deliverIncomingDatagram
  PROVE  TypeOK'
<1> DEFINE p == Head(arrived)
<1>1. p \in Packet /\ Tail(arrived) \in Seq(Packet)
  BY QueueOps DEF TypeOK, deliverIncomingDatagram
<1>2. p.seq \in Nat /\ p.name \in Channels
  BY <1>1 DEF Packet
<1>3. Append(rx[p.name], p) \in Seq(Packet)
  <2>1. rx[p.name] \in Seq(Packet)
    BY ZenonT(60), <1>2 DEF TypeOK
  <2>2. QED
    BY ONLY SMTT(60), Z3T(60), <1>1, <2>1, QueueOps
<1>4. \/ rx' = rx
      \/ rx' = [rx EXCEPT ![p.name] = Append(rx[p.name], p)]
  BY ZenonT(60) DEF deliverIncomingDatagram
<1>5. rx' \in [Channels -> Seq(Packet)]
  <2> HIDE DEF p
  <2>1. QED
    BY ZenonT(60), <1>2, <1>3, <1>4 DEF TypeOK
<1>6. recvSeq' \in Nat /\ refused' \subseteq Nat
  <2>1. /\ recvSeq' = recvSeq \/ recvSeq' = p.seq + 1
        /\ refused' = refused \/ refused' = refused \union {p.seq}
    BY DEF deliverIncomingDatagram, Expects
  <2>2. recvSeq \in Nat /\ refused \subseteq Nat
    BY DEF TypeOK
  <2>3. p.seq \in Nat /\ p.seq + 1 \in Nat
    BY SMTT(60), Z3T(60), <1>2
  <2>4. QED
    BY ONLY ZenonT(60), <2>1, <2>2, <2>3
<1>7. arrived' \in Seq(Packet)
  BY SMTT(60), Z3T(60), <1>1 DEF deliverIncomingDatagram
<1>8. QED
  BY ZenonT(60), <1>5, <1>6, <1>7 DEF TypeOK, deliverIncomingDatagram

\* Recv keeps the types.
LEMMA RecvType ==
  ASSUME TypeOK, NEW c \in Channels, Recv(c)
  PROVE  TypeOK'
<1>1. rx[c] \in Seq(Packet) /\ rx[c] # << >> /\ got[c] \in Seq(Packet)
  BY DEF TypeOK, Recv
<1>2. Append(got[c], Head(rx[c])) \in Seq(Packet) /\ Tail(rx[c]) \in Seq(Packet)
  BY <1>1, MoveHead
<1>3. got' \in [Channels -> Seq(Packet)] /\ rx' \in [Channels -> Seq(Packet)]
  BY SMTT(60), Z3T(60), <1>2 DEF TypeOK, Recv
<1>4. QED
  BY SMTT(60), Z3T(60), <1>3 DEF TypeOK, Recv, proxyVars

---------------------------------------------------------------------------
(* Only a delivery changes what is taken or expected, and it adds the next *)
(* number at the end.                                                      *)
LEMMA DeliverBehind ==
  ASSUME TypeOK, TakenBehind, deliverIncomingDatagram
  PROVE  TakenBehind'
<1> DEFINE p == Head(arrived)
<1>1. p \in Packet
  BY QueueOps DEF TypeOK, deliverIncomingDatagram
<1>2. p.seq \in Nat /\ p.name \in Channels /\ recvSeq \in Nat
  BY SMTT(60), Z3T(60), <1>1 DEF Packet, TypeOK
<1>3. got' = got
  BY DEF deliverIncomingDatagram
<1>4. ASSUME NEW c \in Channels
      PROVE  /\ Taken(c) \in Seq(Packet)
             /\ \A i \in 1 .. Len(Taken(c)) : Taken(c)[i].seq \in Nat
  <2>1. got[c] \in Seq(Packet) /\ rx[c] \in Seq(Packet)
    BY DEF TypeOK
  <2>2. Taken(c) \in Seq(Packet)
    BY <2>1 DEF Taken
  <2>3. \A i \in 1 .. Len(Taken(c)) : Taken(c)[i] \in Packet
    BY <2>2
  <2>4. QED
    BY <2>2, <2>3 DEF Packet
<1>5. CASE ~Accepts(p.seq) /\ UNCHANGED <<recvSeq, rx>>
  BY ZenonT(60), <1>3, <1>5 DEF TakenBehind, Taken
<1>6. CASE Accepts(p.seq) /\ recvSeq' = Expects(p.seq) /\ UNCHANGED rx
  <2>1. recvSeq < recvSeq' /\ recvSeq' \in Nat
    BY <1>2, <1>6 DEF Accepts, Expects
  <2>2. ASSUME NEW c \in Channels PROVE Taken(c)' = Taken(c)
    BY <1>3, <1>6 DEF Taken
  <2>3. ASSUME NEW c \in Channels, NEW i \in 1 .. Len(Taken(c)) PROVE Taken(c)[i].seq < recvSeq'
    <3>1. Taken(c)[i].seq < recvSeq /\ Taken(c)[i].seq \in Nat
      BY <1>4, <2>3 DEF TakenBehind
    <3>2. QED
      BY <1>2, <2>1, <3>1
  <2>4. QED
    BY <2>2, <2>3 DEF TakenBehind, Increasing
<1>7. CASE /\ Accepts(p.seq) /\ recvSeq' = Expects(p.seq)
           /\ rx' = [rx EXCEPT ![p.name] = Append(rx[p.name], p)]
  <2> SUFFICES ASSUME NEW c \in Channels
               PROVE  /\ Increasing(Taken(c)')
                      /\ \A i \in 1 .. Len(Taken(c)') : Taken(c)'[i].seq < recvSeq'
    BY DEF TakenBehind, Increasing
  <2>1. recvSeq <= p.seq /\ recvSeq' = p.seq + 1
    BY <1>2, <1>7 DEF Accepts, Expects
  <2>2. \A i \in 1 .. Len(Taken(c)) : Taken(c)[i].seq < recvSeq /\ Taken(c)[i].seq \in Nat
    BY <1>4 DEF TakenBehind
  <2>3. Increasing(Taken(c))
    BY DEF TakenBehind
  <2>4. CASE c # p.name
    <3>1. Taken(c)' = Taken(c)
      BY SMTT(60), Z3T(60), <1>3, <1>7, <2>4 DEF Taken, TypeOK
    <3>2. QED
      BY SMTT(60), Z3T(60), <1>2, <2>1, <2>2, <2>3, <3>1
  <2>5. CASE c = p.name
    <3>1. Taken(c)' = Append(Taken(c), p)
      <4>1. got[c] \in Seq(Packet) /\ rx[c] \in Seq(Packet) /\ rx'[c] = Append(rx[c], p)
        BY SMTT(60), Z3T(60), <1>7, <2>5 DEF TypeOK
      <4>2. got[c] \o Append(rx[c], p) = Append(got[c] \o rx[c], p)
        <5> HIDE DEF p
        <5>1. QED
          BY <1>1, <4>1, ConcatAppend, Zenon
      <4>3. QED
        BY ZenonT(60), <1>3, <4>1, <4>2 DEF Taken
    <3>2. \A i \in 1 .. Len(Taken(c)) : Taken(c)[i].seq < p.seq
      BY <1>2, <2>1, <2>2
    <3>3. /\ Increasing(Append(Taken(c), p)) /\ Len(Append(Taken(c), p)) = Len(Taken(c)) + 1
          /\ \A i \in 1 .. Len(Taken(c)) : Append(Taken(c), p)[i] = Taken(c)[i]
          /\ Append(Taken(c), p)[Len(Taken(c)) + 1] = p
      BY <1>1, <1>4, <2>3, <3>2, AppendIncreasing
    <3>4. ASSUME NEW i \in 1 .. Len(Taken(c)) + 1 PROVE Append(Taken(c), p)[i].seq < p.seq + 1
      <4>1. CASE i = Len(Taken(c)) + 1
        BY <1>2, <3>3, <4>1
      <4>2. CASE i \in 1 .. Len(Taken(c))
        BY <1>2, <2>2, <3>2, <3>3, <4>2
      <4>3. Len(Taken(c)) \in Nat
        BY <1>4
      <4>4. QED
        BY <4>1, <4>2, <4>3
    <3>5. QED
      BY <2>1, <3>1, <3>3, <3>4
  <2>6. QED
    BY SMTT(60), Z3T(60), <2>4, <2>5
<1>8. QED
  BY ZenonT(60), <1>5, <1>6, <1>7 DEF deliverIncomingDatagram

\* Recv moves a part within what is taken.
LEMMA RecvBehind ==
  ASSUME TypeOK, TakenBehind, NEW c \in Channels, Recv(c)
  PROVE  TakenBehind'
<1>1. ASSUME NEW d \in Channels PROVE Taken(d)' = Taken(d)
  <2>1. CASE d # c
    BY ZenonT(60), <2>1 DEF Taken, Recv, TypeOK
  <2>2. CASE d = c
    <3>1. rx[c] \in Seq(Packet) /\ rx[c] # << >> /\ got[c] \in Seq(Packet)
      BY DEF TypeOK, Recv
    <3>2. got'[c] = Append(got[c], Head(rx[c])) /\ rx'[c] = Tail(rx[c])
      BY DEF Recv, TypeOK
    <3>3. Append(got[c], Head(rx[c])) \o Tail(rx[c]) = got[c] \o rx[c]
      BY ZenonT(60), <3>1, MoveHead
    <3>4. QED
      BY ZenonT(60), <2>2, <3>2, <3>3 DEF Taken
  <2>3. QED
    BY <2>1, <2>2
<1>2. recvSeq' = recvSeq
  BY DEF Recv
<1>3. QED
  BY <1>1, <1>2 DEF TakenBehind, Increasing

---------------------------------------------------------------------------
(* The packets on the link are ordered as long as nothing holds one back   *)
(* or overtakes one.  The steps that touch none of them:                   *)
LEMMA LinkSame ==
  ASSUME LinkInOrder,
         UNCHANGED <<inbox, pkt, held, slowed, arrived, lastSent, overtaken, recvSeq, refused>>
  PROVE  LinkInOrder'
BY DEF LinkInOrder, Increasing

(* A packet goes from the socket into readLoop's hands.                    *)
LEMMA ReadKeepsOrder ==
  ASSUME TypeOK, LinkInOrder, ReadFromUDP, UNCHANGED dgVars
  PROVE  LinkInOrder'
<1>1. CASE UNCHANGED <<pkt, inbox>>
  BY ZenonT(60), <1>1, LinkSame DEF ReadFromUDP, dgVars
<1>2. CASE inbox # << >> /\ pkt' = [pkt EXCEPT !["client"] = Head(inbox)] /\ inbox' = Tail(inbox)
  <2>1. pkt'["reply"] = pkt["reply"] /\ pkt'["client"] = Head(inbox)
    BY <1>2 DEF TypeOK
  <2>2. UNCHANGED <<held, slowed, arrived, lastSent, overtaken, recvSeq, refused>>
    BY ZenonT(60) DEF ReadFromUDP, dgVars
  <2>3. SUFFICES ASSUME ~slowed, ~overtaken PROVE LinkInOrder'
    BY <2>1, <2>2 DEF LinkInOrder
  <2>4. inbox \in Seq(Packet) /\ Increasing(inbox)
    BY ZenonT(60), <2>3 DEF TypeOK, LinkInOrder
  <2>5. /\ Head(inbox) = inbox[1] /\ Len(inbox) >= 1
        /\ Increasing(Tail(inbox)) /\ Len(Tail(inbox)) = Len(inbox) - 1
        /\ \A i \in 1 .. Len(Tail(inbox)) :
             Tail(inbox)[i] = inbox[i + 1] /\ Head(inbox).seq < Tail(inbox)[i].seq
    BY <1>2, <2>4, TailIncreasing
  <2>6. 1 \in 1 .. Len(inbox) /\ \A i \in 1 .. Len(Tail(inbox)) : i + 1 \in 1 .. Len(inbox)
    BY SMTT(60), Z3T(60), <2>4, <2>5
  <2>7. \A i \in 1 .. Len(inbox) : recvSeq <= inbox[i].seq /\ inbox[i].seq < lastSent
    BY SMTT(60), Z3T(60), <2>3 DEF LinkInOrder
  <2>8. \A i \in 1 .. Len(arrived), j \in 1 .. Len(inbox) : arrived[i].seq < inbox[j].seq
    BY <2>3 DEF LinkInOrder
  <2>9. /\ \A i \in 1 .. Len(inbox') : recvSeq <= inbox'[i].seq /\ inbox'[i].seq < lastSent
        /\ \A i \in 1 .. Len(arrived), j \in 1 .. Len(inbox') : arrived[i].seq < inbox'[j].seq
        /\ Increasing(inbox')
    BY SMTT(60), Z3T(60), <1>2, <2>5, <2>6, <2>7, <2>8
  <2>10. /\ recvSeq <= pkt'["client"].seq /\ pkt'["client"].seq < lastSent
         /\ \A i \in 1 .. Len(arrived) : arrived[i].seq < pkt'["client"].seq
         /\ \A i \in 1 .. Len(inbox') : pkt'["client"].seq < inbox'[i].seq
    BY ZenonT(60), <1>2, <2>1, <2>5, <2>6, <2>7, <2>8
  <2>11. pkt["reply"] = NoPacket /\ held = {} /\ refused = {} /\ recvSeq <= lastSent
         /\ Increasing(arrived)
         /\ \A i \in 1 .. Len(arrived) : recvSeq <= arrived[i].seq /\ arrived[i].seq < lastSent
    BY ZenonT(60), <2>3 DEF LinkInOrder
  <2>12. QED
    BY ZenonT(60), <2>1, <2>2, <2>9, <2>10, <2>11 DEF LinkInOrder, Increasing
<1>3. QED
  BY <1>1, <1>2 DEF ReadFromUDP

(* A packet in readLoop's hands is lost.                                   *)
LEMMA LossKeepsOrder ==
  ASSUME TypeOK, LinkInOrder, NEW g \in {"client", "reply"},
         pkt' = pkt \/ pkt' = [pkt EXCEPT ![g] = NoPacket],
         UNCHANGED <<inbox, held, slowed, arrived, lastSent, overtaken, recvSeq, refused>>
  PROVE  LinkInOrder'
<1>1. /\ pkt'["reply"] = NoPacket
      /\ pkt'["client"] = pkt["client"] \/ pkt'["client"] = NoPacket
  BY DEF TypeOK, LinkInOrder
<1>2. QED
  BY ZenonT(60), <1>1 DEF LinkInOrder, Increasing

(* A packet is written at once, or is the first that has to wait.          *)
LEMMA WriteKeepsOrder ==
  ASSUME TypeOK, LinkInOrder, NEW g \in {"client", "reply"}, SendOrHold(g), UNCHANGED dgVars
  PROVE  LinkInOrder'
<1>1. /\ UNCHANGED <<inbox, lastSent, overtaken, recvSeq, refused>>
      /\ pkt' = [pkt EXCEPT ![g] = NoPacket]
  BY ZenonT(60) DEF SendOrHold, dgVars
<1>2. /\ pkt'["reply"] = NoPacket
      /\ pkt'["client"] = pkt["client"] \/ pkt'["client"] = NoPacket
      /\ g = "client" => pkt'["client"] = NoPacket
  BY ZenonT(60), <1>1 DEF TypeOK, LinkInOrder
<1>3. CASE slowed' = TRUE
  BY <1>2, <1>3 DEF LinkInOrder
<1>4. CASE UNCHANGED <<held, slowed>> /\ arrived' = arrived
  BY ZenonT(60), <1>1, <1>4, LossKeepsOrder
<1>5. CASE UNCHANGED <<held, slowed>> /\ pkt[g] # NoPacket /\ arrived' = Append(arrived, pkt[g])
  <2>1. g = "client"
    BY ZenonT(60), <1>5 DEF LinkInOrder
  <2>2. SUFFICES ASSUME ~slowed, ~overtaken PROVE LinkInOrder'
    BY <1>1, <1>2, <1>5 DEF LinkInOrder
  <2> DEFINE p == pkt["client"]
  <2>3. arrived \in Seq(Packet) /\ p \in Packet /\ Len(arrived) \in Nat
    BY SMTT(60), Z3T(60), <1>5, <2>1 DEF TypeOK
  <2>4. /\ recvSeq <= p.seq /\ p.seq < lastSent
        /\ \A i \in 1 .. Len(arrived) : arrived[i].seq < p.seq
        /\ \A i \in 1 .. Len(inbox) : p.seq < inbox[i].seq
        /\ Increasing(arrived)
    BY ZenonT(60), <1>5, <2>1, <2>2 DEF LinkInOrder
  <2>5. /\ Increasing(Append(arrived, p)) /\ Len(Append(arrived, p)) = Len(arrived) + 1
        /\ \A i \in 1 .. Len(arrived) : Append(arrived, p)[i] = arrived[i]
        /\ Append(arrived, p)[Len(arrived) + 1] = p
    BY ZenonT(60), <2>3, <2>4, AppendIncreasing
  <2>6. /\ pkt["reply"] = NoPacket /\ held = {} /\ refused = {} /\ recvSeq <= lastSent
        /\ Increasing(inbox)
        /\ \A i \in 1 .. Len(inbox) : recvSeq <= inbox[i].seq /\ inbox[i].seq < lastSent
        /\ \A i \in 1 .. Len(arrived) : recvSeq <= arrived[i].seq /\ arrived[i].seq < lastSent
        /\ \A i \in 1 .. Len(arrived), j \in 1 .. Len(inbox) : arrived[i].seq < inbox[j].seq
    BY SMTT(60), Z3T(60), <2>2 DEF LinkInOrder
  <2>7. ASSUME NEW i \in 1 .. Len(arrived')
        PROVE  /\ recvSeq <= arrived'[i].seq /\ arrived'[i].seq < lastSent
               /\ \A j \in 1 .. Len(inbox) : arrived'[i].seq < inbox[j].seq
    <3>1. i \in 1 .. Len(arrived) \/ i = Len(arrived) + 1
      BY SMTT(60), Z3T(60), <1>5, <2>1, <2>3, <2>5
    <3>2. CASE i \in 1 .. Len(arrived)
      BY SMTT(60), Z3T(60), <1>5, <2>1, <2>5, <2>6, <3>2
    <3>3. CASE i = Len(arrived) + 1
      BY SMTT(60), Z3T(60), <1>5, <2>1, <2>4, <2>5, <3>3
    <3>4. QED
      BY ZenonT(60), <3>1, <3>2, <3>3
  <2>8. Increasing(arrived') /\ pkt'["client"] = NoPacket
    BY <1>2, <1>5, <2>1, <2>5
  <2>9. QED
    BY ZenonT(60), <1>1, <1>2, <1>5, <2>6, <2>7, <2>8 DEF LinkInOrder, Increasing
<1>6. QED
  BY ZenonT(60), <1>3, <1>4, <1>5, SendEffect DEF SendOrHold

\* Every step of the proxy keeps the link in order.
LEMMA ProxyKeepsOrder ==
  ASSUME TypeOK, LinkInOrder, ProxyNext, UNCHANGED dgVars
  PROVE  LinkInOrder'
<1>1. CASE ReadFromUDP
  BY <1>1, ReadKeepsOrder
<1>2. CASE getOrCreateUpstream
  <2>1. pkt' = pkt \/ pkt' = [pkt EXCEPT !["client"] = NoPacket]
    BY SMTT(60), Z3T(60), <1>2 DEF getOrCreateUpstream
  <2>2. UNCHANGED <<inbox, held, slowed, arrived, lastSent, overtaken, recvSeq, refused>>
    BY <1>2 DEF getOrCreateUpstream, dgVars
  <2>3. QED
    BY <2>1, <2>2, LossKeepsOrder
<1>3. ASSUME NEW g \in {"client", "reply"}, ApplyFaults(g) PROVE LinkInOrder'
  <2>1. pkt' = pkt \/ pkt' = [pkt EXCEPT ![g] = NoPacket]
    BY <1>3 DEF ApplyFaults
  <2>2. UNCHANGED <<inbox, held, slowed, arrived, lastSent, overtaken, recvSeq, refused>>
    BY <1>3 DEF ApplyFaults, dgVars
  <2>3. QED
    BY <2>1, <2>2, LossKeepsOrder
<1>4. ASSUME NEW g \in {"client", "reply"}, SendOrHold(g) PROVE LinkInOrder'
  BY <1>4, WriteKeepsOrder
<1>5. CASE UpstreamRead
  BY ZenonT(60), <1>5, LinkSame DEF UpstreamRead, dgVars
<1>6. CASE TimerFires
  <2>1. held # {} /\ UNCHANGED <<pkt, slowed>>
    BY <1>6 DEF TimerFires
  <2>2. QED
    BY <2>1 DEF LinkInOrder
<1>7. CASE blackholeLoop \/ UpdateProfile
  BY <1>7, LinkSame DEF blackholeLoop, UpdateProfile, dgVars
<1>8. CASE (CloseBegins /\ UNCHANGED RestOfProxy) \/ CloseGoesOn
  <2>1. /\ UNCHANGED <<pkt, held, slowed, arrived, lastSent, overtaken, recvSeq, refused>>
        /\ inbox' = inbox \/ inbox' = << >>
    BY <1>8 DEF CloseBegins, CloseGoesOn, CloseSocket, CloseClients, CloseWaits, RestOfProxy, dgVars
  <2>2. CASE inbox' = inbox
    BY ZenonT(60), <2>1, <2>2, LinkSame
  <2>3. CASE inbox' = << >>
    <3>1. \A i \in 1 .. Len(inbox') : FALSE
      BY <2>3
    <3>2. QED
      BY SMTT(60), Z3T(60), <2>1, <3>1 DEF LinkInOrder, Increasing
  <2>4. QED
    BY SMTT(60), Z3T(60), <2>1, <2>2, <2>3
<1>9. QED
  BY <1>1, <1>2, <1>3, <1>4, <1>5, <1>6, <1>7, <1>8
     DEF ProxyNext, ReadLoop, ReplyLoop, Forwards

(* What is on the link has a number.                                       *)
LEMMA PacketNumbers ==
  ASSUME TypeOK
  PROVE  /\ \A i \in 1 .. Len(arrived) : arrived[i].seq \in Nat
         /\ \A i \in 1 .. Len(inbox) : inbox[i].seq \in Nat
         /\ pkt["client"] # NoPacket => pkt["client"].seq \in Nat
<1>1. arrived \in Seq(Packet) /\ inbox \in Seq(Packet)
  BY DEF TypeOK
<1>2. pkt \in [{"client", "reply"} -> Packet \union {NoPacket}]
  BY DEF TypeOK
<1>3. \A i \in 1 .. Len(arrived) : arrived[i] \in Packet
  BY ONLY <1>1
<1>4. \A i \in 1 .. Len(inbox) : inbox[i] \in Packet
  BY ONLY <1>1
<1>5. pkt["client"] \in Packet \union {NoPacket}
  BY ONLY <1>2
<1>6. \A x \in Packet : x.seq \in Nat
  BY ONLY TRUE DEF Packet
<1>7. QED
  BY <1>3, <1>4, <1>5, <1>6

(* A part is sent behind all that were sent before, or overtakes one.      *)
LEMMA SendDatagramKeepsOrder ==
  ASSUME TypeOK, LinkInOrder, NEW c \in Channels, SendDatagram(c)
  PROVE  LinkInOrder'
<1> DEFINE p == sealed[c]
<1>1. p \in Packet /\ p.seq \in Nat /\ lastSent \in Nat /\ recvSeq \in Nat
  BY DEF TypeOK, SendDatagram, Packet
<1>2. UNCHANGED <<pkt, held, slowed, arrived, recvSeq, refused>>
  BY ZenonT(60) DEF SendDatagram
<1>3. CASE UNCHANGED <<inbox, lastSent, overtaken>>
  BY <1>2, <1>3, LinkSame
<1>4. CASE /\ inbox' = inbox \/ inbox' = Append(inbox, p)
           /\ overtaken' = (overtaken \/ p.seq < lastSent)
           /\ lastSent' = IF p.seq < lastSent THEN lastSent ELSE p.seq + 1
  <2>1. SUFFICES ASSUME ~slowed, ~overtaken' PROVE LinkInOrder'
    BY ZenonT(60), <1>2 DEF LinkInOrder
  <2>2. ~overtaken /\ ~(p.seq < lastSent)
    BY ZenonT(60), <1>4, <2>1
  <2>3. lastSent <= p.seq /\ lastSent' = p.seq + 1
    BY <1>1, <1>4, <2>2
  <2>4. /\ pkt["reply"] = NoPacket /\ held = {} /\ refused = {} /\ recvSeq <= lastSent
        /\ Increasing(arrived) /\ Increasing(inbox)
        /\ \A i \in 1 .. Len(arrived) : recvSeq <= arrived[i].seq /\ arrived[i].seq < lastSent
        /\ \A i \in 1 .. Len(inbox) : recvSeq <= inbox[i].seq /\ inbox[i].seq < lastSent
        /\ \A i \in 1 .. Len(arrived), j \in 1 .. Len(inbox) : arrived[i].seq < inbox[j].seq
        /\ pkt["client"] # NoPacket =>
             /\ recvSeq <= pkt["client"].seq /\ pkt["client"].seq < lastSent
             /\ \A i \in 1 .. Len(arrived) : arrived[i].seq < pkt["client"].seq
             /\ \A i \in 1 .. Len(inbox) : pkt["client"].seq < inbox[i].seq
    BY ZenonT(60), <2>1, <2>2 DEF LinkInOrder
  <2>5. /\ \A i \in 1 .. Len(arrived) : arrived[i].seq \in Nat
        /\ \A i \in 1 .. Len(inbox) : inbox[i].seq \in Nat
        /\ pkt["client"] # NoPacket => pkt["client"].seq \in Nat
    BY PacketNumbers
  <2>6. /\ \A i \in 1 .. Len(arrived) : arrived[i].seq < p.seq /\ arrived[i].seq < lastSent'
        /\ \A i \in 1 .. Len(inbox) : inbox[i].seq < p.seq /\ inbox[i].seq < lastSent'
        /\ pkt["client"] # NoPacket => pkt["client"].seq < p.seq /\ pkt["client"].seq < lastSent'
        /\ recvSeq <= p.seq /\ p.seq < lastSent' /\ recvSeq <= lastSent'
    <3> HIDE DEF p
    <3>1. p.seq \in Nat /\ lastSent \in Nat /\ recvSeq \in Nat
      BY <1>1
    <3>2. \A n \in Nat : n < lastSent => n < p.seq /\ n < lastSent'
      BY ONLY <2>3, <3>1
    <3>3. recvSeq <= lastSent
      BY ONLY ZenonT(60), <2>4
    <3>4. recvSeq <= p.seq /\ p.seq < lastSent' /\ recvSeq <= lastSent'
      BY ONLY SMTT(60), Z3T(60), <2>3, <3>1, <3>3
    <3>5. QED
      BY ONLY ZenonT(60), <2>4, <2>5, <3>2, <3>4
  <2>7. CASE inbox' = inbox
    BY ONLY ZenonT(60), <1>2, <2>4, <2>6, <2>7 DEF LinkInOrder, Increasing
  <2>8. CASE inbox' = Append(inbox, p)
    <3>1. inbox \in Seq(Packet) /\ Len(inbox) \in Nat
      BY DEF TypeOK
    <3>2. /\ Increasing(inbox') /\ Len(inbox') = Len(inbox) + 1
          /\ \A i \in 1 .. Len(inbox) : inbox'[i] = inbox[i]
          /\ inbox'[Len(inbox) + 1] = p
      BY ZenonT(60), <1>1, <2>4, <2>6, <2>8, <3>1, AppendIncreasing
    <3> HIDE DEF p
    <3>3. ASSUME NEW j \in 1 .. Len(inbox')
          PROVE  /\ recvSeq <= inbox'[j].seq /\ inbox'[j].seq < lastSent'
                 /\ \A i \in 1 .. Len(arrived) : arrived[i].seq < inbox'[j].seq
                 /\ pkt["client"] # NoPacket => pkt["client"].seq < inbox'[j].seq
      <4>1. j \in 1 .. Len(inbox) \/ j = Len(inbox) + 1
        BY <3>1, <3>2
      <4>2. CASE j \in 1 .. Len(inbox)
        BY ONLY ZenonT(60), <2>4, <2>6, <3>2, <4>2
      <4>3. CASE j = Len(inbox) + 1
        BY <2>6, <3>2, <4>3
      <4>4. QED
        BY <4>1, <4>2, <4>3
    <3>4. QED
      BY ZenonT(60), <1>2, <2>4, <2>6, <3>2, <3>3 DEF LinkInOrder, Increasing
  <2>9. QED
    BY ONLY ZenonT(60), <1>4, <2>7, <2>8
<1>5. QED
  BY ZenonT(60), <1>3, <1>4 DEF SendDatagram

(* The first packet on the link is one the channel takes, and it leaves    *)
(* the others ahead of the receiver.                                       *)
LEMMA DeliverKeepsOrder ==
  ASSUME TypeOK, LinkInOrder, deliverIncomingDatagram
  PROVE  LinkInOrder'
<1> DEFINE p == Head(arrived)
<1>1. UNCHANGED <<inbox, pkt, held, slowed, lastSent, overtaken>> /\ arrived # << >> /\ arrived' = Tail(arrived)
  BY ZenonT(60) DEF deliverIncomingDatagram
<1>2. SUFFICES ASSUME ~slowed, ~overtaken PROVE LinkInOrder'
  BY ZenonT(60), <1>1 DEF LinkInOrder
<1>3. /\ pkt["reply"] = NoPacket /\ held = {} /\ refused = {} /\ recvSeq <= lastSent
      /\ Increasing(arrived) /\ Increasing(inbox)
      /\ \A i \in 1 .. Len(arrived) : recvSeq <= arrived[i].seq /\ arrived[i].seq < lastSent
      /\ \A i \in 1 .. Len(inbox) : recvSeq <= inbox[i].seq /\ inbox[i].seq < lastSent
      /\ \A i \in 1 .. Len(arrived), j \in 1 .. Len(inbox) : arrived[i].seq < inbox[j].seq
      /\ pkt["client"] # NoPacket =>
           /\ recvSeq <= pkt["client"].seq /\ pkt["client"].seq < lastSent
           /\ \A i \in 1 .. Len(arrived) : arrived[i].seq < pkt["client"].seq
           /\ \A i \in 1 .. Len(inbox) : pkt["client"].seq < inbox[i].seq
  BY <1>2 DEF LinkInOrder
<1>4. arrived \in Seq(Packet) /\ recvSeq \in Nat /\ lastSent \in Nat
  BY ZenonT(60) DEF TypeOK
<1>5. /\ p \in Packet /\ p = arrived[1] /\ Len(arrived) >= 1
      /\ Increasing(Tail(arrived)) /\ Len(Tail(arrived)) = Len(arrived) - 1
      /\ \A i \in 1 .. Len(Tail(arrived)) :
           Tail(arrived)[i] = arrived[i + 1] /\ p.seq < Tail(arrived)[i].seq
  BY <1>1, <1>3, <1>4, TailIncreasing
<1>6. 1 \in 1 .. Len(arrived) /\ \A i \in 1 .. Len(Tail(arrived)) : i + 1 \in 1 .. Len(arrived)
  BY ONLY SMTT(60), Z3T(60), <1>4, <1>5
<1>7. p.seq \in Nat /\ recvSeq <= p.seq /\ p.seq < lastSent
  BY ZenonT(60), <1>3, <1>5, <1>6 DEF Packet
<1>8. recvSeq' = p.seq + 1 /\ refused' = refused
  BY <1>4, <1>7 DEF deliverIncomingDatagram, Accepts, Expects
<1>9. /\ \A i \in 1 .. Len(arrived) : arrived[i].seq \in Nat
      /\ \A i \in 1 .. Len(inbox) : inbox[i].seq \in Nat
      /\ pkt["client"] # NoPacket => pkt["client"].seq \in Nat
  BY ZenonT(60), PacketNumbers
<1> HIDE DEF p
<1>10. \A i \in 1 .. Len(inbox) : p.seq < inbox[i].seq
  BY ZenonT(60), <1>3, <1>5, <1>6
<1>11. pkt["client"] # NoPacket => p.seq < pkt["client"].seq
  BY ZenonT(60), <1>3, <1>5, <1>6
<1>12. ASSUME NEW i \in 1 .. Len(arrived')
       PROVE  /\ recvSeq' <= arrived'[i].seq /\ arrived'[i].seq < lastSent
              /\ \A j \in 1 .. Len(inbox) : arrived'[i].seq < inbox[j].seq
              /\ pkt["client"] # NoPacket => arrived'[i].seq < pkt["client"].seq
  <2>1. i + 1 \in 1 .. Len(arrived) /\ arrived'[i] = arrived[i + 1] /\ p.seq < arrived[i + 1].seq
    BY ZenonT(60), <1>1, <1>5, <1>6
  <2>2. recvSeq' <= arrived[i + 1].seq
    BY ONLY SMTT(60), Z3T(60), <1>7, <1>8, <1>9, <2>1
  <2>3. QED
    BY ZenonT(60), <1>3, <2>1, <2>2
<1>13. /\ \A i \in 1 .. Len(inbox) : recvSeq' <= inbox[i].seq
       /\ pkt["client"] # NoPacket => recvSeq' <= pkt["client"].seq
       /\ recvSeq' <= lastSent
  BY ONLY SMTT(60), Z3T(60), <1>4, <1>7, <1>8, <1>9, <1>10, <1>11
<1>14. Increasing(arrived')
  BY ZenonT(60), <1>1, <1>5
<1>15. QED
  BY ZenonT(60), <1>1, <1>3, <1>8, <1>12, <1>13, <1>14 DEF LinkInOrder, Increasing

---------------------------------------------------------------------------
(* DatagramInv is inductive.                                               *)
LEMMA NextInv == DatagramInv /\ [Next]_vars => DatagramInv'
<1> SUFFICES ASSUME DatagramInv, [Next]_vars PROVE DatagramInv'
  OBVIOUS
<1> USE DEF DatagramInv
<1>1. CASE ProxyNext /\ UNCHANGED dgVars
  <2>1. TakenBehind'
    BY ZenonT(60), <1>1 DEF dgVars, TakenBehind, Taken, Increasing
  <2>2. QED
    BY <1>1, <2>1, ProxyType, ProxyKeepsOrder
<1>2. ASSUME NEW c \in Channels, Send(c) PROVE DatagramInv'
  <2>1. TakenBehind'
    BY ZenonT(60), <1>2 DEF Send, TakenBehind, Taken, Increasing
  <2>2. LinkInOrder'
    BY SMTT(60), Z3T(60), <1>2, LinkSame DEF Send
  <2>3. QED
    BY <1>2, <2>1, <2>2, SendType
<1>3. ASSUME NEW c \in Channels, Encrypt(c) PROVE DatagramInv'
  <2>1. TakenBehind'
    BY ZenonT(60), <1>3 DEF Encrypt, TakenBehind, Taken, Increasing
  <2>2. LinkInOrder'
    BY <1>3, LinkSame DEF Encrypt, proxyVars
  <2>3. QED
    BY <1>3, <2>1, <2>2, EncryptType
<1>4. ASSUME NEW c \in Channels, SendDatagram(c) PROVE DatagramInv'
  <2>1. TakenBehind'
    BY ZenonT(60), <1>4 DEF SendDatagram, TakenBehind, Taken, Increasing
  <2>2. QED
    BY <1>4, <2>1, SendDatagramType, SendDatagramKeepsOrder
<1>5. CASE deliverIncomingDatagram
  BY <1>5, DeliverType, DeliverBehind, DeliverKeepsOrder
<1>6. ASSUME NEW c \in Channels, Recv(c) PROVE DatagramInv'
  <2>1. LinkInOrder'
    BY <1>6, LinkSame DEF Recv, proxyVars
  <2>2. QED
    BY SMTT(60), Z3T(60), <1>6, <2>1, RecvType, RecvBehind
<1>7. ASSUME NEW side \in {"sender", "receiver"}, CloseSession(side) PROVE DatagramInv'
  <2>1. TypeOK'
    BY <1>7 DEF CloseSession, TypeOK
  <2>2. TakenBehind'
    BY ZenonT(60), <1>7 DEF CloseSession, TakenBehind, Taken, Increasing
  <2>3. LinkInOrder'
    BY <1>7, LinkSame DEF CloseSession
  <2>4. QED
    BY ZenonT(60), <2>1, <2>2, <2>3
<1>8. CASE UNCHANGED vars
  <2>1. TypeOK'
    BY <1>8 DEF vars, proxyVars, dgVars, TypeOK
  <2>2. TakenBehind'
    BY ZenonT(60), <1>8 DEF vars, proxyVars, dgVars, TakenBehind, Taken, Increasing
  <2>3. LinkInOrder'
    BY <1>8, LinkSame DEF vars, proxyVars, dgVars
  <2>4. QED
    BY ZenonT(60), <2>1, <2>2, <2>3
<1>9. QED
  BY <1>1, <1>2, <1>3, <1>4, <1>5, <1>6, <1>7, <1>8 DEF Next

(* Parts are taken in order, and the packets on a link that holds nothing  *)
(* back are in order, in every reachable state.                            *)
THEOREM DatagramInvariant == Spec => []DatagramInv
BY InitInv, NextInv, PTL DEF Spec

(* What Recv returns on a name is in the order in which Send sealed it,    *)
(* and nothing comes twice, whatever the proxy does, for any number of     *)
(* names, messages, payload lengths, queue sizes and profiles.             *)
THEOREM PartsAlwaysInOrder == Spec => []PartsInOrder
<1>1. DatagramInv => PartsInOrder
  <2> SUFFICES ASSUME DatagramInv, NEW c \in Channels,
                      NEW i \in DOMAIN Taken(c), NEW j \in DOMAIN Taken(c), i < j
               PROVE  Taken(c)[i].seq < Taken(c)[j].seq
    BY DEF PartsInOrder
  <2>1. got[c] \in Seq(Packet) /\ rx[c] \in Seq(Packet)
    BY DEF DatagramInv, TypeOK
  <2>2. DOMAIN Taken(c) = 1 .. Len(Taken(c))
    BY ONLY SMTT(60), Z3T(60), <2>1 DEF Taken
  <2>3. QED
    BY <2>2 DEF DatagramInv, TakenBehind, Increasing
<1>2. QED
  BY <1>1, DatagramInvariant, PTL

(* The shared datagram channel refuses a part only after the link held a   *)
(* packet back or a Send overtook another, under the same generality.      *)
THEOREM RefusalAlwaysHasCause == Spec => []RefusalHasCause
<1>1. DatagramInv => RefusalHasCause
  BY DEF DatagramInv, LinkInOrder, RefusalHasCause
<1>2. QED
  BY <1>1, DatagramInvariant, PTL

---------------------------------------------------------------------------
(* What a queue holds, after a step that adds to it or takes from it.      *)
LEMMA ElementsOps ==
  ASSUME NEW S
  PROVE  /\ \A q \in Seq(S), p \in S : Elements(Append(q, p)) = Elements(q) \union {p}
         /\ \A q \in Seq(S) : q # << >> =>
              Head(q) \in Elements(q) /\ Elements(Tail(q)) \subseteq Elements(q)
         /\ Elements(<< >>) = {}
<1>1. ASSUME NEW q \in Seq(S), NEW p \in S
      PROVE  Elements(Append(q, p)) = Elements(q) \union {p}
  <2>1. /\ Len(Append(q, p)) = Len(q) + 1 /\ Len(q) \in Nat
        /\ \A i \in 1 .. Len(q) : Append(q, p)[i] = q[i]
        /\ Append(q, p)[Len(q) + 1] = p
    OBVIOUS
  <2>2. 1 .. Len(q) + 1 = (1 .. Len(q)) \union {Len(q) + 1}
    BY <2>1
  <2>3. QED
    BY ZenonT(60), <2>1, <2>2 DEF Elements
<1>2. ASSUME NEW q \in Seq(S), q # << >>
      PROVE  Head(q) \in Elements(q) /\ Elements(Tail(q)) \subseteq Elements(q)
  <2>1. /\ Head(q) = q[1] /\ 1 \in 1 .. Len(q)
        /\ \A i \in 1 .. Len(Tail(q)) : Tail(q)[i] = q[i + 1] /\ i + 1 \in 1 .. Len(q)
    BY <1>2
  <2>2. QED
    BY ZenonT(60), <2>1 DEF Elements
<1>3. Elements(<< >>) = {}
  BY DEF Elements
<1>4. QED
  BY <1>1, <1>2, <1>3

(* A step that makes no part and no message keeps PartsTraced.             *)
LEMMA NoNewParts ==
  ASSUME PartsTraced, Parts' \subseteq Parts, UNCHANGED <<calls, msgIDs>>
  PROVE  PartsTraced'
<1>1. \A p : MadeBySend(p) => MadeBySend(p)'
  BY ZenonT(60) DEF MadeBySend
<1>2. QED
  BY ZenonT(60), <1>1 DEF PartsTraced

(* The packets there are, after a step that adds some of X.                *)
LEMMA PacketsGrow ==
  \A X : /\ OnLink' \subseteq OnLink \union X
         /\ \A d \in Channels : PacketsOf(d)' \subseteq PacketsOf(d) \union X
         => Packets' \subseteq Packets \union (X \ {NoPacket})
<1> TAKE X
<1>1. \A k : k \in Packets <=> k # NoPacket /\ (k \in OnLink \/ \E d \in Channels : k \in PacketsOf(d))
  BY ZenonT(60) DEF Packets
<1>2. \A k : k \in Packets' <=>
             k # NoPacket /\ (k \in OnLink' \/ \E d \in Channels : k \in PacketsOf(d)')
  <2>1. Packets' = (OnLink' \union UNION {PacketsOf(d)' : d \in Channels}) \ {NoPacket}
    BY DEF Packets
  <2>2. QED
    BY ZenonT(60), <2>1
<1>3. QED
  BY ZenonT(60), <1>1, <1>2

(* The proxy moves packets and makes none.                                 *)
LEMMA ProxyMoves ==
  ASSUME TypeOK, ProxyNext, UNCHANGED dgVars
  PROVE  Packets' \subseteq Packets
<1>0. SUFFICES OnLink' \subseteq OnLink \union {NoPacket}
  <2>1. \A d \in Channels : PacketsOf(d)' \subseteq PacketsOf(d) \union {NoPacket}
    BY ZenonT(60) DEF PacketsOf, dgVars
  <2>2. QED
    BY ZenonT(60), <2>1, PacketsGrow
<1> USE DEF OnLink
<1>1. CASE ReadFromUDP
  <2>1. CASE inbox # << >> /\ pkt' = [pkt EXCEPT !["client"] = Head(inbox)] /\ inbox' = Tail(inbox)
    <3>1. inbox \in Seq(Packet)
      BY DEF TypeOK
    <3>2. Head(inbox) \in Elements(inbox) /\ Elements(Tail(inbox)) \subseteq Elements(inbox)
      BY <2>1, <3>1, ElementsOps
    <3>3. pkt'["client"] = Head(inbox) /\ pkt'["reply"] = pkt["reply"]
      BY <2>1 DEF TypeOK
    <3>4. UNCHANGED <<held, arrived>>
      BY <1>1 DEF ReadFromUDP
    <3>5. QED
      BY ZenonT(60), <2>1, <3>2, <3>3, <3>4
  <2>2. CASE UNCHANGED <<pkt, inbox>>
    BY <1>1, <2>2 DEF ReadFromUDP
  <2>3. QED
    BY <1>1, <2>1, <2>2 DEF ReadFromUDP
<1>2. ASSUME NEW g \in {"client", "reply"},
             pkt' = pkt \/ pkt' = [pkt EXCEPT ![g] = NoPacket],
             UNCHANGED <<inbox, held, arrived>>
      PROVE  OnLink' \subseteq OnLink \union {NoPacket}
  <2>1. /\ pkt'["client"] \in {pkt["client"], NoPacket}
        /\ pkt'["reply"] \in {pkt["reply"], NoPacket}
    BY ZenonT(60), <1>2 DEF TypeOK
  <2>2. QED
    BY ZenonT(60), <1>2, <2>1
<1>3. CASE getOrCreateUpstream
  BY ZenonT(60), <1>2, <1>3 DEF getOrCreateUpstream
<1>4. ASSUME NEW g \in {"client", "reply"}, ApplyFaults(g)
      PROVE  OnLink' \subseteq OnLink \union {NoPacket}
  BY <1>2, <1>4 DEF ApplyFaults
<1>5. ASSUME NEW p \in OnLink, send(p) \/ UNCHANGED arrived
      PROVE  Elements(arrived') \subseteq OnLink
  <2>1. arrived' = arrived \/ (p # NoPacket /\ arrived' = Append(arrived, p))
    BY <1>5, SendEffect
  <2>2. arrived \in Seq(Packet \union {p})
    BY DEF TypeOK
  <2>3. Elements(Append(arrived, p)) = Elements(arrived) \union {p}
    BY <2>2, ElementsOps
  <2>4. QED
    BY ZenonT(60), <2>1, <2>3
<1>6. ASSUME NEW g \in {"client", "reply"}, SendOrHold(g)
      PROVE  OnLink' \subseteq OnLink \union {NoPacket}
  <2>1. pkt[g] \in OnLink
    BY ZenonT(60)
  <2>2. send(pkt[g]) \/ UNCHANGED arrived
    BY <1>6 DEF SendOrHold
  <2>3. Elements(arrived') \subseteq OnLink
    BY ZenonT(60), <1>5, <2>1, <2>2
  <2>4. /\ pkt'["client"] \in {pkt["client"], NoPacket}
        /\ pkt'["reply"] \in {pkt["reply"], NoPacket}
        /\ held' \subseteq held \union {pkt[g]}
        /\ inbox' = inbox
    BY <1>6 DEF TypeOK, SendOrHold
  <2>5. QED
    BY ZenonT(60), <2>1, <2>3, <2>4
<1>7. CASE TimerFires
  <2>1. PICK p \in held :
          /\ held' = held \ {p}
          /\ send(p) \/ (Done /\ UNCHANGED arrived)
          /\ UNCHANGED <<inbox, pkt, slowed>>
    BY <1>7 DEF TimerFires
  <2>2. Elements(arrived') \subseteq OnLink
    BY ZenonT(60), <1>5, <2>1
  <2>3. QED
    BY ZenonT(60), <2>1, <2>2
<1>8. CASE UpstreamRead \/ blackholeLoop \/ UpdateProfile
  BY <1>8 DEF UpstreamRead, blackholeLoop, UpdateProfile
<1>9. CASE (CloseBegins /\ UNCHANGED RestOfProxy) \/ CloseGoesOn
  <2>1. /\ UNCHANGED <<pkt, held, arrived>>
        /\ inbox' = inbox \/ inbox' = << >>
    BY <1>9 DEF CloseBegins, CloseGoesOn, CloseSocket, CloseClients, CloseWaits, RestOfProxy
  <2>2. Elements(<< >>) = {}
    BY ElementsOps
  <2>3. QED
    BY ZenonT(60), <2>1, <2>2
<1>10. QED
  BY ZenonT(60), <1>1, <1>3, <1>4, <1>6, <1>7, <1>8, <1>9
     DEF ProxyNext, ReadLoop, ReplyLoop, Forwards

(* Sealing, sending, delivering and receiving move parts and make none.    *)
LEMMA EncryptMoves ==
  ASSUME TypeOK, NEW c \in Channels, Encrypt(c)
  PROVE  Parts' \subseteq Parts
<1> DEFINE new == [seq |-> sendSeq, name |-> c, part |-> Head(todo[c])]
<1>1. new.part = Head(todo[c])
  BY ZenonT(60)
<1> HIDE DEF new
<1>2. todo[c] \in Seq(PartSet) /\ todo[c] # << >>
  BY DEF TypeOK, Encrypt
<1>3. Head(todo[c]) \in Elements(todo[c]) /\ Elements(Tail(todo[c])) \subseteq Elements(todo[c])
  BY <1>2, ElementsOps
<1>4. \A d \in Channels : Elements(todo'[d]) \subseteq Elements(todo[d])
  <2>1. \A d \in Channels : todo'[d] = IF d = c THEN Tail(todo[c]) ELSE todo[d]
    BY DEF TypeOK, Encrypt
  <2>2. QED
    BY ZenonT(60), <1>3, <2>1
<1>5. Packets' \subseteq Packets \union {new}
  <2>1. \A d \in Channels : sealed'[d] = IF d = c THEN new ELSE sealed[d]
    BY SMTT(60), Z3T(60) DEF TypeOK, Encrypt, new
  <2>2. UNCHANGED <<inbox, arrived, held, pkt, rx, got>>
    BY ZenonT(60) DEF Encrypt, proxyVars
  <2>3. \A d \in Channels : PacketsOf(d)' \subseteq PacketsOf(d) \union {new}
    BY ZenonT(60), <2>1, <2>2 DEF PacketsOf
  <2>4. OnLink' = OnLink
    BY ZenonT(60), <2>2 DEF OnLink
  <2>5. QED
    BY ZenonT(60), <2>3, <2>4, PacketsGrow
<1>6. QED
  BY ZenonT(60), <1>1, <1>3, <1>4, <1>5 DEF Parts

\* Sending makes no part.
LEMMA SendDatagramMoves ==
  ASSUME TypeOK, NEW c \in Channels, SendDatagram(c)
  PROVE  Parts' \subseteq Parts
<1>1. \A d \in Channels : Elements(todo'[d]) \subseteq Elements(todo[d])
  <2>1. \A d \in Channels : todo'[d] = todo[d] \/ todo'[d] = << >>
    BY DEF TypeOK, SendDatagram
  <2>2. Elements(<< >>) = {}
    BY SMTT(60), Z3T(60), ElementsOps
  <2>3. QED
    BY ZenonT(60), <2>1, <2>2
<1>2. UNCHANGED <<arrived, held, pkt, rx, got>>
  BY ZenonT(60) DEF SendDatagram
<1>3. Elements(inbox') \subseteq Elements(inbox) \union {sealed[c]}
  <2>1. inbox' = inbox \/ inbox' = Append(inbox, sealed[c])
    BY ZenonT(60) DEF SendDatagram
  <2>2. inbox \in Seq(Packet) /\ sealed[c] \in Packet
    BY DEF TypeOK, SendDatagram
  <2>3. Elements(Append(inbox, sealed[c])) = Elements(inbox) \union {sealed[c]}
    BY <2>2, ElementsOps
  <2>4. QED
    BY ZenonT(60), <2>1, <2>3
<1>4. \A d \in Channels : PacketsOf(d)' \subseteq PacketsOf(d) \union {NoPacket}
  <2>1. \A d \in Channels : sealed'[d] = sealed[d] \/ sealed'[d] = NoPacket
    BY DEF TypeOK, SendDatagram
  <2>2. QED
    BY ZenonT(60), <1>2, <2>1 DEF PacketsOf
<1>5. Packets' \subseteq Packets
  <2>1. sealed[c] \in Packets
    <3>1. sealed[c] \in PacketsOf(c) /\ sealed[c] # NoPacket
      BY ZenonT(60) DEF PacketsOf, SendDatagram
    <3>2. QED
      BY ZenonT(60), <3>1 DEF Packets
  <2>2. OnLink' \subseteq OnLink \union {sealed[c], NoPacket}
    BY ZenonT(60), <1>2, <1>3 DEF OnLink
  <2>3. QED
    BY ZenonT(60), <1>4, <2>1, <2>2, PacketsGrow
<1>6. QED
  BY ZenonT(60), <1>1, <1>5 DEF Parts

\* Delivering makes no part.
LEMMA DeliverMoves ==
  ASSUME TypeOK, deliverIncomingDatagram
  PROVE  Parts' \subseteq Parts
<1> DEFINE p == Head(arrived)
<1>1. arrived \in Seq(Packet) /\ arrived # << >> /\ arrived' = Tail(arrived)
  BY ZenonT(60) DEF TypeOK, deliverIncomingDatagram
<1>2. p \in Elements(arrived) /\ Elements(arrived') \subseteq Elements(arrived) /\ p \in Packet
  BY ZenonT(60), <1>1, ElementsOps, QueueOps
<1>3. UNCHANGED <<inbox, held, pkt, sealed, got, todo>>
  BY ZenonT(60) DEF deliverIncomingDatagram
<1>4. \A d \in Channels : rx'[d] = rx[d] \/ rx'[d] = Append(rx[d], p)
  BY ZenonT(60) DEF TypeOK, deliverIncomingDatagram
<1> HIDE DEF p
<1>5. \A d \in Channels : Elements(rx'[d]) \subseteq Elements(rx[d]) \union {p}
  <2>1. \A d \in Channels : rx[d] \in Seq(Packet)
    BY ZenonT(60) DEF TypeOK
  <2>2. \A d \in Channels : Elements(Append(rx[d], p)) = Elements(rx[d]) \union {p}
    BY <1>2, <2>1, ElementsOps
  <2>3. QED
    BY ZenonT(60), <1>4, <2>2
<1>6. \A d \in Channels : PacketsOf(d)' \subseteq PacketsOf(d) \union {p}
  BY ZenonT(60), <1>3, <1>5 DEF PacketsOf
<1>7. Packets' \subseteq Packets
  <2>1. OnLink' \subseteq OnLink \union {p}
    BY ZenonT(60), <1>2, <1>3 DEF OnLink
  <2>2. p \in OnLink
    BY ZenonT(60), <1>2 DEF OnLink
  <2>3. p # NoPacket => p \in Packets
    BY ZenonT(60), <2>2 DEF Packets
  <2>4. QED
    BY ZenonT(60), <1>6, <2>1, <2>3, PacketsGrow
<1>8. QED
  BY ZenonT(60), <1>3, <1>7 DEF Parts

\* Receiving makes no part.
LEMMA RecvMoves ==
  ASSUME TypeOK, NEW c \in Channels, Recv(c)
  PROVE  Parts' \subseteq Parts
<1>1. rx[c] \in Seq(Packet) /\ rx[c] # << >> /\ got[c] \in Seq(Packet)
  BY DEF TypeOK, Recv
<1>2. /\ Head(rx[c]) \in Elements(rx[c]) /\ Elements(Tail(rx[c])) \subseteq Elements(rx[c])
      /\ Elements(Append(got[c], Head(rx[c]))) = Elements(got[c]) \union {Head(rx[c])}
  <2>1. Head(rx[c]) \in Packet
    BY ONLY ZenonT(60), <1>1, QueueOps
  <2>2. Head(rx[c]) \in Elements(rx[c]) /\ Elements(Tail(rx[c])) \subseteq Elements(rx[c])
    BY ONLY ZenonT(60), <1>1, ElementsOps
  <2>3. Elements(Append(got[c], Head(rx[c]))) = Elements(got[c]) \union {Head(rx[c])}
    BY ONLY SMTT(60), Z3T(60), <1>1, <2>1, ElementsOps
  <2>4. QED
    BY ONLY ZenonT(60), <2>2, <2>3
<1>3. UNCHANGED <<inbox, arrived, held, pkt, sealed, todo>>
  BY DEF Recv, proxyVars
<1>4. \A d \in Channels : /\ rx'[d] = IF d = c THEN Tail(rx[c]) ELSE rx[d]
                          /\ got'[d] = IF d = c THEN Append(got[c], Head(rx[c])) ELSE got[d]
  BY DEF TypeOK, Recv
<1>5. \A d \in Channels : PacketsOf(d)' \subseteq PacketsOf(d)
  BY ZenonT(60), <1>2, <1>3, <1>4 DEF PacketsOf
<1>6. Packets' \subseteq Packets
  <2>1. OnLink' = OnLink
    BY ZenonT(60), <1>3 DEF OnLink
  <2>2. QED
    BY ZenonT(60), <1>5, <2>1, PacketsGrow
<1>7. QED
  BY ZenonT(60), <1>3, <1>6 DEF Parts

---------------------------------------------------------------------------
(* The payload of one part of several.                                     *)
ChunkBudget == maxAppChunk(MaxDatagram, 1 + FragHeaderSize, cidAllowance)

(* What Send's loop puts into the part it makes in its i-th round.         *)
LEMMA SplitFields ==
  ASSUME NEW call, NEW id, NEW len, NEW i \in 1 .. PartCount(len)
  PROVE  /\ Split(call, id, len)[i].call = call /\ Split(call, id, len)[i].id = id
         /\ Split(call, id, len)[i].index = i - 1
         /\ Split(call, id, len)[i].total = PartCount(len)
         /\ Split(call, id, len)[i].start = (i - 1) * ChunkBudget
         /\ Split(call, id, len)[i].end =
              IF ((i - 1) + 1) * ChunkBudget > len THEN len ELSE ((i - 1) + 1) * ChunkBudget
<1> DEFINE end(k) == IF (k + 1) * ChunkBudget > len THEN len ELSE (k + 1) * ChunkBudget
<1>1. Split(call, id, len) =
        [k \in 1 .. PartCount(len) |->
           Part(call, id, k - 1, PartCount(len), (k - 1) * ChunkBudget, end(k - 1))]
  BY DEF Split, ChunkBudget
<1> HIDE DEF end
<1>2. Split(call, id, len)[i] =
        Part(call, id, i - 1, PartCount(len), (i - 1) * ChunkBudget, end(i - 1))
  BY <1>1
<1>3. QED
  BY SMTT(60), Z3T(60), <1>2 DEF Part, end

\* Where the i-th part of a payload of len bytes starts and ends.
Bounds(q, i, len) ==
  /\ q.start = (i - 1) * ChunkBudget
  /\ q.end = IF ((i - 1) + 1) * ChunkBudget > len THEN len ELSE ((i - 1) + 1) * ChunkBudget

\* The parts Split cuts have the bounds of their index.
LEMMA SplitBounds ==
  ASSUME NEW call, NEW id, NEW len, NEW i \in 1 .. PartCount(len)
  PROVE  Bounds(Split(call, id, len)[i], i, len)
<1> DEFINE q == Split(call, id, len)[i]
<1>1. /\ q.start = (i - 1) * ChunkBudget
      /\ q.end = IF ((i - 1) + 1) * ChunkBudget > len THEN len ELSE ((i - 1) + 1) * ChunkBudget
  BY SMTT(60), Z3T(60), SplitFields
<1> HIDE DEF q
<1>2. Bounds(q, i, len)
  BY ONLY ZenonT(60), <1>1 DEF Bounds
<1>3. QED
  BY ONLY ZenonT(60), <1>2 DEF q

\* What the i-th part of a payload of len bytes says of itself.
Labels(q, call, id, i, len) ==
  /\ q.call = call /\ q.id = id
  /\ q.index = i - 1 /\ q.total = PartCount(len)

\* The i-th part Send's loop makes is labelled with its call, id and place.
LEMMA SplitLabels ==
  ASSUME NEW call, NEW id, NEW len, NEW i \in 1 .. PartCount(len)
  PROVE  Labels(Split(call, id, len)[i], call, id, i, len)
<1> DEFINE q == Split(call, id, len)[i]
<1>1. q.call = call /\ q.id = id /\ q.index = i - 1 /\ q.total = PartCount(len)
  BY SMTT(60), Z3T(60), SplitFields
<1> HIDE DEF q
<1>2. Labels(q, call, id, i, len)
  BY ONLY ZenonT(60), <1>1 DEF Labels
<1>3. QED
  BY ONLY ZenonT(60), <1>2 DEF q

(* Division rounds down.                                                   *)
LEMMA DivBounds ==
  \A a \in Int, d \in Nat : d > 0 =>
    a \div d \in Int /\ (a \div d) * d <= a /\ a < (a \div d + 1) * d
<1> SUFFICES ASSUME NEW a \in Int, NEW d \in Nat, d > 0
             PROVE  a \div d \in Int /\ (a \div d) * d <= a /\ a < (a \div d + 1) * d
  OBVIOUS
<1>1. QED
  BY SMTT(60)

(* Products with the same positive factor compare as what they multiply.   *)
LEMMA MulLess ==
  \A a, b \in Int, d \in Nat : d > 0 /\ a * d < b * d => a < b
<1> SUFFICES ASSUME NEW a \in Int, NEW b \in Int, NEW d \in Nat, d > 0, a >= b
             PROVE  a * d >= b * d
  BY SMTT(60)
<1>1. (a - b) * d >= 0
  BY SMTT(60)
<1>2. QED
  BY SMTT(60), <1>1

(* Send splits a message into at least two parts, and their chunks reach   *)
(* the end of the payload.                                                 *)
LEMMA PartsReachEnd ==
  ASSUME MaxDatagram > 43, NEW len \in Nat, ~IsWhole(len)
  PROVE  /\ PartCount(len) \in Nat /\ PartCount(len) > 1
         /\ ChunkBudget = MaxDatagram - 43 /\ ChunkBudget \in Nat /\ ChunkBudget > 0
         /\ len <= PartCount(len) * ChunkBudget
<1>1. ChunkBudget = MaxDatagram - 43 /\ ChunkBudget \in Nat /\ ChunkBudget > 0
  BY DatagramAssumption DEF ChunkBudget, maxAppChunk, FragHeaderSize, cidAllowance, aeadOverhead
<1>2. len > MaxDatagram - 35
  BY DatagramAssumption DEF IsWhole, maxAppChunk, cidAllowance, aeadOverhead
<1> DEFINE total == (len + ChunkBudget - 1) \div ChunkBudget
<1>3. len + ChunkBudget - 1 >= 2 * ChunkBudget
  BY SMTT(60), Z3T(60), <1>1, <1>2, DatagramAssumption
<1>4. /\ total \in Int /\ total * ChunkBudget <= len + ChunkBudget - 1
      /\ len + ChunkBudget - 1 < (total + 1) * ChunkBudget
  BY ONLY <1>1, len \in Nat, DivBounds
<1>5. total >= 2
  <2> HIDE DEF total
  <2>1. 2 * ChunkBudget < (total + 1) * ChunkBudget
    BY <1>1, <1>3, <1>4
  <2>2. QED
    BY <1>1, <1>4, <2>1, MulLess
<1>6. PartCount(len) = total
  <2>1. PartCount(len) = IF total < 2 THEN 2 ELSE total
    BY DEF PartCount, ChunkBudget
  <2> HIDE DEF total
  <2>2. QED
    BY ONLY SMTT(60), Z3T(60), <1>4, <1>5, <2>1
<1>7. len <= total * ChunkBudget
  <2> HIDE DEF total
  <2>1. (total + 1) * ChunkBudget = total * ChunkBudget + ChunkBudget
    BY <1>1, <1>4
  <2>2. total * ChunkBudget \in Int
    BY <1>1, <1>4
  <2>3. QED
    BY <1>1, <1>4, <2>1, <2>2
<1>8. QED
  BY <1>1, <1>4, <1>5, <1>6, <1>7

(* There are n numbers from 1 to n.                                        *)
LEMMA CountTo == \A n \in Nat : IsFiniteSet(1 .. n) /\ Cardinality(1 .. n) = n
<1> TAKE n \in Nat
<1>1. IsFiniteSet(1 .. n) /\ Cardinality(1 .. n) = IF 1 > n THEN 0 ELSE n - 1 + 1
  <2>1. 1 \in Int /\ n \in Int
    OBVIOUS
  <2>2. QED
    BY ONLY ZenonT(60), <2>1, FS_Interval
<1>2. (IF 1 > n THEN 0 ELSE n - 1 + 1) = n
  OBVIOUS
<1>3. QED
  BY ONLY <1>1, <1>2

(* Byte b of the payload is in the chunk of index j - 1.                   *)
InChunk(C, len, b, j) ==
  /\ (j - 1) * C <= b
  /\ b < IF ((j - 1) + 1) * C > len THEN len ELSE ((j - 1) + 1) * C

(* Every byte of the payload is in the chunk of one index and of no other. *)
LEMMA ByteInOneChunk ==
  ASSUME NEW C \in Nat, C > 0, NEW len \in Nat, NEW total \in Nat, len <= total * C,
         NEW b \in 0 .. len - 1
  PROVE  \E k \in 1 .. total : \A j \in 1 .. total : InChunk(C, len, b, j) <=> j = k
<1> DEFINE k == b \div C + 1
<1>1. b \div C \in Int /\ (b \div C) * C <= b /\ b < (b \div C + 1) * C
  BY DivBounds
<1>2. k \in Int /\ (k - 1) * C <= b /\ b < k * C /\ k - 1 >= 0
  <2>1. k \in Int /\ k - 1 = b \div C
    BY <1>1
  <2>2. 0 * C < ((b \div C) + 1) * C
    BY <1>1
  <2>3. 0 < b \div C + 1
    BY <1>1, <2>2, MulLess
  <2>4. QED
    BY <1>1, <2>1, <2>3
<1> HIDE DEF k
<1>3. k \in 1 .. total
  <2>1. (k - 1) * C < total * C
    <3>1. (k - 1) * C \in Int /\ total * C \in Int
      BY <1>2
    <3>2. QED
      BY <1>2, <3>1
  <2>2. k - 1 < total
    BY ONLY SMTT(60), Z3T(60), <1>2, <2>1, MulLess
  <2>3. QED
    BY <1>2, <2>2
<1>4. ASSUME NEW j \in 1 .. total PROVE InChunk(C, len, b, j) <=> j = k
  <2>1. (j - 1) + 1 = j /\ j \in Int /\ j - 1 \in Int
    OBVIOUS
  <2>2. j * C \in Int /\ (j - 1) * C \in Int /\ k * C \in Int /\ (k - 1) * C \in Int
    BY <1>2, <2>1
  <2>3. ASSUME j = k PROVE (j - 1) * C <= b /\ b < IF j * C > len THEN len ELSE j * C
    BY <1>2, <2>2, <2>3
  <2>4. ASSUME (j - 1) * C <= b, b < j * C PROVE j = k
    <3>1. (j - 1) * C < k * C /\ (k - 1) * C < j * C
      BY <1>2, <2>2, <2>4
    <3>2. j - 1 < k /\ k - 1 < j
      BY SMTT(60), Z3T(60), <1>2, <2>1, <3>1, MulLess
    <3>3. QED
      BY ONLY SMTT(60), Z3T(60), <1>2, <2>1, <3>2
  <2>5. b < (IF j * C > len THEN len ELSE j * C) => b < j * C
    BY <2>2
  <2>6. QED
    BY <2>1, <2>3, <2>4, <2>5 DEF InChunk
<1>5. QED
  BY <1>3, <1>4

---------------------------------------------------------------------------
(* A part made by a Send stays one when there are more calls and ids.      *)
LEMMA MadeStaysMade ==
  ASSUME TypeOK, TypeOK', NEW len, calls' = Append(calls, len), msgIDs' >= msgIDs,
         NEW p, MadeBySend(p)
  PROVE  MadeBySend(p)'
<1>1. /\ Len(calls) \in Nat /\ Len(calls') = Len(calls) + 1
      /\ \A i \in 1 .. Len(calls) : calls'[i] = calls[i]
  BY SMTT(60), Z3T(60) DEF TypeOK
<1>2. p.call \in 1 .. Len(calls') /\ calls'[p.call] = calls[p.call]
  BY ONLY SMTT(60), Z3T(60), <1>1, MadeBySend(p) DEF MadeBySend
<1>3. 1 .. msgIDs \subseteq 1 .. msgIDs'
  BY SMTT(60), Z3T(60) DEF TypeOK
<1>4. QED
  BY ZenonT(60), <1>2, <1>3 DEF MadeBySend

(* The parts of a new message are its own: made by this Send, and with an  *)
(* id, if there are several, that no part has yet.                         *)
LEMMA SendTraced ==
  ASSUME MaxDatagram > 43, MaxSends < MsgIDSpace,
         TypeOK, TypeOK', PartsTraced, NEW c \in Channels, Send(c)
  PROVE  PartsTraced'
<1> DEFINE n == Len(calls) + 1
           New == Elements(todo'[c])
<1>1. PICK len \in Lengths :
        /\ calls' = Append(calls, len)
        /\ \/ /\ IsWhole(len)
              /\ todo' = [todo EXCEPT ![c] = <<Part(n, 0, 0, 1, 0, len)>>]
              /\ UNCHANGED msgIDs
           \/ /\ ~IsWhole(len)
              /\ todo' = [todo EXCEPT ![c] = Split(n, msgIDs', len)]
              /\ msgIDs' = (msgIDs + 1) % MsgIDSpace
  BY ZenonT(60) DEF Send
<1>2. /\ len \in Nat /\ Len(calls) \in Nat /\ msgIDs \in Nat /\ n \in Nat
      /\ Len(calls) < MaxSends /\ msgIDs <= Len(calls)
      /\ Len(calls') = n /\ calls'[n] = len
  BY SMTT(60), Z3T(60), <1>1, DatagramAssumption DEF TypeOK, PartsTraced, Send
<1>3. (msgIDs + 1) % MsgIDSpace = msgIDs + 1
  BY <1>2, DatagramAssumption
<1>4. msgIDs' >= msgIDs /\ msgIDs' <= n /\ n <= MaxSends
  BY ONLY SMTT(60), Z3T(60), <1>1, <1>2, <1>3, DatagramAssumption
<1>5. \A p \in Parts : MadeBySend(p)'
  <2>1. \A p \in Parts : MadeBySend(p)
    BY ZenonT(60) DEF PartsTraced
  <2>2. QED
    BY SMTT(60), Z3T(60), <1>1, <1>4, <2>1, MadeStaysMade
<1>6. \A p \in Parts : p.total > 1 => p.id \in 1 .. msgIDs
  <2> SUFFICES ASSUME NEW p \in Parts, p.total > 1 PROVE p.id \in 1 .. msgIDs
    OBVIOUS
  <2>1. MadeBySend(p)
    BY DEF PartsTraced
  <2>2. CASE IsWhole(calls[p.call])
    <3>1. p = Part(p.call, 0, 0, 1, 0, calls[p.call])
      BY ZenonT(60), <2>1, <2>2 DEF MadeBySend
    <3>2. p.total = 1
      BY SMTT(60), Z3T(60), <3>1 DEF Part
    <3>3. QED
      BY SMTT(60), Z3T(60), <3>2
  <2>3. CASE ~IsWhole(calls[p.call])
    BY ZenonT(60), <2>1, <2>3 DEF MadeBySend
  <2>4. QED
    BY <2>2, <2>3
<1>7. \A p \in New : /\ MadeBySend(p)'
                     /\ p.call = n
                     /\ p.total > 1 => p.id = msgIDs + 1
  <2> SUFFICES ASSUME NEW p \in New
               PROVE  MadeBySend(p)' /\ p.call = n /\ (p.total > 1 => p.id = msgIDs + 1)
    OBVIOUS
  <2>1. n \in 1 .. Len(calls')
    BY <1>2
  <2>2. CASE IsWhole(len) /\ todo'[c] = <<Part(n, 0, 0, 1, 0, len)>>
    <3>1. p = Part(n, 0, 0, 1, 0, len)
      BY <2>2 DEF Elements
    <3>2. p.call = n /\ p.total = 1
      BY <3>1 DEF Part
    <3>3. MadeBySend(p)'
      BY ZenonT(60), <1>2, <2>1, <2>2, <3>1, <3>2 DEF MadeBySend
    <3>4. QED
      BY <3>2, <3>3
  <2>3. CASE ~IsWhole(len) /\ todo'[c] = Split(n, msgIDs', len) /\ msgIDs' = msgIDs + 1
    <3>1. Len(Split(n, msgIDs', len)) = PartCount(len)
      <4>1. PartCount(len) \in Nat
        BY ZenonT(60), <1>2, <2>3, PartsReachEnd
      <4>2. QED
        BY <4>1 DEF Split
    <3>2. PICK i \in 1 .. PartCount(len) : p = Split(n, msgIDs', len)[i]
      BY SMTT(60), Z3T(60), <2>3, <3>1 DEF Elements
    <3>3. p.call = n /\ p.id = msgIDs' /\ p.index = i - 1
      <4>1. Labels(p, n, msgIDs', i, len)
        BY ZenonT(60), <3>2, SplitLabels
      <4>2. QED
        BY ONLY ZenonT(60), <4>1 DEF Labels
    <3>4. p.index + 1 = i
      BY ONLY SMTT(60), Z3T(60), <3>3
    <3>5. p.id \in 1 .. msgIDs'
      BY <1>2, <2>3, <3>3
    <3>6. MadeBySend(p)'
      BY ZenonT(60), <1>2, <2>1, <2>3, <3>2, <3>3, <3>4, <3>5 DEF MadeBySend
    <3>7. QED
      BY <2>3, <3>3, <3>6
  <2>4. QED
    BY ZenonT(60), <1>1, <1>3, <2>2, <2>3 DEF TypeOK
<1>8. Parts' \subseteq Parts \union New
  <2>1. UNCHANGED <<inbox, arrived, held, pkt, rx, got, sealed>>
    BY DEF Send
  <2>2. Packets' = Packets
    BY ZenonT(60), <2>1 DEF Packets, OnLink, PacketsOf
  <2>3. \A d \in Channels : d # c => todo'[d] = todo[d]
    BY ZenonT(60), <1>1 DEF TypeOK
  <2>4. QED
    BY ZenonT(60), <2>2, <2>3 DEF Parts
<1>9. \A p, q \in Parts' : p.total > 1 /\ q.total > 1 /\ p.id = q.id => p.call = q.call
  <2> HIDE DEF New, n
  <2>1. msgIDs + 1 \notin 1 .. msgIDs
    BY <1>2
  <2>2. \A p, q \in Parts : p.total > 1 /\ q.total > 1 /\ p.id = q.id => p.call = q.call
    BY DEF PartsTraced
  <2>3. QED
    BY ZenonT(60), <1>6, <1>7, <1>8, <2>1, <2>2
<1>10. QED
  <2> HIDE DEF New
  <2>1. \A p \in Parts' : MadeBySend(p)'
    BY ZenonT(60), <1>5, <1>7, <1>8
  <2>2. QED
    BY <1>2, <1>4, <1>9, <2>1 DEF PartsTraced

(* PartsTraced holds at the start and is kept by every step, as long as    *)
(* nextFragMsgID has not gone round.                                       *)
LEMMA InitTraced == Init => PartsTraced
<1> SUFFICES ASSUME Init PROVE PartsTraced
  OBVIOUS
<1>1. Elements(<< >>) = {}
  BY ElementsOps
<1>2. /\ inbox = << >> /\ arrived = << >> /\ held = {}
      /\ pkt["client"] = NoPacket /\ pkt["reply"] = NoPacket
      /\ \A c \in Channels : sealed[c] = NoPacket /\ rx[c] = << >> /\ got[c] = << >> /\ todo[c] = << >>
  BY DEF Init, ProxyInit
<1>3. OnLink \subseteq {NoPacket} /\ \A c \in Channels : PacketsOf(c) \subseteq {NoPacket}
  BY ZenonT(60), <1>1, <1>2 DEF OnLink, PacketsOf
<1>4. Packets = {}
  BY ZenonT(60), <1>3 DEF Packets
<1>5. Parts = {}
  BY ZenonT(60), <1>1, <1>2, <1>4 DEF Parts
<1>6. msgIDs = 0 /\ Len(calls) = 0
  BY DEF Init
<1>7. QED
  BY <1>5, <1>6, DatagramAssumption DEF PartsTraced

\* Every step keeps PartsTraced while message IDs are not used again.
LEMMA NextTraced ==
  ASSUME MaxDatagram > 43, MaxSends < MsgIDSpace,
         DatagramInv, DatagramInv', PartsTraced, [Next]_vars
  PROVE  PartsTraced'
<1>1. TypeOK /\ TypeOK'
  BY DEF DatagramInv
<1>2. CASE ProxyNext /\ UNCHANGED dgVars
  <2>1. Packets' \subseteq Packets
    BY <1>1, <1>2, ProxyMoves
  <2>2. UNCHANGED <<todo, calls, msgIDs>>
    BY <1>2 DEF dgVars
  <2>3. Parts' \subseteq Parts
    BY ZenonT(60), <2>1, <2>2 DEF Parts
  <2>4. QED
    BY <2>2, <2>3, NoNewParts
<1>3. ASSUME NEW c \in Channels, Send(c) PROVE PartsTraced'
  BY SMTT(60), Z3T(60), <1>1, <1>3, SendTraced
<1>4. ASSUME NEW c \in Channels, Encrypt(c) PROVE PartsTraced'
  BY ZenonT(60), <1>1, <1>4, EncryptMoves, NoNewParts DEF Encrypt
<1>5. ASSUME NEW c \in Channels, SendDatagram(c) PROVE PartsTraced'
  BY ZenonT(60), <1>1, <1>5, SendDatagramMoves, NoNewParts DEF SendDatagram
<1>6. CASE deliverIncomingDatagram
  BY ZenonT(60), <1>1, <1>6, DeliverMoves, NoNewParts DEF deliverIncomingDatagram
<1>7. ASSUME NEW c \in Channels, Recv(c) PROVE PartsTraced'
  BY ZenonT(60), <1>1, <1>7, RecvMoves, NoNewParts DEF Recv
<1>8. ASSUME UNCHANGED <<inbox, arrived, held, pkt, rx, got, sealed, todo, calls, msgIDs>>
      PROVE  PartsTraced'
  <2>1. Parts' = Parts
    <3>1. Packets' = Packets
      BY ZenonT(60), <1>8 DEF Packets, OnLink, PacketsOf
    <3>2. QED
      BY ZenonT(60), <1>8, <3>1 DEF Parts
  <2>2. QED
    BY <1>8, <2>1, NoNewParts
<1>9. ASSUME NEW side \in {"sender", "receiver"}, CloseSession(side) PROVE PartsTraced'
  BY <1>8, <1>9 DEF CloseSession
<1>10. CASE UNCHANGED vars
  BY SMTT(60), Z3T(60), <1>8, <1>10 DEF vars, proxyVars, dgVars
<1>11. QED
  BY ZenonT(60), <1>2, <1>3, <1>4, <1>5, <1>6, <1>7, <1>9, <1>10 DEF Next

\* A part that is a whole payload.
WholePart(p) ==
  /\ IsWhole(calls[p.call])
  /\ p.total = 1 /\ p.start = 0 /\ p.end = calls[p.call]

\* A part that is one of several, as Send's loop made them.
SplitPart(p) ==
  /\ ~IsWhole(calls[p.call])
  /\ p.total > 1 /\ p.total = PartCount(calls[p.call])
  /\ p.index + 1 \in 1 .. PartCount(calls[p.call])
  /\ p = Split(p.call, p.id, calls[p.call])[p.index + 1]

(* A part is whole, or one of several as Send's loop made them.            *)
LEMMA PartShape ==
  ASSUME MaxDatagram > 43, TypeOK, PartsTraced, NEW p \in Parts
  PROVE  calls[p.call] \in Nat /\ (WholePart(p) \/ SplitPart(p))
<1>1. MadeBySend(p)
  BY ZenonT(60) DEF PartsTraced
<1>2. calls[p.call] \in Nat
  <2>1. p.call \in 1 .. Len(calls) /\ calls \in Seq(Nat)
    BY ZenonT(60), <1>1 DEF MadeBySend, TypeOK
  <2>2. QED
    BY ONLY SMTT(60), Z3T(60), <2>1
<1>3. CASE IsWhole(calls[p.call])
  <2>1. p = Part(p.call, 0, 0, 1, 0, calls[p.call])
    BY ZenonT(60), <1>1, <1>3 DEF MadeBySend
  <2>2. p.total = 1 /\ p.start = 0 /\ p.end = calls[p.call]
    BY ONLY SMTT(60), Z3T(60), <2>1 DEF Part
  <2>3. QED
    BY ZenonT(60), <1>2, <1>3, <2>2 DEF WholePart
<1>4. CASE ~IsWhole(calls[p.call])
  <2>1. p.index + 1 \in 1 .. PartCount(calls[p.call])
        /\ p = Split(p.call, p.id, calls[p.call])[p.index + 1]
    BY ZenonT(60), <1>1, <1>4 DEF MadeBySend
  <2>2. p.total = PartCount(calls[p.call])
    <3> DEFINE q == Split(p.call, p.id, calls[p.call])[p.index + 1]
    <3>1. Labels(q, p.call, p.id, p.index + 1, calls[p.call])
      BY ONLY ZenonT(60), <2>1, SplitLabels
    <3>2. p = q
      BY ONLY ZenonT(60), <2>1
    <3> HIDE DEF q
    <3>3. q.total = PartCount(calls[p.call])
      BY ONLY ZenonT(60), <3>1 DEF Labels
    <3>4. QED
      BY ONLY ZenonT(60), <3>2, <3>3
  <2>3. PartCount(calls[p.call]) > 1
    BY ZenonT(60), <1>2, <1>4, PartsReachEnd
  <2>4. p.total > 1
    BY ONLY ZenonT(60), <2>2, <2>3
  <2>5. QED
    BY ZenonT(60), <1>2, <1>4, <2>1, <2>2, <2>4 DEF SplitPart
<1>5. QED
  BY ZenonT(60), <1>3, <1>4

\* The total of a part tells which of the two it is.
LEMMA ShapeByTotal ==
  ASSUME NEW p, WholePart(p) \/ SplitPart(p)
  PROVE  /\ p.total = 1 => WholePart(p)
         /\ p.total > 1 => SplitPart(p)
<1>1. ~(p.total = 1 /\ p.total > 1)
  BY ONLY SMTT(60), Z3T(60)
<1>2. (WholePart(p) => p.total = 1) /\ (SplitPart(p) => p.total > 1)
  BY ONLY ZenonT(60) DEF WholePart, SplitPart
<1>3. QED
  BY ZenonT(60), <1>1, <1>2

(* A part with its header, its AEAD overhead and a channel id fits.        *)
LEMMA PartFits ==
  ASSUME MaxDatagram > 43, TypeOK, PartsTraced, NEW p \in Parts
  PROVE  WireLength(p, cidAllowance) <= MaxDatagram
<1> DEFINE len == calls[p.call]
<1>1. len \in Nat /\ MaxDatagram \in Nat
  BY ZenonT(60), PartShape, DatagramAssumption
<1>2. CASE p.total = 1 /\ p.start = 0 /\ p.end = len /\ IsWhole(len)
  <2>1. len <= MaxDatagram - 35
    BY ONLY SMTT(60), Z3T(60), <1>1, <1>2, MaxDatagram > 43 DEF IsWhole, maxAppChunk, cidAllowance, aeadOverhead
  <2>2. QED
    BY ONLY SMTT(60), Z3T(60), <1>1, <1>2, <2>1 DEF WireLength, cidAllowance, aeadOverhead
<1>3. CASE /\ ~IsWhole(len)
           /\ p.total > 1 /\ p.total = PartCount(len)
           /\ p.index + 1 \in 1 .. PartCount(len)
           /\ p = Split(p.call, p.id, len)[p.index + 1]
  <2> DEFINE i == p.index + 1
  <2>1. /\ PartCount(len) \in Nat /\ PartCount(len) > 1
        /\ ChunkBudget = MaxDatagram - 43 /\ ChunkBudget \in Nat /\ ChunkBudget > 0
    BY SMTT(60), Z3T(60), <1>1, <1>3, PartsReachEnd
  <2>2. /\ p.start = (i - 1) * ChunkBudget
        /\ p.end = IF ((i - 1) + 1) * ChunkBudget > len THEN len ELSE ((i - 1) + 1) * ChunkBudget
    <3>1. Bounds(Split(p.call, p.id, len)[i], i, len)
      BY ONLY ZenonT(60), <1>3, SplitBounds
    <3> HIDE DEF i, len
    <3>2. p = Split(p.call, p.id, len)[i]
      BY ONLY ZenonT(60), <1>3 DEF i
    <3>3. Bounds(p, i, len)
      BY ONLY ZenonT(60), <3>1, <3>2
    <3>4. QED
      BY ONLY ZenonT(60), <3>3 DEF Bounds
  <2>3. i \in Int /\ (i - 1) * ChunkBudget \in Int
        /\ ((i - 1) + 1) * ChunkBudget = (i - 1) * ChunkBudget + ChunkBudget
    <3>1. i \in Int
      BY SMTT(60), Z3T(60), <1>3
    <3> HIDE DEF i
    <3>2. QED
      BY ONLY SMTT(60), Z3T(60), <2>1, <3>1
  <2>4. p.end - p.start <= ChunkBudget /\ p.end - p.start \in Int
    <3> HIDE DEF i, len
    <3>1. QED
      BY ONLY <1>1, <2>1, <2>2, <2>3
  <2>5. WireLength(p, cidAllowance) = 43 + (p.end - p.start)
    <3>1. ~(p.total <= 1)
      BY <1>3, <2>1
    <3>2. WireLength(p, cidAllowance) = 9 + 24 + 10 + (p.end - p.start)
      BY SMTT(60), Z3T(60), <3>1 DEF WireLength, cidAllowance, aeadOverhead, FragHeaderSize
    <3>3. QED
      BY ONLY SMTT(60), Z3T(60), <2>4, <3>2
  <2>6. QED
    BY ONLY SMTT(60), Z3T(60), <1>1, <2>1, <2>4, <2>5
<1>4. QED
  BY ZenonT(60), <1>2, <1>3, PartShape DEF WholePart, SplitPart

(* As many parts with one id as their total says are all the parts of the  *)
(* message, and each byte of its payload is in one of them.                *)
LEMMA PartsComplete ==
  ASSUME MaxDatagram > 43, TypeOK, PartsTraced, NEW p \in Parts, p.total > 1,
         NEW All \in SUBSET Parts,
         \A q \in All : q.id = p.id /\ q.total > 1,
         Cardinality(All) = p.total,
         NEW b \in 0 .. calls[p.call] - 1
  PROVE  Cardinality({q \in All : q.start <= b /\ b < q.end}) = 1
<1> DEFINE len == calls[p.call]
           T == PartCount(len)
           S == Split(p.call, p.id, len)
           R == {S[i] : i \in 1 .. T}
           Has(q) == q.start <= b /\ b < q.end
<1>1. len \in Nat /\ ~IsWhole(len) /\ p.total = T
  <2>1. len \in Nat /\ SplitPart(p)
    BY ZenonT(60), PartShape, ShapeByTotal
  <2>2. QED
    BY ONLY ZenonT(60), <2>1 DEF SplitPart
<1>2. T \in Nat /\ ChunkBudget \in Nat /\ ChunkBudget > 0 /\ len <= T * ChunkBudget
  BY <1>1, PartsReachEnd
<1>3. All \subseteq R
  <2> SUFFICES ASSUME NEW q \in All PROVE q \in R
    OBVIOUS
  <2>1. q.id = p.id /\ q.total > 1 /\ q \in Parts
    BY ZenonT(60)
  <2>2. q.call = p.call
    BY SMTT(60), Z3T(60), <2>1 DEF PartsTraced
  <2>3. q.index + 1 \in 1 .. T /\ q = S[q.index + 1]
    <3>1. SplitPart(q)
      BY ZenonT(60), <2>1, PartShape, ShapeByTotal
    <3>2. QED
      BY ONLY ZenonT(60), <2>1, <2>2, <3>1 DEF SplitPart
  <2>4. QED
    BY ZenonT(60), <2>3
<1>4. IsFiniteSet(R) /\ Cardinality(R) <= T
  <2>1. S \in [1 .. T -> R]
    <3>1. DOMAIN S = 1 .. T /\ S = [i \in 1 .. T |-> S[i]]
      BY ZenonT(60) DEF Split
    <3> HIDE DEF S, T
    <3>2. QED
      BY SMTT(60), Z3T(60), <3>1
  <2>2. S \in Surjection(1 .. T, R)
    <3> HIDE DEF S, T
    <3>1. QED
      BY ZenonT(60), <2>1 DEF Surjection
  <2>3. IsFiniteSet(1 .. T) /\ Cardinality(1 .. T) = T
    <3> HIDE DEF T
    <3>1. QED
      BY ZenonT(60), <1>2, CountTo
  <2>4. QED
    <3> HIDE DEF R, S, T
    <3>1. QED
      BY SMTT(60), Z3T(60), <2>2, <2>3, FS_Surjection
<1>5. All = R
  <2> HIDE DEF R, T
  <2>1. Cardinality(All) = T
    BY ZenonT(60), <1>1
  <2>2. Cardinality(R) \in Nat /\ Cardinality(All) <= Cardinality(R)
    BY ZenonT(60), <1>3, <1>4, FS_Subset, FS_CardinalityType
  <2>3. Cardinality(R) = Cardinality(All)
    BY <1>2, <1>4, <2>1, <2>2
  <2>4. QED
    BY ZenonT(60), <1>3, <1>4, <2>3, FS_Subset
<1>6. PICK k \in 1 .. T : \A j \in 1 .. T : InChunk(ChunkBudget, len, b, j) <=> j = k
  <2> HIDE DEF T, len
  <2>1. b \in 0 .. len - 1
    BY DEF len
  <2>2. QED
    BY ONLY ZenonT(60), <1>1, <1>2, <2>1, ByteInOneChunk
<1>7. \A j \in 1 .. T : Has(S[j]) <=> j = k
  <2> SUFFICES ASSUME NEW j \in 1 .. T PROVE Has(S[j]) <=> j = k
    BY ZenonT(60)
  <2>1. /\ S[j].start = (j - 1) * ChunkBudget
        /\ S[j].end = IF ((j - 1) + 1) * ChunkBudget > len THEN len ELSE ((j - 1) + 1) * ChunkBudget
    <3>1. Bounds(S[j], j, len)
      BY ONLY ZenonT(60), j \in 1 .. T, SplitBounds
    <3> HIDE DEF S, T, len
    <3>2. QED
      BY ONLY ZenonT(60), <3>1 DEF Bounds
  <2> HIDE DEF S, T, len
  <2>2. Has(S[j]) <=> InChunk(ChunkBudget, len, b, j)
    BY ZenonT(60), <2>1 DEF InChunk
  <2>3. QED
    BY ZenonT(60), <1>6, <2>2
<1>8. {q \in All : Has(q)} = {S[k]}
  <2> HIDE DEF S, T, Has
  <2>1. QED
    BY ZenonT(60), <1>5, <1>7
<1>9. QED
  BY ZenonT(60), <1>8, FS_Singleton

(* What two queues hold, one behind the other.                             *)
LEMMA ElementsConcat ==
  \A s, t \in Seq(Packet) : \A i \in DOMAIN (s \o t) :
    (s \o t)[i] \in Elements(s) \union Elements(t)
<1> TAKE s, t \in Seq(Packet)
<1> TAKE i \in DOMAIN (s \o t)
<1>1. i \in 1 .. Len(s) + Len(t) /\ Len(s) \in Nat /\ Len(t) \in Nat
  BY SMTT(60), Z3T(60)
<1>2. CASE i <= Len(s)
  <2>1. i \in 1 .. Len(s) /\ (s \o t)[i] = s[i]
    BY <1>1, <1>2
  <2>2. QED
    BY ZenonT(60), <2>1 DEF Elements
<1>3. CASE i > Len(s)
  <2>1. i - Len(s) \in 1 .. Len(t) /\ (s \o t)[i] = t[i - Len(s)]
    BY <1>1, <1>3
  <2>2. QED
    BY <2>1 DEF Elements
<1>4. QED
  BY ONLY SMTT(60), Z3T(60), <1>1, <1>2, <1>3

(* What Recv returned, and what waits for it, is among the parts there are. *)
LEMMA TakenArePartsToo ==
  ASSUME NoPacket \notin Packet, TypeOK, NEW c \in Channels, NEW i \in DOMAIN Taken(c)
  PROVE  Taken(c)[i].part \in Parts
<1>1. got[c] \in Seq(Packet) /\ rx[c] \in Seq(Packet)
  BY DEF TypeOK
<1>2. Taken(c)[i] \in Elements(got[c]) \union Elements(rx[c])
  BY ZenonT(60), <1>1, ElementsConcat DEF Taken
<1>3. Taken(c)[i] \in PacketsOf(c)
  BY ZenonT(60), <1>2 DEF PacketsOf
<1>4. \A q \in Seq(Packet) : Elements(q) \subseteq Packet
  <2>1. \A q \in Seq(Packet) : \A k \in 1 .. Len(q) : q[k] \in Packet
    BY ONLY SMTT(60), Z3T(60)
  <2> QED BY ZenonT(60), <2>1 DEF Elements
<1>5. Taken(c)[i] # NoPacket
  BY ZenonT(60), <1>1, <1>2, <1>4
<1>6. Taken(c)[i] \in Packets
  BY ZenonT(60), <1>3, <1>5 DEF Packets
<1>7. QED
  BY ZenonT(60), <1>6 DEF Parts

(* PartsTraced is why a receiver can put messages together.                *)
LEMMA TracedRejoin ==
  ASSUME MaxDatagram > 43, NoPacket \notin Packet, TypeOK, PartsTraced
  PROVE  PartsRejoin
<1>1. PartsFit
  <2> SUFFICES ASSUME NEW c \in Channels, sealed[c] # NoPacket
               PROVE  WireLength(sealed[c].part, cidAllowance) <= MaxDatagram
    BY DEF PartsFit
  <2>1. sealed[c] \in PacketsOf(c)
    BY DEF PacketsOf
  <2>2. sealed[c].part \in Parts
    BY ZenonT(60), <2>1 DEF Packets, Parts
  <2>3. QED
    BY <2>2, PartFits
<1>2. ASSUME NEW c \in Channels
      PROVE  LET parts == {Taken(c)[i].part : i \in DOMAIN Taken(c)}
                 of(p) == {q \in parts : q.id = p.id /\ q.total > 1}
             IN  \A p \in parts :
                   /\ p.total = 1 => p.start = 0 /\ p.end = calls[p.call]
                   /\ p.total > 1 =>
                        /\ \A q \in of(p) : q.call = p.call /\ q.total = p.total
                        /\ Cardinality(of(p)) = p.total =>
                             \A b \in 0 .. calls[p.call] - 1 :
                               Cardinality({q \in of(p) : q.start <= b /\ b < q.end}) = 1
  <2> DEFINE parts == {Taken(c)[i].part : i \in DOMAIN Taken(c)}
             of(p) == {q \in parts : q.id = p.id /\ q.total > 1}
  <2> SUFFICES ASSUME NEW p \in parts
               PROVE  /\ p.total = 1 => p.start = 0 /\ p.end = calls[p.call]
                      /\ p.total > 1 =>
                           /\ \A q \in of(p) : q.call = p.call /\ q.total = p.total
                           /\ Cardinality(of(p)) = p.total =>
                                \A b \in 0 .. calls[p.call] - 1 :
                                  Cardinality({q \in of(p) : q.start <= b /\ b < q.end}) = 1
    BY ZenonT(60)
  <2>1. parts \subseteq Parts
    BY ZenonT(60), TakenArePartsToo
  <2>2. p \in Parts /\ of(p) \subseteq Parts /\ \A q \in of(p) : q.id = p.id /\ q.total > 1
    BY ZenonT(60), <2>1
  <2> HIDE DEF parts, of
  <2>3. p.total = 1 => p.start = 0 /\ p.end = calls[p.call]
    BY ZenonT(60), <2>2, PartShape, ShapeByTotal DEF WholePart
  <2>4. ASSUME p.total > 1, NEW q \in of(p) PROVE q.call = p.call /\ q.total = p.total
    <3>1. q.call = p.call
      BY ZenonT(60), <2>2, <2>4 DEF PartsTraced
    <3>2. p.total = PartCount(calls[p.call])
      BY ZenonT(60), <2>2, <2>4, PartShape, ShapeByTotal DEF SplitPart
    <3>3. q.total = PartCount(calls[q.call])
      BY ZenonT(60), <2>2, <2>4, PartShape, ShapeByTotal DEF SplitPart
    <3>4. QED
      BY <3>1, <3>2, <3>3
  <2>5. ASSUME p.total > 1, Cardinality(of(p)) = p.total, NEW b \in 0 .. calls[p.call] - 1
        PROVE  Cardinality({q \in of(p) : q.start <= b /\ b < q.end}) = 1
    BY <2>2, <2>5, PartsComplete
  <2>6. QED
    BY <2>3, <2>4, <2>5
<1>3. QED
  BY ZenonT(60), <1>1, <1>2 DEF PartsRejoin

(* A receiver can put every message together from the parts it has: ids do *)
(* not mix messages, as many parts as the total says cover the payload     *)
(* once, a whole part is the payload, and every part fits its datagram     *)
(* (Datagram.Send, maxAppChunk, encodePartWire).  For all payload lengths  *)
(* and every datagram size that leaves a byte for the payload beside the   *)
(* headers, under any faults of the link, as long as fewer messages are    *)
(* sent than nextFragMsgID has values.                                     *)
THEOREM PartsAlwaysRejoin ==
  ASSUME MaxDatagram > 1 + FragHeaderSize + aeadOverhead + cidAllowance,
         MaxSends < MsgIDSpace, NoPacket \notin Packet
  PROVE  Spec => []PartsRejoin
<1>1. MaxDatagram > 43
  BY DatagramAssumption DEF FragHeaderSize, aeadOverhead, cidAllowance
<1>2. DatagramInv /\ PartsTraced => PartsRejoin
  BY <1>1, TracedRejoin DEF DatagramInv
<1>3. DatagramInv /\ DatagramInv' /\ PartsTraced /\ [Next]_vars => PartsTraced'
  BY <1>1, NextTraced
<1>4. QED
  BY <1>2, <1>3, InitTraced, DatagramInvariant, PTL DEF Spec
=============================================================================
