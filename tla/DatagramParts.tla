---------------------------- MODULE DatagramParts ----------------------------
(* Datagram.Send and Datagram.Recv of two Sessions whose datagrams pass a  *)
(* link with faults: a message becomes parts, each sealed on its own by    *)
(* the datagram channel all names share, and Recv returns them one by one. *)
(* One goroutine sends on each channel name, and sends on different names  *)
(* interleave.                                                             *)
EXTENDS FaultProxy

CONSTANTS Channels,    \* the names in Args.Datagrams
          Lengths,     \* payload lengths sent
          MaxSends,    \* bound on the calls of Send
          MaxDatagram, \* maxDgPayload: what one QUIC datagram can carry
          MsgIDSpace,  \* how many ids nextFragMsgID has before it wraps
          QueueCap     \* the buffer of Datagram.rx

ASSUME DatagramAssumption ==
  Lengths \subseteq Nat /\ MaxDatagram \in Nat /\ MaxSends \in Nat /\ MsgIDSpace \in Nat \ {0}

VARIABLES
  sendSeq,    \* the sequence number of the sender's dgChannel
  msgIDs,     \* nextFragMsgID
  calls,      \* history: the payload length of each Send, in order
  todo,       \* of each name, the parts Send has still to seal
  sealed,     \* of each name, the sealed part Send is about to send
  lastSent,   \* history: one more than the highest sequence number sent
  overtaken,  \* history: a part was sent after one sealed later
  recvSeq,    \* the sequence number the receiver's dgChannel expects
  refused,    \* history: the sequence numbers it refused
  rx, got,    \* of each name, the queue and what Recv has returned
  ended       \* the Sessions that are closed, of "sender" and "receiver"

dgVars == <<sendSeq, msgIDs, calls, todo, sealed, lastSent, overtaken, recvSeq, refused, rx, got, ended>>
vars == <<proxyVars, dgVars>>

---------------------------------------------------------------------------
aeadOverhead == 8 + 16
FragHeaderSize == 8
cidAllowance == 10
maxParts == 65535

(* What is left of a datagram for the payload, and at least one byte.      *)
maxAppChunk(maxPayload, outerOverhead, channelIDLen) ==
  LET budget == maxPayload - (outerOverhead + aeadOverhead + channelIDLen)
  IN  IF maxPayload <= outerOverhead + aeadOverhead + channelIDLen THEN 1 ELSE budget

(* A part, as the receiver sees it after decodePartWire, with the bytes of *)
(* the payload it carries; call is the Send it comes from.                 *)
Part(call, id, index, total, start, end) ==
  [call |-> call, id |-> id, index |-> index, total |-> total, start |-> start, end |-> end]

(* How many parts a message that is not whole has.                         *)
PartCount(len) ==
  LET chunkBudget == maxAppChunk(MaxDatagram, 1 + FragHeaderSize, cidAllowance)
      total == (len + chunkBudget - 1) \div chunkBudget
  IN  IF total < 2 THEN 2 ELSE total

(* Mutant: the last, shorter chunk is forgotten. *)
Split_Floor(call, id, len) ==
  LET chunkBudget == maxAppChunk(MaxDatagram, 1 + FragHeaderSize, cidAllowance)
      total == len \div chunkBudget
  IN  [i \in 1 .. total |-> Part(call, id, i - 1, total, (i - 1) * chunkBudget, i * chunkBudget)]

(* The chunks of a payload, which carry the message's id, their index and  *)
(* how many there are.                                                     *)
Split(call, id, len) ==
  LET chunkBudget == maxAppChunk(MaxDatagram, 1 + FragHeaderSize, cidAllowance)
      total == PartCount(len)
      end(i) == IF (i + 1) * chunkBudget > len THEN len ELSE (i + 1) * chunkBudget
  IN  [i \in 1 .. total |-> Part(call, id, i - 1, total, (i - 1) * chunkBudget, end(i - 1))]

IsWhole(len) == len <= maxAppChunk(MaxDatagram, 1, cidAllowance)

(* The length of the datagram encodePartWire makes of a part.              *)
WireLength(p, cidLen) ==
  (IF p.total <= 1 THEN 1 ELSE 1 + FragHeaderSize) + aeadOverhead + cidLen + (p.end - p.start)

---------------------------------------------------------------------------
Init ==
  /\ ProxyInit
  /\ sendSeq = 0 /\ msgIDs = 0 /\ calls = << >>
  /\ todo = [c \in Channels |-> << >>]
  /\ sealed = [c \in Channels |-> NoPacket]
  /\ lastSent = 0 /\ overtaken = FALSE
  /\ recvSeq = 0 /\ refused = {}
  /\ rx = [c \in Channels |-> << >>]
  /\ got = [c \in Channels |-> << >>]
  /\ ended = {}

Sending(c) == todo[c] # << >> \/ sealed[c] # NoPacket

(* Datagram.Send begins: the transport of the Session is there, and a      *)
(* message of several parts draws its id.  A closed Session and a message  *)
(* of too many parts are errors before anything changes.                   *)
Send(c) ==
  /\ ~Sending(c) /\ Len(calls) < MaxSends
  /\ "sender" \notin ended
  /\ \E len \in Lengths :
       /\ IsWhole(len) \/ PartCount(len) <= maxParts
       /\ calls' = Append(calls, len)
       /\ IF IsWhole(len)
          THEN /\ todo' = [todo EXCEPT ![c] = <<Part(Len(calls) + 1, 0, 0, 1, 0, len)>>]
               /\ UNCHANGED msgIDs
          ELSE /\ msgIDs' = (msgIDs + 1) % MsgIDSpace
               /\ todo' = [todo EXCEPT ![c] = Split(Len(calls) + 1, msgIDs', len)]
  /\ Happens(Len(todo'[c]))
  /\ UNCHANGED <<inbox, pc, pkt, num, upstream, pktCount, profile, blackholed, hole, held, slowed, arrived,
                 closer, sendSeq, sealed, lastSent, overtaken, recvSeq, refused, rx, got, ended>>

(* Encrypt: the next sequence number, under the channel's lock.            *)
Encrypt(c) ==
  /\ todo[c] # << >> /\ sealed[c] = NoPacket
  /\ sealed' = [sealed EXCEPT ![c] = [seq |-> sendSeq, name |-> c, part |-> Head(todo[c])]]
  /\ todo' = [todo EXCEPT ![c] = Tail(@)]
  /\ sendSeq' = sendSeq + 1
  /\ UNCHANGED <<proxyVars, msgIDs, calls, lastSent, overtaken, recvSeq, refused, rx, got, ended>>

(* SendDatagram; its error, on a closed connection, ends Send where it is. *)
SendDatagram(c) ==
  /\ sealed[c] # NoPacket
  /\ sealed' = [sealed EXCEPT ![c] = NoPacket]
  /\ \/ /\ "sender" \notin ended
        /\ inbox' = IF SocketClosed THEN inbox ELSE Append(inbox, sealed[c])
        /\ overtaken' = (overtaken \/ sealed[c].seq < lastSent)
        /\ lastSent' = IF sealed[c].seq < lastSent THEN lastSent ELSE sealed[c].seq + 1
        /\ UNCHANGED todo
     \/ /\ "sender" \in ended
        /\ todo' = [todo EXCEPT ![c] = << >>]
        /\ UNCHANGED <<inbox, lastSent, overtaken>>
  /\ UNCHANGED <<pc, pkt, num, upstream, pktCount, profile, blackholed, hole, held, slowed, arrived,
                 events, closer, sendSeq, msgIDs, calls, recvSeq, refused, rx, got, ended>>

---------------------------------------------------------------------------
(* Mutant: the channel takes whatever opens. *)
Accepts_Any(seq) == TRUE

(* Mutant: the channel skips a number. *)
Expects_Skips(seq) == seq + 2

(* The receiver's dgChannel takes any number from the expected one on, and *)
(* expects the next.                                                       *)
Accepts(seq) == seq >= recvSeq
Expects(seq) == seq + 1

(* datagramLoop with deliverIncomingDatagram: a part that is too old is    *)
(* dropped, and so is one that finds the queue of its name full or the     *)
(* Session closed.                                                         *)
deliverIncomingDatagram ==
  /\ arrived # << >>
  /\ arrived' = Tail(arrived)
  /\ LET p == Head(arrived)
     IN  \/ /\ ~Accepts(p.seq)
            /\ refused' = refused \union {p.seq}
            /\ UNCHANGED <<recvSeq, rx>>
         \/ /\ Accepts(p.seq) /\ Len(rx[p.name]) < QueueCap
            /\ recvSeq' = Expects(p.seq)
            /\ rx' = [rx EXCEPT ![p.name] = Append(@, p)]
            /\ UNCHANGED refused
         \/ /\ Accepts(p.seq) /\ (Len(rx[p.name]) = QueueCap \/ "receiver" \in ended)
            /\ recvSeq' = Expects(p.seq)
            /\ UNCHANGED <<refused, rx>>
  /\ UNCHANGED <<inbox, pc, pkt, num, upstream, pktCount, profile, blackholed, hole, held, slowed, events, closer, sendSeq, msgIDs, calls, todo, sealed, lastSent, overtaken, got, ended>>

(* Datagram.Recv; after Close it may return a part or the error.           *)
Recv(c) ==
  /\ rx[c] # << >>
  /\ got' = [got EXCEPT ![c] = Append(@, Head(rx[c]))]
  /\ rx' = [rx EXCEPT ![c] = Tail(@)]
  /\ UNCHANGED <<proxyVars, sendSeq, msgIDs, calls, todo, sealed, lastSent, overtaken, recvSeq, refused, ended>>

(* Session.Close of one side.                                              *)
CloseSession(side) ==
  /\ side \notin ended
  /\ Happens(1)
  /\ ended' = ended \union {side}
  /\ UNCHANGED <<inbox, pc, pkt, num, upstream, pktCount, profile, blackholed, hole, held, slowed, arrived,
                 closer, sendSeq, msgIDs, calls, todo, sealed, lastSent, overtaken, recvSeq, refused, rx, got>>

Next ==
  \/ ProxyNext /\ UNCHANGED dgVars
  \/ \E c \in Channels : Send(c) \/ Encrypt(c) \/ SendDatagram(c) \/ Recv(c)
  \/ deliverIncomingDatagram
  \/ \E side \in {"sender", "receiver"} : CloseSession(side)

Spec == Init /\ [][Next]_vars
FairSpec == Spec /\ ProxyFairness

---------------------------------------------------------------------------
Taken(c) == got[c] \o rx[c]

(* Whatever the link loses, delays or reorders, and however the senders    *)
(* interleave, the parts Recv returns on a name are in the order in which  *)
(* Send sealed them, and none comes twice (deliverIncomingDatagram).       *)
PartsInOrder ==
  \A c \in Channels : \A i, j \in DOMAIN Taken(c) :
    i < j => Taken(c)[i].seq < Taken(c)[j].seq

(* A part that reaches the receiver is refused only if the link delayed    *)
(* packets, or if a Send on another name sent a part sealed later before   *)
(* it: the channel adds no loss of its own to a link that keeps order.     *)
RefusalHasCause ==
  refused # {} => slowed \/ overtaken

(* A sealed part fits in what a QUIC datagram can carry, with the longest  *)
(* channel id there is (maxAppChunk, encodePartWire).                      *)
PartsFit ==
  \A c \in Channels :
    sealed[c] # NoPacket => WireLength(sealed[c].part, cidAllowance) <= MaxDatagram

(* A receiver can put messages together from what a part carries: parts    *)
(* that have an id in common are of one Send, agree on the total, and all  *)
(* of them, by index, make up its payload, each byte once; a whole part is *)
(* the payload; and all of that within the size of a datagram              *)
(* (Datagram.Send, DatagramPart).                                          *)
PartsRejoin ==
  /\ PartsFit
  /\ \A c \in Channels :
       LET parts == {Taken(c)[i].part : i \in DOMAIN Taken(c)}
           of(p) == {q \in parts : q.id = p.id /\ q.total > 1}
       IN  \A p \in parts :
             /\ p.total = 1 => p.start = 0 /\ p.end = calls[p.call]
             /\ p.total > 1 =>
                  /\ \A q \in of(p) : q.call = p.call /\ q.total = p.total
                  /\ Cardinality(of(p)) = p.total =>
                       \A b \in 0 .. calls[p.call] - 1 :
                         Cardinality({q \in of(p) : q.start <= b /\ b < q.end}) = 1

---------------------------------------------------------------------------
(* The invariant behind PartsInOrder and RefusalHasCause.                  *)
PartSet ==
  [call : Nat, id : Nat, index : Nat, total : Nat, start : Nat, end : Nat]
Packet == [seq : Nat, name : Channels, part : PartSet]

TypeOK ==
  /\ inbox \in Seq(Packet) /\ arrived \in Seq(Packet)
  /\ held \subseteq Packet \union {NoPacket}
  /\ pkt \in [{"client", "reply"} -> Packet \union {NoPacket}]
  /\ slowed \in BOOLEAN /\ overtaken \in BOOLEAN
  /\ sendSeq \in Nat /\ msgIDs \in Nat /\ lastSent \in Nat /\ recvSeq \in Nat
  /\ calls \in Seq(Nat) /\ refused \subseteq Nat
  /\ todo \in [Channels -> Seq(PartSet)]
  /\ sealed \in [Channels -> Packet \union {NoPacket}]
  /\ rx \in [Channels -> Seq(Packet)] /\ got \in [Channels -> Seq(Packet)]

Increasing(q) == \A i, j \in 1 .. Len(q) : i < j => q[i].seq < q[j].seq

(* What the channel has delivered is behind what it expects.               *)
TakenBehind ==
  \A c \in Channels :
    /\ Increasing(Taken(c))
    /\ \A i \in 1 .. Len(Taken(c)) : Taken(c)[i].seq < recvSeq

(* A link that has held nothing back, with senders that have not overtaken *)
(* one another, has the packets on it in the order of their numbers, all   *)
(* of them ahead of the receiver: at the relay, in readLoop's hands, and   *)
(* at the proxy's socket.                                                  *)
LinkInOrder ==
  LET p == pkt["client"] IN
  /\ pkt["reply"] = NoPacket
  /\ ~slowed => held = {}
  /\ ~slowed /\ ~overtaken =>
       /\ refused = {}
       /\ recvSeq <= lastSent
       /\ Increasing(arrived) /\ Increasing(inbox)
       /\ \A i \in 1 .. Len(arrived) : recvSeq <= arrived[i].seq /\ arrived[i].seq < lastSent
       /\ \A i \in 1 .. Len(inbox) : recvSeq <= inbox[i].seq /\ inbox[i].seq < lastSent
       /\ \A i \in 1 .. Len(arrived), j \in 1 .. Len(inbox) : arrived[i].seq < inbox[j].seq
       /\ p # NoPacket =>
            /\ recvSeq <= p.seq /\ p.seq < lastSent
            /\ \A i \in 1 .. Len(arrived) : arrived[i].seq < p.seq
            /\ \A i \in 1 .. Len(inbox) : p.seq < inbox[i].seq

DatagramInv == TypeOK /\ TakenBehind /\ LinkInOrder

---------------------------------------------------------------------------
(* The invariant behind PartsRejoin.  Every part there is, from Send's     *)
(* loop to what Recv has returned.                                         *)
Elements(q) == {q[i] : i \in 1 .. Len(q)}

OnLink ==
  Elements(inbox) \union Elements(arrived) \union held \union {pkt["client"], pkt["reply"]}
PacketsOf(c) == {sealed[c]} \union Elements(rx[c]) \union Elements(got[c])
Packets == (OnLink \union UNION {PacketsOf(c) : c \in Channels}) \ {NoPacket}
Parts == {k.part : k \in Packets} \union UNION {Elements(todo[c]) : c \in Channels}

(* A part is what the Send it comes from made of its payload.              *)
MadeBySend(p) ==
  /\ p.call \in 1 .. Len(calls)
  /\ IF IsWhole(calls[p.call])
     THEN p = Part(p.call, 0, 0, 1, 0, calls[p.call])
     ELSE /\ p.id \in 1 .. msgIDs
          /\ p.index + 1 \in 1 .. PartCount(calls[p.call])
          /\ p = Split(p.call, p.id, calls[p.call])[p.index + 1]

(* Until nextFragMsgID wraps, an id belongs to one Send.                   *)
PartsTraced ==
  /\ msgIDs <= Len(calls) /\ Len(calls) <= MaxSends
  /\ \A p \in Parts : MadeBySend(p)
  /\ \A p, q \in Parts : p.total > 1 /\ q.total > 1 /\ p.id = q.id => p.call = q.call
=============================================================================
