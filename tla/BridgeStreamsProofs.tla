------------------------ MODULE BridgeStreamsProofs ------------------------
(***************************************************************************)
(* Proofs about BridgeStreams for any streams, openers, message bounds and *)
(* window, whichever ends may disconnect or refuse streams: the pumps keep *)
(* messages in order, and a bridge between two QUIC legs implements        *)
(* StreamPipe.                                                             *)
(***************************************************************************)
EXTENDS BridgeStreams, Integers, TLAPS

\* The two ends of a bridge.
LEMMA OtherEnd ==
  /\ Other("client") = "backend" /\ Other("backend") = "client"
  /\ \A x \in Ends : Other(x) \in Ends /\ Other(x) # x /\ Other(Other(x)) = x
  /\ \A x, y \in Ends : x # y => y = Other(x)
<1>1. Other("client") = "backend"
  BY DEF Other, Ends
<1>2. Other("backend") = "client"
  BY DEF Other, Ends
<1>3. QED
  BY <1>1, <1>2 DEF Ends

\* A step that changes one leg of one stream.
LEMMA PutAt ==
  ASSUME NEW T, NEW f \in PerLeg(T), NEW s \in Streams, NEW x \in Ends, NEW v \in T,
         NEW g, g = [f EXCEPT ![s][x] = v]
  PROVE  /\ g \in PerLeg(T)
         /\ g[s][x] = v
         /\ \A t \in Streams, y \in Ends : (t # s \/ y # x) => g[t][y] = f[t][y]
BY DEF PerLeg

\* What a queue of messages looks like after a step.
LEMMA QueueFacts ==
  /\ \A q \in Seq(Nat), m \in Nat :
       /\ Append(q, m) \in Seq(Nat) /\ Len(Append(q, m)) = Len(q) + 1
       /\ Append(q, m)[Len(q) + 1] = m
       /\ \A i \in 1 .. Len(q) : Append(q, m)[i] = q[i]
  /\ \A q \in Seq(Nat) : q # <<>> =>
       /\ Head(q) \in Nat /\ Head(q) = q[1] /\ Len(q) >= 1
       /\ Tail(q) \in Seq(Nat) /\ Len(Tail(q)) = Len(q) - 1
       /\ \A i \in 1 .. Len(q) - 1 : Tail(q)[i] = q[i + 1]
  /\ \A q \in Seq(Nat) : Len(q) \in Nat /\ DOMAIN q = 1 .. Len(q)
<1>1. \A q \in Seq(Nat), m \in Nat :
        /\ Append(q, m) \in Seq(Nat) /\ Len(Append(q, m)) = Len(q) + 1
        /\ Append(q, m)[Len(q) + 1] = m
        /\ \A i \in 1 .. Len(q) : Append(q, m)[i] = q[i]
  OBVIOUS
<1>2. \A q \in Seq(Nat) : q # <<>> =>
        /\ Head(q) \in Nat /\ Head(q) = q[1] /\ Len(q) >= 1
        /\ Tail(q) \in Seq(Nat) /\ Len(Tail(q)) = Len(q) - 1
        /\ \A i \in 1 .. Len(q) - 1 : Tail(q)[i] = q[i + 1]
  OBVIOUS
<1>3. \A q \in Seq(Nat) : Len(q) \in Nat /\ DOMAIN q = 1 .. Len(q)
  OBVIOUS
<1>4. QED
  BY <1>1, <1>2, <1>3

\* Consecutive numbers, with the next one behind them and without the first.
LEMMA ConsecutiveOps ==
  /\ \A q \in Seq(Nat), n \in Nat :
       Consecutive(q, n) => Consecutive(Append(q, n + Len(q) + 1), n)
  /\ \A q \in Seq(Nat), n \in Nat :
       Consecutive(q, n) /\ q # <<>> => Head(q) = n + 1 /\ Consecutive(Tail(q), n + 1)
<1>1. ASSUME NEW q \in Seq(Nat), NEW n \in Nat, Consecutive(q, n)
      PROVE  Consecutive(Append(q, n + Len(q) + 1), n)
  <2>1. Len(q) \in Nat /\ n + Len(q) + 1 \in Nat
    OBVIOUS
  <2>2. PICK r \in Seq(Nat) :
        /\ r = Append(q, n + Len(q) + 1) /\ Len(r) = Len(q) + 1 /\ r[Len(q) + 1] = n + Len(q) + 1
        /\ \A i \in 1 .. Len(q) : r[i] = q[i]
    BY ZenonT(60), <2>1, QueueFacts
  <2>3. \A i \in 1 .. Len(q) : q[i] = n + i
    BY <1>1, QueueFacts DEF Consecutive
  <2>4. \A i \in 1 .. Len(q) + 1 : r[i] = n + i
    BY ONLY <2>1, <2>2, <2>3, n \in Nat
  <2>5. DOMAIN r = 1 .. Len(q) + 1
    BY <2>2, QueueFacts
  <2>6. QED
    BY <2>2, <2>4, <2>5 DEF Consecutive
<1>2. ASSUME NEW q \in Seq(Nat), NEW n \in Nat, Consecutive(q, n), q # <<>>
      PROVE  Head(q) = n + 1 /\ Consecutive(Tail(q), n + 1)
  <2>1. /\ Head(q) = q[1] /\ Len(q) >= 1 /\ Len(q) \in Nat
        /\ Tail(q) \in Seq(Nat) /\ Len(Tail(q)) = Len(q) - 1
        /\ \A i \in 1 .. Len(q) - 1 : Tail(q)[i] = q[i + 1]
    BY <1>2, QueueFacts
  <2>2. \A i \in 1 .. Len(q) : q[i] = n + i
    BY <1>2, QueueFacts DEF Consecutive
  <2>3. \A i \in 1 .. Len(q) - 1 : Tail(q)[i] = n + 1 + i
    BY ONLY <2>1, <2>2, n \in Nat
  <2>4. DOMAIN Tail(q) = 1 .. Len(q) - 1
    BY <2>1, QueueFacts
  <2>5. QED
    BY <2>1, <2>2, <2>3, <2>4 DEF Consecutive
<1>3. QED
  BY <1>1, <1>2

-----------------------------------------------------------------------------
\* What the steps do to one direction of a stream: a message is sent, read by
\* the pump, written by it, received; the pump starts and ends.
LEMMA LaneSteps ==
  ASSUME NEW i \in Seq(Nat), NEW o \in Seq(Nat), NEW p,
         NEW h \in Nat, NEW g \in Nat, NEW n \in Nat, LaneOrdered(i, p, h, o, g, n)
  PROVE  /\ LaneOrdered(Append(i, n + 1), p, h, o, g, n + 1)
         /\ p = "reading" /\ i # <<>> => LaneOrdered(Tail(i), "writing", Head(i), o, g, n)
         /\ p = "writing" => LaneOrdered(i, "reading", 0, Append(o, h), g, n)
         /\ o # <<>> => Head(o) = g + 1 /\ g < n /\ LaneOrdered(i, p, h, Tail(o), Head(o), n)
         /\ LaneOrdered(i, "done", h, o, g, n)
         /\ p = "none" => LaneOrdered(i, "reading", h, o, g, n)
<1>0. PICK a \in Nat, b \in Nat : a = Len(i) /\ b = Len(o)
  BY QueueFacts
<1>1. PICK f \in Nat : f = InFlight(o, p) /\ f = IF p = "writing" THEN Len(o) + 1 ELSE Len(o)
  BY <1>0 DEF InFlight
<1>2. /\ Consecutive(o, g) /\ (p = "writing" => h = g + f) /\ g + f <= n
      /\ (p # "done" => Consecutive(i, g + f) /\ n = g + f + Len(i))
  BY <1>1 DEF LaneOrdered
<1>3. LaneOrdered(Append(i, n + 1), p, h, o, g, n + 1)
  <2>1. p # "done" => Consecutive(Append(i, n + 1), g + f)
    <3> SUFFICES ASSUME p # "done" PROVE Consecutive(Append(i, n + 1), g + f)
      OBVIOUS
    <3>1. n = g + f + a /\ Consecutive(i, g + f)
      BY <1>0, <1>2
    <3>2. n + 1 = (g + f) + a + 1 /\ g + f \in Nat
      BY ONLY <3>1, n \in Nat, g \in Nat, f \in Nat, a \in Nat
    <3>3. QED
      BY <1>0, <3>1, <3>2, ConsecutiveOps
  <2>2. Len(Append(i, n + 1)) = a + 1
    BY <1>0, QueueFacts
  <2>3. g + f <= n /\ (p # "done" => n = g + f + a)
    BY <1>0, <1>2
  <2>4. g + f <= n + 1 /\ (p # "done" => n + 1 = g + f + (a + 1))
    BY ONLY <2>3, n \in Nat, g \in Nat, f \in Nat, a \in Nat
  <2>5. QED
    BY ZenonT(60), <1>1, <1>2, <2>1, <2>2, <2>4 DEF LaneOrdered
<1>4. ASSUME p = "reading", i # <<>> PROVE LaneOrdered(Tail(i), "writing", Head(i), o, g, n)
  <2>1. f = b /\ g + f \in Nat /\ Consecutive(i, g + f) /\ n = g + f + a
    BY <1>0, <1>1, <1>2, <1>4
  <2>2. Head(i) = g + f + 1 /\ Consecutive(Tail(i), g + f + 1)
    BY <1>4, <2>1, ConsecutiveOps
  <2>3. PICK c \in Nat : c = Len(Tail(i)) /\ a = c + 1
    BY <1>0, <1>4, QueueFacts
  <2>4. InFlight(o, "writing") = b + 1
    BY <1>0 DEF InFlight
  <2>5. g + (b + 1) = g + f + 1 /\ n = g + (b + 1) + c /\ g + (b + 1) <= n
    <3>1. f = b /\ n = g + f + a /\ a = c + 1
      BY <2>1, <2>3
    <3>2. QED
      BY ONLY <3>1, g \in Nat, n \in Nat, b \in Nat, a \in Nat, c \in Nat
  <2>6. QED
    BY ZenonT(60), <1>1, <1>2, <2>2, <2>3, <2>4, <2>5 DEF LaneOrdered
<1>5. ASSUME p = "writing" PROVE LaneOrdered(i, "reading", 0, Append(o, h), g, n)
  <2>1. f = Len(o) + 1 /\ h = g + f /\ Consecutive(i, g + f) /\ n = g + f + Len(i)
    BY <1>1, <1>2, <1>5
  <2>2. h = g + Len(o) + 1
    BY <1>0, <2>1
  <2>3. Consecutive(Append(o, h), g)
    BY <1>2, <2>2, ConsecutiveOps
  <2>4. Len(Append(o, h)) = f
    BY <2>1, QueueFacts
  <2>5. InFlight(Append(o, h), "reading") = f
    BY <1>1, <2>4 DEF InFlight
  <2>6. QED
    BY ZenonT(60), <1>1, <1>2, <2>1, <2>3, <2>5 DEF LaneOrdered
<1>6. ASSUME o # <<>>
      PROVE  Head(o) = g + 1 /\ g < n /\ LaneOrdered(i, p, h, Tail(o), Head(o), n)
  <2>1. Head(o) = g + 1 /\ Consecutive(Tail(o), g + 1)
    BY <1>2, <1>6, ConsecutiveOps
  <2>2. PICK c \in Nat : c = Len(Tail(o)) /\ b = c + 1
    BY <1>0, <1>6, QueueFacts
  <2>3. PICK u \in Nat : u = InFlight(Tail(o), p) /\ u = IF p = "writing" THEN c + 1 ELSE c
    <3>1. InFlight(Tail(o), p) = c + (IF p = "writing" THEN 1 ELSE 0)
      BY <2>2 DEF InFlight
    <3>2. (IF p = "writing" THEN c + 1 ELSE c) \in Nat
          /\ c + (IF p = "writing" THEN 1 ELSE 0) = IF p = "writing" THEN c + 1 ELSE c
      BY ONLY c \in Nat
    <3>3. QED
      BY ONLY ZenonT(60), <3>1, <3>2
  <2>4. f = IF p = "writing" THEN (c + 1) + 1 ELSE c + 1
    BY <1>0, <1>1, <2>2
  <2>5. (g + 1) + u = g + f
    <3>1. u = IF p = "writing" THEN c + 1 ELSE c
      BY <2>3
    <3>2. QED
      BY ONLY <2>4, <3>1, g \in Nat, c \in Nat
  <2>6. g + f <= n
    BY <1>2
  <2>7. g < n
    BY ONLY <2>4, <2>6, g \in Nat, c \in Nat, n \in Nat
  <2>8. QED
    BY ZenonT(60), <1>1, <1>2, <2>1, <2>3, <2>5, <2>7 DEF LaneOrdered
<1>7. LaneOrdered(i, "done", h, o, g, n)
  <2>1. InFlight(o, "done") = Len(o)
    BY <1>0 DEF InFlight
  <2>2. g + Len(o) <= n
    BY <1>0, <1>1, <1>2
  <2>3. QED
    BY ZenonT(60), <1>1, <1>2, <2>1, <2>2 DEF LaneOrdered
<1>8. ASSUME p = "none" PROVE LaneOrdered(i, "reading", h, o, g, n)
  <2>1. InFlight(o, "reading") = f
    BY <1>0, <1>1, <1>8 DEF InFlight
  <2>2. QED
    BY ZenonT(60), <1>1, <1>2, <1>8, <2>1 DEF LaneOrdered
<1>9. QED
  BY <1>3, <1>4, <1>5, <1>6, <1>7, <1>8

\* An application sends a message (Send).
LEMMA LaneSends ==
  \A i, o \in Seq(Nat), h, g, n \in Nat : \A p :
    LaneOrdered(i, p, h, o, g, n) => LaneOrdered(Append(i, n + 1), p, h, o, g, n + 1)
BY LaneSteps

\* An application receives the next message (Recv).
LEMMA LaneReceives ==
  \A i, o \in Seq(Nat), h, g, n \in Nat : \A p :
    LaneOrdered(i, p, h, o, g, n) /\ o # <<>> =>
      Head(o) = g + 1 /\ g < n /\ LaneOrdered(i, p, h, Tail(o), Head(o), n)
BY LaneSteps

\* A pump returns.
LEMMA LaneEnds ==
  \A i, o \in Seq(Nat), h, g, n \in Nat : \A p :
    LaneOrdered(i, p, h, o, g, n) => LaneOrdered(i, "done", h, o, g, n)
BY LaneSteps

-----------------------------------------------------------------------------
\* The initial state has its types.
LEMMA InitType == Init => TypeOK
<1> SUFFICES ASSUME Init PROVE TypeOK
  OBVIOUS
<1>1. <<>> \in Seq(Nat) /\ 0 \in Nat
  OBVIOUS
<1>2. /\ inq \in PerLeg(Seq(Nat)) /\ outq \in PerLeg(Seq(Nat))
      /\ inEnd \in PerLeg({"open", "fin", "reset"}) /\ outEnd \in PerLeg({"open", "fin", "reset"})
      /\ pump \in PerLeg({"none", "reading", "writing", "done"})
      /\ hold \in PerLeg(Nat) /\ sent \in PerLeg(Nat) /\ got \in PerLeg(Nat)
      /\ verdict \in PerLeg({"open", "eof", "reset"})
  BY <1>1 DEF Init, PerLeg
<1>3. QED
  BY <1>2 DEF Init, TypeOK, Ends

\* The ends' steps.
LEMMA AppType ==
  ASSUME TypeOK, NEW s \in Streams, NEW x \in Ends, AppStep(s, x)
  PROVE  TypeOK'
<1> USE DEF connVars, bridgeVars, inVars, outVars, pumpVars, appVars
<1>1. CASE Send(s, x)
  <2>1. sent \in PerLeg(Nat) /\ inq \in PerLeg(Seq(Nat)) /\ sent[s][x] \in Nat /\ inq[s][x] \in Seq(Nat)
    BY DEF TypeOK, PerLeg
  <2>2. sent[s][x] + 1 \in Nat /\ Append(inq[s][x], sent[s][x] + 1) \in Seq(Nat)
    BY <2>1, QueueFacts
  <2>3. sent' \in PerLeg(Nat) /\ inq' \in PerLeg(Seq(Nat))
    BY <1>1, <2>1, <2>2 DEF Send, PerLeg
  <2>4. QED
    BY <1>1, <2>3 DEF TypeOK, Send
<1>2. CASE CloseWrite(s, x)
  <2>1. inEnd' \in PerLeg({"open", "fin", "reset"})
    BY <1>2 DEF TypeOK, CloseWrite, PerLeg
  <2>2. QED
    BY <1>2, <2>1 DEF TypeOK, CloseWrite
<1>3. CASE Reset(s, x)
  <2>1. PICK e \in AfterCancel(inEnd[s][x], pump[s][x] = "done") : inEnd' = [inEnd EXCEPT ![s][x] = e]
    BY ZenonT(60), <1>3 DEF Reset
  <2>2. e \in {"open", "fin", "reset"}
    BY <2>1 DEF AfterCancel
  <2>3. inEnd' \in PerLeg({"open", "fin", "reset"})
    BY <2>1, <2>2 DEF TypeOK, PerLeg
  <2>4. outStop' \subseteq Legs
    BY <1>3 DEF Reset, Legs, TypeOK
  <2>5. QED
    BY <1>3, <2>3, <2>4 DEF TypeOK, Reset
<1>4. CASE Recv(s, x)
  <2>1. got \in PerLeg(Nat) /\ outq \in PerLeg(Seq(Nat)) /\ outq[s][x] \in Seq(Nat) /\ outq[s][x] # <<>>
    BY <1>4 DEF TypeOK, PerLeg, Recv
  <2>2. Head(outq[s][x]) \in Nat /\ Tail(outq[s][x]) \in Seq(Nat)
    BY <2>1, QueueFacts
  <2>3. got' \in PerLeg(Nat) /\ outq' \in PerLeg(Seq(Nat))
    BY ZenonT(60), <1>4, <2>1, <2>2, PutAt DEF Recv
  <2>4. QED
    BY <1>4, <2>3 DEF TypeOK, Recv
<1>5. CASE RecvEnds(s, x)
  <2>1. PICK v \in {"eof", "reset"} : verdict' = [verdict EXCEPT ![s][x] = v]
    BY <1>5 DEF RecvEnds
  <2>2. verdict' \in PerLeg({"open", "eof", "reset"})
    BY <2>1 DEF TypeOK, PerLeg
  <2>3. QED
    BY <1>5, <2>2 DEF TypeOK, RecvEnds
<1>6. QED
  BY <1>1, <1>2, <1>3, <1>4, <1>5 DEF AppStep

\* Closing and resetting the relay's side of a leg.
LEMMA LegType ==
  ASSUME TypeOK, NEW s \in Streams, NEW x \in Ends, closeWritePair(s, x) \/ resetPair(s, x)
  PROVE  /\ outEnd' \in PerLeg({"open", "fin", "reset"}) /\ inStop' \subseteq Legs /\ deadline' \subseteq Legs
         /\ UNCHANGED <<inq, inEnd, outq, outStop>>
<1>1. outEnd \in PerLeg({"open", "fin", "reset"}) /\ outEnd[s][x] \in {"open", "fin", "reset"}
  BY DEF TypeOK, PerLeg
<1>2. <<s, x>> \in Legs
  BY DEF Legs
<1>3. CASE closeWritePair(s, x)
  <2>1. outEnd' = [outEnd EXCEPT ![s][x] = IF outEnd[s][x] = "open" THEN "fin" ELSE outEnd[s][x]]
    BY <1>3 DEF closeWritePair, CloseLeg
  <2>2. outEnd' \in PerLeg({"open", "fin", "reset"})
    BY <1>1, <2>1 DEF PerLeg
  <2>3. QED
    BY <1>2, <1>3, <2>2 DEF TypeOK, closeWritePair, CloseLeg, inVars
<1>4. CASE resetPair(s, x)
  <2>1. PICK e \in AfterCancel(outEnd[s][x], verdict[s][x] # "open") : outEnd' = [outEnd EXCEPT ![s][x] = e]
    BY ZenonT(60), <1>4 DEF resetPair
  <2>2. e \in {"open", "fin", "reset"}
    BY <2>1 DEF AfterCancel
  <2>3. outEnd' \in PerLeg({"open", "fin", "reset"})
    BY <1>1, <2>1, <2>2 DEF PerLeg
  <2>4. QED
    BY <1>2, <1>4, <2>3 DEF TypeOK, resetPair
<1>5. QED
  BY <1>3, <1>4

\* The pumps' steps.
LEMMA PumpType ==
  ASSUME TypeOK, NEW s \in Streams, NEW x \in Ends, PumpStep(s, x)
  PROVE  TypeOK'
<1> USE DEF connVars, bridgeVars, inVars, outVars, pumpVars, appVars
<1>0. Other(x) \in Ends
  BY OtherEnd
<1>1. CASE PumpReads(s, x)
  <2>1. hold \in PerLeg(Nat) /\ inq \in PerLeg(Seq(Nat)) /\ inq[s][x] \in Seq(Nat) /\ inq[s][x] # <<>>
    BY <1>1 DEF TypeOK, PerLeg, PumpReads
  <2>2. Head(inq[s][x]) \in Nat /\ Tail(inq[s][x]) \in Seq(Nat)
    BY <2>1, QueueFacts
  <2>3. hold' \in PerLeg(Nat) /\ inq' \in PerLeg(Seq(Nat))
    BY ZenonT(60), <1>1, <2>1, <2>2, PutAt DEF PumpReads
  <2>4. pump' \in PerLeg({"none", "reading", "writing", "done"})
    BY <1>1 DEF TypeOK, PumpReads, PerLeg
  <2>5. QED
    BY <1>1, <2>3, <2>4 DEF TypeOK, PumpReads
<1>2. ASSUME pump' = [pump EXCEPT ![s][x] = "done"]
      PROVE  pump' \in PerLeg({"none", "reading", "writing", "done"})
  BY <1>2 DEF TypeOK, PerLeg
<1>3. CASE PumpFinishes(s, x) \/ PumpResets(s, x)
  <2>1. closeWritePair(s, Other(x)) \/ resetPair(s, Other(x))
    BY <1>3 DEF PumpFinishes, PumpResets
  <2>2. /\ outEnd' \in PerLeg({"open", "fin", "reset"}) /\ inStop' \subseteq Legs /\ deadline' \subseteq Legs
        /\ UNCHANGED <<inq, inEnd, outq, outStop>>
    BY <1>0, <2>1, LegType
  <2>3. QED
    BY <1>2, <1>3, <2>2 DEF TypeOK, PumpFinishes, PumpResets
<1>4. CASE PumpWrites(s, x)
  <2>1. /\ hold \in PerLeg(Nat) /\ outq \in PerLeg(Seq(Nat)) /\ outq[s][Other(x)] \in Seq(Nat)
        /\ hold[s][x] \in Nat /\ 0 \in Nat
    BY <1>0 DEF TypeOK, PerLeg
  <2>2. Append(outq[s][Other(x)], hold[s][x]) \in Seq(Nat)
    BY <2>1, QueueFacts
  <2>3. hold' \in PerLeg(Nat) /\ outq' \in PerLeg(Seq(Nat))
    BY <1>0, <1>4, <2>1, <2>2 DEF PumpWrites, PerLeg
  <2>4. pump' \in PerLeg({"none", "reading", "writing", "done"})
    BY <1>4 DEF TypeOK, PumpWrites, PerLeg
  <2>5. QED
    BY <1>4, <2>3, <2>4 DEF TypeOK, PumpWrites
<1>5. CASE PumpGivesUp(s, x)
  BY <1>2, <1>5 DEF TypeOK, PumpGivesUp
<1>6. QED
  BY <1>1, <1>3, <1>4, <1>5 DEF PumpStep

\* Every step of the applications, the loops, the pumps and the teardown keeps
\* the types.
LEMMA NextType == TypeOK /\ [Next]_vars => TypeOK'
<1> SUFFICES ASSUME TypeOK, [Next]_vars PROVE TypeOK'
  OBVIOUS
<1> USE DEF connVars, bridgeVars, inVars, outVars, pumpVars, appVars
<1>1. ASSUME NEW s \in Streams, OpenStream(s) PROVE TypeOK'
  BY <1>1 DEF TypeOK, OpenStream
<1>2. ASSUME NEW s \in Streams, LoopStep(s) PROVE TypeOK'
  <2> DEFINE x == Opener[s]
  <2>1. x \in Ends /\ Other(x) \in Ends
    BY BridgeAssumption, OtherEnd
  <2>2. <<s, x>> \in Legs /\ <<s, Other(x)>> \in Legs
    BY <2>1 DEF Legs
  <2>3. CASE AcceptStream(s)
    BY ZenonT(60), <2>3 DEF TypeOK, AcceptStream
  <2>4. CASE OpenOther(s)
    BY ZenonT(60), <2>2, <2>4 DEF TypeOK, OpenOther
  <2>5. CASE OpenFails(s)
    <3>1. closeWritePair(s, x)
      BY <2>5 DEF OpenFails
    <3>2. /\ outEnd' \in PerLeg({"open", "fin", "reset"}) /\ inStop' \subseteq Legs /\ deadline' \subseteq Legs
          /\ UNCHANGED <<inq, inEnd, outq, outStop>>
      BY <2>1, <3>1, LegType
    <3>3. QED
      BY ZenonT(60), <2>5, <3>2 DEF TypeOK, OpenFails
  <2>6. CASE StartPumps(s)
    <3>1. pump' \in PerLeg({"none", "reading", "writing", "done"})
      BY <2>6 DEF TypeOK, PerLeg, StartPumps
    <3>2. QED
      BY ZenonT(60), <2>2, <2>6, <3>1 DEF TypeOK, StartPumps
  <2>7. QED
    BY <1>2, <2>3, <2>4, <2>5, <2>6 DEF LoopStep
<1>3. ASSUME NEW s \in Streams, NEW x \in Ends, AppStep(s, x) \/ PumpStep(s, x) PROVE TypeOK'
  BY <1>3, AppType, PumpType
<1>4. ASSUME NEW x \in Ends, ClosePrimary(x) \/ Disconnect(x) \/ AcceptFails(x) PROVE TypeOK'
  BY <1>4 DEF TypeOK, ClosePrimary, Disconnect, AcceptFails
<1>5. CASE BridgeNotices \/ SweepBegins \/ CloseClient \/ CloseBackend \/ BridgeReturns
  <2>1. CASE BridgeNotices
    BY <2>1 DEF TypeOK, BridgeNotices
  <2>2. CASE SweepBegins
    BY <2>2 DEF TypeOK, SweepBegins
  <2>3. CASE CloseClient
    BY ZenonT(60), <2>3 DEF TypeOK, CloseClient
  <2>4. CASE CloseBackend
    BY ZenonT(60), <2>4 DEF TypeOK, CloseBackend
  <2>5. CASE BridgeReturns
    BY <2>5 DEF TypeOK, BridgeReturns
  <2>6. QED
    BY <1>5, <2>1, <2>2, <2>3, <2>4, <2>5
<1>6. ASSUME NEW s \in Streams, NEW x \in Ends, SweepOne(s, x) PROVE TypeOK'
  <2>1. closeWritePair(s, x)
    BY <1>6 DEF SweepOne
  <2>2. /\ outEnd' \in PerLeg({"open", "fin", "reset"}) /\ inStop' \subseteq Legs /\ deadline' \subseteq Legs
        /\ UNCHANGED <<inq, inEnd, outq, outStop>>
    BY <2>1, LegType
  <2>3. QED
    BY <1>6, <2>2 DEF TypeOK, SweepOne
<1>7. CASE UNCHANGED vars
  BY <1>7 DEF TypeOK, vars
<1>8. QED
  BY <1>1, <1>2, <1>3, <1>4, <1>5, <1>6, <1>7 DEF Next, CloserStep

-----------------------------------------------------------------------------
\* The direction of a stream from x to the other end, as a step leaves it.
Lane(s, x) ==
  LaneOrdered(inq[s][x], pump[s][x], hold[s][x], outq[s][Other(x)], got[s][Other(x)], sent[s][x])

\* What a direction is made of has its types.
LEMMA LaneTypes ==
  ASSUME TypeOK, NEW s \in Streams, NEW x \in Ends
  PROVE  /\ inq[s][x] \in Seq(Nat) /\ outq[s][x] \in Seq(Nat)
         /\ pump[s][x] \in {"none", "reading", "writing", "done"}
         /\ hold[s][x] \in Nat /\ got[s][x] \in Nat /\ sent[s][x] \in Nat
BY DEF TypeOK, PerLeg

\* A direction that a step does not touch.
LEMMA LaneKept ==
  ASSUME NEW s, NEW x, Lane(s, x),
         inq'[s][x] = inq[s][x], pump'[s][x] = pump[s][x], hold'[s][x] = hold[s][x],
         outq'[s][Other(x)] = outq[s][Other(x)], got'[s][Other(x)] = got[s][Other(x)],
         sent'[s][x] = sent[s][x]
  PROVE  Lane(s, x)'
BY ZenonT(60) DEF Lane

\* Send keeps every direction in order.
LEMMA SendKeepsOrder ==
  ASSUME TypeOK, \A t \in Streams, y \in Ends : Lane(t, y), NEW s \in Streams, NEW x \in Ends, Send(s, x)
  PROVE  \A t \in Streams, y \in Ends : Lane(t, y)'
<1> SUFFICES ASSUME NEW t \in Streams, NEW y \in Ends PROVE Lane(t, y)'
  OBVIOUS
<1>1. UNCHANGED <<pump, hold, outq, got>>
  BY DEF Send, outVars, pumpVars
<1>2. /\ sent'[s][x] = sent[s][x] + 1 /\ inq'[s][x] = Append(inq[s][x], sent[s][x] + 1)
      /\ t # s \/ y # x => sent'[t][y] = sent[t][y] /\ inq'[t][y] = inq[t][y]
  BY ZenonT(60) DEF Send, TypeOK, PerLeg
<1>3. CASE t = s /\ y = x
  <2>1. Lane(s, x)
    OBVIOUS
  <2>2. LaneOrdered(Append(inq[s][x], sent[s][x] + 1), pump[s][x], hold[s][x], outq[s][Other(x)],
                    got[s][Other(x)], sent[s][x] + 1)
    <3>1. Other(x) \in Ends
      BY OtherEnd
    <3>2. /\ inq[s][x] \in Seq(Nat) /\ outq[s][Other(x)] \in Seq(Nat)
          /\ pump[s][x] \in {"none", "reading", "writing", "done"}
          /\ hold[s][x] \in Nat /\ got[s][Other(x)] \in Nat /\ sent[s][x] \in Nat
      BY <3>1, LaneTypes
    <3>3. LaneOrdered(inq[s][x], pump[s][x], hold[s][x], outq[s][Other(x)], got[s][Other(x)], sent[s][x])
      BY <2>1 DEF Lane
    <3>4. QED
      BY ONLY ZenonT(60), <3>2, <3>3, LaneSends
  <2>3. QED
    BY ZenonT(60), <1>1, <1>2, <1>3, <2>2 DEF Lane
<1>4. CASE t # s \/ y # x
  BY ZenonT(60), <1>1, <1>2, <1>4, LaneKept
<1>5. QED
  BY <1>3, <1>4

\* Recv keeps every direction in order, and returns the next message.
LEMMA RecvKeepsOrder ==
  ASSUME TypeOK, \A t \in Streams, y \in Ends : Lane(t, y), NEW s \in Streams, NEW x \in Ends, Recv(s, x)
  PROVE  /\ \A t \in Streams, y \in Ends : Lane(t, y)'
         /\ Head(outq[s][x]) = got[s][x] + 1 /\ got[s][x] < sent[s][Other(x)]
<1> DEFINE z == Other(x)
<1>0. z \in Ends /\ Other(z) = x /\ z # x
  BY OtherEnd
<1>1. UNCHANGED <<inq, pump, hold, sent>>
  BY DEF Recv, inVars, pumpVars
<1>2. /\ got'[s][x] = Head(outq[s][x]) /\ outq'[s][x] = Tail(outq[s][x])
      /\ \A t \in Streams, y \in Ends : t # s \/ y # x => got'[t][y] = got[t][y] /\ outq'[t][y] = outq[t][y]
  BY ZenonT(60) DEF Recv, TypeOK, PerLeg
<1> HIDE DEF z
<1>3. LaneOrdered(inq[s][z], pump[s][z], hold[s][z], outq[s][x], got[s][x], sent[s][z])
  BY <1>0 DEF Lane
<1>4. /\ Head(outq[s][x]) = got[s][x] + 1 /\ got[s][x] < sent[s][z]
      /\ LaneOrdered(inq[s][z], pump[s][z], hold[s][z], Tail(outq[s][x]), Head(outq[s][x]), sent[s][z])
  <2>1. outq[s][x] # <<>>
    BY DEF Recv
  <2>2. /\ inq[s][z] \in Seq(Nat) /\ outq[s][x] \in Seq(Nat)
        /\ pump[s][z] \in {"none", "reading", "writing", "done"}
        /\ hold[s][z] \in Nat /\ got[s][x] \in Nat /\ sent[s][z] \in Nat
    BY <1>0, LaneTypes
  <2>3. QED
    BY ONLY ZenonT(60), <1>3, <2>1, <2>2, LaneReceives
<1>5. Lane(s, z)'
  BY ZenonT(60), <1>0, <1>1, <1>2, <1>4 DEF Lane
<1>6. ASSUME NEW t \in Streams, NEW y \in Ends, t # s \/ y # z PROVE Lane(t, y)'
  <2>1. Other(y) \in Ends /\ (t # s \/ Other(y) # x)
    BY <1>6, OtherEnd DEF z
  <2>2. QED
    BY ZenonT(60), <1>1, <1>2, <2>1, LaneKept
<1>7. QED
  BY ZenonT(60), <1>4, <1>5, <1>6 DEF z

\* The steps of a pump.
LEMMA PumpKeepsOrder ==
  ASSUME TypeOK, \A t \in Streams, y \in Ends : Lane(t, y), NEW s \in Streams, NEW x \in Ends, PumpStep(s, x)
  PROVE  \A t \in Streams, y \in Ends : Lane(t, y)'
<1> DEFINE z == Other(x)
<1>0. /\ z \in Ends /\ Other(z) = x /\ z # x
      /\ \A y \in Ends : Other(y) \in Ends /\ (y # x => Other(y) # z)
  BY OtherEnd
<1>1. LaneOrdered(inq[s][x], pump[s][x], hold[s][x], outq[s][z], got[s][z], sent[s][x])
  BY DEF Lane
<1>2. /\ inq[s][x] \in Seq(Nat) /\ outq[s][z] \in Seq(Nat)
      /\ pump[s][x] \in {"none", "reading", "writing", "done"}
      /\ hold[s][x] \in Nat /\ got[s][z] \in Nat /\ sent[s][x] \in Nat
  BY <1>0, LaneTypes
<1>3. UNCHANGED <<got, sent>>
  BY DEF PumpStep, PumpReads, PumpFinishes, PumpResets, PumpWrites, PumpGivesUp, appVars
<1> HIDE DEF z
<1>4. CASE PumpReads(s, x)
  <2>1. /\ hold'[s][x] = Head(inq[s][x]) /\ inq'[s][x] = Tail(inq[s][x]) /\ pump'[s][x] = "writing"
        /\ outq' = outq
        /\ \A t \in Streams, y \in Ends : t # s \/ y # x =>
             hold'[t][y] = hold[t][y] /\ inq'[t][y] = inq[t][y] /\ pump'[t][y] = pump[t][y]
    BY ZenonT(60), <1>4 DEF PumpReads, TypeOK, PerLeg, outVars
  <2>2. LaneOrdered(Tail(inq[s][x]), "writing", Head(inq[s][x]), outq[s][z], got[s][z], sent[s][x])
    BY SMTT(60), Z3T(60), <1>1, <1>2, <1>4, LaneSteps DEF PumpReads
  <2>3. Lane(s, x)'
    BY ZenonT(60), <1>3, <2>1, <2>2 DEF Lane, z
  <2>4. QED
    BY ZenonT(60), <1>3, <2>1, <2>3, LaneKept
<1>5. CASE PumpWrites(s, x)
  <2>1. /\ hold'[s][x] = 0 /\ outq'[s][z] = Append(outq[s][z], hold[s][x]) /\ pump'[s][x] = "reading"
        /\ inq' = inq
        /\ \A t \in Streams, y \in Ends : t # s \/ y # x => hold'[t][y] = hold[t][y] /\ pump'[t][y] = pump[t][y]
        /\ \A t \in Streams, y \in Ends : t # s \/ y # z => outq'[t][y] = outq[t][y]
    BY ZenonT(60), <1>0, <1>5 DEF PumpWrites, TypeOK, PerLeg, inVars, z
  <2>2. LaneOrdered(inq[s][x], "reading", 0, Append(outq[s][z], hold[s][x]), got[s][z], sent[s][x])
    BY <1>1, <1>2, <1>5, LaneSteps DEF PumpWrites
  <2>3. Lane(s, x)'
    BY ZenonT(60), <1>3, <2>1, <2>2 DEF Lane, z
  <2>4. ASSUME NEW t \in Streams, NEW y \in Ends, t # s \/ y # x PROVE Lane(t, y)'
    <3>1. Other(y) \in Ends /\ (t # s \/ Other(y) # z)
      BY <1>0, <2>4
    <3>2. QED
      BY ZenonT(60), <1>3, <2>1, <2>4, <3>1, LaneKept
  <2>5. QED
    BY ZenonT(60), <2>3, <2>4
<1>6. CASE PumpFinishes(s, x) \/ PumpResets(s, x) \/ PumpGivesUp(s, x)
  <2>1. UNCHANGED <<inq, outq, hold>>
    BY <1>6 DEF PumpFinishes, PumpResets, PumpGivesUp, closeWritePair, resetPair, inVars, outVars
  <2>2. pump' = [pump EXCEPT ![s][x] = "done"]
    BY <1>6 DEF PumpFinishes, PumpResets, PumpGivesUp
  <2>3. /\ pump'[s][x] = "done"
        /\ \A t \in Streams, y \in Ends : t # s \/ y # x => pump'[t][y] = pump[t][y]
    BY <2>2 DEF TypeOK, PerLeg
  <2>4. LaneOrdered(inq[s][x], "done", hold[s][x], outq[s][z], got[s][z], sent[s][x])
    BY ONLY ZenonT(60), <1>1, <1>2, LaneEnds
  <2>5. Lane(s, x)'
    BY ZenonT(60), <1>3, <2>1, <2>3, <2>4 DEF Lane, z
  <2>6. QED
    BY ZenonT(60), <1>3, <2>1, <2>3, <2>5, LaneKept
<1>7. QED
  BY <1>4, <1>5, <1>6 DEF PumpStep

\* The pumps of a stream start.
LEMMA StartKeepsOrder ==
  ASSUME TypeOK, \A t \in Streams, y \in Ends : Lane(t, y), PumpsStarted, NEW s \in Streams, StartPumps(s)
  PROVE  \A t \in Streams, y \in Ends : Lane(t, y)'
<1> SUFFICES ASSUME NEW t \in Streams, NEW y \in Ends PROVE Lane(t, y)'
  OBVIOUS
<1>1. UNCHANGED <<inq, outq, hold, got, sent>>
  BY DEF StartPumps, inVars, outVars, appVars
<1>2. pump'[t][y] = IF t = s THEN "reading" ELSE pump[t][y]
  BY DEF StartPumps, TypeOK, PerLeg
<1>3. CASE t = s
  <2>1. pump[s][y] = "none"
    BY DEF StartPumps, PumpsStarted
  <2>2. LaneOrdered(inq[s][y], pump[s][y], hold[s][y], outq[s][Other(y)], got[s][Other(y)], sent[s][y])
    BY DEF Lane
  <2>3. LaneOrdered(inq[s][y], "reading", hold[s][y], outq[s][Other(y)], got[s][Other(y)], sent[s][y])
    BY <2>1, <2>2, LaneSteps, LaneTypes, OtherEnd
  <2>4. QED
    BY ZenonT(60), <1>1, <1>2, <1>3, <2>3 DEF Lane
<1>4. CASE t # s
  BY ZenonT(60), <1>1, <1>2, <1>4, LaneKept
<1>5. QED
  BY <1>3, <1>4

\* What the remaining steps leave alone.
LEMMA Frames ==
  ASSUME NEW s \in Streams
  PROVE  /\ OpenStream(s) \/ AcceptStream(s) \/ OpenOther(s) \/ OpenFails(s) =>
              UNCHANGED <<inq, pump, hold, outq, got, sent, inEnd, inStop, outStop, verdict>>
         /\ \A x \in Ends : CloseWrite(s, x) \/ Reset(s, x) \/ RecvEnds(s, x) =>
              UNCHANGED <<inq, pump, hold, outq, got, sent, outEnd, inStop>>
         /\ \A x \in Ends : SweepOne(s, x) =>
              UNCHANGED <<inq, pump, hold, outq, got, sent, inEnd, inStop, outStop, verdict>>
<1>1. OpenStream(s) \/ AcceptStream(s) \/ OpenOther(s) \/ OpenFails(s) =>
        UNCHANGED <<inq, pump, hold, outq, got, sent, inEnd, inStop, outStop, verdict>>
  BY DEF OpenStream, AcceptStream, OpenOther, OpenFails, closeWritePair, inVars, outVars, pumpVars, appVars
<1>2. \A x \in Ends : CloseWrite(s, x) \/ Reset(s, x) \/ RecvEnds(s, x) =>
        UNCHANGED <<inq, pump, hold, outq, got, sent, outEnd, inStop>>
  BY DEF CloseWrite, Reset, RecvEnds, inVars, outVars, pumpVars, appVars
<1>3. \A x \in Ends : SweepOne(s, x) =>
        UNCHANGED <<inq, pump, hold, outq, got, sent, inEnd, inStop, outStop, verdict>>
  BY DEF SweepOne, closeWritePair, inVars, appVars
<1>4. QED
  BY <1>1, <1>2, <1>3

\* What the end of a connection and the steps of the teardown leave alone.
LEMMA BridgeFrames ==
  /\ \A x \in Ends : ClosePrimary(x) \/ Disconnect(x) \/ AcceptFails(x) =>
       UNCHANGED <<inVars, outVars, pumpVars, appVars, phase>>
  /\ BridgeNotices \/ SweepBegins \/ CloseClient \/ CloseBackend \/ BridgeReturns =>
       UNCHANGED <<inVars, outVars, pumpVars, appVars, phase>>
<1>1. \A x \in Ends : ClosePrimary(x) \/ Disconnect(x) \/ AcceptFails(x) =>
        UNCHANGED <<inVars, outVars, pumpVars, appVars, phase>>
  BY DEF ClosePrimary, Disconnect, AcceptFails, bridgeVars
<1>2. BridgeNotices \/ SweepBegins \/ CloseClient \/ CloseBackend \/ BridgeReturns =>
        UNCHANGED <<inVars, outVars, pumpVars, appVars, phase>>
  BY DEF BridgeNotices, SweepBegins, CloseClient, CloseBackend, BridgeReturns
<1>3. QED
  BY <1>1, <1>2

\* The pumps keep the order, in every step.
LEMMA NextOrdered ==
  ASSUME TypeOK, PumpsStarted, PipelineOrdered, [Next]_vars
  PROVE  PipelineOrdered'
<1>0. \A t \in Streams, y \in Ends : Lane(t, y)
  BY DEF PipelineOrdered, Lane
<1> SUFFICES \A t \in Streams, y \in Ends : Lane(t, y)'
  BY DEF PipelineOrdered, Lane
<1>1. ASSUME UNCHANGED <<inq, pump, hold, outq, got, sent>>
      PROVE  \A t \in Streams, y \in Ends : Lane(t, y)'
  BY ZenonT(60), <1>0, <1>1, LaneKept
<1>2. ASSUME NEW s \in Streams, OpenStream(s) \/ LoopStep(s)
      PROVE  \A t \in Streams, y \in Ends : Lane(t, y)'
  <2>1. CASE StartPumps(s)
    BY <1>0, <2>1, StartKeepsOrder
  <2>2. CASE OpenStream(s) \/ AcceptStream(s) \/ OpenOther(s) \/ OpenFails(s)
    BY <1>1, <2>2, Frames
  <2>3. QED
    BY <1>2, <2>1, <2>2 DEF LoopStep
<1>3. ASSUME NEW s \in Streams, NEW x \in Ends, AppStep(s, x)
      PROVE  \A t \in Streams, y \in Ends : Lane(t, y)'
  <2>1. CASE Send(s, x)
    BY <1>0, <2>1, SendKeepsOrder
  <2>2. CASE Recv(s, x)
    BY <1>0, <2>2, RecvKeepsOrder
  <2>3. CASE CloseWrite(s, x) \/ Reset(s, x) \/ RecvEnds(s, x)
    BY <1>1, <2>3, Frames
  <2>4. QED
    BY <1>3, <2>1, <2>2, <2>3 DEF AppStep
<1>4. ASSUME NEW s \in Streams, NEW x \in Ends, PumpStep(s, x)
      PROVE  \A t \in Streams, y \in Ends : Lane(t, y)'
  BY <1>0, <1>4, PumpKeepsOrder
<1>5. ASSUME NEW s \in Streams, NEW x \in Ends, SweepOne(s, x)
      PROVE  \A t \in Streams, y \in Ends : Lane(t, y)'
  BY <1>1, <1>5, Frames
<1>6. ASSUME UNCHANGED <<inVars, outVars, pumpVars, appVars, phase>>
      PROVE  \A t \in Streams, y \in Ends : Lane(t, y)'
  BY <1>1, <1>6 DEF inVars, outVars, pumpVars, appVars
<1>7. CASE UNCHANGED vars
  BY <1>6, <1>7 DEF vars, bridgeVars
<1>8. QED
  BY <1>2, <1>3, <1>4, <1>5, <1>6, <1>7, BridgeFrames DEF Next, CloserStep

-----------------------------------------------------------------------------
\* Pumps run only for streams that were bridged.
LEMMA NextStarted ==
  ASSUME TypeOK, PumpsStarted, [Next]_vars
  PROVE  PumpsStarted'
<1> SUFFICES ASSUME NEW t \in Streams, NEW y \in Ends
             PROVE  pump'[t][y] = "none" <=> phase'[t] # "bridged"
  BY DEF PumpsStarted
<1>0. pump[t][y] = "none" <=> phase[t] # "bridged"
  BY DEF PumpsStarted
<1>1. ASSUME NEW s \in Streams, OpenStream(s) \/ LoopStep(s)
      PROVE  pump'[t][y] = "none" <=> phase'[t] # "bridged"
  <2>1. CASE StartPumps(s)
    BY <1>0, <2>1 DEF StartPumps, TypeOK, PerLeg
  <2>2. CASE OpenStream(s) \/ AcceptStream(s) \/ OpenOther(s) \/ OpenFails(s)
    <3>1. pump' = pump
      BY <2>2, Frames
    <3>2. PICK ph \in {"opened", "accepted", "opening", "refused"} : phase' = [phase EXCEPT ![s] = ph]
      BY <2>2 DEF OpenStream, AcceptStream, OpenOther, OpenFails
    <3>3. phase[s] # "bridged"
      BY <2>2 DEF OpenStream, AcceptStream, OpenOther, OpenFails
    <3>4. QED
      BY <1>0, <3>1, <3>2, <3>3 DEF TypeOK
  <2>3. QED
    BY <1>1, <2>1, <2>2 DEF LoopStep
<1>2. ASSUME NEW s \in Streams, NEW x \in Ends, AppStep(s, x)
      PROVE  pump'[t][y] = "none" <=> phase'[t] # "bridged"
  <2>1. UNCHANGED <<pump, phase>>
    BY <1>2 DEF AppStep, Send, CloseWrite, Reset, Recv, RecvEnds, pumpVars, bridgeVars
  <2>2. QED
    BY <1>0, <2>1
<1>3. ASSUME NEW s \in Streams, NEW x \in Ends, PumpStep(s, x)
      PROVE  pump'[t][y] = "none" <=> phase'[t] # "bridged"
  <2>1. phase' = phase
    BY <1>3 DEF PumpStep, PumpReads, PumpFinishes, PumpResets, PumpWrites, PumpGivesUp, bridgeVars
  <2>2. pump[s][x] \in {"reading", "writing"}
    BY <1>3 DEF PumpStep, PumpReads, PumpFinishes, PumpResets, PumpWrites, PumpGivesUp
  <2>3. PICK p \in {"reading", "writing", "done"} : pump' = [pump EXCEPT ![s][x] = p]
    BY <1>3 DEF PumpStep, PumpReads, PumpFinishes, PumpResets, PumpWrites, PumpGivesUp
  <2>4. QED
    BY ZenonT(60), <1>0, <2>1, <2>2, <2>3 DEF TypeOK, PerLeg
<1>4. ASSUME NEW s \in Streams, NEW x \in Ends, SweepOne(s, x)
      PROVE  pump'[t][y] = "none" <=> phase'[t] # "bridged"
  BY <1>0, <1>4 DEF SweepOne
<1>5. ASSUME UNCHANGED <<inVars, outVars, pumpVars, appVars, phase>>
      PROVE  pump'[t][y] = "none" <=> phase'[t] # "bridged"
  BY <1>0, <1>5 DEF pumpVars
<1>6. CASE UNCHANGED vars
  BY SMTT(60), Z3T(60), <1>5, <1>6 DEF vars, bridgeVars
<1>7. QED
  BY <1>1, <1>2, <1>3, <1>4, <1>5, <1>6, BridgeFrames DEF Next, CloserStep

\* A reset on a leg goes back to a Reset of one of the ends.
LEMMA NextCause ==
  ASSUME TypeOK, ResetHasCause, [Next]_vars
  PROVE  ResetHasCause'
<1> DEFINE Cause(t) == \E y \in Ends : <<t, y>> \in outStop
           Broke(t, z) == outEnd[t][z] = "reset" \/ <<t, z>> \in inStop \/ inEnd[t][z] = "reset"
<1> SUFFICES ASSUME NEW t \in Streams, NEW z \in Ends, Broke(t, z)'
             PROVE  Cause(t)'
  BY ZenonT(60) DEF ResetHasCause
<1>0. \A y \in Ends : Broke(t, y) => Cause(t)
  BY ZenonT(60) DEF ResetHasCause
<1>1. outStop \subseteq outStop'
  <2>1. ASSUME NEW s \in Streams, OpenStream(s) \/ LoopStep(s) PROVE outStop' = outStop
    BY <2>1 DEF LoopStep, OpenStream, AcceptStream, OpenOther, OpenFails, StartPumps, closeWritePair, outVars
  <2>2. ASSUME NEW s \in Streams, NEW x \in Ends, AppStep(s, x) PROVE outStop \subseteq outStop'
    BY <2>2 DEF AppStep, Send, CloseWrite, Reset, Recv, RecvEnds, outVars
  <2>3. ASSUME NEW s \in Streams, NEW x \in Ends, PumpStep(s, x) PROVE outStop' = outStop
    BY SMTT(60), Z3T(60), <2>3 DEF PumpStep, PumpReads, PumpFinishes, PumpResets, PumpWrites, PumpGivesUp, outVars,
                closeWritePair, resetPair
  <2>4. ASSUME NEW s \in Streams, NEW x \in Ends, SweepOne(s, x) PROVE outStop' = outStop
    BY ZenonT(60), <2>4, Frames
  <2>5. ASSUME UNCHANGED <<inVars, outVars, pumpVars, appVars, phase>> PROVE outStop' = outStop
    BY <2>5 DEF outVars
  <2>6. CASE UNCHANGED vars
    BY <2>6 DEF vars, outVars
  <2>7. QED
    BY ZenonT(60), <2>1, <2>2, <2>3, <2>4, <2>5, <2>6, BridgeFrames DEF Next, CloserStep
<1>2. Cause(t) => Cause(t)'
  BY ZenonT(60), <1>1
<1>3. SUFFICES Broke(t, z) \/ Cause(t) \/ Cause(t)'
  BY <1>0, <1>2
<1>4. ASSUME NEW s \in Streams, NEW x \in Ends, closeWritePair(s, x)
      PROVE  Broke(t, z)
  <2>1. UNCHANGED <<inStop, inEnd>>
    BY <1>4 DEF closeWritePair, inVars
  <2>2. outEnd' = [outEnd EXCEPT ![s][x] = IF outEnd[s][x] = "open" THEN "fin" ELSE outEnd[s][x]]
    BY <1>4 DEF closeWritePair, CloseLeg
  <2>3. outEnd'[t][z] = "reset" => outEnd[t][z] = "reset"
    BY <2>2 DEF TypeOK, PerLeg
  <2>4. QED
    BY <2>1, <2>3
<1>5. ASSUME NEW s \in Streams, OpenStream(s) \/ LoopStep(s) PROVE Broke(t, z)
  <2>1. CASE OpenFails(s)
    <3>1. Opener[s] \in Ends /\ closeWritePair(s, Opener[s])
      BY <2>1, BridgeAssumption DEF OpenFails
    <3>2. QED
      BY <1>4, <3>1
  <2>2. CASE OpenStream(s) \/ AcceptStream(s) \/ OpenOther(s) \/ StartPumps(s)
    BY SMTT(60), Z3T(60), <2>2 DEF OpenStream, AcceptStream, OpenOther, StartPumps, inVars, outVars
  <2>3. QED
    BY <1>5, <2>1, <2>2 DEF LoopStep
<1>6. ASSUME NEW s \in Streams, NEW x \in Ends, AppStep(s, x) PROVE Broke(t, z) \/ Cause(t)'
  <2>1. CASE Send(s, x) \/ Recv(s, x) \/ RecvEnds(s, x)
    BY <2>1 DEF Send, Recv, RecvEnds, inVars, outVars
  <2>2. CASE CloseWrite(s, x)
    <3>1. UNCHANGED <<inStop, outEnd>> /\ inEnd' = [inEnd EXCEPT ![s][x] = "fin"]
      BY <2>2 DEF CloseWrite, outVars
    <3>2. inEnd'[t][z] = "reset" => inEnd[t][z] = "reset"
      BY <3>1 DEF TypeOK, PerLeg
    <3>3. QED
      BY <3>1, <3>2
  <2>3. CASE Reset(s, x)
    <3>1. CASE t = s
      BY <2>3, <3>1 DEF Reset
    <3>2. CASE t # s
      <4>1. PICK e : inEnd' = [inEnd EXCEPT ![s][x] = e]
        BY ZenonT(60), <2>3 DEF Reset
      <4>2. inEnd'[t] = inEnd[t] /\ UNCHANGED <<inStop, outEnd>>
        BY SMTT(60), Z3T(60), <2>3, <3>2, <4>1 DEF TypeOK, PerLeg, Reset
      <4>3. QED
        BY <4>2
    <3>3. QED
      BY <3>1, <3>2
  <2>4. QED
    BY ZenonT(60), <1>6, <2>1, <2>2, <2>3 DEF AppStep
<1>7. ASSUME NEW s \in Streams, NEW x \in Ends, PumpStep(s, x) PROVE Broke(t, z) \/ Cause(t)
  <2>0. Other(x) \in Ends
    BY OtherEnd
  <2>1. CASE PumpFinishes(s, x)
    BY <1>4, <2>0, <2>1 DEF PumpFinishes
  <2>2. CASE PumpResets(s, x)
    <3>1. CASE t = s
      <4>1. Broke(s, x)
        BY <2>2 DEF PumpResets
      <4>2. QED
        BY <1>0, <3>1, <4>1
    <3>2. CASE t # s
      <4>1. PICK e : outEnd' = [outEnd EXCEPT ![s][Other(x)] = e]
        BY ZenonT(60), <2>2 DEF PumpResets, resetPair
      <4>2. /\ outEnd'[t] = outEnd[t] /\ inEnd' = inEnd
            /\ inStop' = inStop \cup {<<s, Other(x)>>}
        BY <2>2, <3>2, <4>1 DEF TypeOK, PerLeg, PumpResets, resetPair
      <4>3. QED
        BY <3>2, <4>2
    <3>3. QED
      BY <3>1, <3>2
  <2>3. CASE PumpReads(s, x) \/ PumpWrites(s, x) \/ PumpGivesUp(s, x)
    BY SMTT(60), Z3T(60), <2>3 DEF PumpReads, PumpWrites, PumpGivesUp, inVars, outVars
  <2>4. QED
    BY ZenonT(60), <1>7, <2>1, <2>2, <2>3 DEF PumpStep
<1>8. ASSUME NEW s \in Streams, NEW x \in Ends, SweepOne(s, x) PROVE Broke(t, z)
  BY <1>4, <1>8 DEF SweepOne
<1>9. ASSUME UNCHANGED <<inVars, outVars, pumpVars, appVars, phase>> PROVE Broke(t, z)
  BY SMTT(60), Z3T(60), <1>9 DEF inVars, outVars
<1>10. CASE UNCHANGED vars
  BY ZenonT(60), <1>9, <1>10 DEF vars, bridgeVars
<1>11. QED
  BY ZenonT(60), <1>5, <1>6, <1>7, <1>8, <1>9, <1>10, BridgeFrames DEF Next, CloserStep

-----------------------------------------------------------------------------
\* What the steps do to the connections, the stage and the phases: a stream
\* that is not carried stays so.
LEMMA CutSteps ==
  ASSUME TypeOK
  PROVE  /\ \A s \in Streams : OpenStream(s) \/ LoopStep(s) =>
              /\ UNCHANGED <<conn, stage>>
              /\ \A t \in Streams : phase[t] = "refused" => phase'[t] = "refused"
         /\ \A s \in Streams, x \in Ends : AppStep(s, x) \/ PumpStep(s, x) \/ SweepOne(s, x) =>
              UNCHANGED <<conn, stage, phase>>
         /\ \A x \in Ends : ClosePrimary(x) \/ Disconnect(x) \/ AcceptFails(x) =>
              /\ UNCHANGED <<stage, phase>>
              /\ \A y \in Ends : conn[y] = "gone" => conn'[y] = "gone"
         /\ BridgeNotices \/ SweepBegins \/ CloseClient \/ CloseBackend \/ BridgeReturns =>
              stage' # "run" /\ phase' = phase
<1>1. ASSUME NEW s \in Streams, OpenStream(s) \/ LoopStep(s)
      PROVE  /\ UNCHANGED <<conn, stage>>
             /\ \A t \in Streams : phase[t] = "refused" => phase'[t] = "refused"
  <2>1. UNCHANGED <<conn, stage>>
    BY SMTT(60), Z3T(60), <1>1 DEF LoopStep, OpenStream, AcceptStream, OpenOther, OpenFails, StartPumps, connVars
  <2>2. PICK p : phase' = [phase EXCEPT ![s] = p]
    BY ZenonT(60), <1>1 DEF LoopStep, OpenStream, AcceptStream, OpenOther, OpenFails, StartPumps
  <2>3. phase[s] # "refused"
    BY ZenonT(60), <1>1 DEF LoopStep, OpenStream, AcceptStream, OpenOther, OpenFails, StartPumps
  <2>4. QED
    BY SMTT(60), Z3T(60), <2>1, <2>2, <2>3 DEF TypeOK
<1>2. ASSUME NEW s \in Streams, NEW x \in Ends, AppStep(s, x) PROVE UNCHANGED <<conn, stage, phase>>
  BY <1>2 DEF AppStep, Send, CloseWrite, Reset, Recv, RecvEnds, connVars, bridgeVars
<1>3. ASSUME NEW s \in Streams, NEW x \in Ends, PumpStep(s, x) PROVE UNCHANGED <<conn, stage, phase>>
  BY <1>3 DEF PumpStep, PumpReads, PumpFinishes, PumpResets, PumpWrites, PumpGivesUp, connVars, bridgeVars
<1>4. ASSUME NEW s \in Streams, NEW x \in Ends, SweepOne(s, x) PROVE UNCHANGED <<conn, stage, phase>>
  BY <1>4 DEF SweepOne, connVars
<1>5. ASSUME NEW x \in Ends, ClosePrimary(x) \/ Disconnect(x) \/ AcceptFails(x)
      PROVE  /\ UNCHANGED <<stage, phase>>
             /\ \A y \in Ends : conn[y] = "gone" => conn'[y] = "gone"
  <2>1. UNCHANGED <<stage, phase>>
    BY <1>5 DEF ClosePrimary, Disconnect, AcceptFails, bridgeVars
  <2>2. conn' = conn \/ conn' = [conn EXCEPT ![x] = "gone"]
    BY <1>5 DEF ClosePrimary, Disconnect, AcceptFails, connVars
  <2>3. QED
    BY <2>1, <2>2 DEF TypeOK
<1>6. ASSUME BridgeNotices \/ SweepBegins \/ CloseClient \/ CloseBackend \/ BridgeReturns
      PROVE  stage' # "run" /\ phase' = phase
  BY <1>6 DEF BridgeNotices, SweepBegins, CloseClient, CloseBackend, BridgeReturns
<1>7. QED
  BY SMTT(60), Z3T(60), <1>1, <1>2, <1>3, <1>4, <1>5, <1>6

\* Once the bridge does not carry a stream it never does again.
LEMMA CutStays ==
  ASSUME TypeOK, [Next]_vars
  PROVE  NotCarried \subseteq NotCarried'
<1>0. ASSUME stage # "run" => stage' # "run",
             \A y \in Ends : conn[y] = "gone" => conn'[y] = "gone",
             \A t \in Streams : phase[t] = "refused" => phase'[t] = "refused"
      PROVE  NotCarried \subseteq NotCarried'
  BY ZenonT(60), <1>0 DEF NotCarried, Broken
<1>1. ASSUME stage' # "run", phase' = phase
      PROVE  NotCarried \subseteq NotCarried'
  BY ZenonT(60), <1>1 DEF NotCarried, Broken
<1>2. ASSUME UNCHANGED <<conn, stage, phase>>
      PROVE  NotCarried \subseteq NotCarried'
  BY <1>0, <1>2
<1>3. CASE UNCHANGED vars
  BY <1>2, <1>3 DEF vars, connVars, bridgeVars
<1>4. QED
  BY <1>0, <1>1, <1>2, <1>3, CutSteps DEF Next, CloserStep

\* A FIN of the relay in the direction from x.
Fin(s, x) ==
  outEnd[s][Other(x)] = "fin" =>
    /\ pump[s][x] = "done" /\ inEnd[s][x] = "fin"
    /\ got[s][Other(x)] + Len(outq[s][Other(x)]) = sent[s][x]

\* A step that leaves a direction alone keeps what its FIN stands for.
LEMMA FinKept ==
  ASSUME NEW s, NEW x, Fin(s, x),
         outEnd'[s][Other(x)] = outEnd[s][Other(x)], pump'[s][x] = pump[s][x],
         inEnd'[s][x] = inEnd[s][x], got'[s][Other(x)] = got[s][Other(x)],
         outq'[s][Other(x)] = outq[s][Other(x)], sent'[s][x] = sent[s][x]
  PROVE  Fin(s, x)'
BY ZenonT(60) DEF Fin

\* A change of another lane.
LEMMA OffLane ==
  ASSUME NEW T, NEW f \in PerLeg(T), NEW s \in Streams, NEW t \in Streams, NEW x \in Ends, NEW y \in Ends,
         t # s \/ y # x, NEW e
  PROVE  [f EXCEPT ![s][x] = e][t][y] = f[t][y]
BY DEF PerLeg

\* The ends' steps: what is finished stays finished.
LEMMA AppKeepsFin ==
  ASSUME TypeOK, PipelineOrdered, NEW s \in Streams, NEW x \in Ends, AppStep(s, x),
         NEW t \in Streams, NEW y \in Ends, Fin(t, y)
  PROVE  Fin(t, y)'
<1>0. Other(y) \in Ends /\ Other(Other(y)) = y
  BY OtherEnd
<1>1. CASE Send(s, x)
  <2>1. UNCHANGED <<outEnd, pump, inEnd, got, outq>>
    BY <1>1 DEF Send, outVars, pumpVars
  <2>2. inEnd[s][x] = "open" /\ (t # s \/ y # x => sent'[t][y] = sent[t][y])
    BY SMTT(60), Z3T(60), <1>1 DEF Send, TypeOK, PerLeg
  <2>3. CASE t = s /\ y = x
    BY ZenonT(60), <2>1, <2>2, <2>3 DEF Fin
  <2>4. CASE t # s \/ y # x
    BY ZenonT(60), <2>1, <2>2, <2>4, FinKept
  <2>5. QED
    BY <2>3, <2>4
<1>2. CASE CloseWrite(s, x) \/ Reset(s, x)
  <2>1. UNCHANGED <<outEnd, pump, got, outq, sent>>
    BY <1>2, Frames
  <2>2. PICK e : /\ inEnd' = [inEnd EXCEPT ![s][x] = e]
                 /\ inEnd[s][x] = "fin" /\ pump[s][x] = "done" => e = "fin"
    BY <1>2 DEF CloseWrite, Reset, AfterCancel
  <2>3. /\ inEnd'[s][x] = e
        /\ t # s \/ y # x => inEnd'[t][y] = inEnd[t][y]
    BY <2>2 DEF TypeOK, PerLeg
  <2>4. CASE t = s /\ y = x
    BY ZenonT(60), <2>1, <2>2, <2>3, <2>4 DEF Fin
  <2>5. CASE t # s \/ y # x
    BY ZenonT(60), <2>1, <2>3, <2>5, FinKept
  <2>6. QED
    BY <2>4, <2>5
<1>3. CASE Recv(s, x)
  <2>1. UNCHANGED <<outEnd, pump, inEnd, sent>>
    BY <1>3 DEF Recv, inVars, pumpVars
  <2>2. /\ got'[s][x] = Head(outq[s][x]) /\ outq'[s][x] = Tail(outq[s][x])
        /\ \A z \in Ends : t # s \/ z # x => got'[t][z] = got[t][z] /\ outq'[t][z] = outq[t][z]
    BY ZenonT(60), <1>3 DEF Recv, TypeOK, PerLeg
  <2>3. CASE t = s /\ Other(y) = x
    <3>1. Head(outq[s][x]) = got[s][x] + 1
      BY ZenonT(60), <1>3, RecvKeepsOrder DEF PipelineOrdered, Lane
    <3>2. outq[s][x] \in Seq(Nat) /\ outq[s][x] # <<>> /\ got[s][x] \in Nat
      BY <1>3, LaneTypes DEF Recv
    <3>3. Len(Tail(outq[s][x])) = Len(outq[s][x]) - 1 /\ Len(outq[s][x]) \in Nat
      BY <3>2, QueueFacts
    <3>4. PICK g, n \in Nat : g = got[s][x] /\ n = Len(outq[s][x])
      BY <3>2, <3>3
    <3>a. got'[s][x] = g + 1 /\ Len(outq'[s][x]) = n - 1
      BY <2>2, <3>1, <3>3, <3>4
    <3>5. got'[s][x] + Len(outq'[s][x]) = got[s][x] + Len(outq[s][x])
      <4>1. (g + 1) + (n - 1) = g + n
        OBVIOUS
      <4>2. QED
        BY ZenonT(60), <3>a, <3>4, <4>1
    <3>6. QED
      BY ZenonT(60), <2>1, <2>3, <3>5 DEF Fin
  <2>4. CASE t # s \/ Other(y) # x
    BY ZenonT(60), <1>0, <2>1, <2>2, <2>4, FinKept
  <2>5. QED
    BY <2>3, <2>4
<1>4. CASE RecvEnds(s, x)
  <2>1. UNCHANGED <<outEnd, pump, inEnd, got, outq, sent>>
    BY <1>4 DEF RecvEnds, inVars, outVars, pumpVars
  <2>2. QED
    BY ZenonT(60), <2>1, FinKept
<1>5. QED
  BY <1>1, <1>2, <1>3, <1>4 DEF AppStep

\* The pumps' steps: a pump forwards a FIN when it has forwarded everything
\* before it.
LEMMA PumpKeepsFin ==
  ASSUME TypeOK, PipelineOrdered, NEW s \in Streams, NEW x \in Ends, PumpStep(s, x),
         deadline = {}, \A z \in Ends : conn[z] = "up",
         NEW t \in Streams, NEW y \in Ends, Fin(t, y)
  PROVE  Fin(t, y)'
<1>0. Other(y) \in Ends /\ (y # x => Other(y) # Other(x)) /\ Other(x) \in Ends
  BY SMTT(60), Z3T(60), OtherEnd
<1>1. UNCHANGED <<inEnd, got, sent>>
  BY DEF PumpStep, PumpReads, PumpFinishes, PumpResets, PumpWrites, PumpGivesUp, inVars, appVars,
         closeWritePair, resetPair
<1>2. PICK p : pump' = [pump EXCEPT ![s][x] = p]
  BY SMTT(60), Z3T(60) DEF PumpStep, PumpReads, PumpFinishes, PumpResets, PumpWrites, PumpGivesUp
<1>3. pump'[s][x] = p /\ (t # s \/ y # x => pump'[t][y] = pump[t][y]) /\ pump[s][x] # "done"
  BY ZenonT(60), <1>2 DEF TypeOK, PerLeg, PumpStep, PumpReads, PumpFinishes, PumpResets, PumpWrites, PumpGivesUp
<1>4. CASE t # s \/ y # x
  <2>1. \/ outEnd' = outEnd
        \/ \E e : outEnd' = [outEnd EXCEPT ![s][Other(x)] = e]
    BY SMTT(60), Z3T(60) DEF PumpStep, PumpReads, PumpFinishes, PumpResets, PumpWrites, PumpGivesUp, outVars,
           closeWritePair, resetPair, CloseLeg
  <2>2. \/ outq' = outq
        \/ \E q : outq' = [outq EXCEPT ![s][Other(x)] = q]
    BY DEF PumpStep, PumpReads, PumpFinishes, PumpResets, PumpWrites, PumpGivesUp, outVars,
           closeWritePair, resetPair
  <2>a. t # s \/ Other(y) # Other(x)
    BY <1>0, <1>4
  <2>3. outEnd'[t][Other(y)] = outEnd[t][Other(y)]
    <3>1. CASE \E e : outEnd' = [outEnd EXCEPT ![s][Other(x)] = e]
      <4>1. PICK e : outEnd' = [outEnd EXCEPT ![s][Other(x)] = e]
        BY ZenonT(60), <3>1
      <4>2. outEnd \in PerLeg({"open", "fin", "reset"})
        BY DEF TypeOK
      <4>3. QED
        BY ONLY <1>0, <2>a, <4>1, <4>2, OffLane, s \in Streams, t \in Streams
    <3>2. QED
      BY <2>1, <3>1
  <2>4. outq'[t][Other(y)] = outq[t][Other(y)]
    <3>1. CASE \E q : outq' = [outq EXCEPT ![s][Other(x)] = q]
      <4>1. PICK q : outq' = [outq EXCEPT ![s][Other(x)] = q]
        BY ZenonT(60), <3>1
      <4>2. outq \in PerLeg(Seq(Nat))
        BY DEF TypeOK
      <4>3. QED
        BY ONLY <1>0, <2>a, <4>1, <4>2, OffLane, s \in Streams, t \in Streams
    <3>2. QED
      BY <2>2, <3>1
  <2>5. QED
    BY ZenonT(60), <1>1, <1>3, <1>4, <2>3, <2>4, FinKept
<1>5. CASE t = s /\ y = x
  <2>1. outEnd[s][Other(x)] # "fin"
    BY <1>3, <1>5 DEF Fin
  <2>2. CASE PumpReads(s, x) \/ PumpWrites(s, x) \/ PumpGivesUp(s, x)
    <3>1. outEnd' = outEnd
      BY <2>2 DEF PumpReads, PumpWrites, PumpGivesUp, outVars
    <3>2. QED
      BY <1>5, <2>1, <3>1 DEF Fin
  <2>3. CASE PumpResets(s, x)
    <3>1. outEnd' = [outEnd EXCEPT ![s][Other(x)] = "reset"]
      BY <2>1, <2>3 DEF PumpResets, resetPair, AfterCancel
    <3>2. outEnd'[s][Other(x)] = "reset"
      BY <1>0, <3>1 DEF TypeOK, PerLeg
    <3>3. QED
      BY <1>5, <3>2 DEF Fin
  <2>4. CASE PumpFinishes(s, x)
    <3>1. inEnd[s][x] = "fin" /\ inq[s][x] = <<>> /\ pump[s][x] = "reading"
      BY <2>4 DEF PumpFinishes, InputOver
    <3>2. pump'[s][x] = "done" /\ outq' = outq
      BY <1>0, <2>4 DEF PumpFinishes, closeWritePair, TypeOK, PerLeg
    <3>3. sent[s][x] = got[s][Other(x)] + Len(outq[s][Other(x)])
      <4>1. sent[s][x] = got[s][Other(x)] + InFlight(outq[s][Other(x)], "reading") + Len(inq[s][x])
        BY ZenonT(60), <3>1 DEF PipelineOrdered, LaneOrdered
      <4>2. outq[s][Other(x)] \in Seq(Nat) /\ got[s][Other(x)] \in Nat
        BY <1>0, LaneTypes
      <4>3. Len(outq[s][Other(x)]) \in Nat
        BY <4>2, QueueFacts
      <4>4. InFlight(outq[s][Other(x)], "reading") = Len(outq[s][Other(x)])
        BY <4>3 DEF InFlight
      <4>5. Len(inq[s][x]) = 0
        BY <3>1
      <4>6. \A a, b \in Nat : a + b + 0 = a + b
        OBVIOUS
      <4>7. QED
        BY ZenonT(60), <4>1, <4>2, <4>3, <4>4, <4>5, <4>6
    <3>4. QED
      BY ZenonT(60), <1>1, <1>5, <3>1, <3>2, <3>3 DEF Fin
  <2>5. QED
    BY <2>2, <2>3, <2>4 DEF PumpStep
<1>6. QED
  BY <1>4, <1>5

\* Without WebTransport the relay sets no deadline.
LEMMA NextNoDeadlines ==
  ASSUME WebTransport = {}, [Next]_vars
  PROVE  deadline' = deadline
<1>1. ASSUME NEW s, NEW x, closeWritePair(s, x) \/ resetPair(s, x) PROVE deadline' = deadline
  BY <1>1 DEF closeWritePair, resetPair, CloseLeg
<1>2. ASSUME NEW s \in Streams, OpenStream(s) \/ LoopStep(s) PROVE deadline' = deadline
  <2>1. CASE OpenFails(s)
    BY <1>1, <2>1 DEF OpenFails
  <2>2. CASE OpenStream(s) \/ AcceptStream(s) \/ OpenOther(s) \/ StartPumps(s)
    BY <2>2 DEF OpenStream, AcceptStream, OpenOther, StartPumps, pumpVars
  <2>3. QED
    BY <1>2, <2>1, <2>2 DEF LoopStep
<1>3. ASSUME NEW s \in Streams, NEW x \in Ends, AppStep(s, x) PROVE deadline' = deadline
  BY <1>3 DEF AppStep, Send, CloseWrite, Reset, Recv, RecvEnds, pumpVars
<1>4. ASSUME NEW s \in Streams, NEW x \in Ends, PumpStep(s, x) PROVE deadline' = deadline
  <2>1. CASE PumpFinishes(s, x) \/ PumpResets(s, x)
    BY <1>1, <2>1 DEF PumpFinishes, PumpResets
  <2>2. CASE PumpReads(s, x) \/ PumpWrites(s, x) \/ PumpGivesUp(s, x)
    BY <2>2 DEF PumpReads, PumpWrites, PumpGivesUp
  <2>3. QED
    BY <1>4, <2>1, <2>2 DEF PumpStep
<1>5. ASSUME NEW s \in Streams, NEW x \in Ends, SweepOne(s, x) PROVE deadline' = deadline
  BY <1>1, <1>5 DEF SweepOne
<1>6. ASSUME UNCHANGED <<inVars, outVars, pumpVars, appVars, phase>> PROVE deadline' = deadline
  BY <1>6 DEF pumpVars
<1>7. CASE UNCHANGED vars
  BY <1>7 DEF vars, pumpVars
<1>8. QED
  BY <1>2, <1>3, <1>4, <1>5, <1>6, <1>7, BridgeFrames DEF Next, CloserStep

\* A FIN stands for one of the other end, in every step.
LEMMA NextFin ==
  ASSUME TypeOK, PipelineOrdered, PumpsStarted, FinForwarded, deadline = {}, [Next]_vars
  PROVE  FinForwarded'
<1> SUFFICES ASSUME NEW t \in Streams, t \notin NotCarried', NEW y \in Ends
             PROVE  Fin(t, y)'
  BY ZenonT(60) DEF FinForwarded, Fin
<1>0. t \notin NotCarried
  BY CutStays
<1>1. stage = "run" /\ \A z \in Ends : conn[z] = "up"
  BY <1>0 DEF NotCarried, Broken, TypeOK
<1>2. Fin(t, y)
  BY ZenonT(60), <1>0 DEF FinForwarded, Fin
<1>3. ASSUME UNCHANGED <<outEnd, pump, inEnd, got, outq, sent>>
      PROVE  Fin(t, y)'
  BY ZenonT(60), <1>2, <1>3, FinKept
<1>4. ASSUME NEW s \in Streams, OpenStream(s) \/ LoopStep(s)
      PROVE  Fin(t, y)'
  <2>1. CASE OpenStream(s) \/ AcceptStream(s) \/ OpenOther(s)
    <3>1. outEnd' = outEnd
      BY <2>1 DEF OpenStream, AcceptStream, OpenOther, outVars
    <3>2. QED
      BY <1>3, <2>1, <3>1, Frames
  <2>2. CASE OpenFails(s)
    <3>1. phase' = [phase EXCEPT ![s] = "refused"]
      BY SMTT(60), Z3T(60), <2>2 DEF OpenFails
    <3>2. t # s
      BY ZenonT(60), <3>1 DEF NotCarried, TypeOK
    <3>3. PICK e : outEnd' = [outEnd EXCEPT ![s][Opener[s]] = e]
      BY ZenonT(60), <2>2 DEF OpenFails, closeWritePair, CloseLeg
    <3>4. outEnd'[t] = outEnd[t]
      BY <3>2, <3>3 DEF TypeOK, PerLeg
    <3>5. UNCHANGED <<pump, inEnd, got, outq, sent>>
      BY <2>2, Frames
    <3>6. QED
      BY ZenonT(60), <1>2, <3>4, <3>5, FinKept
  <2>3. CASE StartPumps(s)
    <3>1. UNCHANGED <<outEnd, inEnd, got, outq, sent>>
      BY <2>3 DEF StartPumps, inVars, outVars, appVars
    <3>2. CASE t = s
      <4>1. pump[t][y] = "none"
        BY <2>3, <3>2 DEF PumpsStarted, StartPumps
      <4>2. QED
        BY <1>2, <3>1, <4>1 DEF Fin
    <3>3. CASE t # s
      <4>1. pump'[t] = pump[t]
        BY <2>3, <3>3 DEF StartPumps, TypeOK, PerLeg
      <4>2. QED
        BY ZenonT(60), <1>2, <3>1, <4>1, FinKept
    <3>4. QED
      BY <3>2, <3>3
  <2>4. QED
    BY <1>4, <2>1, <2>2, <2>3 DEF LoopStep
<1>5. ASSUME NEW s \in Streams, NEW x \in Ends, AppStep(s, x) PROVE Fin(t, y)'
  BY <1>2, <1>5, AppKeepsFin
<1>6. ASSUME NEW s \in Streams, NEW x \in Ends, PumpStep(s, x) PROVE Fin(t, y)'
  BY <1>1, <1>2, <1>6, PumpKeepsFin
<1>7. ASSUME NEW s \in Streams, NEW x \in Ends, SweepOne(s, x) PROVE FALSE
  BY <1>1, <1>7 DEF SweepOne
<1>8. ASSUME UNCHANGED <<inVars, outVars, pumpVars, appVars, phase>> PROVE Fin(t, y)'
  BY <1>3, <1>8 DEF inVars, outVars, pumpVars, appVars
<1>9. CASE UNCHANGED vars
  BY <1>8, <1>9 DEF vars, bridgeVars
<1>10. QED
  BY <1>4, <1>5, <1>6, <1>7, <1>8, <1>9, BridgeFrames DEF Next, CloserStep

-----------------------------------------------------------------------------
(* The bridge's invariants.                                                *)

\* Initially nothing is on a leg, and the invariants of the bridge hold.
LEMMA InitLegs == Init => TypeOK /\ PipelineOrdered /\ FinForwarded /\ ResetHasCause /\ PumpsStarted
<1> SUFFICES ASSUME Init PROVE PipelineOrdered /\ FinForwarded /\ ResetHasCause /\ PumpsStarted
  BY InitType
<1>1. ASSUME NEW s \in Streams, NEW x \in Ends
      PROVE  /\ inq[s][x] = <<>> /\ outq[s][x] = <<>> /\ inEnd[s][x] = "open" /\ outEnd[s][x] = "open"
             /\ pump[s][x] = "none" /\ sent[s][x] = 0 /\ got[s][x] = 0
  BY DEF Init
<1>2. PipelineOrdered
  <2> SUFFICES ASSUME NEW s \in Streams, NEW x \in Ends
               PROVE  LaneOrdered(inq[s][x], pump[s][x], hold[s][x], outq[s][Other(x)], got[s][Other(x)], sent[s][x])
    BY ZenonT(60) DEF PipelineOrdered
  <2>1. inq[s][x] = <<>> /\ outq[s][Other(x)] = <<>> /\ pump[s][x] = "none" /\ got[s][Other(x)] = 0 /\ sent[s][x] = 0
    BY <1>1, OtherEnd
  <2>2. LaneOrdered(<<>>, "none", hold[s][x], <<>>, 0, 0)
    BY DEF LaneOrdered, InFlight, Consecutive
  <2>3. QED
    BY ZenonT(60), <2>1, <2>2
<1>3. FinForwarded
  BY <1>1, OtherEnd DEF FinForwarded
<1>4. ResetHasCause
  BY <1>1 DEF ResetHasCause, Init
<1>5. PumpsStarted
  BY <1>1 DEF PumpsStarted, Init
<1>6. QED
  BY <1>2, <1>3, <1>4, <1>5

\* Whatever the legs are made of: the messages of a stream are, in order and
\* without a gap, in the halves and the pumps of the bridge, the relay resets
\* a leg only after one of the ends has reset the stream, and pumps run only
\* for bridged streams (bridgeStream, resetPair).
THEOREM BridgeKeepsOrder == Spec => [](TypeOK /\ PipelineOrdered /\ ResetHasCause /\ PumpsStarted)
<1> DEFINE I == TypeOK /\ PipelineOrdered /\ ResetHasCause /\ PumpsStarted
<1>1. Init => I
  BY InitLegs
<1>2. I /\ [Next]_vars => I'
  BY NextType, NextOrdered, NextCause, NextStarted
<1>3. QED
  BY <1>1, <1>2, PTL DEF Spec

\* Between raw QUIC legs, in addition, a FIN of the relay on one leg stands for
\* a FIN on the other with everything before it forwarded, as long as the
\* bridge carries the stream (bridgeStream, closeWritePair).  Over WebTransport
\* closeWritePair also sets a past read deadline, and this does not hold.
THEOREM BridgeInvariant ==
  ASSUME WebTransport = {}
  PROVE  Spec => []BridgeInv
<1> DEFINE I == BridgeInv /\ deadline = {}
<1>1. Init => I
  BY InitLegs DEF BridgeInv, Init
<1>2. I /\ [Next]_vars => I'
  <2> SUFFICES ASSUME BridgeInv, deadline = {}, [Next]_vars PROVE I'
    OBVIOUS
  <2>1. TypeOK /\ PipelineOrdered /\ FinForwarded /\ ResetHasCause /\ PumpsStarted
    BY DEF BridgeInv
  <2>2. TypeOK' /\ PipelineOrdered' /\ FinForwarded' /\ ResetHasCause' /\ PumpsStarted'
    BY <2>1, NextType, NextOrdered, NextFin, NextCause, NextStarted
  <2>3. deadline' = {}
    BY NextNoDeadlines
  <2>4. QED
    BY <2>2, <2>3 DEF BridgeInv
<1>3. I => BridgeInv
  OBVIOUS
<1>4. QED
  BY <1>1, <1>2, <1>3, PTL DEF Spec

-----------------------------------------------------------------------------
(* A bridged stream is one stream to the two applications.                 *)

\* Initially the bridge looks like an empty StreamPipe.
LEMMA PipeInit == Init => Pipe!Init
<1> SUFFICES ASSUME Init PROVE Pipe!Init
  OBVIOUS
<1>1. NotCarried = {}
  BY DEF Init, NotCarried, Broken
<1>2. QED
  BY <1>1 DEF Init, Pipe!Init

\* A step that the applications do not see at most cuts streams.
LEMMA UnseenStep ==
  ASSUME TypeOK, [Next]_vars, UNCHANGED <<sent, got, inEnd, outStop, verdict>>
  PROVE  Pipe!Cut
<1>1. NotCarried' \in SUBSET Streams /\ NotCarried' = NotCarried \cup NotCarried'
  BY CutStays DEF NotCarried
<1>2. QED
  BY <1>1 DEF Pipe!Cut

\* What the applications do and see, step by step.
LEMMA SeenStep ==
  ASSUME BridgeInv, NEW s \in Streams, NEW x \in Ends, AppStep(s, x)
  PROVE  Pipe!Next
<1> DEFINE z == Other(x)
<1>0. z \in Ends /\ Other(z) = x /\ z # x
  BY OtherEnd
<1>1. TypeOK /\ PipelineOrdered /\ FinForwarded /\ ResetHasCause
  BY DEF BridgeInv
<1>2. NotCarried' = NotCarried
  <2>1. UNCHANGED <<conn, stage, phase>>
    BY <1>1, CutSteps
  <2>2. QED
    BY ZenonT(60), <2>1 DEF NotCarried, Broken
<1> HIDE DEF z
<1>3. ASSUME \/ Pipe!Put(s, x) \/ Pipe!Finish(s, x) \/ Pipe!Abort(s, x)
             \/ Pipe!Deliver(s, z, x) \/ Pipe!End(s, z, x) \/ Pipe!Break(s, z, x)
      PROVE  Pipe!Next
  BY <1>0, <1>3 DEF Pipe!Next
<1>4. CASE Send(s, x)
  BY <1>2, <1>3, <1>4 DEF Send, Pipe!Put, outVars
<1>5. CASE CloseWrite(s, x)
  BY <1>2, <1>3, <1>5 DEF CloseWrite, Pipe!Finish, outVars, appVars
<1>6. CASE Reset(s, x)
  <2>1. PICK e \in AfterCancel(inEnd[s][x], pump[s][x] = "done") : inEnd' = [inEnd EXCEPT ![s][x] = e]
    BY ZenonT(60), <1>6 DEF Reset
  <2>2. e \in {"reset", inEnd[s][x]} \ {"open"}
    BY <2>1 DEF AfterCancel
  <2>3. Pipe!Abort(s, x)
    BY ZenonT(60), <1>2, <1>6, <2>1, <2>2 DEF Reset, Pipe!Abort, appVars
  <2>4. QED
    BY <1>3, <2>3
<1>7. CASE Recv(s, x)
  <2>1. \A t \in Streams, y \in Ends : Lane(t, y)
    BY ZenonT(60), <1>1 DEF PipelineOrdered, Lane
  <2>2. Head(outq[s][x]) = got[s][x] + 1 /\ got[s][x] < sent[s][z]
    BY <1>1, <1>7, <2>1, RecvKeepsOrder DEF z
  <2>3. Pipe!Deliver(s, z, x)
    BY ZenonT(60), <1>2, <1>7, <2>2 DEF Recv, Reading, Pipe!Deliver, inVars
  <2>4. QED
    BY SMTT(60), Z3T(60), <1>3, <2>3
<1>8. CASE RecvEnds(s, x)
  <2>1. verdict[s][x] = "open" /\ UNCHANGED <<sent, got, inEnd, outStop>>
    BY <1>8 DEF RecvEnds, Reading, inVars, outVars
  <2>2. CASE outEnd[s][x] = "fin" /\ outq[s][x] = <<>> /\ verdict' = [verdict EXCEPT ![s][x] = "eof"]
    <3>1. CASE s \in NotCarried
      BY <1>2, <1>3, <2>1, <2>2, <3>1 DEF Pipe!End
    <3>2. CASE s \notin NotCarried
      <4>1. inEnd[s][z] = "fin" /\ got[s][x] + Len(outq[s][x]) = sent[s][z]
        BY <1>0, <1>1, <2>2, <3>2 DEF FinForwarded
      <4>2. got[s][x] \in Nat /\ Len(outq[s][x]) = 0
        BY <1>1, <2>2, LaneTypes
      <4>3. got[s][x] = sent[s][z]
        BY ONLY <4>1, <4>2
      <4>4. QED
        BY <1>2, <1>3, <2>1, <2>2, <4>1, <4>3 DEF Pipe!End
    <3>3. QED
      BY <3>1, <3>2
  <2>3. CASE outEnd[s][x] = "reset" /\ verdict' = [verdict EXCEPT ![s][x] = "reset"]
    <3>1. \E y \in Ends : <<s, y>> \in outStop
      BY <1>1, <2>3 DEF ResetHasCause
    <3>2. {<<s, z>>, <<s, x>>} \cap outStop # {}
      BY <1>0, <3>1, OtherEnd DEF z
    <3>3. QED
      BY <1>2, <1>3, <2>1, <2>3, <3>2 DEF Pipe!Break
  <2>4. QED
    BY <1>8, <2>2, <2>3 DEF RecvEnds
<1>9. QED
  BY <1>4, <1>5, <1>6, <1>7, <1>8 DEF AppStep

\* Every step of the bridge is a step of the abstract stream, or none.
LEMMA PipeStep ==
  ASSUME BridgeInv, [Next]_vars
  PROVE  Pipe!Next
<1>1. TypeOK
  BY DEF BridgeInv
<1>2. ASSUME UNCHANGED <<sent, got, inEnd, outStop, verdict>> PROVE Pipe!Next
  BY <1>1, <1>2, UnseenStep DEF Pipe!Next
<1>3. ASSUME NEW s \in Streams, OpenStream(s) \/ LoopStep(s) PROVE Pipe!Next
  <2>1. CASE StartPumps(s)
    BY <1>2, <2>1 DEF StartPumps, inVars, outVars, appVars
  <2>2. CASE OpenStream(s) \/ AcceptStream(s) \/ OpenOther(s) \/ OpenFails(s)
    BY <1>2, <2>2, Frames
  <2>3. QED
    BY <1>3, <2>1, <2>2 DEF LoopStep
<1>4. ASSUME NEW s \in Streams, NEW x \in Ends, AppStep(s, x) PROVE Pipe!Next
  BY SMTT(60), Z3T(60), <1>4, SeenStep
<1>5. ASSUME NEW s \in Streams, NEW x \in Ends, PumpStep(s, x) PROVE Pipe!Next
  BY ZenonT(60), <1>2, <1>5 DEF PumpStep, PumpReads, PumpFinishes, PumpResets, PumpWrites, PumpGivesUp,
                    closeWritePair, resetPair, inVars, outVars, appVars
<1>6. ASSUME NEW s \in Streams, NEW x \in Ends, SweepOne(s, x) PROVE Pipe!Next
  BY <1>2, <1>6, Frames
<1>7. ASSUME UNCHANGED <<inVars, outVars, pumpVars, appVars, phase>> PROVE Pipe!Next
  BY <1>2, <1>7 DEF inVars, outVars, appVars
<1>8. CASE UNCHANGED vars
  BY <1>7, <1>8 DEF vars, bridgeVars
<1>9. QED
  BY <1>3, <1>4, <1>5, <1>6, <1>7, <1>8, BridgeFrames DEF Next, CloserStep

\* Between raw QUIC legs the bridge implements StreamPipe: to the two
\* applications a bridged stream is in order, with nothing twice, io.EOF only
\* after everything sent before CloseWrite, a stream error only after a Reset,
\* for any number of streams and messages (bridgeStream, closeWritePair,
\* resetPair).
THEOREM BridgeImplementsPipe ==
  ASSUME WebTransport = {}
  PROVE  Spec => PipeImplemented
<1>1. Init => Pipe!Init
  BY PipeInit
<1>2. BridgeInv /\ [Next]_vars => [Pipe!Next]_Pipe!vars
  BY PipeStep
<1>3. Spec => []BridgeInv
  BY SMTT(60), Z3T(60), BridgeInvariant
<1>4. QED
  BY <1>1, <1>2, <1>3, PTL DEF Spec, PipeImplemented, Pipe!Spec

\* The abstract stream's io.EOF is the end of all that was sent.
LEMMA PipeEof ==
  ASSUME TypeOK, EofMeansDone, Pipe!Next
  PROVE  EofMeansDone'
<1> DEFINE Done(t, y) == verdict[t][y] = "eof" => inEnd[t][Other(y)] # "open" /\ got[t][y] = sent[t][Other(y)]
<1> SUFFICES ASSUME NEW t \in Streams, t \notin NotCarried', NEW y \in Ends PROVE Done(t, y)'
  BY ZenonT(60) DEF EofMeansDone
<1>0. Other(y) \in Ends /\ Other(y) # y /\ Other(Other(y)) = y
  BY OtherEnd
<1>1. t \notin NotCarried => Done(t, y)
  BY ZenonT(60) DEF EofMeansDone
<1>2. CASE Pipe!Cut
  <2>1. t \notin NotCarried /\ UNCHANGED <<verdict, inEnd, got, sent>>
    BY SMTT(60), Z3T(60), <1>2 DEF Pipe!Cut
  <2>2. QED
    BY ZenonT(60), <1>1, <2>1
<1>3. ASSUME NEW s \in Streams, NEW x \in Ends, NEW z \in Ends, x # z,
             \/ Pipe!Put(s, x) \/ Pipe!Finish(s, x) \/ Pipe!Abort(s, x)
             \/ Pipe!Deliver(s, x, z) \/ Pipe!End(s, x, z) \/ Pipe!Break(s, x, z)
      PROVE  Done(t, y)'
  <2>0. t \notin NotCarried /\ x = Other(z)
    BY <1>3, OtherEnd DEF Pipe!Put, Pipe!Finish, Pipe!Abort, Pipe!Deliver, Pipe!End, Pipe!Break
  <2>1. CASE Pipe!Put(s, x)
    <3>1. UNCHANGED <<verdict, inEnd, got>> /\ inEnd[s][x] = "open"
      BY <2>1 DEF Pipe!Put
    <3>2. t # s \/ Other(y) # x => sent'[t][Other(y)] = sent[t][Other(y)]
      BY <1>0, <2>1 DEF Pipe!Put, TypeOK, PerLeg
    <3>3. QED
      BY ZenonT(60), <1>1, <2>0, <3>1, <3>2
  <2>2. CASE Pipe!Finish(s, x) \/ Pipe!Abort(s, x)
    <3>1. UNCHANGED <<verdict, got, sent>>
      BY <2>2 DEF Pipe!Finish, Pipe!Abort
    <3>2. PICK e : e # "open" /\ inEnd' = [inEnd EXCEPT ![s][x] = e]
      BY <2>2 DEF Pipe!Finish, Pipe!Abort
    <3>3. inEnd[t][Other(y)] # "open" => inEnd'[t][Other(y)] # "open"
      BY <1>0, <3>2 DEF TypeOK, PerLeg
    <3>4. QED
      BY ZenonT(60), <1>1, <2>0, <3>1, <3>3
  <2>3. CASE Pipe!Deliver(s, x, z)
    <3>1. UNCHANGED <<verdict, inEnd, sent>> /\ verdict[s][z] = "open"
      BY <2>3 DEF Pipe!Deliver
    <3>2. t # s \/ y # z => got'[t][y] = got[t][y]
      BY <2>3 DEF Pipe!Deliver, TypeOK, PerLeg
    <3>3. QED
      BY ZenonT(60), <1>1, <2>0, <3>1, <3>2
  <2>4. CASE Pipe!End(s, x, z)
    <3>1. UNCHANGED <<inEnd, got, sent>>
      BY <2>4 DEF Pipe!End
    <3>2. t # s \/ y # z => verdict'[t][y] = verdict[t][y]
      BY <2>4 DEF Pipe!End, TypeOK, PerLeg
    <3>3. s \in NotCarried \/ (inEnd[s][x] = "fin" /\ got[s][z] = sent[s][x])
      BY <2>4 DEF Pipe!End
    <3>4. CASE t = s /\ y = z
      <4>1. inEnd[t][Other(y)] = "fin" /\ got[t][y] = sent[t][Other(y)]
        BY <2>0, <3>3, <3>4
      <4>2. QED
        BY <3>1, <4>1
    <3>5. CASE t # s \/ y # z
      BY ZenonT(60), <1>1, <2>0, <3>1, <3>2, <3>5
    <3>6. QED
      BY <3>4, <3>5
  <2>5. CASE Pipe!Break(s, x, z)
    <3>1. UNCHANGED <<inEnd, got, sent>>
      BY <2>5 DEF Pipe!Break
    <3>2. verdict'[t][y] = "eof" => verdict[t][y] = "eof"
      BY <2>5 DEF Pipe!Break, TypeOK, PerLeg
    <3>3. QED
      BY ZenonT(60), <1>1, <2>0, <3>1, <3>2
  <2>6. QED
    BY ZenonT(60), <1>3, <2>1, <2>2, <2>3, <2>4, <2>5
<1>4. QED
  BY ZenonT(60), <1>2, <1>3 DEF Pipe!Next

\* Between raw QUIC legs a Recv that has returned io.EOF has returned all that
\* the other end sent before it finished, as long as the bridge carries the
\* stream: WebTransport's deadline is the only way to lose it (closeWritePair).
THEOREM EofMeansDoneOverQuic ==
  ASSUME WebTransport = {}
  PROVE  Spec => []EofMeansDone
<1>1. Init => EofMeansDone
  BY DEF Init, EofMeansDone
<1>2. BridgeInv /\ EofMeansDone /\ [Next]_vars => EofMeansDone'
  BY PipeStep, PipeEof DEF BridgeInv
<1>3. Spec => []BridgeInv
  BY BridgeInvariant
<1>4. QED
  BY <1>1, <1>2, <1>3, PTL DEF Spec

=============================================================================
