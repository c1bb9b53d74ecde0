------------------------ MODULE StreamRendezvousProofs ------------------------
(***************************************************************************)
(* Proofs about StreamRendezvous, for any number of streams, waiters,      *)
(* accept loops, GoAway calls and names and any buffer cap: facts on the   *)
(* slices the queues are kept in, that each action keeps RendezvousInv, so *)
(* that it is inductive, and the safety properties that follow from it.    *)
(*                                                                         *)
(* One lemma per action shows that the action keeps RendezvousInv.  Its    *)
(* first steps deal with the type invariant and, through Frames, with the  *)
(* conjuncts whose variables the action leaves alone; one step follows for *)
(* every conjunct that the action can disturb.                             *)
(***************************************************************************)
EXTENDS StreamRendezvous, TLAPS

\* What CutAt, by which expireBuffered and removePending cut an entry out
\* of a slice, returns.
LEMMA CutAtFacts ==
    ASSUME NEW S, NEW q \in Seq(S), NEW i \in 1..Len(q)
    PROVE  /\ CutAt(q, i) \in Seq(S)
           /\ Len(CutAt(q, i)) = Len(q) - 1
           /\ \A k \in 1..(Len(q) - 1) : CutAt(q, i)[k] = IF k < i THEN q[k] ELSE q[k + 1]
<1> DEFINE a == SubSeq(q, 1, i - 1)
           b == SubSeq(q, i + 1, Len(q))
<1>1. a \in Seq(S) /\ b \in Seq(S)
  OBVIOUS
<1>2. Len(a) = i - 1 /\ Len(b) = Len(q) - i
  OBVIOUS
<1>3. \A k \in 1..(i - 1) : a[k] = q[k]
  OBVIOUS
<1>4. \A k \in 1..(Len(q) - i) : b[k] = q[i + k]
  OBVIOUS
<1>5. CutAt(q, i) = a \o b
  BY DEF CutAt
<1> HIDE DEF a, b
<1>6. /\ a \o b \in Seq(S)
      /\ Len(a \o b) = Len(a) + Len(b)
      /\ \A k \in 1..(Len(a) + Len(b)) : (a \o b)[k] = IF k <= Len(a) THEN a[k] ELSE b[k - Len(a)]
  BY <1>1
<1> DEFINE c == a \o b
<1>7. \A k \in 1..(Len(q) - 1) : c[k] = IF k < i THEN a[k] ELSE b[k - (i - 1)]
  BY SMTT(60), Z3T(60), <1>2, <1>6
<1> HIDE DEF c
<1>8. \A k \in 1..(Len(q) - 1) : k >= i => b[k - (i - 1)] = q[k + 1]
  <2> SUFFICES ASSUME NEW k \in 1..(Len(q) - 1), k >= i
               PROVE  b[k - (i - 1)] = q[k + 1]
    BY ZenonT(60)
  <2>1. k - (i - 1) \in 1..(Len(q) - i) /\ i + (k - (i - 1)) = k + 1
    OBVIOUS
  <2> QED BY <2>1, <1>4
<1>9. \A k \in 1..(Len(q) - 1) : c[k] = IF k < i THEN q[k] ELSE q[k + 1]
  BY SMTT(60), Z3T(60), <1>3, <1>7, <1>8
<1> QED BY SMTT(60), Z3T(60), <1>2, <1>5, <1>6, <1>9 DEF c

\* r holds the entries of q but the one at place i, each once if q does.
EntriesWithout(q, i, r) ==
    /\ \A k \in DOMAIN r : \E j \in DOMAIN q : j # i /\ r[k] = q[j]
    /\ \A j \in DOMAIN q : j # i => \E k \in DOMAIN r : r[k] = q[j]
    /\ (\A j, k \in DOMAIN q : q[j] = q[k] => j = k) =>
          \A j, k \in DOMAIN r : r[j] = r[k] => j = k

\* expireBuffered and removePending lose the entry they look for and no other.
LEMMA CutAtEntries ==
    ASSUME NEW S, NEW q \in Seq(S), NEW i \in DOMAIN q
    PROVE  EntriesWithout(q, i, CutAt(q, i))
<1> DEFINE r == CutAt(q, i)
<1>0. DOMAIN q = 1..Len(q) /\ i \in 1..Len(q) /\ Len(q) \in Nat
  OBVIOUS
<1>1. /\ r \in Seq(S)
      /\ Len(r) = Len(q) - 1
      /\ \A k \in 1..(Len(q) - 1) : r[k] = IF k < i THEN q[k] ELSE q[k + 1]
  BY <1>0, CutAtFacts, Zenon
<1> HIDE DEF r
<1>2. /\ r \in Seq(S)
      /\ DOMAIN r = 1..(Len(q) - 1)
      /\ \A k \in DOMAIN r : r[k] = IF k < i THEN q[k] ELSE q[k + 1]
  BY <1>1
<1>3. \A k \in DOMAIN r : \E j \in DOMAIN q : j # i /\ r[k] = q[j]
  <2> TAKE k \in DOMAIN r
  <2>1. CASE k < i
    BY <2>1, <1>2, <1>0
  <2>2. CASE k >= i
    <3>1. k + 1 \in DOMAIN q /\ k + 1 # i /\ r[k] = q[k + 1]
      BY <2>2, <1>2, <1>0
    <3> QED BY <3>1
  <2> QED BY <2>1, <2>2, <1>2, <1>0
<1>4. \A j \in DOMAIN q : j # i => \E k \in DOMAIN r : r[k] = q[j]
  <2> TAKE j \in DOMAIN q
  <2> HAVE j # i
  <2>1. CASE j < i
    BY <2>1, <1>2, <1>0
  <2>2. CASE j > i
    <3>1. j - 1 \in DOMAIN r /\ r[j - 1] = q[j]
      BY SMTT(60), Z3T(60), <2>2, <1>2, <1>0
    <3> QED BY <3>1
  <2> QED BY <2>1, <2>2, <1>0
<1>5. ASSUME \A j, k \in DOMAIN q : q[j] = q[k] => j = k,
             NEW j \in DOMAIN r, NEW k \in DOMAIN r, r[j] = r[k]
      PROVE  j = k
  <2> DEFINE old(x) == IF x < i THEN x ELSE x + 1
  <2>1. \A x \in DOMAIN r : old(x) \in DOMAIN q /\ r[x] = q[old(x)]
    BY <1>2, <1>0
  <2>2. old(j) = old(k)
    BY <2>1, <1>5
  <2> QED BY SMTT(60), Z3T(60), <2>2, <1>2, <1>0
<1> QED BY <1>3, <1>4, <1>5 DEF r, EntriesWithout

\* AcceptStream's taking of the first parked stream loses it and no other.
LEMMA TailEntries ==
    ASSUME NEW S, NEW q \in Seq(S), q # <<>>
    PROVE  EntriesWithout(q, 1, Tail(q)) /\ Head(q) = q[1] /\ 1 \in DOMAIN q
<1>1. /\ Len(q) \in Nat \ {0}
      /\ DOMAIN q = 1..Len(q)
      /\ Head(q) = q[1]
  OBVIOUS
<1>2. /\ DOMAIN Tail(q) = 1..(Len(q) - 1)
      /\ \A k \in 1..(Len(q) - 1) : Tail(q)[k] = q[k + 1]
  OBVIOUS
<1> DEFINE r == Tail(q)
<1> HIDE DEF r
<1>3. \A k \in DOMAIN r : k + 1 \in DOMAIN q /\ k + 1 # 1 /\ r[k] = q[k + 1]
  BY <1>1, <1>2 DEF r
<1>4. \A j \in DOMAIN q : j # 1 => \E k \in DOMAIN r : r[k] = q[j]
  <2> TAKE j \in DOMAIN q
  <2> HAVE j # 1
  <2>1. j - 1 \in DOMAIN r /\ r[j - 1] = q[j]
    BY <1>1, <1>2 DEF r
  <2> QED BY <2>1
<1>5. \A j, k \in DOMAIN r : j + 1 = k + 1 => j = k
  BY <1>1, <1>2 DEF r
<1> QED BY <1>1, <1>3, <1>4, <1>5 DEF r, EntriesWithout

\* Parking a stream and queueing a waiter add one entry at the end.
LEMMA AppendEntries ==
    ASSUME NEW S, NEW q \in Seq(S), NEW e \in S
    PROVE  /\ Append(q, e) \in Seq(S)
           /\ \A k \in DOMAIN Append(q, e) :
                 \/ k \in DOMAIN q /\ Append(q, e)[k] = q[k]
                 \/ k = Len(q) + 1 /\ Append(q, e)[k] = e
           /\ \A k \in DOMAIN q : k \in DOMAIN Append(q, e) /\ Append(q, e)[k] = q[k]
           /\ \E k \in DOMAIN Append(q, e) : Append(q, e)[k] = e
<1>1. /\ Append(q, e) \in Seq(S)
      /\ DOMAIN q = 1..Len(q) /\ DOMAIN Append(q, e) = 1..(Len(q) + 1)
      /\ \A k \in 1..Len(q) : Append(q, e)[k] = q[k]
      /\ Append(q, e)[Len(q) + 1] = e
      /\ Len(q) \in Nat
  OBVIOUS
<1> QED BY <1>1

\* The three kinds of holder exclude each other.
LEMMA HoldersExclude ==
    ASSUME RendezvousInv, NEW t \in Streams
    PROVE  /\ ~(Parked(t) /\ InSomeHand(t))
           /\ ~(Parked(t) /\ InSomeChannel(t))
           /\ ~(InSomeHand(t) /\ InSomeChannel(t))
  BY DEF RendezvousInv, HoldersDistinct, Parked, InSomeHand, InSomeChannel

\* rejectParkedStreams resets the streams it takes out and no others.
LEMMA RejectKeepsOpenIsHeld ==
    ASSUME RendezvousInv, RejectParkedStreams,
           \A t \in Streams : InSomeHand(t)' <=> InSomeHand(t), ch' = ch
    PROVE  OpenIsHeld'
<1>1. \A t \in Streams : ~Parked(t)'
  BY DEF RejectParkedStreams, Parked
<1>2. \A t \in Streams : InSomeChannel(t)' <=> InSomeChannel(t)
  BY DEF InSomeChannel
<1>3. \A t \in Streams : fate'[t] = "open" <=> fate[t] = "open" /\ ~Parked(t)
  BY DEF RejectParkedStreams
<1> QED BY <1>1, <1>2, <1>3, HoldersExclude DEF RendezvousInv, OpenIsHeld

\* Each conjunct of RendezvousInv depends on few of the variables.
LEMMA Frames ==
    ASSUME RendezvousInv
    PROVE  /\ UNCHANGED <<pending, wpc, wname, ch, lwaiter>> => QueuesConsistent'
           /\ UNCHANGED <<lpc, lstream, lwaiter, ch>> => LoopsConsistent'
           /\ UNCHANGED <<lpc, lwaiter, wpc, done>> => HandoverConsistent'
           /\ UNCHANGED <<buffered, lpc, lstream, ch>> => HoldersDistinct'
           /\ UNCHANGED <<buffered, lpc, lstream, ch, fate>> => OpenIsHeld'
           /\ UNCHANGED <<lpc, lwaiter, wpc, done, ch>> => AbandonedChannelIsEmptied'
           /\ UNCHANGED <<buffered, pending>> => NoWaiterBesideParked'
           /\ UNCHANGED <<draining, lpc, gpc, buffered>> => DrainLeavesNothingParked'
<1>1. UNCHANGED <<pending, wpc, wname, ch, lwaiter>> => QueuesConsistent'
  BY DEF RendezvousInv, QueuesConsistent
<1>2. UNCHANGED <<lpc, lstream, lwaiter, ch>> => LoopsConsistent'
  BY DEF RendezvousInv, LoopsConsistent
<1>3. UNCHANGED <<lpc, lwaiter, wpc, done>> => HandoverConsistent'
  BY DEF RendezvousInv, HandoverConsistent
<1>4. UNCHANGED <<buffered, lpc, lstream, ch>> => HoldersDistinct'
  BY DEF RendezvousInv, HoldersDistinct, InHand
<1>5. UNCHANGED <<buffered, lpc, lstream, ch, fate>> => OpenIsHeld'
  BY DEF RendezvousInv, OpenIsHeld, Parked, InSomeHand, InSomeChannel, InHand
<1>6. UNCHANGED <<lpc, lwaiter, wpc, done, ch>> => AbandonedChannelIsEmptied'
  BY DEF RendezvousInv, AbandonedChannelIsEmptied
<1>7. UNCHANGED <<buffered, pending>> => NoWaiterBesideParked'
  BY DEF RendezvousInv, NoWaiterBesideParked
<1>8. UNCHANGED <<draining, lpc, gpc, buffered>> => DrainLeavesNothingParked'
  BY DEF RendezvousInv, DrainLeavesNothingParked
<1> QED BY SMTT(60), Z3T(60), <1>1, <1>2, <1>3, <1>4, <1>5, <1>6, <1>7, <1>8

\* DrainLeavesNothingParked needs no more than this of a step.
LEMMA DrainFrame ==
    ASSUME RendezvousInv, UNCHANGED <<draining, gpc, buffered>>,
           \A e \in Loops : lpc[e] = "rejecting" => lpc'[e] = "rejecting"
    PROVE  DrainLeavesNothingParked'
BY DEF RendezvousInv, DrainLeavesNothingParked

\* RendezvousInv survives a second accept loop starting (StartLoop).
LEMMA StartLoopKeeps ==
    ASSUME RendezvousInv, NEW d \in Loops, StartLoop(d)
    PROVE  RendezvousInv'
<1>1. TypeOK'
  BY DEF RendezvousInv, TypeOK, StartLoop, loopVars, waiterVars
<1>2. QueuesConsistent' /\ NoWaiterBesideParked'
  BY Frames DEF StartLoop, waiterVars
<1>3. LoopsConsistent'
  BY DEF RendezvousInv, TypeOK, LoopsConsistent, StartLoop, loopVars, waiterVars
<1>4. HandoverConsistent'
  BY SMTT(60), Z3T(60) DEF RendezvousInv, TypeOK, HandoverConsistent, StartLoop, loopVars, waiterVars
<1>5. HoldersDistinct'
  BY DEF RendezvousInv, HoldersDistinct, StartLoop, InHand, loopVars, waiterVars
<1>6. OpenIsHeld'
  BY DEF RendezvousInv, OpenIsHeld, InSomeHand, InSomeChannel, StartLoop, InHand, Parked, loopVars, waiterVars
<1>7. AbandonedChannelIsEmptied'
  BY DEF RendezvousInv, TypeOK, AbandonedChannelIsEmptied, StartLoop, loopVars, waiterVars
<1>8. DrainLeavesNothingParked'
  BY SMTT(60), Z3T(60) DEF RendezvousInv, DrainLeavesNothingParked, StartLoop, Refused, loopVars,
     waiterVars
<1> QED BY <1>1, <1>2, <1>3, <1>4, <1>5, <1>6, <1>7, <1>8 DEF RendezvousInv

\* RendezvousInv survives an accept loop ending (LoopExits).
LEMMA LoopExitsKeeps ==
    ASSUME RendezvousInv, NEW d \in Loops, LoopExits(d)
    PROVE  RendezvousInv'
<1>1. TypeOK'
  BY DEF RendezvousInv, TypeOK, LoopExits, loopVars, waiterVars
<1>2. QueuesConsistent' /\ NoWaiterBesideParked'
  BY SMTT(60), Z3T(60), Frames DEF LoopExits, waiterVars
<1>3. LoopsConsistent'
  BY SMTT(60), Z3T(60) DEF RendezvousInv, TypeOK, LoopsConsistent, LoopExits, loopVars, waiterVars
<1>4. HandoverConsistent'
  BY SMTT(60), Z3T(60) DEF RendezvousInv, TypeOK, HandoverConsistent, LoopExits, loopVars, waiterVars
<1>5. HoldersDistinct'
  BY DEF RendezvousInv, HoldersDistinct, LoopExits, InHand, loopVars, waiterVars
<1>6. OpenIsHeld'
  BY DEF RendezvousInv, OpenIsHeld, InSomeHand, InSomeChannel, LoopExits, InHand, Parked, loopVars, waiterVars
<1>7. AbandonedChannelIsEmptied'
  BY DEF RendezvousInv, TypeOK, AbandonedChannelIsEmptied, LoopExits, loopVars, waiterVars
<1>8. DrainLeavesNothingParked'
  BY DEF RendezvousInv, DrainLeavesNothingParked, LoopExits, Refused, loopVars,
     waiterVars
<1> QED BY <1>1, <1>2, <1>3, <1>4, <1>5, <1>6, <1>7, <1>8 DEF RendezvousInv

\* RendezvousInv survives a stream coming out of the carrier (TakeStream).
LEMMA TakeStreamKeeps ==
    ASSUME RendezvousInv, NEW d \in Loops, NEW s \in Streams, TakeStream(d, s)
    PROVE  RendezvousInv'
<1>1. TypeOK'
  BY DEF RendezvousInv, TypeOK, TakeStream, loopVars, waiterVars
<1>2. QueuesConsistent' /\ NoWaiterBesideParked'
  BY Frames DEF TakeStream, waiterVars
<1>3. LoopsConsistent'
  BY DEF RendezvousInv, TypeOK, LoopsConsistent, TakeStream, loopVars, waiterVars
<1>4. HandoverConsistent'
  BY SMTT(60), Z3T(60) DEF RendezvousInv, TypeOK, HandoverConsistent, TakeStream, loopVars, waiterVars
<1>5. HoldersDistinct'
  <2>1. ~Parked(s) /\ ~InSomeHand(s) /\ ~InSomeChannel(s)
    BY DEF TakeStream, RendezvousInv, OpenIsHeld
  <2>2. \A e \in Loops : InHand(e)' => (e = d /\ lstream'[e] = s) \/ (e # d /\ InHand(e) /\ lstream'[e] = lstream[e])
    BY DEF TakeStream, InHand, RendezvousInv, TypeOK
  <2>3. buffered' = buffered /\ ch' = ch
    BY SMTT(60), Z3T(60) DEF TakeStream, waiterVars
  <2> QED BY <2>1, <2>2, <2>3 DEF RendezvousInv, HoldersDistinct, Parked, InSomeHand, InSomeChannel
<1>6. OpenIsHeld'
  <2>1. \A t \in Streams : Parked(t)' <=> Parked(t)
    BY DEF TakeStream, Parked
  <2>2. \A t \in Streams : InSomeHand(t)' <=> InSomeHand(t) \/ t = s
    BY DEF TakeStream, InSomeHand, InHand, RendezvousInv, TypeOK
  <2>3. \A t \in Streams : InSomeChannel(t)' <=> InSomeChannel(t)
    BY DEF TakeStream, waiterVars, InSomeChannel
  <2>4. \A t \in Streams : fate'[t] = "open" <=> fate[t] = "open" \/ t = s
    BY DEF TakeStream, RendezvousInv, TypeOK
  <2>5. OpenIsHeld /\ \A t \in Streams : /\ ~(Parked(t) /\ InSomeHand(t))
                                        /\ ~(Parked(t) /\ InSomeChannel(t))
                                        /\ ~(InSomeHand(t) /\ InSomeChannel(t))
    BY SMTT(60), Z3T(60), HoldersExclude DEF RendezvousInv
  <2> QED BY SMTT(60), Z3T(60), <2>1, <2>2, <2>3, <2>4, <2>5 DEF OpenIsHeld
<1>7. AbandonedChannelIsEmptied'
  BY DEF RendezvousInv, TypeOK, AbandonedChannelIsEmptied, TakeStream, loopVars, waiterVars
<1>8. DrainLeavesNothingParked'
  BY DEF RendezvousInv, DrainLeavesNothingParked, TakeStream, Refused, loopVars,
     waiterVars
<1> QED BY <1>1, <1>2, <1>3, <1>4, <1>5, <1>6, <1>7, <1>8 DEF RendezvousInv

\* RendezvousInv survives a stream whose header cannot be read (HeaderFails).
LEMMA HeaderFailsKeeps ==
    ASSUME RendezvousInv, NEW d \in Loops, HeaderFails(d)
    PROVE  RendezvousInv'
<1>1. TypeOK'
  BY SMTT(60), Z3T(60), RendezvousAssumption DEF RendezvousInv, TypeOK, LoopsConsistent,
     QueuesConsistent, HeaderFails, NextStream, loopVars, waiterVars
<1>2. NoWaiterBesideParked'
  BY SMTT(60), Z3T(60), Frames DEF HeaderFails, waiterVars
<1>3. QueuesConsistent'
  BY RendezvousAssumption DEF RendezvousInv, TypeOK, QueuesConsistent,
     LoopsConsistent, NoWaiterBesideParked, HeaderFails, NextStream, loopVars, waiterVars
<1>4. LoopsConsistent'
  BY SMTT(60), Z3T(60) DEF RendezvousInv, TypeOK, LoopsConsistent, HeaderFails, NextStream, loopVars,
     waiterVars
<1>5. HandoverConsistent'
  BY SMTT(60), Z3T(60) DEF RendezvousInv, TypeOK, HandoverConsistent, HeaderFails, NextStream, loopVars,
     waiterVars
<1>6. HoldersDistinct'
  BY SMTT(60), Z3T(60) DEF RendezvousInv, TypeOK, HoldersDistinct, HeaderFails, NextStream, InHand,
     loopVars, waiterVars
<1>7. OpenIsHeld'
  <2>1. \A t \in Streams : Parked(t)' <=> Parked(t)
    BY SMTT(60), Z3T(60) DEF HeaderFails, Parked
  <2>2. \A t \in Streams : InSomeHand(t)' <=> InSomeHand(t) /\ t # lstream[d]
    BY SMTT(60), Z3T(60) DEF HeaderFails, NextStream, InSomeHand, InHand, RendezvousInv, TypeOK, HoldersDistinct
  <2>3. \A t \in Streams : InSomeChannel(t)' <=> InSomeChannel(t)
    BY DEF HeaderFails, waiterVars, InSomeChannel
  <2>4. \A t \in Streams : fate'[t] = "open" <=> fate[t] = "open" /\ t # lstream[d]
    BY DEF HeaderFails, RendezvousInv, TypeOK, LoopsConsistent
  <2>5. InSomeHand(lstream[d]) /\ lstream[d] \in Streams
    BY DEF HeaderFails, InSomeHand, InHand, RendezvousInv, TypeOK, LoopsConsistent
  <2>6. OpenIsHeld /\ \A t \in Streams : /\ ~(Parked(t) /\ InSomeHand(t))
                                        /\ ~(Parked(t) /\ InSomeChannel(t))
                                        /\ ~(InSomeHand(t) /\ InSomeChannel(t))
    BY SMTT(60), Z3T(60), HoldersExclude DEF RendezvousInv
  <2> QED BY ZenonT(60), <2>1, <2>2, <2>3, <2>4, <2>5, <2>6 DEF OpenIsHeld
<1>8. AbandonedChannelIsEmptied'
  BY SMTT(60), Z3T(60) DEF RendezvousInv, TypeOK, AbandonedChannelIsEmptied, HeaderFails, NextStream, loopVars,
     waiterVars
<1>9. DrainLeavesNothingParked'
  BY DEF RendezvousInv, DrainLeavesNothingParked, HeaderFails, NextStream, Refused,
     loopVars, waiterVars
<1> QED BY SMTT(60), Z3T(60), <1>1, <1>2, <1>3, <1>4, <1>5, <1>6, <1>7, <1>8, <1>9 DEF RendezvousInv

\* RendezvousInv survives a second go-away (PeerGoAwayAgain), which has the
\* effect of HeaderFails.
LEMMA PeerGoAwayAgainKeeps ==
    ASSUME RendezvousInv, NEW d \in Loops, PeerGoAwayAgain(d)
    PROVE  RendezvousInv'
<1>1. HeaderFails(d)
  BY SMTT(60), Z3T(60) DEF PeerGoAwayAgain, HeaderFails
<1> QED BY <1>1, HeaderFailsKeeps

\* RendezvousInv survives the peer's go-away (PeerGoAway).
LEMMA PeerGoAwayKeeps ==
    ASSUME RendezvousInv, NEW d \in Loops, PeerGoAway(d)
    PROVE  RendezvousInv'
<1>1. TypeOK'
  BY SMTT(60), Z3T(60), RendezvousAssumption DEF RendezvousInv, TypeOK, LoopsConsistent,
     QueuesConsistent, PeerGoAway, loopVars, waiterVars
<1>2. QueuesConsistent' /\ NoWaiterBesideParked'
  BY SMTT(60), Z3T(60), Frames DEF PeerGoAway, waiterVars
<1>3. LoopsConsistent'
  BY DEF RendezvousInv, TypeOK, LoopsConsistent, PeerGoAway, loopVars, waiterVars
<1>4. HandoverConsistent'
  BY SMTT(60), Z3T(60) DEF RendezvousInv, TypeOK, HandoverConsistent, PeerGoAway, loopVars, waiterVars
<1>5. HoldersDistinct'
  BY DEF RendezvousInv, TypeOK, HoldersDistinct, PeerGoAway, InHand, loopVars,
     waiterVars
<1>6. OpenIsHeld'
  <2>1. \A t \in Streams : Parked(t)' <=> Parked(t)
    BY SMTT(60), Z3T(60) DEF PeerGoAway, Parked
  <2>2. \A t \in Streams : InSomeHand(t)' <=> InSomeHand(t) /\ t # lstream[d]
    BY DEF PeerGoAway, InSomeHand, InHand, RendezvousInv, TypeOK, HoldersDistinct
  <2>3. \A t \in Streams : InSomeChannel(t)' <=> InSomeChannel(t)
    BY DEF PeerGoAway, waiterVars, InSomeChannel
  <2>4. \A t \in Streams : fate'[t] = "open" <=> fate[t] = "open" /\ t # lstream[d]
    BY SMTT(60), Z3T(60) DEF PeerGoAway, RendezvousInv, TypeOK, LoopsConsistent
  <2>5. InSomeHand(lstream[d]) /\ lstream[d] \in Streams
    BY DEF PeerGoAway, InSomeHand, InHand, RendezvousInv, TypeOK, LoopsConsistent
  <2>6. OpenIsHeld /\ \A t \in Streams : /\ ~(Parked(t) /\ InSomeHand(t))
                                        /\ ~(Parked(t) /\ InSomeChannel(t))
                                        /\ ~(InSomeHand(t) /\ InSomeChannel(t))
    BY HoldersExclude DEF RendezvousInv
  <2> QED BY ZenonT(60), <2>1, <2>2, <2>3, <2>4, <2>5, <2>6 DEF OpenIsHeld
<1>7. AbandonedChannelIsEmptied'
  BY DEF RendezvousInv, TypeOK, AbandonedChannelIsEmptied, PeerGoAway, loopVars, waiterVars
<1>8. DrainLeavesNothingParked'
  BY DEF RendezvousInv, TypeOK, DrainLeavesNothingParked, PeerGoAway, Refused,
     loopVars, waiterVars
<1> QED BY <1>1, <1>2, <1>3, <1>4, <1>5, <1>6, <1>7, <1>8 DEF RendezvousInv

\* RendezvousInv survives refusing a stream (DeliverResets), which has the
\* effect of HeaderFails.
LEMMA DeliverResetsKeeps ==
    ASSUME RendezvousInv, NEW d \in Loops, NEW n \in Names, DeliverResets(d, n)
    PROVE  RendezvousInv'
<1>1. HeaderFails(d)
  BY DEF DeliverResets, HeaderFails
<1> QED BY <1>1, HeaderFailsKeeps

\* RendezvousInv survives popping a waiter (DeliverPops).
LEMMA DeliverPopsKeeps ==
    ASSUME RendezvousInv, NEW d \in Loops, NEW n \in Names, DeliverPops(d, n)
    PROVE  RendezvousInv'
<1>1. TypeOK'
  BY SMTT(60), Z3T(60) DEF RendezvousInv, TypeOK, DeliverPops, loopVars, waiterVars
<1>2. QueuesConsistent'
  BY SMTT(60), Z3T(60) DEF RendezvousInv, TypeOK, QueuesConsistent, DeliverPops, loopVars, waiterVars
<1>3. LoopsConsistent'
  BY SMTT(60), Z3T(60), RendezvousAssumption DEF RendezvousInv, TypeOK, LoopsConsistent,
     QueuesConsistent, HoldersDistinct, DeliverPops, InHand, loopVars, waiterVars
<1>4. HandoverConsistent'
  <2>1. Head(pending[n]) = pending[n][1] /\ 1 \in DOMAIN pending[n]
    BY DEF DeliverPops, RendezvousInv, TypeOK
  <2>2. wpc[Head(pending[n])] # "idle"
    BY SMTT(60), Z3T(60), <2>1 DEF RendezvousInv, QueuesConsistent
  <2> QED BY SMTT(60), Z3T(60), <2>2 DEF DeliverPops, waiterVars, RendezvousInv, TypeOK, HandoverConsistent
<1>5. HoldersDistinct'
  BY DEF RendezvousInv, HoldersDistinct, DeliverPops, InHand, loopVars, waiterVars
<1>6. OpenIsHeld'
  BY DEF RendezvousInv, OpenIsHeld, InSomeHand, InSomeChannel, DeliverPops, InHand, Parked, loopVars, waiterVars
<1>7. AbandonedChannelIsEmptied'
  BY SMTT(60), Z3T(60) DEF RendezvousInv, TypeOK, AbandonedChannelIsEmptied, DeliverPops, loopVars, waiterVars
<1>8. NoWaiterBesideParked'
  BY DEF RendezvousInv, NoWaiterBesideParked, DeliverPops, loopVars, waiterVars
<1>9. DrainLeavesNothingParked'
  BY SMTT(60), Z3T(60) DEF RendezvousInv, DrainLeavesNothingParked, DeliverPops, Refused, loopVars,
     waiterVars
<1> QED BY SMTT(60), Z3T(60), <1>1, <1>2, <1>3, <1>4, <1>5, <1>6, <1>7, <1>8, <1>9 DEF RendezvousInv

\* RendezvousInv survives parking a stream (DeliverParks).
LEMMA DeliverParksKeeps ==
    ASSUME RendezvousInv, NEW d \in Loops, NEW n \in Names, DeliverParks(d, n)
    PROVE  RendezvousInv'
<1>1. TypeOK'
  BY SMTT(60), Z3T(60), RendezvousAssumption DEF RendezvousInv, TypeOK, LoopsConsistent,
     QueuesConsistent, DeliverParks, loopVars, waiterVars
<1>2. QueuesConsistent'
  BY ZenonT(60), Frames DEF DeliverParks, waiterVars
<1>3. LoopsConsistent'
  BY DEF RendezvousInv, TypeOK, LoopsConsistent, DeliverParks, loopVars, waiterVars
<1>4. HandoverConsistent'
  BY SMTT(60), Z3T(60) DEF RendezvousInv, TypeOK, HandoverConsistent, DeliverParks, loopVars, waiterVars
<1>5. HoldersDistinct'
  <2>1. lstream[d] \in Streams /\ InHand(d)
    BY SMTT(60), Z3T(60) DEF DeliverParks, InHand, RendezvousInv, TypeOK, LoopsConsistent
  <2>2. /\ \A m \in Names : m # n => buffered'[m] = buffered[m]
        /\ \A j \in DOMAIN buffered'[n] :
              \/ j \in DOMAIN buffered[n] /\ buffered'[n][j] = buffered[n][j]
              \/ j = Len(buffered[n]) + 1 /\ buffered'[n][j] = lstream[d]
    BY <2>1, AppendEntries DEF DeliverParks, RendezvousInv, TypeOK
  <2>3. \A e \in Loops : InHand(e)' => InHand(e) /\ e # d
    BY DEF DeliverParks, InHand, RendezvousInv, TypeOK
  <2>4. lstream' = lstream /\ ch' = ch /\ HoldersDistinct
    BY SMTT(60), Z3T(60) DEF DeliverParks, waiterVars, RendezvousInv
  <2>5. \A m \in Names : \A j \in DOMAIN buffered'[m] :
           \/ m = n /\ j = Len(buffered[n]) + 1 /\ buffered'[m][j] = lstream[d]
           \/ j \in DOMAIN buffered[m] /\ buffered'[m][j] = buffered[m][j]
    BY SMTT(60), Z3T(60), <2>2
  <2>6. \A m \in Names : \A j \in DOMAIN buffered[m] : buffered[m][j] # lstream[d]
    BY SMTT(60), Z3T(60), <2>1, <2>4 DEF HoldersDistinct
  <2> QED BY <2>1, <2>3, <2>4, <2>5, <2>6 DEF HoldersDistinct
<1>6. OpenIsHeld'
  <2>1. \A t \in Streams : Parked(t)' <=> Parked(t) \/ t = lstream[d]
    <3>1. buffered[n] \in Seq(Streams) /\ lstream[d] \in Streams
      BY DEF DeliverParks, RendezvousInv, TypeOK, LoopsConsistent
    <3>2. buffered'[n] = Append(buffered[n], lstream[d]) /\ \A m \in Names : m # n => buffered'[m] = buffered[m]
      BY DEF DeliverParks, RendezvousInv, TypeOK
    <3>3. /\ \A j \in DOMAIN buffered'[n] :
                \/ j \in DOMAIN buffered[n] /\ buffered'[n][j] = buffered[n][j]
                \/ j = Len(buffered[n]) + 1 /\ buffered'[n][j] = lstream[d]
          /\ \A j \in DOMAIN buffered[n] : j \in DOMAIN buffered'[n] /\ buffered'[n][j] = buffered[n][j]
          /\ \E j \in DOMAIN buffered'[n] : buffered'[n][j] = lstream[d]
      BY <3>1, <3>2, AppendEntries
    <3> QED BY SMTT(60), Z3T(60), <3>2, <3>3 DEF Parked
  <2>2. \A t \in Streams : InSomeHand(t)' <=> InSomeHand(t) /\ t # lstream[d]
    BY SMTT(60), Z3T(60) DEF DeliverParks, InSomeHand, InHand, RendezvousInv, TypeOK, HoldersDistinct
  <2>3. \A t \in Streams : InSomeChannel(t)' <=> InSomeChannel(t)
    BY SMTT(60), Z3T(60) DEF DeliverParks, waiterVars, InSomeChannel
  <2>4. \A t \in Streams : fate'[t] = "open" <=> fate[t] = "open"
    BY ZenonT(60) DEF DeliverParks
  <2>5. InSomeHand(lstream[d]) /\ lstream[d] \in Streams
    BY DEF DeliverParks, InSomeHand, InHand, RendezvousInv, TypeOK, LoopsConsistent
  <2>6. OpenIsHeld /\ \A t \in Streams : /\ ~(Parked(t) /\ InSomeHand(t))
                                        /\ ~(Parked(t) /\ InSomeChannel(t))
                                        /\ ~(InSomeHand(t) /\ InSomeChannel(t))
    BY HoldersExclude DEF RendezvousInv
  <2> QED BY <2>1, <2>2, <2>3, <2>4, <2>5, <2>6, SMTT(30) DEF OpenIsHeld
<1>7. AbandonedChannelIsEmptied'
  BY DEF RendezvousInv, TypeOK, AbandonedChannelIsEmptied, DeliverParks, loopVars, waiterVars
<1>8. NoWaiterBesideParked'
  <2>1. pending' = pending /\ pending[n] = <<>> /\ NoWaiterBesideParked
    BY DEF DeliverParks, RendezvousInv
  <2>2. \A m \in Names : m # n => buffered'[m] = buffered[m]
    BY DEF DeliverParks, RendezvousInv, TypeOK
  <2> QED BY <2>1, <2>2 DEF NoWaiterBesideParked
<1>9. DrainLeavesNothingParked'
  <2>1. draining' = draining /\ gpc' = gpc /\ DrainLeavesNothingParked
    BY DEF DeliverParks, RendezvousInv
  <2>2. \A m \in Names : m # n => buffered'[m] = buffered[m]
    BY DEF DeliverParks, RendezvousInv, TypeOK
  <2>3. \A e \in Loops : lpc[e] = "rejecting" => lpc'[e] = "rejecting"
    BY SMTT(60), Z3T(60) DEF DeliverParks, RendezvousInv, TypeOK
  <2>4. draining => n \in Reserved
    BY SMTT(60), Z3T(60) DEF DeliverParks, Refused
  <2> QED BY SMTT(60), Z3T(60), <2>1, <2>2, <2>3, <2>4 DEF DrainLeavesNothingParked
<1> QED BY <1>1, <1>2, <1>3, <1>4, <1>5, <1>6, <1>7, <1>8, <1>9 DEF RendezvousInv

\* RendezvousInv survives starting an expiry timer (ArmTimer).
LEMMA ArmTimerKeeps ==
    ASSUME RendezvousInv, NEW d \in Loops, ArmTimer(d)
    PROVE  RendezvousInv'
<1>1. TypeOK'
  BY SMTT(60), Z3T(60), RendezvousAssumption DEF RendezvousInv, TypeOK, LoopsConsistent,
     QueuesConsistent, ArmTimer, NextStream, loopVars, waiterVars
<1>2. NoWaiterBesideParked'
  BY SMTT(60), Z3T(60), Frames DEF ArmTimer, waiterVars
<1>3. QueuesConsistent'
  BY SMTT(60), Z3T(60), RendezvousAssumption DEF RendezvousInv, TypeOK, QueuesConsistent,
     LoopsConsistent, NoWaiterBesideParked, ArmTimer, NextStream, loopVars, waiterVars
<1>4. LoopsConsistent'
  BY DEF RendezvousInv, TypeOK, LoopsConsistent, ArmTimer, NextStream, loopVars,
     waiterVars
<1>5. HandoverConsistent'
  BY SMTT(60), Z3T(60) DEF RendezvousInv, TypeOK, HandoverConsistent, ArmTimer, NextStream, loopVars, waiterVars
<1>6. HoldersDistinct'
  BY DEF RendezvousInv, HoldersDistinct, ArmTimer, NextStream, InHand, loopVars,
     waiterVars
<1>7. OpenIsHeld'
  BY DEF RendezvousInv, OpenIsHeld, InSomeHand, InSomeChannel, ArmTimer, NextStream, InHand, Parked, loopVars,
     waiterVars
<1>8. AbandonedChannelIsEmptied'
  BY DEF RendezvousInv, TypeOK, AbandonedChannelIsEmptied, ArmTimer, NextStream, loopVars,
     waiterVars
<1>9. DrainLeavesNothingParked'
  BY SMTT(60), Z3T(60) DEF RendezvousInv, DrainLeavesNothingParked, ArmTimer, NextStream, Refused,
     loopVars, waiterVars
<1> QED BY <1>1, <1>2, <1>3, <1>4, <1>5, <1>6, <1>7, <1>8, <1>9 DEF RendezvousInv

\* RendezvousInv survives the send to the popped waiter (SendToWaiter).
LEMMA SendToWaiterKeeps ==
    ASSUME RendezvousInv, NEW d \in Loops, SendToWaiter(d)
    PROVE  RendezvousInv'
<1>1. TypeOK'
  BY SMTT(60), Z3T(60), RendezvousAssumption DEF RendezvousInv, TypeOK, LoopsConsistent,
     QueuesConsistent, SendToWaiter, loopVars, waiterVars
<1>2. NoWaiterBesideParked'
  BY SMTT(60), Z3T(60), Frames DEF SendToWaiter
<1>3. QueuesConsistent'
  <2>1. QueuesConsistent /\ UNCHANGED <<pending, wpc, wname, lwaiter>>
    BY ZenonT(60) DEF RendezvousInv, SendToWaiter
  <2>2. \A n \in Names : \A i \in DOMAIN pending[n] : pending[n][i] \in Waiters \ {lwaiter[d]}
    BY <2>1 DEF RendezvousInv, TypeOK, QueuesConsistent
  <2>3. \A w \in Waiters \ {lwaiter[d]} : ch'[w] = ch[w]
    BY DEF RendezvousInv, TypeOK, SendToWaiter
  <2> QED BY SMTT(60), Z3T(60), <2>1, <2>2, <2>3 DEF QueuesConsistent
<1>4. LoopsConsistent'
  BY DEF RendezvousInv, TypeOK, LoopsConsistent, SendToWaiter, loopVars, waiterVars
<1>5. HandoverConsistent'
  BY SMTT(60), Z3T(60) DEF RendezvousInv, TypeOK, HandoverConsistent, SendToWaiter, loopVars, waiterVars
<1>6. HoldersDistinct'
  BY SMTT(60), Z3T(60) DEF RendezvousInv, TypeOK, HoldersDistinct, SendToWaiter, InHand, loopVars,
     waiterVars
<1>7. OpenIsHeld'
  <2>1. \A t \in Streams : Parked(t)' <=> Parked(t)
    BY ZenonT(60) DEF SendToWaiter, Parked
  <2>2. \A t \in Streams : InSomeHand(t)' <=> InSomeHand(t) /\ t # lstream[d]
    BY SMTT(60), Z3T(60) DEF SendToWaiter, InSomeHand, InHand, RendezvousInv, TypeOK, HoldersDistinct
  <2>3. \A t \in Streams : InSomeChannel(t)' <=> InSomeChannel(t) \/ t = lstream[d]
    BY SMTT(60), Z3T(60), RendezvousAssumption DEF SendToWaiter, InSomeChannel, RendezvousInv, TypeOK, LoopsConsistent
  <2>4. \A t \in Streams : fate'[t] = "open" <=> fate[t] = "open"
    BY SMTT(60), Z3T(60) DEF SendToWaiter
  <2>5. InSomeHand(lstream[d]) /\ lstream[d] \in Streams
    BY SMTT(60), Z3T(60) DEF SendToWaiter, InSomeHand, InHand, RendezvousInv, TypeOK, LoopsConsistent
  <2>6. OpenIsHeld /\ \A t \in Streams : /\ ~(Parked(t) /\ InSomeHand(t))
                                        /\ ~(Parked(t) /\ InSomeChannel(t))
                                        /\ ~(InSomeHand(t) /\ InSomeChannel(t))
    BY HoldersExclude DEF RendezvousInv
  <2> QED BY ZenonT(60), <2>1, <2>2, <2>3, <2>4, <2>5, <2>6 DEF OpenIsHeld
<1>8. AbandonedChannelIsEmptied'
  BY SMTT(60), Z3T(60), RendezvousAssumption DEF RendezvousInv, TypeOK,
     AbandonedChannelIsEmptied, LoopsConsistent, HandoverConsistent, QueuesConsistent,
     SendToWaiter, loopVars, waiterVars
<1>9. DrainLeavesNothingParked'
  <2>1. \A e \in Loops : lpc[e] = "rejecting" => lpc'[e] = "rejecting"
    BY SMTT(60), Z3T(60) DEF SendToWaiter, RendezvousInv, TypeOK
  <2> QED BY <2>1, DrainFrame DEF SendToWaiter
<1> QED BY <1>1, <1>2, <1>3, <1>4, <1>5, <1>6, <1>7, <1>8, <1>9 DEF RendezvousInv

\* What is queued in pendingOpens is a waiter.
LEMMA PendingAreWaiters ==
    ASSUME TypeOK
    PROVE  \A m \in Names : \A j \in DOMAIN pending[m] : pending[m][j] \in Waiters
<1>1. pending \in [Names -> Seq(Waiters)]
  BY ZenonT(60) DEF TypeOK
<1> QED BY ONLY SMTT(60), Z3T(60), <1>1

\* The queues stay consistent when a waiter that is in none of them returns.
LEMMA QueuesWithout ==
    ASSUME RendezvousInv, NEW w \in Waiters, pending' = pending, wname' = wname, lwaiter' = lwaiter,
           \A m \in Names : \A j \in DOMAIN pending[m] : pending[m][j] # w,
           \A v \in Waiters : v # w => wpc'[v] = wpc[v] /\ ch'[v] = ch[v],
           wpc'[w] = "idle"
    PROVE  QueuesConsistent'
<1>1. \A m \in Names : \A j \in DOMAIN pending[m] : pending[m][j] \in Waiters
  BY ZenonT(60), PendingAreWaiters DEF RendezvousInv
<1>2. QueuesConsistent
  BY ZenonT(60) DEF RendezvousInv
<1>3. \A m \in Names : \A j \in DOMAIN pending[m] :
         wpc'[pending[m][j]] = wpc[pending[m][j]] /\ ch'[pending[m][j]] = ch[pending[m][j]]
  BY ZenonT(60), <1>1
<1>4. \A v \in Waiters : wpc'[v] # "idle" => wname[v] \in Names
  BY ZenonT(60), <1>2 DEF QueuesConsistent
<1>5. \A m \in Names : \A j \in DOMAIN pending[m] :
         /\ wname[pending[m][j]] = m
         /\ wpc'[pending[m][j]] \in {"waiting", "removing"}
         /\ ch'[pending[m][j]] = None
         /\ \A k \in DOMAIN pending[m] : pending[m][j] = pending[m][k] => j = k
         /\ \A d \in Loops : lwaiter[d] # pending[m][j]
  BY ONLY SMTT(60), Z3T(60), <1>2, <1>3 DEF QueuesConsistent
<1> QED BY ONLY SMTT(60), Z3T(60), <1>4, <1>5, pending' = pending, wname' = wname, lwaiter' = lwaiter
        DEF QueuesConsistent

\* Streams stay in different places when loops and channels only let go of
\* theirs and no queue changes.
LEMMA HoldersShrink ==
    ASSUME RendezvousInv, buffered' = buffered,
           \A e \in Loops : InHand(e)' => InHand(e) /\ lstream'[e] = lstream[e],
           \A v \in Waiters : ch'[v] = ch[v] \/ ch'[v] = None
    PROVE  HoldersDistinct'
<1>1. HoldersDistinct
  BY ZenonT(60) DEF RendezvousInv
<1>2. /\ \A e \in Loops : InHand(e) => lstream[e] # None
      /\ \A m \in Names : \A j \in DOMAIN buffered[m] : buffered[m][j] # None
  BY SMTT(60), Z3T(60), RendezvousAssumption DEF InHand, RendezvousInv, TypeOK, LoopsConsistent
<1> QED BY SMTT(60), Z3T(60), <1>1, <1>2 DEF HoldersDistinct

\* RendezvousInv survives the look at the done flag after the send (CheckDone).
LEMMA CheckDoneKeeps ==
    ASSUME RendezvousInv, NEW d \in Loops, CheckDone(d)
    PROVE  RendezvousInv'
<1>1. TypeOK'
  <2>1. lwaiter[d] \in Waiters
    BY DEF CheckDone, RendezvousInv, TypeOK, LoopsConsistent
  <2>2. ch' \in [Waiters -> Streams \cup {None}] /\ fate' \in [Streams -> {"open", "app", "reset"}]
    BY <2>1, Zenon DEF CheckDone, DrainChannel, RendezvousInv, TypeOK
  <2> QED BY <2>2, SMTT(30) DEF CheckDone, NextStream, RendezvousInv, TypeOK
<1>2. NoWaiterBesideParked'
  BY ZenonT(60), Frames DEF CheckDone
<1>3. QueuesConsistent'
  BY SMTT(60), Z3T(60), RendezvousAssumption DEF RendezvousInv, TypeOK, QueuesConsistent,
     LoopsConsistent, NoWaiterBesideParked, CheckDone, NextStream, DrainChannel,
     loopVars, waiterVars
<1>4. LoopsConsistent'
  BY SMTT(60), Z3T(60) DEF RendezvousInv, TypeOK, LoopsConsistent, CheckDone, NextStream, DrainChannel,
     loopVars, waiterVars
<1>5. HandoverConsistent'
  BY SMTT(60), Z3T(60) DEF RendezvousInv, TypeOK, HandoverConsistent, CheckDone, NextStream, DrainChannel,
     loopVars, waiterVars
<1>6. HoldersDistinct'
  <2>1. \A e \in Loops : InHand(e)' => InHand(e) /\ lstream'[e] = lstream[e]
    BY DEF CheckDone, NextStream, InHand, RendezvousInv, TypeOK
  <2>2. \A v \in Waiters : ch'[v] = ch[v] \/ ch'[v] = None
    BY SMTT(60), Z3T(60) DEF CheckDone, DrainChannel, RendezvousInv, TypeOK
  <2>3. buffered' = buffered
    BY ZenonT(60) DEF CheckDone
  <2> QED BY ZenonT(60), <2>1, <2>2, <2>3, HoldersShrink
<1>7. OpenIsHeld'
  <2> DEFINE w == lwaiter[d]
  <2>1. w \in Waiters
    BY SMTT(60), Z3T(60) DEF CheckDone, RendezvousInv, TypeOK, LoopsConsistent
  <2>2. \A t \in Streams : Parked(t)' <=> Parked(t)
    BY ZenonT(60) DEF CheckDone, Parked
  <2>3. \A t \in Streams : InSomeHand(t)' <=> InSomeHand(t)
    BY DEF CheckDone, NextStream, InSomeHand, InHand, RendezvousInv, TypeOK
  <2>4. CASE UNCHANGED <<ch, fate>>
    BY SMTT(60), Z3T(60), <2>2, <2>3, <2>4 DEF OpenIsHeld, InSomeChannel, RendezvousInv
  <2>5. CASE ch[w] # None /\ ch' = [ch EXCEPT ![w] = None] /\ fate' = [fate EXCEPT ![ch[w]] = "reset"]
    <3> HIDE DEF w
    <3>1. \A t \in Streams : InSomeChannel(t)' <=> InSomeChannel(t) /\ t # ch[w]
      BY SMTT(60), Z3T(60), <2>1, <2>5, RendezvousAssumption DEF InSomeChannel, RendezvousInv, TypeOK, HoldersDistinct
    <3>2. \A t \in Streams : fate'[t] = "open" <=> fate[t] = "open" /\ t # ch[w]
      BY <2>5 DEF RendezvousInv, TypeOK
    <3>3. InSomeChannel(ch[w]) /\ ch[w] \in Streams
      BY SMTT(60), Z3T(60), <2>1, <2>5 DEF InSomeChannel, RendezvousInv, TypeOK
    <3>4. OpenIsHeld /\ \A t \in Streams : /\ ~(Parked(t) /\ InSomeHand(t))
                                          /\ ~(Parked(t) /\ InSomeChannel(t))
                                          /\ ~(InSomeHand(t) /\ InSomeChannel(t))
      BY HoldersExclude DEF RendezvousInv
    <3> QED BY SMTT(60), Z3T(60), <2>2, <2>3, <3>1, <3>2, <3>3, <3>4 DEF OpenIsHeld
  <2> QED BY SMTT(60), Z3T(60), <2>4, <2>5 DEF CheckDone, DrainChannel
<1>8. AbandonedChannelIsEmptied'
  BY SMTT(60), Z3T(60) DEF RendezvousInv, TypeOK, AbandonedChannelIsEmptied, CheckDone, NextStream,
     DrainChannel, loopVars, waiterVars
<1>9. DrainLeavesNothingParked'
  <2>1. \A e \in Loops : lpc[e] = "rejecting" => lpc'[e] = "rejecting"
    BY DEF CheckDone, NextStream, RendezvousInv, TypeOK
  <2> QED BY <2>1, DrainFrame DEF CheckDone
<1> QED BY <1>1, <1>2, <1>3, <1>4, <1>5, <1>6, <1>7, <1>8, <1>9 DEF RendezvousInv

\* RendezvousInv survives the peer's go-away rejecting (LoopRejects).
LEMMA LoopRejectsKeeps ==
    ASSUME RendezvousInv, NEW d \in Loops, LoopRejects(d)
    PROVE  RendezvousInv'
<1>1. TypeOK'
  BY SMTT(60), Z3T(60) DEF RendezvousInv, TypeOK, LoopRejects, NextStream, RejectParkedStreams,
     loopVars, waiterVars
<1>2. QueuesConsistent'
  BY SMTT(60), Z3T(60), RendezvousAssumption DEF RendezvousInv, TypeOK, QueuesConsistent,
     LoopsConsistent, NoWaiterBesideParked, LoopRejects, NextStream, RejectParkedStreams,
     loopVars, waiterVars
<1>3. LoopsConsistent'
  BY SMTT(60), Z3T(60) DEF RendezvousInv, TypeOK, LoopsConsistent, LoopRejects, NextStream, RejectParkedStreams,
     loopVars, waiterVars
<1>4. HandoverConsistent'
  BY SMTT(60), Z3T(60) DEF RendezvousInv, TypeOK, HandoverConsistent, LoopRejects, NextStream,
     RejectParkedStreams, loopVars, waiterVars
<1>5. HoldersDistinct'
  BY DEF RendezvousInv, HoldersDistinct, LoopRejects, NextStream, RejectParkedStreams,
     InHand, loopVars, waiterVars
<1>6. OpenIsHeld'
  <2>1. \A t \in Streams : InSomeHand(t)' <=> InSomeHand(t)
    BY SMTT(60), Z3T(60) DEF LoopRejects, NextStream, InSomeHand, InHand, RendezvousInv, TypeOK
  <2> QED BY SMTT(60), Z3T(60), <2>1, RejectKeepsOpenIsHeld DEF LoopRejects, waiterVars
<1>7. AbandonedChannelIsEmptied'
  BY SMTT(60), Z3T(60) DEF RendezvousInv, TypeOK, AbandonedChannelIsEmptied, LoopRejects, NextStream,
     RejectParkedStreams, loopVars, waiterVars
<1>8. NoWaiterBesideParked'
  BY ZenonT(60) DEF RendezvousInv, NoWaiterBesideParked, LoopRejects, NextStream,
     RejectParkedStreams, loopVars, waiterVars
<1>9. DrainLeavesNothingParked'
  BY ZenonT(60) DEF RendezvousInv, DrainLeavesNothingParked, LoopRejects, NextStream,
     RejectParkedStreams, Refused, loopVars, waiterVars
<1> QED BY SMTT(60), Z3T(60), <1>1, <1>2, <1>3, <1>4, <1>5, <1>6, <1>7, <1>8, <1>9 DEF RendezvousInv

-----------------------------------------------------------------------------
(* The timers, AcceptStream, GoAway and Close.                             *)


\* RendezvousInv survives a timer firing late (TimerIdle).
LEMMA TimerIdleKeeps ==
    ASSUME RendezvousInv, NEW s \in Streams, TimerIdle(s)
    PROVE  RendezvousInv'
<1>1. TypeOK'
  BY DEF RendezvousInv, TypeOK, TimerIdle, loopVars, waiterVars
<1>2. /\ QueuesConsistent' /\ LoopsConsistent' /\ HandoverConsistent' /\ HoldersDistinct'
      /\ OpenIsHeld' /\ AbandonedChannelIsEmptied' /\ NoWaiterBesideParked'
      /\ DrainLeavesNothingParked'
  BY Frames DEF TimerIdle, loopVars, waiterVars
<1> QED BY <1>1, <1>2 DEF RendezvousInv

\* RendezvousInv survives a timer expiring a parked stream (ExpireBuffered).
LEMMA ExpireBufferedKeeps ==
    ASSUME RendezvousInv, NEW s \in Streams, NEW n \in Names, NEW i \in DOMAIN buffered[n], ExpireBuffered(s, n, i)
    PROVE  RendezvousInv'
<1>1. TypeOK'
  <2>1. buffered \in [Names -> Seq(Streams)] /\ buffered' = [buffered EXCEPT ![n] = CutAt(buffered[n], i)]
    BY ZenonT(60) DEF ExpireBuffered, RendezvousInv, TypeOK
  <2>2. i \in 1..Len(buffered[n]) /\ buffered[n] \in Seq(Streams)
    BY ONLY SMTT(60), Z3T(60), <2>1, n \in Names, i \in DOMAIN buffered[n]
  <2>3. CutAt(buffered[n], i) \in Seq(Streams)
    BY ONLY ZenonT(60), <2>2, CutAtFacts
  <2>4. buffered' \in [Names -> Seq(Streams)]
    BY ONLY ZenonT(60), <2>1, <2>3
  <2>5. timers' \subseteq Streams /\ fate' \in [Streams -> {"open", "app", "reset"}]
    BY ZenonT(60) DEF ExpireBuffered, RendezvousInv, TypeOK
  <2> QED BY ZenonT(60), <2>4, <2>5 DEF ExpireBuffered, RendezvousInv, TypeOK, loopVars, waiterVars
<1>2. /\ QueuesConsistent' /\ LoopsConsistent' /\ HandoverConsistent'
      /\ AbandonedChannelIsEmptied'
  BY Frames DEF ExpireBuffered, loopVars, waiterVars
<1>3. HoldersDistinct'
  <2>1. /\ buffered[n] \in Seq(Streams)
        /\ buffered'[n] = CutAt(buffered[n], i)
        /\ \A m \in Names : m # n => buffered'[m] = buffered[m]
    BY DEF ExpireBuffered, RendezvousInv, TypeOK
  <2>2. EntriesWithout(buffered[n], i, buffered'[n])
    BY <2>1, CutAtEntries
  <2>3. \A m \in Names : \A j \in DOMAIN buffered'[m] : \E k \in DOMAIN buffered[m] :
           buffered'[m][j] = buffered[m][k]
    BY <2>1, <2>2 DEF EntriesWithout
  <2>4. ch' = ch /\ lstream' = lstream /\ lpc' = lpc /\ HoldersDistinct
    BY SMTT(60), Z3T(60) DEF ExpireBuffered, waiterVars, loopVars, RendezvousInv
  <2>5. \A j, k \in DOMAIN buffered'[n] : buffered'[n][j] = buffered'[n][k] => j = k
    BY SMTT(60), Z3T(60), <2>4, <2>2 DEF HoldersDistinct, EntriesWithout
  <2>6. \A m, l \in Names : \A j \in DOMAIN buffered'[m], k \in DOMAIN buffered'[l] :
           buffered'[m][j] = buffered'[l][k] => m = l /\ j = k
    <3>1. \A m, l \in Names : \A j \in DOMAIN buffered[m], k \in DOMAIN buffered[l] :
             buffered[m][j] = buffered[l][k] => m = l /\ j = k
      BY ZenonT(60), <2>4 DEF HoldersDistinct
    <3>2. SUFFICES ASSUME NEW m \in Names, NEW l \in Names,
                          NEW j \in DOMAIN buffered'[m], NEW k \in DOMAIN buffered'[l],
                          buffered'[m][j] = buffered'[l][k]
                   PROVE  m = l /\ j = k
      BY ZenonT(60)
    <3>3. PICK jj \in DOMAIN buffered[m] : buffered'[m][j] = buffered[m][jj]
      BY ZenonT(60), <2>3
    <3>4. PICK kk \in DOMAIN buffered[l] : buffered'[l][k] = buffered[l][kk]
      BY ZenonT(60), <2>3
    <3>5. buffered[m][jj] = buffered[l][kk]
      BY ONLY ZenonT(60), <3>2, <3>3, <3>4
    <3>6. m = l
      BY ZenonT(60), <3>1, <3>5
    <3>7. k \in DOMAIN buffered'[m] /\ buffered'[m][j] = buffered'[m][k]
      BY ONLY ZenonT(60), <3>2, <3>6, k \in DOMAIN buffered'[l]
    <3>8. CASE m = n
      <4>1. j \in DOMAIN buffered'[n] /\ k \in DOMAIN buffered'[n] /\ buffered'[n][j] = buffered'[n][k]
        BY ONLY ZenonT(60), <3>7, <3>8, j \in DOMAIN buffered'[m]
      <4> QED BY ZenonT(60), <2>5, <3>6, <4>1
    <3>9. CASE m # n
      <4>1. buffered'[m] = buffered[m]
        BY ZenonT(60), <2>1, <3>9
      <4>2. j \in DOMAIN buffered[m] /\ k \in DOMAIN buffered[m] /\ buffered[m][j] = buffered[m][k]
        BY ONLY ZenonT(60), <3>7, <4>1, j \in DOMAIN buffered'[m]
      <4> QED BY ZenonT(60), <3>1, <3>6, <4>2
    <3> QED BY ZenonT(60), <3>8, <3>9
  <2> QED BY <2>3, <2>4, <2>6 DEF HoldersDistinct, InHand
<1>4. OpenIsHeld'
  <2>1. \A t \in Streams : Parked(t)' <=> Parked(t) /\ t # s
    <3>1. /\ buffered[n] \in Seq(Streams) /\ buffered[n][i] = s
          /\ buffered'[n] = CutAt(buffered[n], i)
          /\ \A m \in Names : m # n => buffered'[m] = buffered[m]
      BY DEF ExpireBuffered, RendezvousInv, TypeOK
    <3>2. \A m \in Names : \A j \in DOMAIN buffered[m] : buffered[m][j] = s => m = n /\ j = i
      BY <3>1 DEF RendezvousInv, HoldersDistinct
    <3>3. EntriesWithout(buffered[n], i, buffered'[n])
      BY <3>1, CutAtEntries
    <3> QED BY SMTT(60), Z3T(60), <3>1, <3>2, <3>3 DEF Parked, EntriesWithout
  <2>2. \A t \in Streams : InSomeHand(t)' <=> InSomeHand(t)
    BY DEF ExpireBuffered, loopVars, InSomeHand, InHand
  <2>3. \A t \in Streams : InSomeChannel(t)' <=> InSomeChannel(t)
    BY DEF ExpireBuffered, waiterVars, InSomeChannel
  <2>4. \A t \in Streams : fate'[t] = "open" <=> fate[t] = "open" /\ t # s
    BY DEF ExpireBuffered, RendezvousInv, TypeOK
  <2>5. Parked(s)
    BY DEF ExpireBuffered, Parked
  <2>6. OpenIsHeld /\ \A t \in Streams : /\ ~(Parked(t) /\ InSomeHand(t))
                                        /\ ~(Parked(t) /\ InSomeChannel(t))
                                        /\ ~(InSomeHand(t) /\ InSomeChannel(t))
    BY HoldersExclude DEF RendezvousInv
  <2> QED BY ZenonT(60), <2>1, <2>2, <2>3, <2>4, <2>5, <2>6 DEF OpenIsHeld
<1>5. NoWaiterBesideParked'
  BY DEF RendezvousInv, NoWaiterBesideParked, ExpireBuffered, loopVars, waiterVars
<1>6. DrainLeavesNothingParked'
  BY DEF RendezvousInv, DrainLeavesNothingParked, ExpireBuffered, Refused, loopVars,
     waiterVars
<1> QED BY SMTT(60), Z3T(60), <1>1, <1>2, <1>3, <1>4, <1>5, <1>6 DEF RendezvousInv

\* RendezvousInv survives AcceptStream taking a parked stream (AcceptTakes).
LEMMA AcceptTakesKeeps ==
    ASSUME RendezvousInv, NEW w \in Waiters, NEW n \in Names, AcceptTakes(w, n)
    PROVE  RendezvousInv'
<1>1. TypeOK'
  BY DEF RendezvousInv, TypeOK, AcceptTakes, loopVars, waiterVars
<1>2. /\ QueuesConsistent' /\ LoopsConsistent' /\ HandoverConsistent'
      /\ AbandonedChannelIsEmptied'
  BY SMTT(60), Z3T(60), Frames DEF AcceptTakes, loopVars, waiterVars
<1>3. HoldersDistinct'
  BY SMTT(60), Z3T(60) DEF RendezvousInv, TypeOK, HoldersDistinct, AcceptTakes, InHand, loopVars,
     waiterVars
<1>4. OpenIsHeld'
  <2>1. \A t \in Streams : Parked(t)' <=> Parked(t) /\ t # Head(buffered[n])
    <3>1. buffered[n] \in Seq(Streams) /\ buffered[n] # <<>> /\ buffered'[n] = Tail(buffered[n])
      BY DEF AcceptTakes, RendezvousInv, TypeOK
    <3>2. \A m \in Names : m # n => buffered'[m] = buffered[m]
      BY DEF AcceptTakes, RendezvousInv, TypeOK
    <3>3. Head(buffered[n]) = buffered[n][1] /\ 1 \in DOMAIN buffered[n]
      BY <3>1, TailEntries
    <3>4. \A m \in Names : \A j \in DOMAIN buffered[m] :
             buffered[m][j] = Head(buffered[n]) => m = n /\ j = 1
      BY <3>3 DEF RendezvousInv, HoldersDistinct
    <3>5. EntriesWithout(buffered[n], 1, buffered'[n])
      BY <3>1, TailEntries
    <3>6. \A t \in Streams : Parked(t)' => Parked(t) /\ t # Head(buffered[n])
      BY <3>4, <3>5, <3>2 DEF Parked, EntriesWithout
    <3>7. ASSUME NEW t \in Streams, Parked(t), t # Head(buffered[n])
          PROVE  Parked(t)'
      <4>1. PICK m \in Names : \E j \in DOMAIN buffered[m] : buffered[m][j] = t /\ (m = n => j # 1)
        BY <3>3, <3>7 DEF Parked
      <4> QED BY <4>1, <3>5, <3>2 DEF Parked, EntriesWithout
    <3> QED BY <3>6, <3>7
  <2>2. \A t \in Streams : InSomeHand(t)' <=> InSomeHand(t)
    BY DEF AcceptTakes, loopVars, InSomeHand, InHand
  <2>3. \A t \in Streams : InSomeChannel(t)' <=> InSomeChannel(t)
    BY SMTT(60), Z3T(60) DEF AcceptTakes, waiterVars, InSomeChannel
  <2>4. \A t \in Streams : fate'[t] = "open" <=> fate[t] = "open" /\ t # Head(buffered[n])
    BY DEF AcceptTakes, RendezvousInv, TypeOK
  <2>5. Parked(Head(buffered[n])) /\ Head(buffered[n]) \in Streams
    BY DEF AcceptTakes, Parked, RendezvousInv, TypeOK
  <2>6. OpenIsHeld /\ \A t \in Streams : /\ ~(Parked(t) /\ InSomeHand(t))
                                        /\ ~(Parked(t) /\ InSomeChannel(t))
                                        /\ ~(InSomeHand(t) /\ InSomeChannel(t))
    BY HoldersExclude DEF RendezvousInv
  <2> QED BY ZenonT(60), <2>1, <2>2, <2>3, <2>4, <2>5, <2>6 DEF OpenIsHeld
<1>5. NoWaiterBesideParked'
  BY DEF RendezvousInv, NoWaiterBesideParked, AcceptTakes, loopVars, waiterVars
<1>6. DrainLeavesNothingParked'
  BY DEF RendezvousInv, DrainLeavesNothingParked, AcceptTakes, Refused, loopVars,
     waiterVars
<1> QED BY SMTT(60), Z3T(60), <1>1, <1>2, <1>3, <1>4, <1>5, <1>6 DEF RendezvousInv

\* RendezvousInv survives AcceptStream queueing (AcceptWaits).
LEMMA AcceptWaitsKeeps ==
    ASSUME RendezvousInv, NEW w \in Waiters, NEW n \in Names, AcceptWaits(w, n)
    PROVE  RendezvousInv'
<1>1. TypeOK'
  BY SMTT(60), Z3T(60) DEF RendezvousInv, TypeOK, AcceptWaits, Callable, loopVars, waiterVars
<1>2. LoopsConsistent' /\ HoldersDistinct' /\ OpenIsHeld' /\ DrainLeavesNothingParked'
  BY SMTT(60), Z3T(60), Frames DEF AcceptWaits, loopVars
<1>3. QueuesConsistent'
  <2>1. \A m \in Names : \A j \in DOMAIN pending[m] : pending[m][j] # w
    BY DEF AcceptWaits, Callable, RendezvousInv, QueuesConsistent
  <2>2. ch[w] = None
    BY SMTT(60), Z3T(60) DEF AcceptWaits, Callable, RendezvousInv, AbandonedChannelIsEmptied
  <2>3. \A m \in Names : \A j \in DOMAIN pending'[m] :
           \/ m = n /\ j = Len(pending[n]) + 1 /\ pending'[m][j] = w
           \/ j \in DOMAIN pending[m] /\ pending'[m][j] = pending[m][j]
    BY SMTT(60), Z3T(60) DEF AcceptWaits, RendezvousInv, TypeOK
  <2>4. \A m \in Names : \A j \in DOMAIN pending[m] : pending[m][j] \in Waiters
    BY DEF RendezvousInv, TypeOK
  <2> QED
    BY SMTT(60), Z3T(60), <2>1, <2>2, <2>3, <2>4
    DEF AcceptWaits, Callable, loopVars, RendezvousInv, TypeOK, QueuesConsistent
<1>4. HandoverConsistent'
  BY SMTT(60), Z3T(60) DEF RendezvousInv, TypeOK, HandoverConsistent, AcceptWaits, Callable, loopVars,
     waiterVars
<1>5. AbandonedChannelIsEmptied'
  BY SMTT(60), Z3T(60) DEF RendezvousInv, TypeOK, AbandonedChannelIsEmptied, AcceptWaits, Callable, loopVars,
     waiterVars
<1>6. NoWaiterBesideParked'
  <2>1. buffered' = buffered /\ buffered[n] = <<>> /\ NoWaiterBesideParked
        /\ \A m \in Names : m # n => pending'[m] = pending[m]
    BY ZenonT(60) DEF AcceptWaits, RendezvousInv, TypeOK
  <2> QED BY ZenonT(60), <2>1 DEF NoWaiterBesideParked
<1> QED BY SMTT(60), Z3T(60), <1>1, <1>2, <1>3, <1>4, <1>5, <1>6 DEF RendezvousInv

\* RendezvousInv survives AcceptStream receiving (Receive).
LEMMA ReceiveKeeps ==
    ASSUME RendezvousInv, NEW w \in Waiters, Receive(w)
    PROVE  RendezvousInv'
<1>1. TypeOK'
  BY DEF RendezvousInv, TypeOK, Receive, loopVars, waiterVars
<1>2. NoWaiterBesideParked' /\ DrainLeavesNothingParked'
  BY SMTT(60), Z3T(60), Frames DEF Receive, loopVars
<1>3. QueuesConsistent'
  <2>1. /\ pending' = pending /\ wname' = wname /\ lwaiter' = lwaiter /\ ch[w] # None /\ wpc'[w] = "idle"
        /\ \A v \in Waiters : v # w => wpc'[v] = wpc[v] /\ ch'[v] = ch[v]
    BY ZenonT(60) DEF Receive, loopVars, RendezvousInv, TypeOK
  <2>2. \A m \in Names : \A j \in DOMAIN pending[m] : ch[pending[m][j]] = None
    BY ZenonT(60) DEF RendezvousInv, QueuesConsistent
  <2>3. \A m \in Names : \A j \in DOMAIN pending[m] : pending[m][j] # w
    BY ONLY ZenonT(60), <2>1, <2>2
  <2> QED BY ZenonT(60), <2>1, <2>3, QueuesWithout
<1>4. LoopsConsistent'
  BY SMTT(60), Z3T(60) DEF RendezvousInv, TypeOK, LoopsConsistent, Receive, loopVars, waiterVars
<1>5. HandoverConsistent'
  <2>1. /\ lpc' = lpc /\ lwaiter' = lwaiter /\ done' = done /\ ch[w] # None /\ wpc'[w] = "idle"
        /\ \A v \in Waiters : v # w => wpc'[v] = wpc[v]
        /\ lwaiter \in [Loops -> Waiters \cup {None}]
    BY ZenonT(60) DEF Receive, loopVars, RendezvousInv, TypeOK
  <2>2. \A d \in Loops : lpc[d] = "sending" => lwaiter[d] \in Waiters /\ lwaiter[d] # w
    BY ZenonT(60), <2>1 DEF RendezvousInv, LoopsConsistent
  <2>3. HandoverConsistent
    BY ZenonT(60) DEF RendezvousInv
  <2>4. \A v \in Waiters : wpc'[v] = "draining" => wpc[v] = "draining"
    BY ZenonT(60), <2>1
  <2> QED BY ZenonT(60), <2>1, <2>2, <2>3, <2>4 DEF HandoverConsistent
<1>6. HoldersDistinct'
  <2>1. \A e \in Loops : InHand(e)' => InHand(e) /\ lstream'[e] = lstream[e]
    BY ZenonT(60) DEF Receive, InHand, loopVars
  <2>2. \A v \in Waiters : ch'[v] = ch[v] \/ ch'[v] = None
    BY SMTT(60), Z3T(60) DEF Receive, RendezvousInv, TypeOK
  <2>3. buffered' = buffered
    BY ZenonT(60) DEF Receive
  <2> QED BY ZenonT(60), <2>1, <2>2, <2>3, HoldersShrink
<1>7. OpenIsHeld'
  <2>1. \A t \in Streams : Parked(t)' <=> Parked(t)
    BY DEF Receive, Parked
  <2>2. \A t \in Streams : InSomeHand(t)' <=> InSomeHand(t)
    BY SMTT(60), Z3T(60) DEF Receive, loopVars, InSomeHand, InHand
  <2>3. \A t \in Streams : InSomeChannel(t)' <=> InSomeChannel(t) /\ t # ch[w]
    BY ZenonT(60), RendezvousAssumption DEF Receive, InSomeChannel, RendezvousInv, TypeOK, HoldersDistinct
  <2>4. \A t \in Streams : fate'[t] = "open" <=> fate[t] = "open" /\ t # ch[w]
    BY DEF Receive, RendezvousInv, TypeOK
  <2>5. InSomeChannel(ch[w]) /\ ch[w] \in Streams
    BY DEF Receive, InSomeChannel, RendezvousInv, TypeOK
  <2>6. OpenIsHeld /\ \A t \in Streams : /\ ~(Parked(t) /\ InSomeHand(t))
                                        /\ ~(Parked(t) /\ InSomeChannel(t))
                                        /\ ~(InSomeHand(t) /\ InSomeChannel(t))
    BY SMTT(60), Z3T(60), HoldersExclude DEF RendezvousInv
  <2> QED BY ZenonT(60), <2>1, <2>2, <2>3, <2>4, <2>5, <2>6 DEF OpenIsHeld
<1>8. AbandonedChannelIsEmptied'
  BY DEF RendezvousInv, TypeOK, AbandonedChannelIsEmptied, Receive, loopVars,
     waiterVars
<1> QED BY SMTT(60), Z3T(60), <1>1, <1>2, <1>3, <1>4, <1>5, <1>6, <1>7, <1>8 DEF RendezvousInv

\* RendezvousInv survives a cancelled AcceptStream (GiveUp).
LEMMA GiveUpKeeps ==
    ASSUME RendezvousInv, NEW w \in Waiters, GiveUp(w)
    PROVE  RendezvousInv'
<1>1. TypeOK'
  BY DEF RendezvousInv, TypeOK, GiveUp, loopVars, waiterVars
<1>2. /\ LoopsConsistent' /\ HoldersDistinct' /\ OpenIsHeld' /\ NoWaiterBesideParked'
      /\ DrainLeavesNothingParked'
  BY Frames DEF GiveUp, loopVars
<1>3. QueuesConsistent'
  BY SMTT(60), Z3T(60) DEF RendezvousInv, TypeOK, QueuesConsistent, GiveUp, loopVars, waiterVars
<1>4. HandoverConsistent'
  BY DEF RendezvousInv, TypeOK, HandoverConsistent, GiveUp, loopVars, waiterVars
<1>5. AbandonedChannelIsEmptied'
  BY SMTT(60), Z3T(60) DEF RendezvousInv, TypeOK, AbandonedChannelIsEmptied, GiveUp, loopVars, waiterVars
<1> QED BY <1>1, <1>2, <1>3, <1>4, <1>5 DEF RendezvousInv

\* RendezvousInv survives removePending finding its waiter (RemovePending).
LEMMA RemovePendingKeeps ==
    ASSUME RendezvousInv, NEW w \in Waiters, NEW i \in DOMAIN pending[wname[w]], RemovePending(w, i)
    PROVE  RendezvousInv'
<1> DEFINE n == wname[w]
<1>1. n \in Names /\ pending \in [Names -> Seq(Waiters)] /\ i \in DOMAIN pending[n] /\ pending[n][i] = w
  BY SMTT(60), Z3T(60) DEF RemovePending, RendezvousInv, QueuesConsistent, TypeOK
<1>2. pending' = [pending EXCEPT ![n] = CutAt(pending[n], i)]
  BY ZenonT(60) DEF RemovePending
<1>3. /\ QueuesConsistent /\ NoWaiterBesideParked
      /\ UNCHANGED <<ch, lwaiter, wname, buffered>>
      /\ wpc' = [wpc EXCEPT ![w] = "marking"] /\ DOMAIN wpc = Waiters
  BY SMTT(60), Z3T(60) DEF RemovePending, loopVars, RendezvousInv, TypeOK
<1>4. TypeOK'
  <2>1. CutAt(pending[n], i) \in Seq(Waiters)
    BY SMTT(60), Z3T(60), <1>1, CutAtFacts
  <2> HIDE DEF n
  <2>2. pending' \in [Names -> Seq(Waiters)]
    BY SMTT(60), Z3T(60), <1>1, <1>2, <2>1
  <2> QED BY SMTT(60), Z3T(60), <2>2 DEF RendezvousInv, TypeOK, RemovePending, loopVars
<1>5. LoopsConsistent' /\ HoldersDistinct' /\ OpenIsHeld' /\ DrainLeavesNothingParked'
  BY ZenonT(60), Frames DEF RemovePending, loopVars
<1>6. QueuesConsistent'
  <2>1. \A v \in Waiters : wpc'[v] # "idle" => wname'[v] \in Names
    BY SMTT(60), Z3T(60), <1>1, <1>3 DEF QueuesConsistent
  <2> HIDE DEF n
  <2>2. /\ pending'[n] = CutAt(pending[n], i)
        /\ \A m \in Names : m # n => pending'[m] = pending[m]
        /\ \A v \in Waiters : v # w => wpc'[v] = wpc[v]
    BY SMTT(60), Z3T(60), <1>1, <1>2, <1>3
  <2>3. \A m \in Names : \A j \in DOMAIN pending[m] : pending[m][j] \in Waiters
    BY SMTT(60), Z3T(60), <1>1
  <2>4. \A m \in Names : \A j \in DOMAIN pending[m] : pending[m][j] = w => m = n /\ j = i
    <3>1. /\ \A m \in Names : \A j \in DOMAIN pending[m] : wname[pending[m][j]] = m
          /\ \A m \in Names : \A j, k \in DOMAIN pending[m] : pending[m][j] = pending[m][k] => j = k
      BY ZenonT(60), <1>3 DEF QueuesConsistent
    <3>2. SUFFICES ASSUME NEW m \in Names, NEW j \in DOMAIN pending[m], pending[m][j] = w
                   PROVE  m = n /\ j = i
      OBVIOUS
    <3>3. m = n
      BY ZenonT(60), <3>1, <3>2 DEF n
    <3> QED BY SMTT(60), Z3T(60), <1>1, <3>1, <3>2, <3>3
  <2>5. EntriesWithout(pending[n], i, pending'[n])
    BY SMTT(60), Z3T(60), <1>1, <2>2, CutAtEntries
  <2>6. \A m \in Names : \A j \in DOMAIN pending'[m] :
           \E k \in DOMAIN pending[m] : pending'[m][j] = pending[m][k] /\ pending[m][k] # w
    BY SMTT(60), Z3T(60), <1>1, <2>2, <2>4, <2>5 DEF EntriesWithout
  <2>7. \A j, k \in DOMAIN pending'[n] : pending'[n][j] = pending'[n][k] => j = k
    BY SMTT(60), Z3T(60), <1>1, <1>3, <2>5 DEF QueuesConsistent, EntriesWithout
  <2>8. \A m \in Names : \A j, k \in DOMAIN pending'[m] : pending'[m][j] = pending'[m][k] => j = k
    <3>1. \A m \in Names : \A j, k \in DOMAIN pending[m] : pending[m][j] = pending[m][k] => j = k
      BY ZenonT(60), <1>3 DEF QueuesConsistent
    <3>2. SUFFICES ASSUME NEW m \in Names
                   PROVE  \A j, k \in DOMAIN pending'[m] : pending'[m][j] = pending'[m][k] => j = k
      BY ZenonT(60)
    <3>3. CASE m = n
      BY ONLY ZenonT(60), <2>7, <3>3
    <3>4. CASE m # n
      BY ONLY ZenonT(60), <2>2, <3>1, <3>4, m \in Names
    <3> QED BY ZenonT(60), <3>3, <3>4
  <2>9. \A m \in Names : \A j \in DOMAIN pending'[m] :
           /\ wname'[pending'[m][j]] = m
           /\ wpc'[pending'[m][j]] \in {"waiting", "removing"}
           /\ ch'[pending'[m][j]] = None
           /\ \A d \in Loops : lwaiter'[d] # pending'[m][j]
    <3>1. \A m \in Names : \A j \in DOMAIN pending[m] :
             /\ wname[pending[m][j]] = m
             /\ wpc[pending[m][j]] \in {"waiting", "removing"}
             /\ ch[pending[m][j]] = None
             /\ \A d \in Loops : lwaiter[d] # pending[m][j]
      BY ZenonT(60), <1>3 DEF QueuesConsistent
    <3>2. ch' = ch /\ lwaiter' = lwaiter /\ wname' = wname
      BY ZenonT(60), <1>3
    <3>3. SUFFICES ASSUME NEW m \in Names, NEW j \in DOMAIN pending'[m]
                   PROVE  /\ wname[pending'[m][j]] = m
                          /\ wpc'[pending'[m][j]] \in {"waiting", "removing"}
                          /\ ch[pending'[m][j]] = None
                          /\ \A d \in Loops : lwaiter[d] # pending'[m][j]
      BY ZenonT(60), <3>2
    <3>4. PICK k \in DOMAIN pending[m] : pending'[m][j] = pending[m][k] /\ pending[m][k] # w
      BY ZenonT(60), <2>6
    <3>5. wpc'[pending[m][k]] = wpc[pending[m][k]]
      BY ZenonT(60), <2>2, <2>3, <3>4
    <3>6. /\ wname[pending[m][k]] = m
          /\ wpc[pending[m][k]] \in {"waiting", "removing"}
          /\ ch[pending[m][k]] = None
          /\ \A d \in Loops : lwaiter[d] # pending[m][k]
      BY ZenonT(60), <3>1
    <3>7. wpc'[pending'[m][j]] = wpc[pending[m][k]]
      BY ONLY ZenonT(60), <3>4, <3>5
    <3> QED BY ONLY ZenonT(60), <3>4, <3>6, <3>7
  <2> QED BY ZenonT(60), <2>1, <2>8, <2>9 DEF QueuesConsistent
<1>7. HandoverConsistent'
  BY SMTT(60), Z3T(60) DEF RendezvousInv, TypeOK, HandoverConsistent, RemovePending, loopVars
<1>8. AbandonedChannelIsEmptied'
  BY SMTT(60), Z3T(60) DEF RendezvousInv, TypeOK, AbandonedChannelIsEmptied, RemovePending, loopVars
<1>9. NoWaiterBesideParked'
  <2> HIDE DEF n
  <2>1. pending[n] # <<>> /\ \A m \in Names : m # n => pending'[m] = pending[m]
    BY SMTT(60), Z3T(60), <1>1, <1>2
  <2> QED BY SMTT(60), Z3T(60), <1>1, <1>3, <2>1 DEF NoWaiterBesideParked
<1> QED BY ZenonT(60), <1>4, <1>5, <1>6, <1>7, <1>8, <1>9 DEF RendezvousInv

\* RendezvousInv survives removePending finding nothing (RemoveNothing).
LEMMA RemoveNothingKeeps ==
    ASSUME RendezvousInv, NEW w \in Waiters, RemoveNothing(w)
    PROVE  RendezvousInv'
<1>1. TypeOK'
  BY DEF RendezvousInv, TypeOK, RemoveNothing, loopVars, waiterVars
<1>2. /\ LoopsConsistent' /\ HoldersDistinct' /\ OpenIsHeld' /\ NoWaiterBesideParked'
      /\ DrainLeavesNothingParked'
  BY SMTT(60), Z3T(60), Frames DEF RemoveNothing, loopVars
<1>3. QueuesConsistent'
  BY DEF RendezvousInv, TypeOK, QueuesConsistent, RemoveNothing, loopVars, waiterVars
<1>4. HandoverConsistent'
  BY DEF RendezvousInv, TypeOK, HandoverConsistent, RemoveNothing, loopVars, waiterVars
<1>5. AbandonedChannelIsEmptied'
  BY SMTT(60), Z3T(60) DEF RendezvousInv, TypeOK, AbandonedChannelIsEmptied, RemoveNothing, loopVars, waiterVars
<1> QED BY <1>1, <1>2, <1>3, <1>4, <1>5 DEF RendezvousInv

\* RendezvousInv survives abandonWaiter setting the flag (MarkDone).
LEMMA MarkDoneKeeps ==
    ASSUME RendezvousInv, NEW w \in Waiters, MarkDone(w)
    PROVE  RendezvousInv'
<1>1. TypeOK'
  BY DEF RendezvousInv, TypeOK, MarkDone, loopVars, waiterVars
<1>2. /\ LoopsConsistent' /\ HoldersDistinct' /\ OpenIsHeld' /\ NoWaiterBesideParked'
      /\ DrainLeavesNothingParked'
  BY SMTT(60), Z3T(60), Frames DEF MarkDone, loopVars
<1>3. QueuesConsistent'
  BY DEF RendezvousInv, TypeOK, QueuesConsistent, MarkDone, loopVars, waiterVars
<1>4. HandoverConsistent'
  BY DEF RendezvousInv, TypeOK, HandoverConsistent, MarkDone, loopVars, waiterVars
<1>5. AbandonedChannelIsEmptied'
  BY DEF RendezvousInv, TypeOK, AbandonedChannelIsEmptied, MarkDone, loopVars, waiterVars
<1> QED BY <1>1, <1>2, <1>3, <1>4, <1>5 DEF RendezvousInv

\* RendezvousInv survives abandonWaiter emptying the channel (Abandon).
LEMMA AbandonKeeps ==
    ASSUME RendezvousInv, NEW w \in Waiters, Abandon(w)
    PROVE  RendezvousInv'
<1>1. TypeOK'
  <2>1. ch' \in [Waiters -> Streams \cup {None}] /\ fate' \in [Streams -> {"open", "app", "reset"}]
    BY Zenon DEF Abandon, DrainChannel, RendezvousInv, TypeOK
  <2> QED BY <2>1, Zenon DEF Abandon, loopVars, RendezvousInv, TypeOK
<1>2. NoWaiterBesideParked' /\ DrainLeavesNothingParked'
  BY SMTT(60), Z3T(60), Frames DEF Abandon, loopVars
<1>3. QueuesConsistent'
  <2>1. /\ pending' = pending /\ wname' = wname /\ lwaiter' = lwaiter /\ wpc[w] = "draining" /\ wpc'[w] = "idle"
        /\ \A v \in Waiters : v # w => wpc'[v] = wpc[v] /\ ch'[v] = ch[v]
    BY ZenonT(60) DEF Abandon, DrainChannel, loopVars, RendezvousInv, TypeOK
  <2>2. \A m \in Names : \A j \in DOMAIN pending[m] : wpc[pending[m][j]] \in {"waiting", "removing"}
    BY ZenonT(60) DEF RendezvousInv, QueuesConsistent
  <2>3. \A m \in Names : \A j \in DOMAIN pending[m] : pending[m][j] # w
    BY ONLY ZenonT(60), <2>1, <2>2
  <2> QED BY ZenonT(60), <2>1, <2>3, QueuesWithout
<1>4. LoopsConsistent'
  BY DEF RendezvousInv, TypeOK, LoopsConsistent, Abandon, DrainChannel, loopVars,
     waiterVars
<1>5. HandoverConsistent'
  BY SMTT(60), Z3T(60) DEF RendezvousInv, TypeOK, HandoverConsistent, Abandon, DrainChannel, loopVars,
     waiterVars
<1>6. HoldersDistinct'
  <2>1. \A e \in Loops : InHand(e)' => InHand(e) /\ lstream'[e] = lstream[e]
    BY ZenonT(60) DEF Abandon, InHand, loopVars
  <2>2. \A v \in Waiters : ch'[v] = ch[v] \/ ch'[v] = None
    BY SMTT(60), Z3T(60) DEF Abandon, DrainChannel, RendezvousInv, TypeOK
  <2>3. buffered' = buffered
    BY ZenonT(60) DEF Abandon
  <2> QED BY ZenonT(60), <2>1, <2>2, <2>3, HoldersShrink
<1>7. OpenIsHeld'
  <2>1. \A t \in Streams : Parked(t)' <=> Parked(t)
    BY DEF Abandon, Parked
  <2>2. \A t \in Streams : InSomeHand(t)' <=> InSomeHand(t)
    BY DEF Abandon, loopVars, InSomeHand, InHand
  <2>3. \A t \in Streams : InSomeChannel(t)' <=> InSomeChannel(t) /\ t # ch[w]
    <3>1. CASE ch[w] = None
      BY ZenonT(60), <3>1, RendezvousAssumption DEF Abandon, DrainChannel, InSomeChannel
    <3>2. CASE ch[w] # None
      <4>1. ch' = [ch EXCEPT ![w] = None] /\ DOMAIN ch = Waiters
        BY SMTT(60), Z3T(60), <3>2 DEF Abandon, DrainChannel, RendezvousInv, TypeOK
      <4>2. \A v \in Waiters : ch[v] = ch[w] => v = w
        BY ZenonT(60), <3>2 DEF RendezvousInv, HoldersDistinct
      <4> QED BY SMTT(60), Z3T(60), <4>1, <4>2, RendezvousAssumption DEF InSomeChannel
    <3> QED BY SMTT(60), Z3T(60), <3>1, <3>2
  <2>4. \A t \in Streams : fate'[t] = "open" <=> fate[t] = "open" /\ t # ch[w]
    BY RendezvousAssumption DEF Abandon, DrainChannel, RendezvousInv, TypeOK
  <2>5. ch[w] # None => InSomeChannel(ch[w]) /\ ch[w] \in Streams
    BY DEF InSomeChannel, RendezvousInv, TypeOK
  <2>6. OpenIsHeld /\ \A t \in Streams : /\ ~(Parked(t) /\ InSomeHand(t))
                                        /\ ~(Parked(t) /\ InSomeChannel(t))
                                        /\ ~(InSomeHand(t) /\ InSomeChannel(t))
    BY HoldersExclude DEF RendezvousInv
  <2> QED BY <2>1, <2>2, <2>3, <2>4, <2>5, <2>6, RendezvousAssumption DEF OpenIsHeld
<1>8. AbandonedChannelIsEmptied'
  BY DEF RendezvousInv, TypeOK, AbandonedChannelIsEmptied, Abandon, DrainChannel,
     loopVars, waiterVars
<1> QED BY <1>1, <1>2, <1>3, <1>4, <1>5, <1>6, <1>7, <1>8 DEF RendezvousInv

\* RendezvousInv survives GoAway's look at the flag (CheckDraining).
LEMMA CheckDrainingKeeps ==
    ASSUME RendezvousInv, NEW g \in Drainers, CheckDraining(g)
    PROVE  RendezvousInv'
<1>1. TypeOK'
  BY DEF RendezvousInv, TypeOK, CheckDraining, loopVars, waiterVars
<1>2. /\ QueuesConsistent' /\ LoopsConsistent' /\ HandoverConsistent' /\ HoldersDistinct'
      /\ OpenIsHeld' /\ AbandonedChannelIsEmptied' /\ NoWaiterBesideParked'
  BY Frames DEF CheckDraining, loopVars, waiterVars
<1>3. DrainLeavesNothingParked'
  BY DEF RendezvousInv, DrainLeavesNothingParked, CheckDraining, Refused, loopVars,
     waiterVars
<1> QED BY <1>1, <1>2, <1>3 DEF RendezvousInv

\* RendezvousInv survives enterDrain setting the flag (EnterDrain).
LEMMA EnterDrainKeeps ==
    ASSUME RendezvousInv, NEW g \in Drainers, EnterDrain(g)
    PROVE  RendezvousInv'
<1>1. TypeOK'
  BY DEF RendezvousInv, TypeOK, EnterDrain, loopVars, waiterVars
<1>2. /\ QueuesConsistent' /\ LoopsConsistent' /\ HandoverConsistent' /\ HoldersDistinct'
      /\ OpenIsHeld' /\ AbandonedChannelIsEmptied' /\ NoWaiterBesideParked'
  BY Frames DEF EnterDrain, loopVars, waiterVars
<1>3. DrainLeavesNothingParked'
  BY DEF RendezvousInv, TypeOK, DrainLeavesNothingParked, EnterDrain, Refused,
     loopVars, waiterVars
<1> QED BY <1>1, <1>2, <1>3 DEF RendezvousInv

\* RendezvousInv survives enterDrain rejecting (DrainRejects).
LEMMA DrainRejectsKeeps ==
    ASSUME RendezvousInv, NEW g \in Drainers, DrainRejects(g)
    PROVE  RendezvousInv'
<1>1. TypeOK'
  BY DEF RendezvousInv, TypeOK, DrainRejects, RejectParkedStreams, loopVars,
     waiterVars
<1>2. /\ QueuesConsistent' /\ LoopsConsistent' /\ HandoverConsistent'
      /\ AbandonedChannelIsEmptied'
  BY SMTT(60), Z3T(60), Frames DEF DrainRejects, loopVars, waiterVars
<1>3. HoldersDistinct'
  BY DEF RendezvousInv, HoldersDistinct, DrainRejects, RejectParkedStreams, InHand,
     loopVars, waiterVars
<1>4. OpenIsHeld'
  <2>1. \A t \in Streams : InSomeHand(t)' <=> InSomeHand(t)
    BY DEF DrainRejects, loopVars, InSomeHand, InHand
  <2> QED BY <2>1, RejectKeepsOpenIsHeld DEF DrainRejects, waiterVars
<1>5. NoWaiterBesideParked'
  BY DEF RendezvousInv, NoWaiterBesideParked, DrainRejects, RejectParkedStreams,
     loopVars, waiterVars
<1>6. DrainLeavesNothingParked'
  BY DEF RendezvousInv, DrainLeavesNothingParked, DrainRejects, RejectParkedStreams,
     Refused, loopVars, waiterVars
<1> QED BY <1>1, <1>2, <1>3, <1>4, <1>5, <1>6 DEF RendezvousInv

\* RendezvousInv survives sendGoAway (SendGoAway).
LEMMA SendGoAwayKeeps ==
    ASSUME RendezvousInv, NEW g \in Drainers, SendGoAway(g)
    PROVE  RendezvousInv'
<1>1. TypeOK'
  BY DEF RendezvousInv, TypeOK, SendGoAway, loopVars, waiterVars
<1>2. /\ QueuesConsistent' /\ LoopsConsistent' /\ HandoverConsistent' /\ HoldersDistinct'
      /\ OpenIsHeld' /\ AbandonedChannelIsEmptied' /\ NoWaiterBesideParked'
  BY Frames DEF SendGoAway, loopVars, waiterVars
<1>3. DrainLeavesNothingParked'
  BY DEF RendezvousInv, DrainLeavesNothingParked, SendGoAway, Refused, loopVars,
     waiterVars
<1> QED BY <1>1, <1>2, <1>3 DEF RendezvousInv

\* RendezvousInv survives Close cancelling the context (Cancel).
LEMMA CancelKeeps ==
    ASSUME RendezvousInv, Cancel
    PROVE  RendezvousInv'
<1>1. TypeOK'
  BY SMTT(60), Z3T(60) DEF RendezvousInv, TypeOK, Cancel, loopVars, waiterVars
<1>2. /\ QueuesConsistent' /\ LoopsConsistent' /\ HandoverConsistent' /\ HoldersDistinct'
      /\ OpenIsHeld' /\ AbandonedChannelIsEmptied' /\ NoWaiterBesideParked'
      /\ DrainLeavesNothingParked'
  BY Frames DEF Cancel, loopVars, waiterVars
<1> QED BY SMTT(60), Z3T(60), <1>1, <1>2 DEF RendezvousInv

\* RendezvousInv survives Close rejecting (CloseRejects).
LEMMA CloseRejectsKeeps ==
    ASSUME RendezvousInv, CloseRejects
    PROVE  RendezvousInv'
<1>1. TypeOK'
  BY DEF RendezvousInv, TypeOK, CloseRejects, RejectParkedStreams, loopVars,
     waiterVars
<1>2. /\ QueuesConsistent' /\ LoopsConsistent' /\ HandoverConsistent'
      /\ AbandonedChannelIsEmptied'
  BY SMTT(60), Z3T(60), Frames DEF CloseRejects, loopVars, waiterVars
<1>3. HoldersDistinct'
  BY DEF RendezvousInv, HoldersDistinct, CloseRejects, RejectParkedStreams, InHand,
     loopVars, waiterVars
<1>4. OpenIsHeld'
  <2>1. \A t \in Streams : InSomeHand(t)' <=> InSomeHand(t)
    BY DEF CloseRejects, loopVars, InSomeHand, InHand
  <2> QED BY <2>1, RejectKeepsOpenIsHeld DEF CloseRejects, waiterVars
<1>5. NoWaiterBesideParked'
  BY DEF RendezvousInv, NoWaiterBesideParked, CloseRejects, RejectParkedStreams,
     loopVars, waiterVars
<1>6. DrainLeavesNothingParked'
  BY DEF RendezvousInv, DrainLeavesNothingParked, CloseRejects, RejectParkedStreams,
     Refused, loopVars, waiterVars
<1> QED BY <1>1, <1>2, <1>3, <1>4, <1>5, <1>6 DEF RendezvousInv

\* A new session satisfies RendezvousInv.
LEMMA InitEstablishes == Init => RendezvousInv
<1> SUFFICES ASSUME Init PROVE RendezvousInv
  OBVIOUS
<1>1. TypeOK
  <2>1. lpc \in [Loops -> {"off", "accepting", "reading", "sending", "checking",
                           "arming", "rejecting", "exited"}]
    BY DEF Init
  <2>2. pending \in [Names -> Seq(Waiters)] /\ buffered \in [Names -> Seq(Streams)]
    BY DEF Init
  <2> QED BY <2>1, <2>2, Zenon DEF Init, TypeOK
<1>2. QueuesConsistent /\ LoopsConsistent /\ HandoverConsistent
  BY DEF Init, QueuesConsistent, LoopsConsistent, HandoverConsistent
<1>3. HoldersDistinct /\ OpenIsHeld
  BY RendezvousAssumption
  DEF Init, HoldersDistinct, OpenIsHeld, Parked, InSomeHand, InSomeChannel, InHand
<1>4. AbandonedChannelIsEmptied /\ NoWaiterBesideParked /\ DrainLeavesNothingParked
  BY DEF Init, AbandonedChannelIsEmptied, NoWaiterBesideParked, DrainLeavesNothingParked
<1> QED BY <1>1, <1>2, <1>3, <1>4 DEF RendezvousInv

\* Every step of the session keeps RendezvousInv.
LEMMA StepKeeps == RendezvousInv /\ [Next]_vars => RendezvousInv'
<1> SUFFICES ASSUME RendezvousInv, [Next]_vars PROVE RendezvousInv'
  OBVIOUS
<1>1. CASE UNCHANGED vars
  <2>1. TypeOK'
    BY <1>1 DEF vars, RendezvousInv, TypeOK
  <2> QED BY SMTT(60), Z3T(60), <1>1, <2>1, Frames DEF vars, RendezvousInv
<1>2. ASSUME NEW d \in Loops, StartLoop(d) \/ LoopExits(d)
      PROVE  RendezvousInv'
  BY <1>2, StartLoopKeeps, LoopExitsKeeps
<1>3. ASSUME NEW d \in Loops, NEW s \in Streams, TakeStream(d, s)
      PROVE  RendezvousInv'
  BY <1>3, TakeStreamKeeps
<1>4. ASSUME NEW d \in Loops, LoopStep(d)
      PROVE  RendezvousInv'
  BY <1>4, HeaderFailsKeeps, PeerGoAwayKeeps, PeerGoAwayAgainKeeps, DeliverResetsKeeps,
     DeliverPopsKeeps, DeliverParksKeeps, ArmTimerKeeps, SendToWaiterKeeps,
     CheckDoneKeeps, LoopRejectsKeeps
  DEF LoopStep
<1>5. ASSUME NEW s \in Streams, TimerFires(s)
      PROVE  RendezvousInv'
  BY <1>5, TimerIdleKeeps, ExpireBufferedKeeps DEF TimerFires
<1>6. ASSUME NEW w \in Waiters, NEW n \in Names, AcceptTakes(w, n) \/ AcceptWaits(w, n)
      PROVE  RendezvousInv'
  BY SMTT(60), Z3T(60), <1>6, AcceptTakesKeeps, AcceptWaitsKeeps
<1>7. ASSUME NEW w \in Waiters, Receive(w) \/ GiveUp(w) \/ WaiterLeaves(w)
      PROVE  RendezvousInv'
  BY ZenonT(60), <1>7, ReceiveKeeps, GiveUpKeeps, RemovePendingKeeps, RemoveNothingKeeps,
     MarkDoneKeeps, AbandonKeeps
  DEF WaiterLeaves
<1>8. ASSUME NEW g \in Drainers, CheckDraining(g) \/ DrainerStep(g)
      PROVE  RendezvousInv'
  BY <1>8, CheckDrainingKeeps, EnterDrainKeeps, DrainRejectsKeeps, SendGoAwayKeeps
  DEF DrainerStep
<1>9. CASE Cancel \/ CloseRejects
  BY <1>9, CancelKeeps, CloseRejectsKeeps
<1> QED BY <1>1, <1>2, <1>3, <1>4, <1>5, <1>6, <1>7, <1>8, <1>9 DEF Next

\* RendezvousInv holds in every reachable state of a session, so queues,
\* channels, buffers and streams in hand always agree.
THEOREM RendezvousInvariant == Spec => []RendezvousInv
  BY InitEstablishes, StepKeeps, PTL DEF Spec

\* A stream the library has accepted always has exactly one holder, and one
\* it has let go of has none (deliverIncomingStream, AcceptStream,
\* expireBuffered, rejectParkedStreams).
THEOREM EveryStreamAlwaysHasOneHolder == Spec => []EveryStreamHasOneHolder
<1>1. RendezvousInv => EveryStreamHasOneHolder
  BY DEF RendezvousInv, EveryStreamHasOneHolder
<1> QED BY <1>1, RendezvousInvariant, PTL

\* A stream that races into the channel of a cancelled AcceptStream is always
\* found by abandonWaiter or by the recheck in deliverIncomingStream.
THEOREM AbandonedChannelAlwaysEmptied == Spec => []AbandonedChannelIsEmptied
<1>1. RendezvousInv => AbandonedChannelIsEmptied
  BY DEF RendezvousInv
<1> QED BY <1>1, RendezvousInvariant, PTL

\* AcceptStream never waits beside a stream parked under its name.
THEOREM NeverWaiterBesideParked == Spec => []NoWaiterBesideParked
<1>1. RendezvousInv => NoWaiterBesideParked
  BY DEF RendezvousInv
<1> QED BY <1>1, RendezvousInvariant, PTL

\* After enterDrain has rejected the parked streams, no application stream
\* is parked.
THEOREM DrainAlwaysLeavesNothingParked == Spec => []DrainLeavesNothingParked
<1>1. RendezvousInv => DrainLeavesNothingParked
  BY SMTT(60), Z3T(60) DEF RendezvousInv
<1> QED BY <1>1, RendezvousInvariant, PTL

\* A stream that is reset in a step was open before it.
LEMMA OnlyOpenIsReset ==
    ASSUME RendezvousInv, Next, NEW s \in Streams, fate[s] # "reset", fate'[s] = "reset"
    PROVE  fate[s] = "open"
<1>1. \A d \in Loops : InHand(d) => lstream[d] \in Streams /\ fate[lstream[d]] = "open"
  BY DEF RendezvousInv, OpenIsHeld, InSomeHand, InHand, LoopsConsistent, TypeOK
<1>2. \A w \in Waiters : ch[w] # None => ch[w] \in Streams /\ fate[ch[w]] = "open"
  BY DEF RendezvousInv, OpenIsHeld, InSomeChannel, TypeOK
<1>3. \A t \in Streams : Parked(t) => fate[t] = "open"
  BY SMTT(60), Z3T(60) DEF RendezvousInv, OpenIsHeld
<1>4. ASSUME NEW d \in Loops, lpc[d] = "reading", fate' = [fate EXCEPT ![lstream[d]] = "reset"]
      PROVE  fate[s] = "open"
  BY SMTT(60), Z3T(60), <1>1, <1>4 DEF InHand, RendezvousInv, TypeOK
<1>5. ASSUME NEW w \in Waiters, DrainChannel(w)
      PROVE  fate[s] = "open"
  BY <1>2, <1>5 DEF DrainChannel, RendezvousInv, TypeOK
<1>6. CASE RejectParkedStreams
  BY <1>3, <1>6 DEF RejectParkedStreams
<1>7. CASE fate' = fate
  BY SMTT(60), Z3T(60), <1>7
<1>8. ASSUME NEW d \in Loops, LoopStep(d)
      PROVE  fate[s] = "open"
  <2>1. lpc[d] = "checking" => lwaiter[d] \in Waiters
    BY SMTT(60), Z3T(60) DEF RendezvousInv, LoopsConsistent, TypeOK
  <2> QED
    BY ZenonT(60), <1>4, <1>5, <1>6, <1>7, <1>8, <2>1
    DEF LoopStep, HeaderFails, PeerGoAway, PeerGoAwayAgain, DeliverResets, DeliverPops,
        DeliverParks, ArmTimer, SendToWaiter, CheckDone, LoopRejects
<1>9. ASSUME NEW d \in Loops, StartLoop(d) \/ LoopExits(d) \/ \E t \in Streams : TakeStream(d, t)
      PROVE  fate[s] = "open"
  BY <1>7, <1>9 DEF StartLoop, LoopExits, TakeStream, RendezvousInv, TypeOK
<1>10. ASSUME NEW t \in Streams, TimerFires(t)
       PROVE  fate[s] = "open"
  <2>1. ASSUME NEW n \in Names, NEW i \in DOMAIN buffered[n], ExpireBuffered(t, n, i)
        PROVE  fate[s] = "open"
    <3>1. Parked(t)
      BY ZenonT(60), <2>1 DEF ExpireBuffered, Parked
    <3> QED BY SMTT(60), Z3T(60), <2>1, <3>1, <1>3 DEF ExpireBuffered, RendezvousInv, TypeOK
  <2> QED BY SMTT(60), Z3T(60), <1>7, <1>10, <2>1 DEF TimerFires, TimerIdle
<1>11. ASSUME NEW w \in Waiters,
              \/ Receive(w) \/ GiveUp(w) \/ WaiterLeaves(w)
              \/ \E n \in Names : AcceptTakes(w, n) \/ AcceptWaits(w, n)
       PROVE  fate[s] = "open"
  BY ZenonT(60), <1>5, <1>7, <1>11
  DEF Receive, GiveUp, WaiterLeaves, RemovePending, RemoveNothing, MarkDone, Abandon,
      AcceptTakes, AcceptWaits, RendezvousInv, TypeOK
<1>12. ASSUME NEW g \in Drainers, CheckDraining(g) \/ DrainerStep(g)
       PROVE  fate[s] = "open"
  BY <1>6, <1>7, <1>12 DEF CheckDraining, DrainerStep, EnterDrain, DrainRejects, SendGoAway
<1>13. CASE Cancel \/ CloseRejects
  BY <1>6, <1>7, <1>13 DEF Cancel, CloseRejects
<1> QED BY ZenonT(60), <1>8, <1>9, <1>10, <1>11, <1>12, <1>13 DEF Next

\* A stream that AcceptStream has returned is never reset by the library: not
\* by a late timer, a drain, Close or another waiter's clean-up.
THEOREM AppStreamIsNeverReset == Spec => AppStreamNeverReset
<1>1. RendezvousInv /\ [Next]_vars =>
         [\A s \in Streams : fate[s] = "app" => fate'[s] # "reset"]_vars
  BY OnlyOpenIsReset
<1> QED BY <1>1, RendezvousInvariant, PTL DEF Spec, AppStreamNeverReset

=============================================================================
