-------------------------- MODULE LanUpgradeProofs --------------------------
(***************************************************************************)
(* Proof that LanInv is an inductive invariant of LanUpgrade, and with it  *)
(* that a Session is only ever carried by its own, confirmed, connection,  *)
(* for any Sessions, clients, timeouts and closers.                        *)
(***************************************************************************)
EXTENDS LanUpgrade, TLAPS

\* What an update of one end of one Session yields.
LEMMA EndUpdate ==
    ASSUME NEW V, NEW f \in [Sessions -> [Ends -> V]], NEW s \in Sessions, NEW e \in Ends, NEW v \in V
    PROVE  /\ [f EXCEPT ![s][e] = v] \in [Sessions -> [Ends -> V]]
           /\ \A t \in Sessions, d \in Ends :
                 [f EXCEPT ![s][e] = v][t][d] = IF t = s /\ d = e THEN v ELSE f[t][d]
<1>1. f[s] \in [Ends -> V]
  OBVIOUS
<1>2. [f[s] EXCEPT ![e] = v] \in [Ends -> V]
  BY <1>1
<1>3. [f EXCEPT ![s][e] = v] = [f EXCEPT ![s] = [f[s] EXCEPT ![e] = v]]
  OBVIOUS
<1> QED
  BY <1>1, <1>2, <1>3

\* The update of an end's carrier, and of its Close.
LEMMA CarrierUpdate ==
    ASSUME TypeOK, NEW s \in Sessions, NEW e \in Ends, NEW v \in Sessions \cup {Relay, None}
    PROVE  /\ [carrier EXCEPT ![s][e] = v] \in [Sessions -> [Ends -> Sessions \cup {Relay, None}]]
           /\ \A t \in Sessions, d \in Ends :
                 [carrier EXCEPT ![s][e] = v][t][d] = IF t = s /\ d = e THEN v ELSE carrier[t][d]
<1> DEFINE V == Sessions \cup {Relay, None}
<1>1. carrier \in [Sessions -> [Ends -> V]] /\ v \in V
  BY DEF TypeOK
<1> HIDE DEF V
<1>2. /\ [carrier EXCEPT ![s][e] = v] \in [Sessions -> [Ends -> V]]
      /\ \A t \in Sessions, d \in Ends :
            [carrier EXCEPT ![s][e] = v][t][d] = IF t = s /\ d = e THEN v ELSE carrier[t][d]
  BY <1>1, EndUpdate
<1> QED
  BY <1>2 DEF V

\* The update of how far Close of an end has got keeps its type.
LEMMA ClosingUpdate ==
    ASSUME TypeOK, NEW s \in Sessions, NEW e \in Ends, NEW v \in {"open", "closing", "closed"}
    PROVE  [closing EXCEPT ![s][e] = v] \in [Sessions -> [Ends -> {"open", "closing", "closed"}]]
<1> DEFINE V == {"open", "closing", "closed"}
<1>1. closing \in [Sessions -> [Ends -> V]] /\ v \in V
  BY DEF TypeOK
<1> HIDE DEF V
<1>2. [closing EXCEPT ![s][e] = v] \in [Sessions -> [Ends -> V]]
  BY <1>1, EndUpdate
<1> QED
  BY <1>2 DEF V

\* Before offerLAN starts nothing is filed, dialed or swapped.
LEMMA InitLan == Init => LanInv
<1> SUFFICES ASSUME Init PROVE LanInv
    OBVIOUS
<1>1. TypeOK
  BY DEF Init, TypeOK
<1>2. HandshakeConsistent
  BY ZenonT(60), LanAssumption DEF Init, HandshakeConsistent
<1>3. CarrierIsOwn /\ SwapIsConfirmed
  BY LanAssumption DEF Init, CarrierIsOwn, SwapIsConfirmed, Ends
<1>4. FiledByPeer /\ PendingIsLive
  BY LanAssumption DEF Init, FiledByPeer, PendingIsLive
<1> QED
  BY <1>1, <1>2, <1>3, <1>4 DEF LanInv

\* RegisterPending and UnregisterPending touch the peer's entry only.
LEMMA PendingSteps ==
    ASSUME LanInv, NEW s \in Sessions, RegisterPending(s) \/ UnregisterPending(s)
    PROVE  LanInv'
<1>1. PeerOf[s] \in Peers
  BY LanAssumption
<1>2. TypeOK'
  <2>1. pending' \in [Peers -> Sessions \cup {None}]
    BY ZenonT(60), <1>1 DEF LanInv, TypeOK, RegisterPending, UnregisterPending
  <2>2. bpc' \in [Sessions -> {"start", "opening", "offered", "swapping", "leaving", "done"}]
    BY ZenonT(60) DEF LanInv, TypeOK, RegisterPending, UnregisterPending
  <2> QED
    BY <2>1, <2>2 DEF LanInv, TypeOK, RegisterPending, UnregisterPending, dialVars, endVars
<1>3. HandshakeConsistent'
  BY DEF LanInv, TypeOK, HandshakeConsistent, RegisterPending, UnregisterPending, dialVars
<1>4. CarrierIsOwn' /\ SwapIsConfirmed'
  BY DEF LanInv, CarrierIsOwn, SwapIsConfirmed, RegisterPending, UnregisterPending, endVars
<1>5. FiledByPeer' /\ PendingIsLive'
  <2> SUFFICES ASSUME NEW p \in Peers, NEW t \in Sessions, pending'[p] = t
               PROVE  /\ p = PeerOf[t]
                      /\ bpc'[t] \in {"opening", "offered", "swapping", "leaving"}
      BY DEF FiledByPeer, PendingIsLive
  <2>1. pending[p] = t => p = PeerOf[t] /\ bpc[t] \in {"opening", "offered", "swapping", "leaving"}
    BY DEF LanInv, FiledByPeer, PendingIsLive
  <2>2. CASE RegisterPending(s)
    BY <2>1, <2>2 DEF LanInv, TypeOK, RegisterPending
  <2>3. CASE UnregisterPending(s)
    BY <2>1, <2>3, LanAssumption DEF LanInv, TypeOK, UnregisterPending
  <2> QED
    BY <2>2, <2>3
<1> QED
  BY <1>2, <1>3, <1>4, <1>5 DEF LanInv

\* The steps of offerLAN between the two, short of the swap.
LEMMA OfferSteps ==
    ASSUME LanInv, NEW s \in Sessions,
           SendOffer(s) \/ OfferFails(s) \/ TakeVerified(s) \/ OfferTimesOut(s)
    PROVE  LanInv'
<1>1. /\ UNCHANGED <<verified, dialVars, serverVars, relay, endVars>>
      /\ offer' \subseteq offer \cup {s}
      /\ \E v \in {"offered", "swapping", "leaving"} :
            /\ bpc' = [bpc EXCEPT ![s] = v]
            /\ v = "swapping" => verified[s] # None
  BY DEF SendOffer, OfferFails, TakeVerified, OfferTimesOut
<1>2. PICK v \in {"offered", "swapping", "leaving"} :
         bpc' = [bpc EXCEPT ![s] = v] /\ (v = "swapping" => verified[s] # None)
  BY ZenonT(60), <1>1
<1>3. TypeOK'
  BY <1>1, <1>2 DEF LanInv, TypeOK, dialVars, serverVars, endVars
<1>4. HandshakeConsistent'
  BY <1>1, <1>2 DEF LanInv, TypeOK, HandshakeConsistent, dialVars, serverVars
<1>5. CarrierIsOwn' /\ SwapIsConfirmed'
  BY <1>1 DEF LanInv, CarrierIsOwn, SwapIsConfirmed, endVars, serverVars
<1>6. FiledByPeer' /\ PendingIsLive'
  BY <1>1, <1>2 DEF LanInv, TypeOK, FiledByPeer, PendingIsLive, serverVars
<1> QED
  BY SMTT(60), Z3T(60), <1>3, <1>4, <1>5, <1>6 DEF LanInv

\* swapTransport with the Session's own, confirmed connection.
LEMMA SwapKeeps ==
    ASSUME LanInv, NEW s \in Sessions, NEW e \in Ends, s \in confirmed,
           swapTransport(s, e, s), UNCHANGED <<confirmed>>
    PROVE  /\ CarrierIsOwn' /\ SwapIsConfirmed'
           /\ carrier' \in [Sessions -> [Ends -> Sessions \cup {Relay, None}]]
           /\ conn' \in [Sessions -> {"none", "open", "closed"}]
           /\ onLAN' \subseteq Sessions \X Ends /\ old' \subseteq Sessions \X Ends
           /\ ready' \subseteq Sessions \X Ends /\ closing' = closing
<1>2. carrier' = carrier \/ carrier' = [carrier EXCEPT ![s][e] = s]
  BY DEF swapTransport, endVars
<1>3. TypeOK /\ carrier \in [Sessions -> [Ends -> Sessions \cup {Relay, None}]]
  BY DEF LanInv, TypeOK
<1>4. carrier' \in [Sessions -> [Ends -> Sessions \cup {Relay, None}]]
  BY SMTT(60), Z3T(60), <1>2, <1>3, CarrierUpdate
<1>5. CarrierIsOwn' /\ SwapIsConfirmed'
  <2> SUFFICES ASSUME NEW t \in Sessions, NEW f \in Ends
               PROVE  /\ carrier'[t][f] \in {Relay, None, t}
                      /\ carrier'[t][f] \in Sessions => t \in confirmed'
      BY DEF CarrierIsOwn, SwapIsConfirmed
  <2>1. carrier'[t][f] = carrier[t][f] \/ (t = s /\ carrier'[t][f] = s)
    BY <1>2, <1>3, CarrierUpdate
  <2> QED
    BY <2>1 DEF LanInv, CarrierIsOwn, SwapIsConfirmed
<1>6. /\ conn' \in [Sessions -> {"none", "open", "closed"}]
      /\ onLAN' \subseteq Sessions \X Ends /\ old' \subseteq Sessions \X Ends
      /\ ready' \subseteq Sessions \X Ends /\ closing' = closing
  <2>1. conn' \in [Sessions -> {"none", "open", "closed"}] /\ closing' = closing
    BY ZenonT(60) DEF LanInv, TypeOK, swapTransport, endVars
  <2>2. <<s, e>> \in Sessions \X Ends
    OBVIOUS
  <2>3. /\ onLAN' \subseteq onLAN \cup {<<s, e>>} /\ old' \subseteq old \cup {<<s, e>>}
        /\ ready' \subseteq ready \cup {<<s, e>>}
    BY DEF swapTransport, endVars
  <2> QED
    BY <2>1, <2>2, <2>3 DEF LanInv, TypeOK
<1> QED
  BY <1>4, <1>5, <1>6

\* offerLAN swaps to the verified connection.
LEMMA BackendSwapStep ==
    ASSUME LanInv, NEW s \in Sessions, BackendSwaps(s)
    PROVE  LanInv'
<1>1. verified[s] = s /\ s \in confirmed
  BY DEF LanInv, HandshakeConsistent, BackendSwaps
<1>2. /\ swapTransport(s, "backend", s) /\ UNCHANGED <<offer, verified, cpc, serverVars, relay>>
      /\ bpc' = [bpc EXCEPT ![s] = "leaving"] /\ UNCHANGED <<confirmed>>
  BY <1>1 DEF BackendSwaps, serverVars
<1>3. /\ CarrierIsOwn' /\ SwapIsConfirmed'
      /\ carrier' \in [Sessions -> [Ends -> Sessions \cup {Relay, None}]]
      /\ conn' \in [Sessions -> {"none", "open", "closed"}]
      /\ onLAN' \subseteq Sessions \X Ends /\ old' \subseteq Sessions \X Ends
      /\ ready' \subseteq Sessions \X Ends /\ closing' = closing
  BY <1>1, <1>2, SwapKeeps DEF Ends
<1>4. TypeOK'
  BY ZenonT(60), <1>2, <1>3 DEF LanInv, TypeOK, serverVars
<1>5. HandshakeConsistent'
  BY <1>2 DEF LanInv, TypeOK, HandshakeConsistent, serverVars
<1>6. FiledByPeer' /\ PendingIsLive'
  BY <1>2 DEF LanInv, TypeOK, FiledByPeer, PendingIsLive, serverVars
<1> QED
  BY <1>3, <1>4, <1>5, <1>6 DEF LanInv

\* handleLANOffer swaps to the confirmed connection.
LEMMA ClientSwapStep ==
    ASSUME LanInv, NEW s \in Sessions, ClientSwaps(s)
    PROVE  LanInv'
<1>1. s \in confirmed
  BY DEF LanInv, HandshakeConsistent, ClientSwaps
<1>2. /\ swapTransport(s, "client", s) /\ UNCHANGED <<offerVars, serverVars, relay>>
      /\ cpc' = [cpc EXCEPT ![s] = "done"] /\ UNCHANGED <<confirmed>>
  BY DEF ClientSwaps, serverVars
<1>3. /\ CarrierIsOwn' /\ SwapIsConfirmed'
      /\ carrier' \in [Sessions -> [Ends -> Sessions \cup {Relay, None}]]
      /\ conn' \in [Sessions -> {"none", "open", "closed"}]
      /\ onLAN' \subseteq Sessions \X Ends /\ old' \subseteq Sessions \X Ends
      /\ ready' \subseteq Sessions \X Ends /\ closing' = closing
  BY <1>1, <1>2, SwapKeeps DEF Ends
<1>4. TypeOK'
  BY ZenonT(60), <1>2, <1>3 DEF LanInv, TypeOK, offerVars, serverVars
<1>5. HandshakeConsistent'
  BY <1>2 DEF LanInv, TypeOK, HandshakeConsistent, offerVars, serverVars
<1>6. FiledByPeer' /\ PendingIsLive'
  BY <1>2 DEF LanInv, FiledByPeer, PendingIsLive, offerVars, serverVars
<1> QED
  BY <1>3, <1>4, <1>5, <1>6 DEF LanInv

\* The steps of handleLANOffer short of the swap.
LEMMA DialSteps ==
    ASSUME LanInv, NEW s \in Sessions,
           ReceiveOffer(s) \/ Dial(s) \/ DialFails(s) \/ Confirmed(s) \/ Refused(s)
    PROVE  LanInv'
<1>1. TypeOK'
  BY ZenonT(60) DEF LanInv, TypeOK, ReceiveOffer, Dial, DialFails, Confirmed, Refused,
         offerVars, serverVars, endVars
<1>2. HandshakeConsistent'
  BY DEF LanInv, TypeOK, HandshakeConsistent, ReceiveOffer, Dial, DialFails, Confirmed, Refused,
         offerVars, serverVars
<1>3. CarrierIsOwn' /\ SwapIsConfirmed'
  BY SMTT(60), Z3T(60) DEF LanInv, CarrierIsOwn, SwapIsConfirmed, ReceiveOffer, Dial, DialFails, Confirmed, Refused,
         serverVars, endVars
<1>4. FiledByPeer' /\ PendingIsLive'
  BY DEF LanInv, FiledByPeer, PendingIsLive, ReceiveOffer, Dial, DialFails, Confirmed, Refused,
         offerVars, serverVars
<1> QED
  BY <1>1, <1>2, <1>3, <1>4 DEF LanInv

\* handleConn takes an entry, confirms and announces.
LEMMA ServerSteps ==
    ASSUME LanInv, NEW c \in Sessions, Verify(c) \/ Confirm(c) \/ Announce(c)
    PROVE  LanInv'
<1>1. CASE Verify(c)
  <2>1. PeerOf[c] \in Peers
    BY SMTT(60), Z3T(60), LanAssumption
  <2>2. TypeOK'
    <3>1. pending' \in [Peers -> Sessions \cup {None}]
      BY <1>1, <2>1 DEF LanInv, TypeOK, Verify
    <3>2. taken' \in [Sessions -> Sessions \cup {None}]
      <4>1. taken' = taken \/ taken' = [taken EXCEPT ![c] = c]
        BY <1>1 DEF Verify, Matches
      <4> QED
        BY ZenonT(60), <4>1 DEF LanInv, TypeOK
    <3>3. /\ srv' \in [Sessions -> {"none", "verify", "confirm", "announce", "done"}]
          /\ conn' \in [Sessions -> {"none", "open", "closed"}]
      BY ZenonT(60), <1>1 DEF LanInv, TypeOK, Verify
    <3> QED
      BY SMTT(60), Z3T(60), <1>1, <3>1, <3>2, <3>3 DEF LanInv, TypeOK, Verify, offerVars, endVars
  <2>3. HandshakeConsistent'
    <3>1. \/ taken' = [taken EXCEPT ![c] = c] /\ srv' = [srv EXCEPT ![c] = "confirm"]
          \/ taken' = taken /\ srv' = [srv EXCEPT ![c] = "done"]
      BY SMTT(60), Z3T(60), <1>1 DEF Verify, Matches
    <3>2. UNCHANGED <<bpc, verified, cpc, confirmed>>
      BY SMTT(60), Z3T(60), <1>1 DEF Verify, offerVars
    <3> QED
      BY SMTT(60), Z3T(60), <3>1, <3>2 DEF LanInv, TypeOK, HandshakeConsistent
  <2>4. CarrierIsOwn' /\ SwapIsConfirmed'
    BY SMTT(60), Z3T(60), <1>1 DEF LanInv, CarrierIsOwn, SwapIsConfirmed, Verify, endVars
  <2>5. FiledByPeer' /\ PendingIsLive'
    BY SMTT(60), Z3T(60), <1>1, <2>1, LanAssumption DEF LanInv, TypeOK, FiledByPeer, PendingIsLive, Verify, offerVars
  <2> QED
    BY <2>2, <2>3, <2>4, <2>5 DEF LanInv
<1>2. CASE Confirm(c)
  <2>1. TypeOK'
    BY SMTT(60), Z3T(60), <1>2 DEF LanInv, TypeOK, Confirm, offerVars, dialVars, endVars
  <2>2. HandshakeConsistent'
    BY SMTT(60), Z3T(60), <1>2 DEF LanInv, TypeOK, HandshakeConsistent, Confirm, offerVars, dialVars
  <2>3. CarrierIsOwn' /\ SwapIsConfirmed'
    BY SMTT(60), Z3T(60), <1>2 DEF LanInv, CarrierIsOwn, SwapIsConfirmed, Confirm, endVars
  <2>4. FiledByPeer' /\ PendingIsLive'
    BY SMTT(60), Z3T(60), <1>2 DEF LanInv, FiledByPeer, PendingIsLive, Confirm, offerVars
  <2> QED
    BY <2>1, <2>2, <2>3, <2>4 DEF LanInv
<1>3. CASE Announce(c)
  <2>1. taken[c] = c /\ c \in confirmed
    BY SMTT(60), Z3T(60), <1>3 DEF LanInv, HandshakeConsistent, Announce
  <2>2. TypeOK'
    BY SMTT(60), Z3T(60), <1>3, <2>1 DEF LanInv, TypeOK, Announce, dialVars, endVars
  <2>3. HandshakeConsistent'
    BY SMTT(60), Z3T(60), <1>3, <2>1, LanAssumption DEF LanInv, TypeOK, HandshakeConsistent, Announce, dialVars
  <2>4. CarrierIsOwn' /\ SwapIsConfirmed'
    BY ZenonT(60), <1>3 DEF LanInv, CarrierIsOwn, SwapIsConfirmed, Announce, endVars
  <2>5. FiledByPeer' /\ PendingIsLive'
    BY <1>3 DEF LanInv, FiledByPeer, PendingIsLive, Announce
  <2> QED
    BY <2>2, <2>3, <2>4, <2>5 DEF LanInv
<1> QED
  BY <1>1, <1>2, <1>3

\* Close and the delayed close of the old transport.
LEMMA CloseSteps ==
    ASSUME LanInv, NEW s \in Sessions, NEW e \in Ends,
           CloseOld(s, e) \/ CloseBegins(s, e) \/ CloseTransport(s, e)
    PROVE  LanInv'
<1>1. /\ carrier' = carrier \/ carrier' = [carrier EXCEPT ![s][e] = None]
      /\ \/ closing' = closing
         \/ closing' = [closing EXCEPT ![s][e] = "closing"]
         \/ closing' = [closing EXCEPT ![s][e] = "closed"]
      /\ relay' \subseteq relay /\ old' \subseteq old /\ ready' \subseteq ready \cup {<<s, e>>}
      /\ UNCHANGED <<offerVars, cpc, serverVars, onLAN>>
  BY SMTT(60), Z3T(60) DEF CloseOld, CloseBegins, CloseTransport, dialVars
<1>2. conn' \in [Sessions -> {"none", "open", "closed"}]
  BY SMTT(60), Z3T(60) DEF LanInv, TypeOK, CloseOld, CloseBegins, CloseTransport, dialVars
<1>3. /\ carrier' \in [Sessions -> [Ends -> Sessions \cup {Relay, None}]]
      /\ \A t \in Sessions, f \in Ends : carrier'[t][f] \in {carrier[t][f], None}
  <2>1. TypeOK /\ carrier \in [Sessions -> [Ends -> Sessions \cup {Relay, None}]]
    BY DEF LanInv, TypeOK
  <2>2. CASE carrier' = carrier
    BY <2>1, <2>2
  <2>3. CASE carrier' = [carrier EXCEPT ![s][e] = None]
    BY SMTT(60), Z3T(60), <2>1, <2>3, CarrierUpdate
  <2> QED
    BY SMTT(60), Z3T(60), <1>1, <2>2, <2>3
<1>4. TypeOK'
  <2>1. closing' \in [Sessions -> [Ends -> {"open", "closing", "closed"}]]
    <3>1. TypeOK /\ closing \in [Sessions -> [Ends -> {"open", "closing", "closed"}]]
      BY SMTT(60), Z3T(60) DEF LanInv, TypeOK
    <3> QED
      BY SMTT(60), Z3T(60), <1>1, <3>1, ClosingUpdate
  <2>2. ready' \subseteq Sessions \X Ends
    BY <1>1 DEF LanInv, TypeOK
  <2> QED
    BY SMTT(60), Z3T(60), <1>1, <1>2, <1>3, <2>1, <2>2 DEF LanInv, TypeOK, offerVars, serverVars
<1>5. HandshakeConsistent'
  BY SMTT(60), Z3T(60), <1>1 DEF LanInv, HandshakeConsistent, offerVars, serverVars
<1>6. CarrierIsOwn' /\ SwapIsConfirmed'
  BY SMTT(60), Z3T(60), <1>1, <1>3, LanAssumption DEF LanInv, CarrierIsOwn, SwapIsConfirmed, serverVars
<1>7. FiledByPeer' /\ PendingIsLive'
  BY <1>1 DEF LanInv, FiledByPeer, PendingIsLive, offerVars, serverVars
<1> QED
  BY SMTT(60), Z3T(60), <1>4, <1>5, <1>6, <1>7 DEF LanInv

\* Every step keeps LanInv.
LEMMA NextLan == LanInv /\ [Next]_vars => LanInv'
<1> SUFFICES ASSUME LanInv, [Next]_vars PROVE LanInv'
    BY SMTT(60), Z3T(60)
<1>1. CASE UNCHANGED vars
  BY SMTT(60), Z3T(60), <1>1 DEF LanInv, TypeOK, HandshakeConsistent, CarrierIsOwn, SwapIsConfirmed, FiledByPeer, PendingIsLive,
              vars, offerVars, dialVars, serverVars, endVars
<1>2. CASE Next
  BY <1>2, PendingSteps, OfferSteps, BackendSwapStep, DialSteps, ClientSwapStep, ServerSteps,
     CloseSteps DEF Next, BackendStep, ClientStep, ServerStep
<1> QED
  BY <1>1, <1>2

\* The offers, the LANServer's table, the dials and the carriers stay
\* consistent, whatever times out or is closed.
THEOREM LanInvariant == Spec => []LanInv
  BY InitLan, NextLan, PTL DEF Spec

\* A Session is carried by its relay pipe or by the connection its own client
\* dialed (the challenge of handleConn, the closure of RegisterPending).
THEOREM CarrierAlwaysOwn == Spec => []CarrierIsOwn
<1>1. LanInv => CarrierIsOwn
  BY DEF LanInv
<1> QED
  BY LanInvariant, <1>1, PTL

\* No end swaps to a connection before handleConn has confirmed it.
THEOREM SwapAlwaysConfirmed == Spec => []SwapIsConfirmed
<1>1. LanInv => SwapIsConfirmed
  BY DEF LanInv
<1> QED
  BY LanInvariant, <1>1, PTL

-----------------------------------------------------------------------------
(* The order of the stages, and what follows from it for refusals and for  *)
(* the carriers of the two ends.                                           *)

\* Nothing of Session t changes, but that its relay pipe may go down.
SameAt(t) ==
    /\ UNCHANGED <<bpc[t], verified[t], cpc[t], srv[t], conn[t]>>
    /\ t \in offer' <=> t \in offer
    /\ t \in confirmed' <=> t \in confirmed
    /\ t \in relay' => t \in relay
    /\ \A e \in Ends : /\ carrier'[t][e] = carrier[t][e] /\ closing'[t][e] = closing[t][e]
                       /\ <<t, e>> \in onLAN' <=> <<t, e>> \in onLAN

\* What holds of the stages of a Session goes on to hold while nothing of it
\* changes.
LEMMA SameKeeps ==
    ASSUME NEW t \in Sessions, SameAt(t)
    PROVE  /\ StagesOf(t) => StagesOf(t)'
           /\ Decided(t) => Decided(t)'
<1>1. StagesOf(t) => StagesOf(t)'
  BY ZenonT(60) DEF SameAt, StagesOf, Ends
<1>2. Decided(t) => Decided(t)'
  BY DEF SameAt, Decided, Ends
<1> QED
  BY SMTT(60), Z3T(60), <1>1, <1>2

\* No step of a Session's goroutines touches another Session, but for the
\* entry that is filed under their client.
LEMMA OthersSame ==
    ASSUME LanInv, StagesInOrder, NEW s \in Sessions, NEW t \in Sessions \ {s},
           \/ BackendStep(s) \/ ClientStep(s) \/ ServerStep(s)
           \/ \E e \in Ends : CloseOld(s, e) \/ CloseBegins(s, e) \/ CloseTransport(s, e)
    PROVE  SameAt(t)
<1>0. TypeOK /\ t # s /\ t \in Sessions
  BY DEF LanInv
<1>1. CASE RegisterPending(s) \/ UnregisterPending(s) \/ SendOffer(s) \/ OfferFails(s)
           \/ TakeVerified(s) \/ OfferTimesOut(s)
  BY <1>0, <1>1 DEF SameAt, TypeOK, RegisterPending, UnregisterPending, SendOffer, OfferFails, TakeVerified,
     OfferTimesOut, dialVars, serverVars, endVars
<1>2. CASE ReceiveOffer(s) \/ Dial(s) \/ DialFails(s) \/ Confirmed(s) \/ Refused(s)
  BY <1>0, <1>2 DEF SameAt, TypeOK, ReceiveOffer, Dial, DialFails, Confirmed, Refused,
     offerVars, serverVars, endVars
<1>3. CASE BackendSwaps(s)
  <2>1. verified[s] = s /\ <<s, "backend">> \notin onLAN
    BY ZenonT(60), <1>3 DEF LanInv, HandshakeConsistent, StagesInOrder, StagesOf, BackendSwaps
  <2>2. swapTransport(s, "backend", s) /\ UNCHANGED <<offer, verified, cpc, serverVars, relay>>
        /\ bpc' = [bpc EXCEPT ![s] = "leaving"]
    BY <1>3, <2>1 DEF BackendSwaps
  <2>3. /\ carrier' = [carrier EXCEPT ![s]["backend"] = s] /\ onLAN' = onLAN \cup {<<s, "backend">>}
        /\ UNCHANGED <<conn, closing>>
    BY <2>1, <2>2 DEF swapTransport
  <2>4. \A e \in Ends : carrier'[t][e] = carrier[t][e]
    BY <1>0, <2>3, CarrierUpdate DEF Ends
  <2> QED
    BY SMTT(60), Z3T(60), <1>0, <2>2, <2>3, <2>4 DEF SameAt, TypeOK, serverVars
<1>4. CASE ClientSwaps(s)
  <2>1. <<s, "client">> \notin onLAN
    BY ZenonT(60), <1>4 DEF StagesInOrder, StagesOf, ClientSwaps
  <2>2. /\ carrier' = [carrier EXCEPT ![s]["client"] = s] /\ onLAN' = onLAN \cup {<<s, "client">>}
        /\ UNCHANGED <<conn, closing>>
    BY <1>4, <2>1 DEF ClientSwaps, swapTransport
  <2>3. \A e \in Ends : carrier'[t][e] = carrier[t][e]
    BY <1>0, <2>2, CarrierUpdate DEF Ends
  <2> QED
    BY <1>0, <1>4, <2>2, <2>3 DEF SameAt, TypeOK, ClientSwaps, offerVars, serverVars
<1>5. CASE Verify(s)
  BY <1>0, <1>5 DEF SameAt, TypeOK, Verify, offerVars, endVars
<1>6. CASE Confirm(s)
  BY <1>0, <1>6 DEF SameAt, TypeOK, Confirm, offerVars, dialVars, endVars
<1>7. CASE Announce(s)
  <2>1. taken[s] = s
    BY <1>7 DEF LanInv, HandshakeConsistent, Announce
  <2> QED
    BY <1>0, <1>7, <2>1 DEF SameAt, TypeOK, Announce, dialVars, endVars
<1>8. ASSUME NEW e \in Ends, CloseOld(s, e) PROVE SameAt(t)
  BY <1>0, <1>8 DEF SameAt, TypeOK, CloseOld, offerVars, dialVars, serverVars
<1>9. ASSUME NEW e \in Ends, CloseBegins(s, e) PROVE SameAt(t)
  <2>1. \A d \in Ends : closing'[t][d] = closing[t][d]
    BY <1>0, <1>9 DEF CloseBegins, TypeOK
  <2> QED
    BY <1>0, <1>9, <2>1 DEF SameAt, TypeOK, CloseBegins, offerVars, dialVars, serverVars
<1>10. ASSUME NEW e \in Ends, CloseTransport(s, e) PROVE SameAt(t)
  <2>1. \A d \in Ends : closing'[t][d] = closing[t][d]
    BY <1>0, <1>10 DEF CloseTransport, TypeOK
  <2>2. \A d \in Ends : carrier'[t][d] = carrier[t][d]
    BY <1>0, <1>10, CarrierUpdate DEF CloseTransport
  <2>3. carrier[s][e] # t
    BY <1>0, LanAssumption DEF LanInv, CarrierIsOwn
  <2>4. conn'[t] = conn[t]
    BY <1>0, <1>10, <2>3 DEF CloseTransport
  <2> QED
    BY <1>0, <1>10, <2>1, <2>2, <2>4 DEF SameAt, TypeOK, CloseTransport, offerVars, serverVars
<1> QED
  BY <1>1, <1>2, <1>3, <1>4, <1>5, <1>6, <1>7, <1>8, <1>9, <1>10 DEF BackendStep, ClientStep, ServerStep

\* The stages of the Session that takes the step.
LEMMA StagesStep ==
    ASSUME LanInv, StagesInOrder, NEW s \in Sessions,
           \/ BackendStep(s) \/ ClientStep(s) \/ ServerStep(s)
           \/ \E e \in Ends : CloseOld(s, e) \/ CloseBegins(s, e) \/ CloseTransport(s, e)
    PROVE  StagesOf(s)'
<1>0. TypeOK /\ StagesOf(s)
  BY DEF LanInv, StagesInOrder
<1>1. CASE RegisterPending(s) \/ UnregisterPending(s) \/ SendOffer(s) \/ OfferFails(s)
           \/ TakeVerified(s) \/ OfferTimesOut(s)
  BY <1>0, <1>1 DEF StagesOf, TypeOK, RegisterPending, UnregisterPending, SendOffer, OfferFails, TakeVerified,
     OfferTimesOut, dialVars, serverVars, endVars
<1>2. CASE ReceiveOffer(s) \/ Dial(s) \/ DialFails(s) \/ Confirmed(s) \/ Refused(s)
  BY <1>0, <1>2 DEF StagesOf, TypeOK, ReceiveOffer, Dial, DialFails, Confirmed, Refused,
     offerVars, serverVars, endVars
<1>3. CASE BackendSwaps(s)
  <2>1. verified[s] = s /\ <<s, "backend">> \notin onLAN
    BY ZenonT(60), <1>3 DEF LanInv, HandshakeConsistent, StagesInOrder, StagesOf, BackendSwaps
  <2>2. swapTransport(s, "backend", s) /\ UNCHANGED <<offer, verified, cpc, serverVars, relay>>
        /\ bpc' = [bpc EXCEPT ![s] = "leaving"]
    BY <1>3, <2>1 DEF BackendSwaps
  <2>3. /\ carrier' = [carrier EXCEPT ![s]["backend"] = s] /\ onLAN' = onLAN \cup {<<s, "backend">>}
    BY <2>1, <2>2 DEF swapTransport
  <2>4. carrier'[s]["client"] = carrier[s]["client"]
    BY <1>0, <2>3, CarrierUpdate DEF Ends
  <2> QED
    BY <1>0, <1>3, <2>2, <2>3, <2>4 DEF StagesOf, TypeOK, BackendSwaps, serverVars
<1>4. CASE ClientSwaps(s)
  <2>1. <<s, "client">> \notin onLAN
    BY ZenonT(60), <1>4 DEF StagesInOrder, StagesOf, ClientSwaps
  <2>2. carrier' = [carrier EXCEPT ![s]["client"] = s] /\ onLAN' = onLAN \cup {<<s, "client">>}
    BY <1>4, <2>1 DEF ClientSwaps, swapTransport
  <2>3. carrier'[s]["backend"] = carrier[s]["backend"]
    BY <1>0, <2>2, CarrierUpdate DEF Ends
  <2> QED
    BY <1>0, <1>4, <2>2, <2>3 DEF StagesOf, TypeOK, ClientSwaps, offerVars, serverVars
<1>5. CASE Verify(s)
  BY <1>0, <1>5 DEF StagesOf, TypeOK, Verify, offerVars, endVars
<1>6. CASE Confirm(s)
  BY <1>0, <1>6 DEF StagesOf, TypeOK, Confirm, offerVars, dialVars, endVars
<1>7. CASE Announce(s)
  <2>1. taken[s] = s /\ verified[s] \in {s, None}
    BY <1>7 DEF LanInv, HandshakeConsistent, Announce
  <2>2. verified'[s] = s
    BY SMTT(60), Z3T(60), <1>0, <1>7, <2>1 DEF Announce, TypeOK
  <2> QED
    BY <1>0, <1>7, <2>2 DEF StagesOf, TypeOK, Announce, dialVars, endVars
<1>8. ASSUME NEW e \in Ends, CloseOld(s, e) PROVE StagesOf(s)'
  BY ZenonT(60), <1>0, <1>8 DEF StagesOf, CloseOld, offerVars, dialVars, serverVars
<1>9. ASSUME NEW e \in Ends, CloseBegins(s, e) PROVE StagesOf(s)'
  BY <1>0, <1>9 DEF StagesOf, CloseBegins, offerVars, dialVars, serverVars
<1>10. ASSUME NEW e \in Ends, CloseTransport(s, e) PROVE StagesOf(s)'
  <2>1. \A d \in Ends : carrier'[s][d] \in {carrier[s][d], None}
    BY SMTT(60), Z3T(60), <1>0, <1>10, CarrierUpdate DEF CloseTransport
  <2> QED
    BY <1>0, <1>10, <2>1, LanAssumption DEF StagesOf, CloseTransport, offerVars, serverVars, Ends
<1> QED
  BY <1>1, <1>2, <1>3, <1>4, <1>5, <1>6, <1>7, <1>8, <1>9, <1>10 DEF BackendStep, ClientStep, ServerStep

\* The swap of the end e, by the code of offerLAN or of handleLANOffer.
LEMMA SwapTakes ==
    ASSUME LanInv, StagesInOrder, NEW s \in Sessions
    PROVE  /\ BackendSwaps(s) =>
                 /\ s \in confirmed
                 /\ carrier'[s]["backend"] = s /\ carrier'[s]["client"] = carrier[s]["client"]
                 /\ bpc' = [bpc EXCEPT ![s] = "leaving"]
                 /\ UNCHANGED <<conn, closing, offer, cpc, srv, confirmed, relay>>
           /\ ClientSwaps(s) =>
                 /\ s \in confirmed
                 /\ carrier'[s]["client"] = s /\ carrier'[s]["backend"] = carrier[s]["backend"]
                 /\ cpc' = [cpc EXCEPT ![s] = "done"]
                 /\ UNCHANGED <<conn, closing, offer, bpc, srv, confirmed, relay>>
<1>0. TypeOK
  BY DEF LanInv
<1>1. ASSUME BackendSwaps(s)
      PROVE  /\ s \in confirmed
             /\ carrier'[s]["backend"] = s /\ carrier'[s]["client"] = carrier[s]["client"]
             /\ bpc' = [bpc EXCEPT ![s] = "leaving"]
             /\ UNCHANGED <<conn, closing, offer, cpc, srv, confirmed, relay>>
  <2>1. verified[s] = s /\ s \in confirmed /\ <<s, "backend">> \notin onLAN
    BY ZenonT(60), <1>1 DEF LanInv, HandshakeConsistent, StagesInOrder, StagesOf, BackendSwaps
  <2>2. carrier' = [carrier EXCEPT ![s]["backend"] = s] /\ UNCHANGED <<conn, closing>>
    BY <1>1, <2>1 DEF BackendSwaps, swapTransport
  <2>3. carrier'[s]["backend"] = s /\ carrier'[s]["client"] = carrier[s]["client"]
    BY <1>0, <2>2, CarrierUpdate DEF Ends
  <2> QED
    BY SMTT(60), Z3T(60), <1>1, <2>1, <2>2, <2>3 DEF BackendSwaps, serverVars
<1>2. ASSUME ClientSwaps(s)
      PROVE  /\ s \in confirmed
             /\ carrier'[s]["client"] = s /\ carrier'[s]["backend"] = carrier[s]["backend"]
             /\ cpc' = [cpc EXCEPT ![s] = "done"]
             /\ UNCHANGED <<conn, closing, offer, bpc, srv, confirmed, relay>>
  <2>1. s \in confirmed /\ <<s, "client">> \notin onLAN
    BY ZenonT(60), <1>2 DEF LanInv, HandshakeConsistent, StagesInOrder, StagesOf, ClientSwaps
  <2>2. carrier' = [carrier EXCEPT ![s]["client"] = s] /\ UNCHANGED <<conn, closing>>
    BY <1>2, <2>1 DEF ClientSwaps, swapTransport
  <2>3. carrier'[s]["client"] = s /\ carrier'[s]["backend"] = carrier[s]["backend"]
    BY <1>0, <2>2, CarrierUpdate DEF Ends
  <2> QED
    BY <1>2, <2>1, <2>2, <2>3 DEF ClientSwaps, offerVars, serverVars
<1> QED
  BY ZenonT(60), <1>1, <1>2

\* What the handshake of a patient Session has decided stays decided.
LEMMA DecidedStep ==
    ASSUME LanInv, StagesInOrder, NEW s \in Sessions, s \notin Impatient, Decided(s),
           \/ BackendStep(s) \/ ClientStep(s) \/ ServerStep(s)
           \/ \E e \in Ends : CloseOld(s, e) \/ CloseBegins(s, e) \/ CloseTransport(s, e)
    PROVE  Decided(s)'
<1>0. /\ TypeOK /\ StagesOf(s) /\ "client" \in Ends /\ "backend" \in Ends
      /\ \A e \in Ends : carrier[s][e] \in {Relay, None, s}
      /\ \A e \in Ends : carrier[s][e] = s => s \in confirmed
      /\ cpc[s] = "swapping" => s \in confirmed
      /\ None # s /\ None # Relay /\ Relay # s
  BY LanAssumption DEF LanInv, StagesInOrder, CarrierIsOwn, SwapIsConfirmed, HandshakeConsistent, Ends
<1>1. CASE RegisterPending(s) \/ UnregisterPending(s) \/ SendOffer(s) \/ TakeVerified(s)
  BY <1>0, <1>1 DEF Decided, StagesOf, TypeOK, RegisterPending, UnregisterPending, SendOffer, TakeVerified,
     dialVars, serverVars, endVars
<1>2. CASE OfferFails(s)
  BY <1>0, <1>2 DEF Decided, StagesOf, TypeOK, OfferFails, dialVars, serverVars, endVars
<1>3. CASE OfferTimesOut(s)
  BY <1>0, <1>3 DEF Decided, StagesOf, TypeOK, OfferTimesOut, HandshakeOver, dialVars, serverVars, endVars
<1>4. CASE BackendSwaps(s)
  BY <1>0, <1>4, SwapTakes DEF Decided, StagesOf, TypeOK, Ends
<1>5. CASE ClientSwaps(s)
  <2>1. /\ s \in confirmed /\ cpc[s] = "swapping" /\ cpc'[s] = "done"
        /\ carrier'[s]["client"] = s /\ carrier'[s]["backend"] = carrier[s]["backend"]
        /\ UNCHANGED <<conn, closing, offer, bpc, srv, confirmed, relay>>
    BY ZenonT(60), <1>0, <1>5, SwapTakes DEF TypeOK, ClientSwaps
  <2> QED
    BY <1>0, <2>1 DEF Decided, Ends
<1>6. CASE ReceiveOffer(s) \/ Dial(s) \/ DialFails(s)
  BY <1>0, <1>6 DEF Decided, StagesOf, TypeOK, ReceiveOffer, Dial, DialFails, offerVars, serverVars, endVars
<1>7. CASE Confirmed(s) \/ Refused(s)
  BY <1>0, <1>7 DEF Decided, StagesOf, TypeOK, Confirmed, Refused, offerVars, serverVars, endVars
<1>8. CASE Verify(s)
  BY <1>0, <1>8 DEF Decided, StagesOf, TypeOK, Verify, offerVars, endVars
<1>9. CASE Confirm(s)
  BY <1>0, <1>9 DEF Decided, StagesOf, TypeOK, Confirm, offerVars, dialVars, endVars
<1>10. CASE Announce(s)
  BY <1>0, <1>10 DEF Decided, StagesOf, TypeOK, Announce, dialVars, endVars
<1>11. ASSUME NEW e \in Ends, CloseOld(s, e) PROVE Decided(s)'
  BY SMTT(60), Z3T(60), <1>0, <1>11 DEF Decided, CloseOld, offerVars, dialVars, serverVars
<1>12. ASSUME NEW e \in Ends, CloseBegins(s, e) \/ CloseTransport(s, e) PROVE Decided(s)'
  <2>1. closing'[s][e] \in {"closing", "closed"}
    BY SMTT(60), Z3T(60), <1>0, <1>12 DEF CloseBegins, CloseTransport, TypeOK
  <2> QED
    BY ZenonT(60), <2>1 DEF Decided
<1> QED
  BY <1>1, <1>2, <1>3, <1>4, <1>5, <1>6, <1>7, <1>8, <1>9, <1>10, <1>11, <1>12
     DEF BackendStep, ClientStep, ServerStep

\* offerLAN goes forward only, and what explains a refusal stays.
LEMMA ExplainedStays ==
    ASSUME LanInv, NEW s \in Sessions,
           \/ BackendStep(s) \/ ClientStep(s) \/ ServerStep(s)
           \/ \E e \in Ends : CloseOld(s, e) \/ CloseBegins(s, e) \/ CloseTransport(s, e)
    PROVE  /\ \A u \in Sessions : bpc[u] # "start" => bpc'[u] # "start"
           /\ \A t \in Sessions : Explained(t) => Explained(t)'
<1>1. \/ bpc' = bpc
      \/ \E v \in {"opening", "offered", "swapping"} :
            bpc' = [bpc EXCEPT ![s] = v] /\ bpc[s] \notin {"leaving", "done"}
      \/ \E v \in {"leaving", "done"} : bpc' = [bpc EXCEPT ![s] = v]
  BY ZenonT(60) DEF BackendStep, RegisterPending, SendOffer, OfferFails, TakeVerified, OfferTimesOut, BackendSwaps,
     UnregisterPending, ClientStep, ReceiveOffer, Dial, DialFails, Confirmed, Refused, ClientSwaps,
     ServerStep, Verify, Confirm, Announce, CloseOld, CloseBegins, CloseTransport, offerVars
<1>2. /\ \A u \in Sessions : bpc[u] # "start" => bpc'[u] # "start"
      /\ \A u \in Sessions : bpc[u] \in {"leaving", "done"} => bpc'[u] \in {"leaving", "done"}
  BY <1>1 DEF LanInv, TypeOK
<1> QED
  BY ZenonT(60), <1>2 DEF Explained

\* A refusal by the server is explained, and an offer's challenge is on file
\* until the server has looked or there is such an explanation.
LEMMA EntryStep ==
    ASSUME LanInv, StagesInOrder, EntryWaits, RefusalExplained, NEW s \in Sessions, NEW t \in Sessions,
           \/ BackendStep(s) \/ ClientStep(s) \/ ServerStep(s)
           \/ \E e \in Ends : CloseOld(s, e) \/ CloseBegins(s, e) \/ CloseTransport(s, e)
    PROVE  /\ bpc'[t] # "start" /\ srv'[t] \in {"none", "verify"}
                 => pending'[PeerOf[t]] = t \/ Explained(t)'
           /\ cpc'[t] = "waiting" /\ conn'[t] = "closed" => Explained(t)'
<1>0. TypeOK /\ StagesOf(s) /\ PeerOf \in [Sessions -> Peers]
  BY SMTT(60), Z3T(60), LanAssumption DEF LanInv, StagesInOrder
<1> DEFINE Kept == /\ bpc'[t] # "start" /\ srv'[t] \in {"none", "verify"} => pending'[PeerOf[t]] = t
                   /\ cpc'[t] = "waiting" => conn'[t] # "closed"
<1>1. SUFFICES ASSUME ~Explained(t)' PROVE Kept
  BY ZenonT(60) DEF TypeOK
<1>2. /\ ~Explained(t)
      /\ bpc'[t] \notin {"leaving", "done"}
      /\ \A u \in Sessions \ {t} : PeerOf[u] = PeerOf[t] => bpc[u] = "start" /\ bpc'[u] = "start"
  <2>1. /\ \A u \in Sessions : bpc[u] # "start" => bpc'[u] # "start"
        /\ Explained(t) => Explained(t)'
    BY ZenonT(60), ExplainedStays
  <2> QED
    BY ZenonT(60), <1>1, <2>1 DEF Explained
<1>3. /\ bpc[t] # "start" /\ srv[t] \in {"none", "verify"} => pending[PeerOf[t]] = t
      /\ cpc[t] = "waiting" => conn[t] # "closed"
  BY <1>2 DEF EntryWaits, RefusalExplained
<1>4. bpc[s] # "start" => s = t \/ PeerOf[s] # PeerOf[t]
  BY <1>2
<1>5. CASE RegisterPending(s)
  <2>1. s = t \/ PeerOf[s] # PeerOf[t]
    BY <1>0, <1>2, <1>5 DEF RegisterPending, TypeOK
  <2> QED
    BY <1>0, <1>3, <1>5, <2>1 DEF RegisterPending, TypeOK, dialVars
<1>6. CASE UnregisterPending(s)
  <2>1. s # t
    BY <1>0, <1>2, <1>6 DEF UnregisterPending, TypeOK
  <2>2. PeerOf[s] # PeerOf[t]
    BY <1>4, <1>6, <2>1 DEF UnregisterPending
  <2> QED
    BY <1>0, <1>3, <1>6, <2>1, <2>2 DEF UnregisterPending, TypeOK, dialVars
<1>7. CASE SendOffer(s) \/ OfferFails(s) \/ TakeVerified(s) \/ OfferTimesOut(s)
  BY SMTT(60), Z3T(60), <1>0, <1>3, <1>7 DEF SendOffer, OfferFails, TakeVerified, OfferTimesOut, TypeOK, dialVars, serverVars
<1>8. CASE BackendSwaps(s)
  BY ZenonT(60), <1>0, <1>3, <1>8, SwapTakes DEF BackendSwaps, TypeOK, serverVars
<1>9. CASE ClientSwaps(s)
  BY ZenonT(60), <1>0, <1>3, <1>9, SwapTakes DEF ClientSwaps, TypeOK, serverVars
<1>10. CASE ReceiveOffer(s) \/ DialFails(s) \/ Confirmed(s) \/ Refused(s)
  BY <1>0, <1>3, <1>10 DEF ReceiveOffer, DialFails, Confirmed, Refused, TypeOK, offerVars, serverVars
<1>15. CASE Dial(s)
  <2>1. srv[s] = "none"
    BY ZenonT(60), <1>0, <1>15 DEF StagesOf, Dial
  <2> QED
    BY SMTT(60), Z3T(60), <1>0, <1>3, <1>15, <2>1 DEF Dial, TypeOK, offerVars
<1>11. CASE Verify(s)
  <2>1. bpc[s] # "start"
    BY ZenonT(60), <1>0, <1>11 DEF StagesOf, Verify
  <2>2. CASE s = t
    <3>1. pending[PeerOf[s]] = s
      BY ZenonT(60), <1>3, <1>11, <2>1, <2>2 DEF Verify
    <3>2. srv'[t] = "confirm" /\ conn' = conn /\ cpc' = cpc
      BY <1>0, <1>11, <2>2, <3>1 DEF Verify, Matches, TypeOK
    <3> QED
      BY ZenonT(60), <1>3, <3>2
  <2>3. CASE s # t
    <3>1. PeerOf[s] # PeerOf[t]
      BY <1>4, <2>1, <2>3
    <3> QED
      BY <1>0, <1>3, <1>11, <2>3, <3>1 DEF Verify, TypeOK, offerVars
  <2> QED
    BY ZenonT(60), <2>2, <2>3
<1>12. CASE Confirm(s) \/ Announce(s)
  BY <1>0, <1>3, <1>12 DEF Confirm, Announce, TypeOK, offerVars, dialVars
<1>13. ASSUME NEW e \in Ends, CloseOld(s, e) \/ CloseBegins(s, e) PROVE Kept
  BY <1>3, <1>13 DEF CloseOld, CloseBegins, offerVars, dialVars, serverVars
<1>14. ASSUME NEW e \in Ends, CloseTransport(s, e) PROVE Kept
  <2>1. carrier[s][e] = t => t = s /\ e \in {"backend", "client"}
    BY LanAssumption DEF LanInv, CarrierIsOwn, Ends
  <2>2. carrier[s][e] = t => cpc[t] # "waiting"
    <3>1. CASE carrier[s][e] = t /\ e = "backend"
      BY <1>0, <1>2, <1>14, <2>1, <3>1 DEF StagesOf, CloseTransport, offerVars
    <3>2. CASE carrier[s][e] = t /\ e = "client"
      BY <1>0, <2>1, <3>2 DEF StagesOf
    <3> QED
      BY <2>1, <3>1, <3>2
  <2>3. conn'[t] = IF carrier[s][e] = t THEN "closed" ELSE conn[t]
    BY <1>14 DEF CloseTransport
  <2> QED
    BY <1>3, <1>14, <2>2, <2>3 DEF CloseTransport, offerVars, serverVars
<1> QED
  BY ZenonT(60), <1>5, <1>6, <1>7, <1>8, <1>9, <1>10, <1>11, <1>12, <1>13, <1>14, <1>15
     DEF BackendStep, ClientStep, ServerStep

\* Every step keeps UpgradeInv.
LEMMA NextUpgrade == LanInv /\ UpgradeInv /\ [Next]_vars => UpgradeInv'
<1> SUFFICES ASSUME LanInv, UpgradeInv, [Next]_vars PROVE UpgradeInv'
    BY SMTT(60), Z3T(60)
<1>1. CASE UNCHANGED vars
  BY SMTT(60), Z3T(60), <1>1 DEF UpgradeInv, StagesInOrder, StagesOf, EntryWaits, RefusalExplained, Explained, HandshakeDecides,
     Decided, vars, offerVars, dialVars, serverVars, endVars
<1>2. CASE Next
  <2>1. PICK s \in Sessions :
           \/ BackendStep(s) \/ ClientStep(s) \/ ServerStep(s)
           \/ \E e \in Ends : CloseOld(s, e) \/ CloseBegins(s, e) \/ CloseTransport(s, e)
    BY <1>2 DEF Next
  <2>2. StagesInOrder'
    <3>1. ASSUME NEW t \in Sessions PROVE StagesOf(t)'
      BY <2>1, OthersSame, SameKeeps, StagesStep DEF UpgradeInv, StagesInOrder
    <3> QED
      BY <3>1 DEF StagesInOrder
  <2>3. HandshakeDecides'
    <3>1. ASSUME NEW t \in Sessions, t \notin Impatient PROVE Decided(t)'
      BY SMTT(60), Z3T(60), <2>1, <3>1, OthersSame, SameKeeps, DecidedStep DEF UpgradeInv, HandshakeDecides
    <3> QED
      BY <3>1 DEF HandshakeDecides
  <2>4. EntryWaits' /\ RefusalExplained'
    BY <2>1, EntryStep DEF UpgradeInv, EntryWaits, RefusalExplained
  <2> QED
    BY <2>2, <2>3, <2>4 DEF UpgradeInv
<1> QED
  BY <1>1, <1>2

\* Before offerLAN starts nothing of it holds or is decided.
LEMMA InitUpgrade == Init => UpgradeInv
<1> SUFFICES ASSUME Init PROVE UpgradeInv
    OBVIOUS
<1>1. StagesInOrder
  BY ZenonT(60), LanAssumption DEF Init, StagesInOrder, StagesOf, Ends
<1>2. EntryWaits /\ RefusalExplained
  BY DEF Init, EntryWaits, RefusalExplained
<1>3. HandshakeDecides
  BY LanAssumption DEF Init, HandshakeDecides, Decided, Ends
<1> QED
  BY <1>1, <1>2, <1>3 DEF UpgradeInv

\* The stages of every upgrade come in order, and the handshake decides for
\* both ends of a Session, whatever the others do.
THEOREM UpgradeInvariant == Spec => []UpgradeInv
  BY LanInvariant, InitUpgrade, NextUpgrade, PTL DEF Spec

\* handleConn turns a client away only when the offer is over or another
\* Session of the client shares its entry in LANServer.conns.
THEOREM RefusalAlwaysExplained == Spec => []RefusalExplained
<1>1. UpgradeInv => RefusalExplained
  BY DEF UpgradeInv
<1> QED
  BY UpgradeInvariant, <1>1, PTL

\* The two ends of a Session never settle on different carriers, unless one
\* was closed or offerLAN's timer fired under the handshake.
THEOREM CarriersAlwaysMeetInTime == Spec => []CarriersMeet
<1>1. LanInv /\ UpgradeInv => CarriersMeet
  <2> SUFFICES ASSUME LanInv, UpgradeInv, NEW s \in Sessions \ Impatient,
                      bpc[s] = "done", cpc[s] = "done", \A e \in Ends : closing[s][e] = "open"
               PROVE  carrier[s]["backend"] = carrier[s]["client"]
      BY DEF CarriersMeet, EndsMeet
  <2>1. Decided(s) /\ "client" \in Ends /\ "backend" \in Ends
    BY DEF UpgradeInv, HandshakeDecides, Ends
  <2>2. \A e \in Ends : carrier[s][e] \in {Relay, s} /\ (carrier[s][e] = s => s \in confirmed)
    BY <2>1 DEF LanInv, CarrierIsOwn, SwapIsConfirmed, Decided
  <2> QED
    BY <2>1, <2>2 DEF Decided
<1> QED
  BY LanInvariant, UpgradeInvariant, <1>1, PTL

=============================================================================
