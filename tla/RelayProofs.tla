------------------------------- MODULE RelayProofs -------------------------------
(***************************************************************************)
(* Proofs about the two ends of a registration: the relay that keeps the   *)
(* instances (RelayHub) and the backend's listener that registers with it  *)
(* and serves its listen connections (ListenerPool).                       *)
(*                                                                         *)
(* RelayHub, for every set of IDs and connections: RelayInv is inductive,  *)
(* the safety properties follow from it, and the relay implements          *)
(* RelayService.                                                           *)
(*                                                                         *)
(* ListenerPool, for any number of workers and connections and any         *)
(* capacity of the accepted channel: ListenerInv is inductive, and the     *)
(* safety properties follow from it.                                       *)
(***************************************************************************)
EXTENDS RelayHub, ListenerPool, TLAPS

---------------------------------------------------------------------------
(* The relay.                                                              *)

\* Initially the hub is empty and no handler runs.
LEMMA InitEstablishes == Init => RelayInv
  BY RelayAssumption DEF Init, RelayInv, TypeOK, SlotsConsistent, LiveOwnerKeepsSlot,
     WaitersConsistent, PairsConsistent, MatchedListenHasOneClient,
     Conns, ControlPCs, ListenPCs, ClientPCs

\* A new connection takes a name that nothing refers to.
LEMMA ArriveKeeps ==
    ASSUME RelayInv, NEW x \in Conns, Arrive(x)
    PROVE  RelayInv'
<1>1. TypeOK'
  <2> USE RelayAssumption DEF RelayInv, TypeOK, Conns, Arrive, Referenced
  <2>1. /\ alive' \in [Conns -> BOOLEAN]
        /\ id' \in [Conns -> Ids \cup {None}]
    OBVIOUS
  <2>2. /\ slot' \in [Ids -> Controls \cup {None}]
        /\ cancelled' \in [Controls -> BOOLEAN]
        /\ target' \in [Listens \cup Clients -> Controls \cup {None}]
        /\ partner' \in [Clients -> Listens \cup {None}]
    BY ZenonT(60)
  <2>3. /\ pc' \in [Conns -> ControlPCs \cup ListenPCs \cup ClientPCs]
        /\ \A y \in Controls : pc'[y] \in ControlPCs
        /\ \A y \in Listens : pc'[y] \in ListenPCs
        /\ \A y \in Clients : pc'[y] \in ClientPCs
    BY DEF ControlPCs, ListenPCs, ClientPCs
  <2> QED BY <2>1, <2>2, <2>3
<1>2. SlotsConsistent'
  BY RelayAssumption DEF RelayInv, TypeOK, SlotsConsistent, LiveOwnerKeepsSlot, WaitersConsistent, PairsConsistent, MatchedListenHasOneClient, Arrive, Referenced, Conns, ControlPCs, ListenPCs, ClientPCs
<1>3. LiveOwnerKeepsSlot'
  BY SMTT(60), Z3T(60), RelayAssumption DEF RelayInv, TypeOK, SlotsConsistent, LiveOwnerKeepsSlot, WaitersConsistent, PairsConsistent, MatchedListenHasOneClient, Arrive, Referenced, Conns, ControlPCs, ListenPCs, ClientPCs
<1>4. WaitersConsistent'
  BY RelayAssumption DEF RelayInv, TypeOK, SlotsConsistent, LiveOwnerKeepsSlot, WaitersConsistent, PairsConsistent, MatchedListenHasOneClient, Arrive, Referenced, Conns, ControlPCs, ListenPCs, ClientPCs
<1>5. PairsConsistent'
  BY RelayAssumption DEF RelayInv, TypeOK, SlotsConsistent, LiveOwnerKeepsSlot, WaitersConsistent, PairsConsistent, MatchedListenHasOneClient, Arrive, Referenced, Conns, ControlPCs, ListenPCs, ClientPCs
<1>6. MatchedListenHasOneClient'
  BY RelayAssumption DEF RelayInv, TypeOK, SlotsConsistent, LiveOwnerKeepsSlot, WaitersConsistent, PairsConsistent, MatchedListenHasOneClient, Arrive, Referenced, Conns, ControlPCs, ListenPCs, ClientPCs
<1> QED BY <1>1, <1>2, <1>3, <1>4, <1>5, <1>6 DEF RelayInv

\* A connection that ends stays with its handler until that notices.
LEMMA DisconnectKeeps ==
    ASSUME RelayInv, NEW x \in Conns, Disconnect(x)
    PROVE  RelayInv'
<1>1. TypeOK'
  BY RelayAssumption DEF RelayInv, TypeOK, Disconnect, Conns, ControlPCs, ListenPCs, ClientPCs
<1>2. SlotsConsistent'
  BY RelayAssumption DEF RelayInv, TypeOK, SlotsConsistent, LiveOwnerKeepsSlot, WaitersConsistent, PairsConsistent, MatchedListenHasOneClient, Disconnect, Conns, ControlPCs, ListenPCs, ClientPCs
<1>3. LiveOwnerKeepsSlot'
  BY RelayAssumption DEF RelayInv, TypeOK, SlotsConsistent, LiveOwnerKeepsSlot, WaitersConsistent, PairsConsistent, MatchedListenHasOneClient, Disconnect, Conns, ControlPCs, ListenPCs, ClientPCs
<1>4. WaitersConsistent'
  BY RelayAssumption DEF RelayInv, TypeOK, SlotsConsistent, LiveOwnerKeepsSlot, WaitersConsistent, PairsConsistent, MatchedListenHasOneClient, Disconnect, Conns, ControlPCs, ListenPCs, ClientPCs
<1>5. PairsConsistent'
  BY RelayAssumption DEF RelayInv, TypeOK, SlotsConsistent, LiveOwnerKeepsSlot, WaitersConsistent, PairsConsistent, MatchedListenHasOneClient, Disconnect, Conns, ControlPCs, ListenPCs, ClientPCs
<1>6. MatchedListenHasOneClient'
  BY RelayAssumption DEF RelayInv, TypeOK, SlotsConsistent, LiveOwnerKeepsSlot, WaitersConsistent, PairsConsistent, MatchedListenHasOneClient, Disconnect, Conns, ControlPCs, ListenPCs, ClientPCs
<1> QED BY <1>1, <1>2, <1>3, <1>4, <1>5, <1>6 DEF RelayInv

\* A refused greeting leaves the hub as it was.
LEMMA RejectGreetingKeeps ==
    ASSUME RelayInv, NEW x \in Conns, RejectGreeting(x)
    PROVE  RelayInv'
<1>1. TypeOK'
  BY SMTT(60), Z3T(60), RelayAssumption DEF RelayInv, TypeOK, RejectGreeting, CloseAndReturn, Conns, ControlPCs, ListenPCs, ClientPCs
<1>2. SlotsConsistent'
  BY RelayAssumption DEF RelayInv, TypeOK, SlotsConsistent, LiveOwnerKeepsSlot, WaitersConsistent, PairsConsistent, MatchedListenHasOneClient, RejectGreeting, CloseAndReturn, Conns, ControlPCs, ListenPCs, ClientPCs
<1>3. LiveOwnerKeepsSlot'
  BY SMTT(60), Z3T(60), RelayAssumption DEF RelayInv, TypeOK, SlotsConsistent, LiveOwnerKeepsSlot, WaitersConsistent, PairsConsistent, MatchedListenHasOneClient, RejectGreeting, CloseAndReturn, Conns, ControlPCs, ListenPCs, ClientPCs
<1>4. WaitersConsistent'
  BY SMTT(60), Z3T(60), RelayAssumption DEF RelayInv, TypeOK, SlotsConsistent, LiveOwnerKeepsSlot, WaitersConsistent, PairsConsistent, MatchedListenHasOneClient, RejectGreeting, CloseAndReturn, Conns, ControlPCs, ListenPCs, ClientPCs
<1>5. PairsConsistent'
  BY RelayAssumption DEF RelayInv, TypeOK, SlotsConsistent, LiveOwnerKeepsSlot, WaitersConsistent, PairsConsistent, MatchedListenHasOneClient, RejectGreeting, CloseAndReturn, Conns, ControlPCs, ListenPCs, ClientPCs
<1>6. MatchedListenHasOneClient'
  BY RelayAssumption DEF RelayInv, TypeOK, SlotsConsistent, LiveOwnerKeepsSlot, WaitersConsistent, PairsConsistent, MatchedListenHasOneClient, RejectGreeting, CloseAndReturn, Conns, ControlPCs, ListenPCs, ClientPCs
<1> QED BY <1>1, <1>2, <1>3, <1>4, <1>5, <1>6 DEF RelayInv

\* hub.register never displaces a live instance.
LEMMA HandleRegisterKeeps ==
    ASSUME RelayInv, NEW r \in Controls, NEW i \in Ids, HandleRegister(r, i)
    PROVE  RelayInv'
<1>1. TypeOK'
  <2> USE RelayAssumption DEF RelayInv, TypeOK, Conns, HandleRegister, CloseAndReturn, InstLive
  <2>1. /\ alive' \in [Conns -> BOOLEAN]
        /\ id' \in [Conns -> Ids \cup {None}]
    BY ZenonT(60)
  <2>2. /\ slot' \in [Ids -> Controls \cup {None}]
        /\ cancelled' \in [Controls -> BOOLEAN]
        /\ target' \in [Listens \cup Clients -> Controls \cup {None}]
        /\ partner' \in [Clients -> Listens \cup {None}]
    OBVIOUS
  <2>3. /\ pc' \in [Conns -> ControlPCs \cup ListenPCs \cup ClientPCs]
        /\ \A y \in Controls : pc'[y] \in ControlPCs
        /\ \A y \in Listens : pc'[y] \in ListenPCs
        /\ \A y \in Clients : pc'[y] \in ClientPCs
    BY DEF ControlPCs, ListenPCs, ClientPCs
  <2> QED BY <2>1, <2>2, <2>3
<1>2. SlotsConsistent'
  BY RelayAssumption DEF RelayInv, TypeOK, SlotsConsistent, LiveOwnerKeepsSlot, WaitersConsistent, PairsConsistent, MatchedListenHasOneClient, HandleRegister, CloseAndReturn, InstLive, Conns, ControlPCs, ListenPCs, ClientPCs
<1>3. LiveOwnerKeepsSlot'
  BY SMTT(60), Z3T(60), RelayAssumption DEF RelayInv, TypeOK, SlotsConsistent, LiveOwnerKeepsSlot, WaitersConsistent, PairsConsistent, MatchedListenHasOneClient, HandleRegister, CloseAndReturn, InstLive, Conns, ControlPCs, ListenPCs, ClientPCs
<1>4. WaitersConsistent'
  BY SMTT(60), Z3T(60), RelayAssumption DEF RelayInv, TypeOK, SlotsConsistent, LiveOwnerKeepsSlot, WaitersConsistent, PairsConsistent, MatchedListenHasOneClient, HandleRegister, CloseAndReturn, InstLive, Conns, ControlPCs, ListenPCs, ClientPCs
<1>5. PairsConsistent'
  BY SMTT(60), Z3T(60), RelayAssumption DEF RelayInv, TypeOK, SlotsConsistent, LiveOwnerKeepsSlot, WaitersConsistent, PairsConsistent, MatchedListenHasOneClient, HandleRegister, CloseAndReturn, InstLive, Conns, ControlPCs, ListenPCs, ClientPCs
<1>6. MatchedListenHasOneClient'
  BY RelayAssumption DEF RelayInv, TypeOK, SlotsConsistent, LiveOwnerKeepsSlot, WaitersConsistent, PairsConsistent, MatchedListenHasOneClient, HandleRegister, CloseAndReturn, InstLive, Conns, ControlPCs, ListenPCs, ClientPCs
<1> QED BY <1>1, <1>2, <1>3, <1>4, <1>5, <1>6 DEF RelayInv

\* The handler goes on to wait, or leaves with its connection closed.
LEMMA WriteIdKeeps ==
    ASSUME RelayInv, NEW r \in Controls, WriteId(r)
    PROVE  RelayInv'
<1>1. TypeOK'
  <2> USE RelayAssumption DEF RelayInv, TypeOK, Conns, ControlPCs, ListenPCs, ClientPCs
  <2>1. CASE pc' = [pc EXCEPT ![r] = "serving"] /\ alive' = alive
    BY <2>1 DEF WriteId
  <2>2. CASE pc' = [pc EXCEPT ![r] = "leaving"]
    BY ZenonT(60), <2>2 DEF WriteId
  <2> QED BY SMTT(60), Z3T(60), <2>1, <2>2 DEF WriteId
<1>2. SlotsConsistent'
  BY RelayAssumption DEF RelayInv, TypeOK, SlotsConsistent, LiveOwnerKeepsSlot, WaitersConsistent, PairsConsistent, MatchedListenHasOneClient, WriteId, Conns, ControlPCs, ListenPCs, ClientPCs
<1>3. LiveOwnerKeepsSlot'
  BY SMTT(60), Z3T(60), RelayAssumption DEF RelayInv, TypeOK, SlotsConsistent, LiveOwnerKeepsSlot, WaitersConsistent, PairsConsistent, MatchedListenHasOneClient, WriteId, Conns, ControlPCs, ListenPCs, ClientPCs
<1>4. WaitersConsistent'
  BY RelayAssumption DEF RelayInv, TypeOK, SlotsConsistent, LiveOwnerKeepsSlot, WaitersConsistent, PairsConsistent, MatchedListenHasOneClient, WriteId, Conns, ControlPCs, ListenPCs, ClientPCs
<1>5. PairsConsistent'
  BY RelayAssumption DEF RelayInv, TypeOK, SlotsConsistent, LiveOwnerKeepsSlot, WaitersConsistent, PairsConsistent, MatchedListenHasOneClient, WriteId, Conns, ControlPCs, ListenPCs, ClientPCs
<1>6. MatchedListenHasOneClient'
  BY RelayAssumption DEF RelayInv, TypeOK, SlotsConsistent, LiveOwnerKeepsSlot, WaitersConsistent, PairsConsistent, MatchedListenHasOneClient, WriteId, Conns, ControlPCs, ListenPCs, ClientPCs
<1> QED BY <1>1, <1>2, <1>3, <1>4, <1>5, <1>6 DEF RelayInv

\* The handler leaves once its control connection has ended.
LEMMA ControlDoneKeeps ==
    ASSUME RelayInv, NEW r \in Controls, ControlDone(r)
    PROVE  RelayInv'
<1>1. TypeOK'
  BY SMTT(60), Z3T(60), RelayAssumption DEF RelayInv, TypeOK, ControlDone, Conns, ControlPCs, ListenPCs, ClientPCs
<1>2. SlotsConsistent'
  BY SMTT(60), Z3T(60), RelayAssumption DEF RelayInv, TypeOK, SlotsConsistent, LiveOwnerKeepsSlot, WaitersConsistent, PairsConsistent, MatchedListenHasOneClient, ControlDone, Conns, ControlPCs, ListenPCs, ClientPCs
<1>3. LiveOwnerKeepsSlot'
  BY RelayAssumption DEF RelayInv, TypeOK, SlotsConsistent, LiveOwnerKeepsSlot, WaitersConsistent, PairsConsistent, MatchedListenHasOneClient, ControlDone, Conns, ControlPCs, ListenPCs, ClientPCs
<1>4. WaitersConsistent'
  BY SMTT(60), Z3T(60), RelayAssumption DEF RelayInv, TypeOK, SlotsConsistent, LiveOwnerKeepsSlot, WaitersConsistent, PairsConsistent, MatchedListenHasOneClient, ControlDone, Conns, ControlPCs, ListenPCs, ClientPCs
<1>5. PairsConsistent'
  BY SMTT(60), Z3T(60), RelayAssumption DEF RelayInv, TypeOK, SlotsConsistent, LiveOwnerKeepsSlot, WaitersConsistent, PairsConsistent, MatchedListenHasOneClient, ControlDone, Conns, ControlPCs, ListenPCs, ClientPCs
<1>6. MatchedListenHasOneClient'
  BY RelayAssumption DEF RelayInv, TypeOK, SlotsConsistent, LiveOwnerKeepsSlot, WaitersConsistent, PairsConsistent, MatchedListenHasOneClient, ControlDone, Conns, ControlPCs, ListenPCs, ClientPCs
<1> QED BY <1>1, <1>2, <1>3, <1>4, <1>5, <1>6 DEF RelayInv

\* hub.unregister frees the slot of its own instance only.
LEMMA UnregisterKeeps ==
    ASSUME RelayInv, NEW r \in Controls, Unregister(r)
    PROVE  RelayInv'
<1>1. TypeOK'
  BY SMTT(60), Z3T(60), RelayAssumption DEF RelayInv, TypeOK, Unregister, Conns, ControlPCs, ListenPCs, ClientPCs
<1>2. SlotsConsistent'
  BY SMTT(60), Z3T(60), RelayAssumption DEF RelayInv, TypeOK, SlotsConsistent, LiveOwnerKeepsSlot, WaitersConsistent, PairsConsistent, MatchedListenHasOneClient, Unregister, Conns, ControlPCs, ListenPCs, ClientPCs
<1>3. LiveOwnerKeepsSlot'
  BY SMTT(60), Z3T(60), RelayAssumption DEF RelayInv, TypeOK, SlotsConsistent, LiveOwnerKeepsSlot, WaitersConsistent, PairsConsistent, MatchedListenHasOneClient, Unregister, Conns, ControlPCs, ListenPCs, ClientPCs
<1>4. WaitersConsistent'
  BY SMTT(60), Z3T(60), RelayAssumption DEF RelayInv, TypeOK, SlotsConsistent, LiveOwnerKeepsSlot, WaitersConsistent, PairsConsistent, MatchedListenHasOneClient, Unregister, Conns, ControlPCs, ListenPCs, ClientPCs
<1>5. PairsConsistent'
  BY SMTT(60), Z3T(60), RelayAssumption DEF RelayInv, TypeOK, SlotsConsistent, LiveOwnerKeepsSlot, WaitersConsistent, PairsConsistent, MatchedListenHasOneClient, Unregister, Conns, ControlPCs, ListenPCs, ClientPCs
<1>6. MatchedListenHasOneClient'
  BY SMTT(60), Z3T(60), RelayAssumption DEF RelayInv, TypeOK, SlotsConsistent, LiveOwnerKeepsSlot, WaitersConsistent, PairsConsistent, MatchedListenHasOneClient, Unregister, Conns, ControlPCs, ListenPCs, ClientPCs
<1> QED BY <1>1, <1>2, <1>3, <1>4, <1>5, <1>6 DEF RelayInv

\* Only an instance that has left its slot is cancelled.
LEMMA CancelInstanceKeeps ==
    ASSUME RelayInv, NEW r \in Controls, CancelInstance(r)
    PROVE  RelayInv'
<1>1. TypeOK'
  BY RelayAssumption DEF RelayInv, TypeOK, CancelInstance, Conns, ControlPCs, ListenPCs, ClientPCs
<1>2. SlotsConsistent'
  BY SMTT(60), Z3T(60), RelayAssumption DEF RelayInv, TypeOK, SlotsConsistent, LiveOwnerKeepsSlot, WaitersConsistent, PairsConsistent, MatchedListenHasOneClient, CancelInstance, Conns, ControlPCs, ListenPCs, ClientPCs
<1>3. LiveOwnerKeepsSlot'
  BY SMTT(60), Z3T(60), RelayAssumption DEF RelayInv, TypeOK, SlotsConsistent, LiveOwnerKeepsSlot, WaitersConsistent, PairsConsistent, MatchedListenHasOneClient, CancelInstance, Conns, ControlPCs, ListenPCs, ClientPCs
<1>4. WaitersConsistent'
  BY SMTT(60), Z3T(60), RelayAssumption DEF RelayInv, TypeOK, SlotsConsistent, LiveOwnerKeepsSlot, WaitersConsistent, PairsConsistent, MatchedListenHasOneClient, CancelInstance, Conns, ControlPCs, ListenPCs, ClientPCs
<1>5. PairsConsistent'
  BY SMTT(60), Z3T(60), RelayAssumption DEF RelayInv, TypeOK, SlotsConsistent, LiveOwnerKeepsSlot, WaitersConsistent, PairsConsistent, MatchedListenHasOneClient, CancelInstance, Conns, ControlPCs, ListenPCs, ClientPCs
<1>6. MatchedListenHasOneClient'
  BY SMTT(60), Z3T(60), RelayAssumption DEF RelayInv, TypeOK, SlotsConsistent, LiveOwnerKeepsSlot, WaitersConsistent, PairsConsistent, MatchedListenHasOneClient, CancelInstance, Conns, ControlPCs, ListenPCs, ClientPCs
<1> QED BY <1>1, <1>2, <1>3, <1>4, <1>5, <1>6 DEF RelayInv

\* The listen keeps the instance that the hub named for its ID.
LEMMA HandleListenKeeps ==
    ASSUME RelayInv, NEW l \in Listens, NEW i \in Ids, HandleListen(l, i)
    PROVE  RelayInv'
<1>1. TypeOK'
  <2> USE RelayAssumption DEF RelayInv, TypeOK, Conns, HandleListen, CloseAndReturn
  <2>1. /\ alive' \in [Conns -> BOOLEAN]
        /\ id' \in [Conns -> Ids \cup {None}]
    BY ZenonT(60)
  <2>2. /\ slot' \in [Ids -> Controls \cup {None}]
        /\ cancelled' \in [Controls -> BOOLEAN]
        /\ target' \in [Listens \cup Clients -> Controls \cup {None}]
        /\ partner' \in [Clients -> Listens \cup {None}]
    OBVIOUS
  <2>3. /\ pc' \in [Conns -> ControlPCs \cup ListenPCs \cup ClientPCs]
        /\ \A y \in Controls : pc'[y] \in ControlPCs
        /\ \A y \in Listens : pc'[y] \in ListenPCs
        /\ \A y \in Clients : pc'[y] \in ClientPCs
    BY SMTT(60), Z3T(60) DEF ControlPCs, ListenPCs, ClientPCs
  <2> QED BY <2>1, <2>2, <2>3
<1>2. SlotsConsistent'
  BY SMTT(60), Z3T(60), RelayAssumption DEF RelayInv, TypeOK, SlotsConsistent, LiveOwnerKeepsSlot, WaitersConsistent, PairsConsistent, MatchedListenHasOneClient, HandleListen, CloseAndReturn, Conns, ControlPCs, ListenPCs, ClientPCs
<1>3. LiveOwnerKeepsSlot'
  BY SMTT(60), Z3T(60), RelayAssumption DEF RelayInv, TypeOK, SlotsConsistent, LiveOwnerKeepsSlot, WaitersConsistent, PairsConsistent, MatchedListenHasOneClient, HandleListen, CloseAndReturn, Conns, ControlPCs, ListenPCs, ClientPCs
<1>4. WaitersConsistent'
  BY SMTT(60), Z3T(60), RelayAssumption DEF RelayInv, TypeOK, SlotsConsistent, LiveOwnerKeepsSlot, WaitersConsistent, PairsConsistent, MatchedListenHasOneClient, HandleListen, CloseAndReturn, Conns, ControlPCs, ListenPCs, ClientPCs
<1>5. PairsConsistent'
  BY SMTT(60), Z3T(60), RelayAssumption DEF RelayInv, TypeOK, SlotsConsistent, LiveOwnerKeepsSlot, WaitersConsistent, PairsConsistent, MatchedListenHasOneClient, HandleListen, CloseAndReturn, Conns, ControlPCs, ListenPCs, ClientPCs
<1>6. MatchedListenHasOneClient'
  BY SMTT(60), Z3T(60), RelayAssumption DEF RelayInv, TypeOK, SlotsConsistent, LiveOwnerKeepsSlot, WaitersConsistent, PairsConsistent, MatchedListenHasOneClient, HandleListen, CloseAndReturn, Conns, ControlPCs, ListenPCs, ClientPCs
<1> QED BY <1>1, <1>2, <1>3, <1>4, <1>5, <1>6 DEF RelayInv

\* The listen parks, or returns closed.
LEMMA AckListenKeeps ==
    ASSUME RelayInv, NEW l \in Listens, AckListen(l)
    PROVE  RelayInv'
<1>1. TypeOK'
  <2> USE RelayAssumption DEF RelayInv, TypeOK, Conns, ControlPCs, ListenPCs, ClientPCs
  <2>1. CASE pc' = [pc EXCEPT ![l] = "parked"] /\ UNCHANGED <<alive, target>>
    BY <2>1 DEF AckListen, CloseAndReturn
  <2>2. CASE pc' = [pc EXCEPT ![l] = "gone"]
    BY ZenonT(60), <2>2 DEF AckListen, CloseAndReturn
  <2> QED BY <2>1, <2>2 DEF AckListen, CloseAndReturn
<1>2. SlotsConsistent'
  BY RelayAssumption DEF RelayInv, TypeOK, SlotsConsistent, LiveOwnerKeepsSlot, WaitersConsistent, PairsConsistent, MatchedListenHasOneClient, AckListen, CloseAndReturn, Conns, ControlPCs, ListenPCs, ClientPCs
<1>3. LiveOwnerKeepsSlot'
  BY SMTT(60), Z3T(60), RelayAssumption DEF RelayInv, TypeOK, SlotsConsistent, LiveOwnerKeepsSlot, WaitersConsistent, PairsConsistent, MatchedListenHasOneClient, AckListen, CloseAndReturn, Conns, ControlPCs, ListenPCs, ClientPCs
<1>4. WaitersConsistent'
  BY SMTT(60), Z3T(60), RelayAssumption DEF RelayInv, TypeOK, SlotsConsistent, LiveOwnerKeepsSlot, WaitersConsistent, PairsConsistent, MatchedListenHasOneClient, AckListen, CloseAndReturn, Conns, ControlPCs, ListenPCs, ClientPCs
<1>5. PairsConsistent'
  BY SMTT(60), Z3T(60), RelayAssumption DEF RelayInv, TypeOK, SlotsConsistent, LiveOwnerKeepsSlot, WaitersConsistent, PairsConsistent, MatchedListenHasOneClient, AckListen, CloseAndReturn, Conns, ControlPCs, ListenPCs, ClientPCs
<1>6. MatchedListenHasOneClient'
  BY RelayAssumption DEF RelayInv, TypeOK, SlotsConsistent, LiveOwnerKeepsSlot, WaitersConsistent, PairsConsistent, MatchedListenHasOneClient, AckListen, CloseAndReturn, Conns, ControlPCs, ListenPCs, ClientPCs
<1> QED BY <1>1, <1>2, <1>3, <1>4, <1>5, <1>6 DEF RelayInv

\* A listen whose park ended is closed and forgotten.
LEMMA ParkEndsKeeps ==
    ASSUME RelayInv, NEW l \in Listens, ParkEnds(l)
    PROVE  RelayInv'
<1>1. TypeOK'
  BY SMTT(60), Z3T(60), RelayAssumption DEF RelayInv, TypeOK, ParkEnds, CloseAndReturn, Conns, ControlPCs, ListenPCs, ClientPCs
<1>2. SlotsConsistent'
  BY SMTT(60), Z3T(60), RelayAssumption DEF RelayInv, TypeOK, SlotsConsistent, LiveOwnerKeepsSlot, WaitersConsistent, PairsConsistent, MatchedListenHasOneClient, ParkEnds, CloseAndReturn, Conns, ControlPCs, ListenPCs, ClientPCs
<1>3. LiveOwnerKeepsSlot'
  BY SMTT(60), Z3T(60), RelayAssumption DEF RelayInv, TypeOK, SlotsConsistent, LiveOwnerKeepsSlot, WaitersConsistent, PairsConsistent, MatchedListenHasOneClient, ParkEnds, CloseAndReturn, Conns, ControlPCs, ListenPCs, ClientPCs
<1>4. WaitersConsistent'
  BY SMTT(60), Z3T(60), RelayAssumption DEF RelayInv, TypeOK, SlotsConsistent, LiveOwnerKeepsSlot, WaitersConsistent, PairsConsistent, MatchedListenHasOneClient, ParkEnds, CloseAndReturn, Conns, ControlPCs, ListenPCs, ClientPCs
<1>5. PairsConsistent'
  BY SMTT(60), Z3T(60), RelayAssumption DEF RelayInv, TypeOK, SlotsConsistent, LiveOwnerKeepsSlot, WaitersConsistent, PairsConsistent, MatchedListenHasOneClient, ParkEnds, CloseAndReturn, Conns, ControlPCs, ListenPCs, ClientPCs
<1>6. MatchedListenHasOneClient'
  BY RelayAssumption DEF RelayInv, TypeOK, SlotsConsistent, LiveOwnerKeepsSlot, WaitersConsistent, PairsConsistent, MatchedListenHasOneClient, ParkEnds, CloseAndReturn, Conns, ControlPCs, ListenPCs, ClientPCs
<1> QED BY <1>1, <1>2, <1>3, <1>4, <1>5, <1>6 DEF RelayInv

\* The client keeps the instance that the hub named for its ID.
LEMMA HandleConnectKeeps ==
    ASSUME RelayInv, NEW c \in Clients, NEW i \in Ids, HandleConnect(c, i)
    PROVE  RelayInv'
<1>1. TypeOK'
  <2> USE RelayAssumption DEF RelayInv, TypeOK, Conns, HandleConnect, CloseAndReturn
  <2>1. /\ alive' \in [Conns -> BOOLEAN]
        /\ id' \in [Conns -> Ids \cup {None}]
    BY ZenonT(60)
  <2>2. /\ slot' \in [Ids -> Controls \cup {None}]
        /\ cancelled' \in [Controls -> BOOLEAN]
        /\ target' \in [Listens \cup Clients -> Controls \cup {None}]
        /\ partner' \in [Clients -> Listens \cup {None}]
    OBVIOUS
  <2>3. /\ pc' \in [Conns -> ControlPCs \cup ListenPCs \cup ClientPCs]
        /\ \A y \in Controls : pc'[y] \in ControlPCs
        /\ \A y \in Listens : pc'[y] \in ListenPCs
        /\ \A y \in Clients : pc'[y] \in ClientPCs
    BY SMTT(60), Z3T(60) DEF ControlPCs, ListenPCs, ClientPCs
  <2> QED BY <2>1, <2>2, <2>3
<1>2. SlotsConsistent'
  BY SMTT(60), Z3T(60), RelayAssumption DEF RelayInv, TypeOK, SlotsConsistent, LiveOwnerKeepsSlot, WaitersConsistent, PairsConsistent, MatchedListenHasOneClient, HandleConnect, CloseAndReturn, Conns, ControlPCs, ListenPCs, ClientPCs
<1>3. LiveOwnerKeepsSlot'
  BY SMTT(60), Z3T(60), RelayAssumption DEF RelayInv, TypeOK, SlotsConsistent, LiveOwnerKeepsSlot, WaitersConsistent, PairsConsistent, MatchedListenHasOneClient, HandleConnect, CloseAndReturn, Conns, ControlPCs, ListenPCs, ClientPCs
<1>4. WaitersConsistent'
  BY SMTT(60), Z3T(60), RelayAssumption DEF RelayInv, TypeOK, SlotsConsistent, LiveOwnerKeepsSlot, WaitersConsistent, PairsConsistent, MatchedListenHasOneClient, HandleConnect, CloseAndReturn, Conns, ControlPCs, ListenPCs, ClientPCs
<1>5. PairsConsistent'
  BY RelayAssumption DEF RelayInv, TypeOK, SlotsConsistent, LiveOwnerKeepsSlot, WaitersConsistent, PairsConsistent, MatchedListenHasOneClient, HandleConnect, CloseAndReturn, Conns, ControlPCs, ListenPCs, ClientPCs
<1>6. MatchedListenHasOneClient'
  BY RelayAssumption DEF RelayInv, TypeOK, SlotsConsistent, LiveOwnerKeepsSlot, WaitersConsistent, PairsConsistent, MatchedListenHasOneClient, HandleConnect, CloseAndReturn, Conns, ControlPCs, ListenPCs, ClientPCs
<1> QED BY <1>1, <1>2, <1>3, <1>4, <1>5, <1>6 DEF RelayInv

\* A match moves one listen from its own handler to one client's.
LEMMA MatchKeeps ==
    ASSUME RelayInv, NEW c \in Clients, NEW l \in Listens, Match(c, l)
    PROVE  RelayInv'
<1>1. TypeOK'
  BY SMTT(60), Z3T(60), RelayAssumption DEF RelayInv, TypeOK, Match, Conns, ControlPCs, ListenPCs, ClientPCs
<1>2. SlotsConsistent'
  BY SMTT(60), Z3T(60), RelayAssumption DEF RelayInv, TypeOK, SlotsConsistent, LiveOwnerKeepsSlot, WaitersConsistent, PairsConsistent, MatchedListenHasOneClient, Match, Conns, ControlPCs, ListenPCs, ClientPCs
<1>3. LiveOwnerKeepsSlot'
  BY SMTT(60), Z3T(60), RelayAssumption DEF RelayInv, TypeOK, SlotsConsistent, LiveOwnerKeepsSlot, WaitersConsistent, PairsConsistent, MatchedListenHasOneClient, Match, Conns, ControlPCs, ListenPCs, ClientPCs
<1>4. WaitersConsistent'
  BY SMTT(60), Z3T(60), RelayAssumption DEF RelayInv, TypeOK, SlotsConsistent, LiveOwnerKeepsSlot, WaitersConsistent, PairsConsistent, MatchedListenHasOneClient, Match, Conns, ControlPCs, ListenPCs, ClientPCs
<1>5. PairsConsistent'
  BY SMTT(60), Z3T(60), RelayAssumption DEF RelayInv, TypeOK, SlotsConsistent, LiveOwnerKeepsSlot, WaitersConsistent, PairsConsistent, MatchedListenHasOneClient, Match, Conns, ControlPCs, ListenPCs, ClientPCs
<1>6. MatchedListenHasOneClient'
  BY SMTT(60), Z3T(60), RelayAssumption DEF RelayInv, TypeOK, SlotsConsistent, LiveOwnerKeepsSlot, WaitersConsistent, PairsConsistent, MatchedListenHasOneClient, Match, Conns, ControlPCs, ListenPCs, ClientPCs
<1> QED BY <1>1, <1>2, <1>3, <1>4, <1>5, <1>6 DEF RelayInv

\* A client whose wait ended is closed and forgotten.
LEMMA MatchEndsKeeps ==
    ASSUME RelayInv, NEW c \in Clients, MatchEnds(c)
    PROVE  RelayInv'
<1>1. TypeOK'
  BY SMTT(60), Z3T(60), RelayAssumption DEF RelayInv, TypeOK, MatchEnds, CloseAndReturn, Conns, ControlPCs, ListenPCs, ClientPCs
<1>2. SlotsConsistent'
  BY SMTT(60), Z3T(60), RelayAssumption DEF RelayInv, TypeOK, SlotsConsistent, LiveOwnerKeepsSlot, WaitersConsistent, PairsConsistent, MatchedListenHasOneClient, MatchEnds, CloseAndReturn, Conns, ControlPCs, ListenPCs, ClientPCs
<1>3. LiveOwnerKeepsSlot'
  BY RelayAssumption DEF RelayInv, TypeOK, SlotsConsistent, LiveOwnerKeepsSlot, WaitersConsistent, PairsConsistent, MatchedListenHasOneClient, MatchEnds, CloseAndReturn, Conns, ControlPCs, ListenPCs, ClientPCs
<1>4. WaitersConsistent'
  BY RelayAssumption DEF RelayInv, TypeOK, SlotsConsistent, LiveOwnerKeepsSlot, WaitersConsistent, PairsConsistent, MatchedListenHasOneClient, MatchEnds, CloseAndReturn, Conns, ControlPCs, ListenPCs, ClientPCs
<1>5. PairsConsistent'
  BY RelayAssumption DEF RelayInv, TypeOK, SlotsConsistent, LiveOwnerKeepsSlot, WaitersConsistent, PairsConsistent, MatchedListenHasOneClient, MatchEnds, CloseAndReturn, Conns, ControlPCs, ListenPCs, ClientPCs
<1>6. MatchedListenHasOneClient'
  BY RelayAssumption DEF RelayInv, TypeOK, SlotsConsistent, LiveOwnerKeepsSlot, WaitersConsistent, PairsConsistent, MatchedListenHasOneClient, MatchEnds, CloseAndReturn, Conns, ControlPCs, ListenPCs, ClientPCs
<1> QED BY <1>1, <1>2, <1>3, <1>4, <1>5, <1>6 DEF RelayInv

\* The client's handler goes on to bridge, or closes the pair.
LEMMA AckConnectKeeps ==
    ASSUME RelayInv, NEW c \in Clients, AckConnect(c)
    PROVE  RelayInv'
<1>1. TypeOK'
  <2> USE RelayAssumption DEF RelayInv, TypeOK, Conns, ControlPCs, ListenPCs, ClientPCs
  <2>1. CASE pc' = [pc EXCEPT ![c] = "bridging"] /\ UNCHANGED <<alive, partner>>
    BY <2>1 DEF AckConnect, CloseBoth
  <2>2. CASE CloseBoth(c)
    BY ZenonT(60), <2>2 DEF AckConnect, CloseBoth
  <2> QED BY <2>1, <2>2 DEF AckConnect, CloseBoth
<1>2. SlotsConsistent'
  BY SMTT(60), Z3T(60), RelayAssumption DEF RelayInv, TypeOK, SlotsConsistent, LiveOwnerKeepsSlot, WaitersConsistent, PairsConsistent, MatchedListenHasOneClient, AckConnect, CloseBoth, Conns, ControlPCs, ListenPCs, ClientPCs
<1>3. LiveOwnerKeepsSlot'
  BY SMTT(60), Z3T(60), RelayAssumption DEF RelayInv, TypeOK, SlotsConsistent, LiveOwnerKeepsSlot, WaitersConsistent, PairsConsistent, MatchedListenHasOneClient, AckConnect, CloseBoth, Conns, ControlPCs, ListenPCs, ClientPCs
<1>4. WaitersConsistent'
  BY SMTT(60), Z3T(60), RelayAssumption DEF RelayInv, TypeOK, SlotsConsistent, LiveOwnerKeepsSlot, WaitersConsistent, PairsConsistent, MatchedListenHasOneClient, AckConnect, CloseBoth, Conns, ControlPCs, ListenPCs, ClientPCs
<1>5. PairsConsistent'
  BY SMTT(60), Z3T(60), RelayAssumption DEF RelayInv, TypeOK, SlotsConsistent, LiveOwnerKeepsSlot, WaitersConsistent, PairsConsistent, MatchedListenHasOneClient, AckConnect, CloseBoth, Conns, ControlPCs, ListenPCs, ClientPCs
<1>6. MatchedListenHasOneClient'
  BY RelayAssumption DEF RelayInv, TypeOK, SlotsConsistent, LiveOwnerKeepsSlot, WaitersConsistent, PairsConsistent, MatchedListenHasOneClient, AckConnect, CloseBoth, Conns, ControlPCs, ListenPCs, ClientPCs
<1> QED BY <1>1, <1>2, <1>3, <1>4, <1>5, <1>6 DEF RelayInv

\* A failed pump closes the pair.
LEMMA PrimaryFailsKeeps ==
    ASSUME RelayInv, NEW c \in Clients, PrimaryFails(c)
    PROVE  RelayInv'
<1>1. TypeOK'
  BY ZenonT(60), RelayAssumption DEF RelayInv, TypeOK, PrimaryFails, CloseBoth, Conns, ControlPCs, ListenPCs, ClientPCs
<1>2. SlotsConsistent'
  BY SMTT(60), Z3T(60), RelayAssumption DEF RelayInv, TypeOK, SlotsConsistent, LiveOwnerKeepsSlot, WaitersConsistent, PairsConsistent, MatchedListenHasOneClient, PrimaryFails, CloseBoth, Conns, ControlPCs, ListenPCs, ClientPCs
<1>3. LiveOwnerKeepsSlot'
  BY SMTT(60), Z3T(60), RelayAssumption DEF RelayInv, TypeOK, SlotsConsistent, LiveOwnerKeepsSlot, WaitersConsistent, PairsConsistent, MatchedListenHasOneClient, PrimaryFails, CloseBoth, Conns, ControlPCs, ListenPCs, ClientPCs
<1>4. WaitersConsistent'
  BY SMTT(60), Z3T(60), RelayAssumption DEF RelayInv, TypeOK, SlotsConsistent, LiveOwnerKeepsSlot, WaitersConsistent, PairsConsistent, MatchedListenHasOneClient, PrimaryFails, CloseBoth, Conns, ControlPCs, ListenPCs, ClientPCs
<1>5. PairsConsistent'
  BY SMTT(60), Z3T(60), RelayAssumption DEF RelayInv, TypeOK, SlotsConsistent, LiveOwnerKeepsSlot, WaitersConsistent, PairsConsistent, MatchedListenHasOneClient, PrimaryFails, CloseBoth, Conns, ControlPCs, ListenPCs, ClientPCs
<1>6. MatchedListenHasOneClient'
  BY SMTT(60), Z3T(60), RelayAssumption DEF RelayInv, TypeOK, SlotsConsistent, LiveOwnerKeepsSlot, WaitersConsistent, PairsConsistent, MatchedListenHasOneClient, PrimaryFails, CloseBoth, Conns, ControlPCs, ListenPCs, ClientPCs
<1> QED BY <1>1, <1>2, <1>3, <1>4, <1>5, <1>6 DEF RelayInv

\* The end of either connection closes the pair.
LEMMA BridgeEndsKeeps ==
    ASSUME RelayInv, NEW c \in Clients, BridgeEnds(c)
    PROVE  RelayInv'
<1>1. TypeOK'
  BY ZenonT(60), RelayAssumption DEF RelayInv, TypeOK, BridgeEnds, CloseBoth, Conns, ControlPCs, ListenPCs, ClientPCs
<1>2. SlotsConsistent'
  BY RelayAssumption DEF RelayInv, TypeOK, SlotsConsistent, LiveOwnerKeepsSlot, WaitersConsistent, PairsConsistent, MatchedListenHasOneClient, BridgeEnds, CloseBoth, Conns, ControlPCs, ListenPCs, ClientPCs
<1>3. LiveOwnerKeepsSlot'
  BY SMTT(60), Z3T(60), RelayAssumption DEF RelayInv, TypeOK, SlotsConsistent, LiveOwnerKeepsSlot, WaitersConsistent, PairsConsistent, MatchedListenHasOneClient, BridgeEnds, CloseBoth, Conns, ControlPCs, ListenPCs, ClientPCs
<1>4. WaitersConsistent'
  BY SMTT(60), Z3T(60), RelayAssumption DEF RelayInv, TypeOK, SlotsConsistent, LiveOwnerKeepsSlot, WaitersConsistent, PairsConsistent, MatchedListenHasOneClient, BridgeEnds, CloseBoth, Conns, ControlPCs, ListenPCs, ClientPCs
<1>5. PairsConsistent'
  BY SMTT(60), Z3T(60), RelayAssumption DEF RelayInv, TypeOK, SlotsConsistent, LiveOwnerKeepsSlot, WaitersConsistent, PairsConsistent, MatchedListenHasOneClient, BridgeEnds, CloseBoth, Conns, ControlPCs, ListenPCs, ClientPCs
<1>6. MatchedListenHasOneClient'
  BY SMTT(60), Z3T(60), RelayAssumption DEF RelayInv, TypeOK, SlotsConsistent, LiveOwnerKeepsSlot, WaitersConsistent, PairsConsistent, MatchedListenHasOneClient, BridgeEnds, CloseBoth, Conns, ControlPCs, ListenPCs, ClientPCs
<1> QED BY <1>1, <1>2, <1>3, <1>4, <1>5, <1>6 DEF RelayInv

-----------------------------------------------------------------------------

\* Every step of the relay keeps RelayInv.
LEMMA StepKeeps == RelayInv /\ [Next]_vars => RelayInv'
<1> SUFFICES ASSUME RelayInv, [Next]_vars PROVE RelayInv'
  OBVIOUS
<1>1. CASE UNCHANGED vars
  BY <1>1 DEF vars, RelayInv, TypeOK, SlotsConsistent, LiveOwnerKeepsSlot,
     WaitersConsistent, PairsConsistent, MatchedListenHasOneClient
<1>2. ASSUME NEW x \in Conns, Arrive(x) \/ Disconnect(x) \/ RejectGreeting(x)
      PROVE  RelayInv'
  BY <1>2, ArriveKeeps, DisconnectKeeps, RejectGreetingKeeps
<1>3. ASSUME NEW r \in Controls, NEW i \in Ids, HandleRegister(r, i)
      PROVE  RelayInv'
  BY <1>3, HandleRegisterKeeps
<1>4. ASSUME NEW r \in Controls, ControlStep(r)
      PROVE  RelayInv'
  BY <1>4, WriteIdKeeps, ControlDoneKeeps, UnregisterKeeps, CancelInstanceKeeps
     DEF ControlStep
<1>5. ASSUME NEW l \in Listens, NEW i \in Ids, HandleListen(l, i)
      PROVE  RelayInv'
  BY <1>5, HandleListenKeeps
<1>6. ASSUME NEW l \in Listens, ListenStep(l)
      PROVE  RelayInv'
  BY <1>6, AckListenKeeps, ParkEndsKeeps DEF ListenStep
<1>7. ASSUME NEW c \in Clients, NEW i \in Ids, HandleConnect(c, i)
      PROVE  RelayInv'
  BY <1>7, HandleConnectKeeps
<1>8. ASSUME NEW c \in Clients, ClientStep(c) \/ PrimaryFails(c)
      PROVE  RelayInv'
  BY <1>8, MatchEndsKeeps, AckConnectKeeps, BridgeEndsKeeps, PrimaryFailsKeeps
     DEF ClientStep
<1>9. ASSUME NEW c \in Clients, NEW l \in Listens, Match(c, l)
      PROVE  RelayInv'
  BY <1>9, MatchKeeps
<1> QED
  BY <1>1, <1>2, <1>3, <1>4, <1>5, <1>6, <1>7, <1>8, <1>9 DEF Next, Greeting, MatchOn

\* RelayInv holds in every reachable state of the relay.
THEOREM RelayInvariant == Spec => []RelayInv
  BY InitEstablishes, StepKeeps, PTL DEF Spec

\* A backend whose connection is up keeps its ID and its instance, whatever
\* other backends register, leave or reconnect (hub.register, hub.unregister).
THEOREM LiveOwnerAlwaysKeepsSlot == Spec => []LiveOwnerKeepsSlot
<1>1. RelayInv => LiveOwnerKeepsSlot
  BY DEF RelayInv
<1> QED BY <1>1, RelayInvariant, PTL

\* A matched listen always belongs to one client, which asked for its ID
\* (parkListen, matchListen, handleConnect).
THEOREM MatchedListenAlwaysHasOneClient == Spec => []MatchedListenHasOneClient
<1>1. RelayInv => MatchedListenHasOneClient
  BY DEF RelayInv
<1> QED BY <1>1, RelayInvariant, PTL

\* No open connection is ever left without a handler that will close it
\* (the error returns of the handlers and of bridge).
THEOREM OpenConnectionAlwaysHasHandler == Spec => []OpenConnectionHasHandler
<1>1. RelayInv => OpenConnectionHasHandler
  <2> SUFFICES ASSUME RelayInv, NEW x \in Conns, alive[x], pc[x] \in {"gone", "handed"}
               PROVE  \E c \in Clients : partner[c] = x /\ pc[c] \in {"acking", "bridging"}
    BY DEF OpenConnectionHasHandler
  <2>1. pc[x] = "handed" /\ x \in Listens
    BY DEF RelayInv, WaitersConsistent, TypeOK, Conns, ControlPCs, ClientPCs
  <2>2. PICK c \in Clients : partner[c] = x
    BY <2>1 DEF RelayInv, PairsConsistent
  <2> QED BY <2>1, <2>2, RelayAssumption DEF RelayInv, PairsConsistent, Conns
<1> QED BY <1>1, RelayInvariant, PTL

-----------------------------------------------------------------------------
(* The relay implements the service.                                       *)

abstractAsked == [x \in Listens \cup Clients |-> id[x]]

\* The live owners change only when a slot or the liveness of its holder does.
LEMMA OwnerFrame ==
    ASSUME RelayInv, slot' = slot, cancelled' = cancelled,
           \A r \in Controls : alive'[r] = alive[r]
    PROVE  liveOwner' = liveOwner
  BY DEF RelayInv, TypeOK, liveOwner, InstLive

\* A listen or client outside a matched pair is not linked.
LEMMA UnpairedNotLinked ==
    ASSUME RelayInv, NEW x \in Listens \cup Clients,
           pc[x] \notin {"handed", "bridging"}, x \in Clients => pc[x] # "acking"
    PROVE  ~Service!Linked(x)
  BY RelayAssumption DEF RelayInv, TypeOK, PairsConsistent, Service!Linked, Conns

\* A control connection that ends releases the ID it owned, or nothing.
LEMMA EndReleases ==
    ASSUME RelayInv, NEW r \in Controls, alive' = [alive EXCEPT ![r] = FALSE],
           UNCHANGED <<id, slot, cancelled, partner>>
    PROVE  \/ UNCHANGED Service!serviceVars
           \/ \E i \in Ids : Service!Release(i)
<1>1. abstractAsked' = abstractAsked
  BY DEF abstractAsked
<1>2. CASE \E i \in Ids : slot[i] = r /\ InstLive(r)
  <2>1. PICK i \in Ids : slot[i] = r /\ InstLive(r)
    BY <1>2
  <2>2. \A j \in Ids : slot[j] = r => j = i
    BY <2>1 DEF RelayInv, SlotsConsistent
  <2>3. liveOwner' = [liveOwner EXCEPT ![i] = None]
    BY ZenonT(60), <2>1, <2>2, RelayAssumption DEF liveOwner, InstLive, RelayInv, TypeOK, Conns
  <2>4. liveOwner[i] # None
    BY <2>1, RelayAssumption DEF liveOwner, Conns
  <2> QED BY ZenonT(60), <1>1, <2>3, <2>4 DEF Service!Release, abstractAsked
<1>3. CASE ~\E i \in Ids : slot[i] = r /\ InstLive(r)
  <2>1. liveOwner' = liveOwner
    BY <1>3 DEF liveOwner, InstLive, RelayInv, TypeOK, Conns
  <2> QED BY <1>1, <2>1 DEF Service!serviceVars, abstractAsked
<1> QED BY <1>2, <1>3

\* A greeting changes what its own connection asked for and no more.
LEMMA IdAsks ==
    ASSUME RelayInv, NEW x \in Conns, NEW i \in Ids \cup {None},
           pc[x] \in {"gone", "greeting"}, id' = [id EXCEPT ![x] = i],
           liveOwner' = liveOwner, partner' = partner
    PROVE  [Service!ServiceNext]_(Service!serviceVars)
<1>1. CASE x \in Controls
  BY <1>1, RelayAssumption DEF RelayInv, TypeOK, Conns, Service!serviceVars
<1>2. CASE x \in Listens \cup Clients
  <2>1. abstractAsked' = [abstractAsked EXCEPT ![x] = i]
    BY ZenonT(60), <1>2 DEF abstractAsked, RelayInv, TypeOK, Conns
  <2>2. ~Service!Linked(x)
    BY <1>2, UnpairedNotLinked
  <2> QED BY ZenonT(60), <1>2, <2>1, <2>2 DEF Service!ServiceNext, Service!Ask, abstractAsked
<1> QED BY <1>1, <1>2 DEF Conns

\* Closing a pair unlinks its client.
LEMMA CloseBothUnlinks ==
    ASSUME RelayInv, NEW c \in Clients, pc[c] \in {"acking", "bridging"},
           CloseBoth(c), UNCHANGED <<id, slot, cancelled>>
    PROVE  Service!Unlink(c)
<1>0. partner[c] \in Listens
  BY DEF RelayInv, TypeOK, PairsConsistent
<1>1. \A r \in Controls : alive'[r] = alive[r]
  BY ZenonT(60), <1>0, RelayAssumption DEF CloseBoth, RelayInv, TypeOK, Conns
<1>2. liveOwner' = liveOwner
  BY <1>1, OwnerFrame
<1> QED BY <1>2 DEF CloseBoth, RelayInv, PairsConsistent, Service!Unlink

\* Every step of the relay is a step of the service or changes nothing the
\* service shows.
LEMMA StepRefines ==
    RelayInv /\ [Next]_vars => [Service!ServiceNext]_(Service!serviceVars)
<1> SUFFICES ASSUME RelayInv, [Next]_vars
             PROVE  [Service!ServiceNext]_(Service!serviceVars)
  OBVIOUS
<1> USE DEF Service!serviceVars
<1>1. CASE UNCHANGED vars
  BY <1>1 DEF vars, liveOwner, InstLive
<1>2. ASSUME NEW x \in Conns, Arrive(x) PROVE [Service!ServiceNext]_(Service!serviceVars)
  <2>1. liveOwner' = liveOwner
    BY <1>2 DEF Arrive, Referenced, liveOwner, InstLive, RelayInv, TypeOK, Conns
  <2> QED BY ZenonT(60), <1>2, <2>1, IdAsks DEF Arrive
<1>3. ASSUME NEW x \in Conns, Disconnect(x) \/ RejectGreeting(x)
      PROVE  [Service!ServiceNext]_(Service!serviceVars)
  <2>1. CASE x \in Controls
    BY <1>3, <2>1, EndReleases DEF Disconnect, RejectGreeting, CloseAndReturn, Service!ServiceNext
  <2>2. CASE x \notin Controls
    BY SMTT(60), Z3T(60), <1>3, <2>2, OwnerFrame DEF Disconnect, RejectGreeting, CloseAndReturn, RelayInv, TypeOK, Conns
  <2> QED BY <2>1, <2>2
<1>4. ASSUME NEW r \in Controls, NEW i \in Ids, HandleRegister(r, i)
      PROVE  [Service!ServiceNext]_(Service!serviceVars)
  <2>1. abstractAsked' = abstractAsked /\ partner' = partner
    BY <1>4, RelayAssumption DEF HandleRegister, abstractAsked, RelayInv, TypeOK, Conns
  <2>2. \A j \in Ids : slot[j] # r
    BY <1>4 DEF HandleRegister, RelayInv, SlotsConsistent
  <2>3. CASE slot[i] # None /\ InstLive(slot[i])
    <3>1. liveOwner' = liveOwner
      BY <1>4, <2>2, <2>3 DEF HandleRegister, CloseAndReturn, liveOwner, InstLive, RelayInv, TypeOK, Conns
    <3> QED BY <2>1, <3>1 DEF abstractAsked
  <2>4. CASE ~(slot[i] # None /\ InstLive(slot[i])) /\ InstLive(r)
    <3>1. liveOwner[i] = None
      BY <2>4 DEF liveOwner
    <3>2. slot' = [slot EXCEPT ![i] = r] /\ alive' = alive /\ cancelled' = cancelled
      BY <1>4, <2>4 DEF HandleRegister
    <3>3. slot \in [Ids -> Controls \cup {None}] /\ r # None
      BY RelayAssumption DEF RelayInv, TypeOK, Conns
    <3>4. liveOwner' = [liveOwner EXCEPT ![i] = r]
      BY ZenonT(60), <2>4, <3>2, <3>3 DEF liveOwner, InstLive
    <3> QED BY ZenonT(60), <2>1, <3>1, <3>4 DEF abstractAsked, Service!ServiceNext, Service!Claim
  <2>5. CASE ~(slot[i] # None /\ InstLive(slot[i])) /\ ~InstLive(r)
    <3>1. liveOwner' = liveOwner
      BY <1>4, <2>5, RelayAssumption DEF HandleRegister, liveOwner, InstLive, RelayInv, TypeOK, Conns
    <3> QED BY <2>1, <3>1 DEF abstractAsked
  <2> QED BY <2>3, <2>4, <2>5
<1>5. ASSUME NEW r \in Controls, WriteId(r) PROVE [Service!ServiceNext]_(Service!serviceVars)
  <2>1. CASE alive' = alive
    BY <1>5, <2>1 DEF WriteId, liveOwner, InstLive
  <2>2. CASE alive' = [alive EXCEPT ![r] = FALSE]
    BY ZenonT(60), <1>5, <2>2, EndReleases DEF WriteId, Service!ServiceNext
  <2> QED BY <1>5, <2>1, <2>2 DEF WriteId
<1>6. ASSUME NEW r \in Controls, ControlDone(r) PROVE [Service!ServiceNext]_(Service!serviceVars)
  BY <1>6 DEF ControlDone, liveOwner, InstLive
<1>7. ASSUME NEW r \in Controls, Unregister(r) PROVE [Service!ServiceNext]_(Service!serviceVars)
  <2>1. liveOwner' = liveOwner
    BY <1>7, RelayAssumption DEF Unregister, liveOwner, InstLive, RelayInv, TypeOK, SlotsConsistent, Conns
  <2> QED BY <1>7, <2>1 DEF Unregister
<1>8. ASSUME NEW r \in Controls, CancelInstance(r) PROVE [Service!ServiceNext]_(Service!serviceVars)
  <2>1. liveOwner' = liveOwner
    BY <1>8 DEF CancelInstance, liveOwner, InstLive, RelayInv, TypeOK, SlotsConsistent
  <2> QED BY <1>8, <2>1 DEF CancelInstance
<1>9. ASSUME NEW l \in Listens, NEW i \in Ids, HandleListen(l, i)
      PROVE  [Service!ServiceNext]_(Service!serviceVars)
  <2>1. \A r \in Controls : alive'[r] = alive[r]
    BY <1>9, RelayAssumption DEF HandleListen, CloseAndReturn, RelayInv, TypeOK, Conns
  <2>2. liveOwner' = liveOwner
    BY <1>9, <2>1, OwnerFrame DEF HandleListen
  <2> QED BY ZenonT(60), <1>9, <2>2, IdAsks DEF HandleListen, Conns
<1>10. ASSUME NEW l \in Listens, ListenStep(l) PROVE [Service!ServiceNext]_(Service!serviceVars)
  <2>1. \A r \in Controls : alive'[r] = alive[r]
    BY <1>10, RelayAssumption DEF ListenStep, AckListen, ParkEnds, CloseAndReturn, RelayInv, TypeOK, Conns
  <2>2. liveOwner' = liveOwner
    BY <1>10, <2>1, OwnerFrame DEF ListenStep, AckListen, ParkEnds
  <2> QED BY SMTT(60), Z3T(60), <1>10, <2>2 DEF ListenStep, AckListen, ParkEnds
<1>11. ASSUME NEW c \in Clients, NEW i \in Ids, HandleConnect(c, i)
       PROVE  [Service!ServiceNext]_(Service!serviceVars)
  <2>1. \A r \in Controls : alive'[r] = alive[r]
    BY <1>11, RelayAssumption DEF HandleConnect, CloseAndReturn, RelayInv, TypeOK, Conns
  <2>2. liveOwner' = liveOwner
    BY <1>11, <2>1, OwnerFrame DEF HandleConnect
  <2> QED BY ZenonT(60), <1>11, <2>2, IdAsks DEF HandleConnect, Conns
<1>12. ASSUME NEW c \in Clients, NEW l \in Listens, Match(c, l)
       PROVE  [Service!ServiceNext]_(Service!serviceVars)
  <2>1. liveOwner' = liveOwner
    BY <1>12 DEF Match, liveOwner, InstLive
  <2>2. ~Service!Linked(c) /\ ~Service!Linked(l)
    BY <1>12, UnpairedNotLinked, RelayAssumption DEF Match
  <2>3. id[c] = id[l] /\ id[c] # None
    BY <1>12, RelayAssumption DEF Match, RelayInv, TypeOK, WaitersConsistent
  <2> QED BY ZenonT(60), <1>12, <2>1, <2>2, <2>3 DEF Match, Service!ServiceNext, Service!Link
<1>13. ASSUME NEW c \in Clients, MatchEnds(c) PROVE [Service!ServiceNext]_(Service!serviceVars)
  <2>1. \A r \in Controls : alive'[r] = alive[r]
    BY ZenonT(60), <1>13, RelayAssumption DEF MatchEnds, CloseAndReturn, RelayInv, TypeOK, Conns
  <2>2. liveOwner' = liveOwner
    BY <1>13, <2>1, OwnerFrame DEF MatchEnds
  <2> QED BY <1>13, <2>2 DEF MatchEnds
<1>14. ASSUME NEW c \in Clients, AckConnect(c) \/ PrimaryFails(c) \/ BridgeEnds(c)
       PROVE  [Service!ServiceNext]_(Service!serviceVars)
  <2>1. CASE CloseBoth(c)
    BY <1>14, <2>1, CloseBothUnlinks DEF AckConnect, PrimaryFails, BridgeEnds, Service!ServiceNext
  <2>2. CASE UNCHANGED <<alive, partner>>
    BY <1>14, <2>2 DEF AckConnect, PrimaryFails, BridgeEnds, liveOwner, InstLive
  <2> QED BY SMTT(60), Z3T(60), <1>14, <2>1, <2>2 DEF AckConnect, PrimaryFails, BridgeEnds
<1> QED
  BY ZenonT(60), <1>1, <1>2, <1>3, <1>4, <1>5, <1>6, <1>7, <1>8, <1>9, <1>10, <1>11, <1>12, <1>13, <1>14
  DEF Next, Greeting, MatchOn, ControlStep, ClientStep

\* The relay's handlers implement the service they promise their peers: an
\* ID passes on only through an ended connection, and links are one to one.
THEOREM RelayImplementsService == Spec => ServiceImplemented
<1>1. Init => Service!ServiceInit
  BY RelayAssumption DEF Init, Service!ServiceInit, liveOwner, Conns
<1> QED
  BY <1>1, RelayInvariant, StepRefines, PTL DEF Spec, ServiceImplemented, Service!ServiceSpec

---------------------------------------------------------------------------
(* The listener.  Its actions fall into four groups: those that only move  *)
(* connections up and down (the relay and the network), a worker's steps,  *)
(* the application's steps, and the steps of Listener.Close.               *)

\* Each conjunct of ListenerInv depends on few of the variables.
LEMMA PoolFrames ==
    ASSUME ListenerInv
    PROVE  /\ UNCHANGED <<wpc, wconn>> => WorkersConsistent'
           /\ UNCHANGED <<open, wconn, accepted, app>> => OpenConnHasOneHolder'
           /\ UNCHANGED <<parked, wpc, wconn>> => SweepSparesSessions'
           /\ UNCHANGED <<ctxDone, closing, control, parked, live>> => ClosedForGood'
<1>1. UNCHANGED <<wpc, wconn>> => WorkersConsistent'
  BY DEF ListenerInv, WorkersConsistent
<1>2. UNCHANGED <<open, wconn, accepted, app>> => OpenConnHasOneHolder'
  BY DEF ListenerInv, OpenConnHasOneHolder, Held, Queued
<1>3. UNCHANGED <<parked, wpc, wconn>> => SweepSparesSessions'
  BY DEF ListenerInv, SweepSparesSessions
<1>4. UNCHANGED <<ctxDone, closing, control, parked, live>> => ClosedForGood'
  BY DEF ListenerInv, ClosedForGood
<1> QED BY <1>1, <1>2, <1>3, <1>4

\* Closing connections disturbs no holder.
LEMMA ClosingKeepsHolders ==
    ASSUME ListenerInv, UNCHANGED <<wconn, accepted, app>>,
           \A t \in ListenConns : open'[t] => open[t]
    PROVE  OpenConnHasOneHolder'
  BY DEF ListenerInv, OpenConnHasOneHolder, Held, Queued

\* The relay and the network keep ListenerInv.
LEMMA OutsideKeeps ==
    ASSUME ListenerInv, NEW t \in ListenConns,
           ClientArrives(t) \/ RelayDrops(t) \/ ConnLost(t)
    PROVE  ListenerInv'
<1>1. PoolTypeOK'
  BY ZenonT(60) DEF ListenerInv, PoolTypeOK, ClientArrives, RelayDrops, ConnLost
<1>2. WorkersConsistent' /\ SweepSparesSessions'
  BY PoolFrames DEF ClientArrives, RelayDrops, ConnLost
<1>3. OpenConnHasOneHolder'
  BY ClosingKeepsHolders DEF ListenerInv, PoolTypeOK, ClientArrives, RelayDrops, ConnLost
<1>4. ClosedForGood'
  BY DEF ListenerInv, ClosedForGood, ClientArrives, RelayDrops, ConnLost
<1> QED BY <1>1, <1>2, <1>3, <1>4 DEF ListenerInv

\* The loss of the control connection keeps ListenerInv.
LEMMA ControlLostKeeps ==
    ASSUME ListenerInv, ControlLost
    PROVE  ListenerInv'
<1>1. PoolTypeOK'
  BY ZenonT(60) DEF ListenerInv, PoolTypeOK, ControlLost
<1>2. WorkersConsistent' /\ OpenConnHasOneHolder' /\ SweepSparesSessions'
  BY PoolFrames DEF ControlLost
<1>3. ClosedForGood'
  BY DEF ListenerInv, ClosedForGood, ControlLost
<1> QED BY <1>1, <1>2, <1>3 DEF ListenerInv

\* The steps at which a worker holds no connection, before and after, keep
\* ListenerInv.
LEMMA EmptyHandedKeeps ==
    ASSUME ListenerInv, NEW w \in Workers, NextListen(w) \/ DialFails(w) \/ Backoff(w)
    PROVE  ListenerInv'
<1>1. PoolTypeOK'
  BY ZenonT(60) DEF ListenerInv, PoolTypeOK, NextListen, DialFails, Backoff, Goto
<1>2. WorkersConsistent'
  BY DEF ListenerInv, PoolTypeOK, WorkersConsistent, NextListen, DialFails, Backoff, Goto
<1>3. SweepSparesSessions'
  BY DEF ListenerInv, PoolTypeOK, WorkersConsistent, SweepSparesSessions, NextListen, DialFails,
     Backoff, Goto
<1>4. OpenConnHasOneHolder' /\ ClosedForGood'
  BY PoolFrames DEF NextListen, DialFails, Backoff
<1> QED BY <1>1, <1>2, <1>3, <1>4 DEF ListenerInv

\* A new listen connection (dialListen) keeps ListenerInv: nobody held it.
LEMMA DialListenKeeps ==
    ASSUME ListenerInv, NEW w \in Workers, NEW t \in ListenConns, DialListen(w, t)
    PROVE  ListenerInv'
<1>1. PoolTypeOK'
  BY DEF ListenerInv, PoolTypeOK, DialListen, Goto
<1>2. WorkersConsistent'
  BY SMTT(60), Z3T(60), ListenerAssumption DEF ListenerInv, PoolTypeOK, WorkersConsistent, DialListen, Goto
<1>3. OpenConnHasOneHolder'
  <2>1. wconn[w] = NoConn
    BY DEF ListenerInv, WorkersConsistent, DialListen
  <2>2. /\ \A v \in Workers : wconn'[v] = IF v = w THEN t ELSE wconn[v]
        /\ \A u \in ListenConns : open'[u] => open[u] \/ u = t
        /\ UNCHANGED <<accepted, app>>
    BY SMTT(60), Z3T(60) DEF DialListen, ListenerInv, PoolTypeOK
  <2>3. t \notin app /\ ~Queued(t) /\ \A v \in Workers : wconn[v] # t
    BY ZenonT(60) DEF DialListen, Held
  <2>4. \A u \in ListenConns : open'[u] => Held(u)'
    BY <2>1, <2>2, <2>3, ListenerAssumption DEF ListenerInv, OpenConnHasOneHolder, Held, Queued
  <2> QED BY SMTT(60), Z3T(60), <2>2, <2>3, <2>4 DEF ListenerInv, OpenConnHasOneHolder, Queued
<1>4. SweepSparesSessions'
  BY SMTT(60), Z3T(60) DEF ListenerInv, PoolTypeOK, SweepSparesSessions, DialListen, Goto
<1>5. ClosedForGood'
  BY DEF ListenerInv, PoolTypeOK, ClosedForGood, DialListen
<1> QED BY <1>1, <1>2, <1>3, <1>4, <1>5 DEF ListenerInv

\* A worker's steps with a connection it goes on holding keep ListenerInv.
LEMMA HoldingKeeps ==
    ASSUME ListenerInv, NEW w \in Workers,
           \/ TrackListen(w) \/ ActivateSucceeds(w) \/ ActivationCut(w)
           \/ ClientRefused(w) \/ UntrackListen(w)
    PROVE  ListenerInv'
<1>1. wconn[w] \in ListenConns
  BY DEF ListenerInv, PoolTypeOK, WorkersConsistent, TrackListen, ActivateSucceeds, ActivationCut,
     ClientRefused, UntrackListen
<1>2. PoolTypeOK'
  BY ZenonT(60), <1>1 DEF ListenerInv, PoolTypeOK, TrackListen, ActivateSucceeds, ActivationCut,
     ClientRefused, UntrackListen, Goto
<1>3. WorkersConsistent'
  BY DEF ListenerInv, PoolTypeOK, WorkersConsistent, TrackListen, ActivateSucceeds, ActivationCut,
     ClientRefused, UntrackListen, Goto
<1>4. OpenConnHasOneHolder'
  BY PoolFrames DEF TrackListen, ActivateSucceeds, ActivationCut, ClientRefused, UntrackListen
<1>5. SweepSparesSessions'
  BY DEF ListenerInv, PoolTypeOK, SweepSparesSessions, TrackListen,
     ActivateSucceeds, ActivationCut, ClientRefused, UntrackListen, Goto
<1>6. ClosedForGood'
  BY <1>1 DEF ListenerInv, PoolTypeOK, ClosedForGood, TrackListen, ActivateSucceeds,
     ActivationCut, ClientRefused, UntrackListen
<1> QED BY <1>2, <1>3, <1>4, <1>5, <1>6 DEF ListenerInv

\* A worker that closes what it holds keeps ListenerInv (the error returns of
\* acceptWorker).
LEMMA LettingGoKeeps ==
    ASSUME ListenerInv, NEW w \in Workers, DropListen(w) \/ WithdrawSession(w)
    PROVE  ListenerInv'
<1>1. wconn[w] \in ListenConns
  BY DEF ListenerInv, PoolTypeOK, WorkersConsistent, DropListen, WithdrawSession
<1>2. PoolTypeOK'
  BY ZenonT(60), <1>1 DEF ListenerInv, PoolTypeOK, DropListen, WithdrawSession, Goto
<1>3. WorkersConsistent'
  BY DEF ListenerInv, PoolTypeOK, WorkersConsistent, DropListen, WithdrawSession, Goto
<1>4. OpenConnHasOneHolder'
  <2>1. /\ \A v \in Workers : wconn'[v] = IF v = w THEN NoConn ELSE wconn[v]
        /\ \A u \in ListenConns : open'[u] => open[u] /\ u # wconn[w]
        /\ UNCHANGED <<accepted, app>>
    BY <1>1 DEF DropListen, WithdrawSession, ListenerInv, PoolTypeOK
  <2>2. NoConn \notin app /\ ~Queued(NoConn)
    BY ListenerAssumption DEF Queued, ListenerInv, PoolTypeOK
  <2>3. \A u \in ListenConns : open'[u] => Held(u)'
    BY <2>1 DEF ListenerInv, OpenConnHasOneHolder, Held, Queued
  <2> QED BY <2>1, <2>2, <2>3 DEF ListenerInv, OpenConnHasOneHolder, Queued
<1>5. SweepSparesSessions'
  <2>1. CASE DropListen(w)
    BY <2>1 DEF ListenerInv, PoolTypeOK, SweepSparesSessions, DropListen, Goto
  <2>2. CASE WithdrawSession(w)
    BY <2>2 DEF ListenerInv, PoolTypeOK, SweepSparesSessions, WithdrawSession, Goto
  <2> QED BY <2>1, <2>2
<1>6. ClosedForGood'
  BY <1>1 DEF ListenerInv, PoolTypeOK, ClosedForGood, DropListen, WithdrawSession
<1> QED BY <1>2, <1>3, <1>4, <1>5, <1>6 DEF ListenerInv

\* What sending on the accepted channel does to it.
LEMMA AppendEntries ==
    ASSUME NEW S, NEW q \in Seq(S), NEW e \in S
    PROVE  /\ Append(q, e) \in Seq(S)
           /\ \A i \in DOMAIN Append(q, e) :
                 (i \in DOMAIN q /\ Append(q, e)[i] = q[i]) \/ (i = Len(q) + 1 /\ Append(q, e)[i] = e)
           /\ \A i \in DOMAIN q : i \in DOMAIN Append(q, e) /\ Append(q, e)[i] = q[i]
           /\ Len(q) + 1 \in DOMAIN Append(q, e) /\ Append(q, e)[Len(q) + 1] = e
           /\ Len(q) + 1 \notin DOMAIN q
  OBVIOUS

\* What receiving from the accepted channel does to it.
LEMMA TailEntries ==
    ASSUME NEW S, NEW q \in Seq(S), q # <<>>
    PROVE  /\ Tail(q) \in Seq(S) /\ Head(q) \in S
           /\ 1 \in DOMAIN q /\ q[1] = Head(q)
           /\ \A i \in DOMAIN Tail(q) : i + 1 \in DOMAIN q /\ i + 1 # 1 /\ Tail(q)[i] = q[i + 1]
           /\ \A i \in DOMAIN q : i # 1 => i - 1 \in DOMAIN Tail(q) /\ Tail(q)[i - 1] = q[i]
           /\ \A i, j \in DOMAIN Tail(q) : i + 1 = j + 1 => i = j
  BY SMTT(60), Z3T(60)

\* Queueing an error (ReportFailure) keeps ListenerInv.
LEMMA ReportFailureKeeps ==
    ASSUME ListenerInv, NEW w \in Workers, ReportFailure(w)
    PROVE  ListenerInv'
<1>1. PoolTypeOK'
  BY SMTT(60), Z3T(60), AppendEntries DEF ListenerInv, PoolTypeOK, ReportFailure, Goto
<1>2. WorkersConsistent'
  BY DEF ListenerInv, PoolTypeOK, WorkersConsistent, ReportFailure, Goto
<1>3. OpenConnHasOneHolder'
  <2>1. CASE accepted' = accepted
    BY <2>1, PoolFrames DEF ReportFailure
  <2>2. CASE accepted' = Append(accepted, Failure)
    <3>1. accepted \in Seq(ListenConns \cup {Failure}) /\ app \subseteq ListenConns
          /\ \A v \in Workers : wconn[v] # Failure
      BY ListenerAssumption DEF ListenerInv, PoolTypeOK
    <3>2. /\ \A i \in DOMAIN accepted' :
                (i \in DOMAIN accepted /\ accepted'[i] = accepted[i]) \/ accepted'[i] = Failure
          /\ \A i \in DOMAIN accepted : i \in DOMAIN accepted' /\ accepted'[i] = accepted[i]
      BY <2>2, <3>1, AppendEntries
    <3>3. \A u : u # Failure => (Queued(u)' <=> Queued(u))
      BY <3>2 DEF Queued
    <3>4. \A u \in ListenConns : open'[u] => Held(u)'
      BY <3>3, ListenerAssumption DEF ReportFailure, ListenerInv, OpenConnHasOneHolder, Held
    <3>5. \A v \in Workers : wconn'[v] \notin app' /\ ~Queued(wconn[v])'
      BY <3>1, <3>2 DEF ReportFailure, ListenerInv, OpenConnHasOneHolder, Queued
    <3>6. \A i \in DOMAIN accepted' : accepted'[i] \notin app'
      BY <3>1, <3>2, ListenerAssumption DEF ReportFailure, ListenerInv, OpenConnHasOneHolder
    <3>7. \A i, j \in DOMAIN accepted' :
             accepted'[i] = accepted'[j] /\ accepted'[i] # Failure => i = j
      BY <3>2 DEF ListenerInv, OpenConnHasOneHolder
    <3>8. \A u, v \in Workers : wconn'[u] # NoConn /\ wconn'[u] = wconn'[v] => u = v
      BY DEF ReportFailure, ListenerInv, OpenConnHasOneHolder
    <3> QED BY <3>4, <3>5, <3>6, <3>7, <3>8 DEF OpenConnHasOneHolder
  <2> QED BY <2>1, <2>2 DEF ReportFailure
<1>4. SweepSparesSessions'
  BY SMTT(60), Z3T(60) DEF ListenerInv, PoolTypeOK, SweepSparesSessions, ReportFailure, Goto
<1>5. ClosedForGood'
  BY PoolFrames DEF ReportFailure
<1> QED BY <1>1, <1>2, <1>3, <1>4, <1>5 DEF ListenerInv

\* Queueing a Session (OfferSession) keeps ListenerInv: the worker lets go of
\* what it queues.
LEMMA OfferSessionKeeps ==
    ASSUME ListenerInv, NEW w \in Workers, OfferSession(w)
    PROVE  ListenerInv'
<1>1. wconn[w] \in ListenConns
  BY DEF ListenerInv, PoolTypeOK, WorkersConsistent, OfferSession
<1>2. PoolTypeOK'
  BY <1>1, AppendEntries DEF ListenerInv, PoolTypeOK, OfferSession, Goto
<1>3. WorkersConsistent'
  BY DEF ListenerInv, PoolTypeOK, WorkersConsistent, OfferSession, Goto
<1>4. OpenConnHasOneHolder'
  <2>1. /\ \A v \in Workers : wconn'[v] = IF v = w THEN NoConn ELSE wconn[v]
        /\ UNCHANGED <<open, app>>
    BY DEF OfferSession, ListenerInv, PoolTypeOK
  <2>2. accepted \in Seq(ListenConns \cup {Failure}) /\ accepted' = Append(accepted, wconn[w])
    BY DEF OfferSession, ListenerInv, PoolTypeOK
  <2>3. /\ \A i \in DOMAIN accepted' :
              (i \in DOMAIN accepted /\ accepted'[i] = accepted[i])
              \/ (i = Len(accepted) + 1 /\ accepted'[i] = wconn[w])
        /\ \A i \in DOMAIN accepted : i \in DOMAIN accepted' /\ accepted'[i] = accepted[i]
        /\ \E i \in DOMAIN accepted' : accepted'[i] = wconn[w]
    BY <1>1, <2>2, AppendEntries
  <2>4. \A u : Queued(u)' <=> Queued(u) \/ u = wconn[w]
    BY <2>3 DEF Queued
  <2>5. NoConn \notin app /\ ~Queued(NoConn) /\ NoConn # wconn[w]
    BY SMTT(60), Z3T(60), <1>1, ListenerAssumption DEF Queued, ListenerInv, PoolTypeOK
  <2>6. \A u \in ListenConns : open'[u] => Held(u)'
    BY SMTT(60), Z3T(60), <2>1, <2>4 DEF ListenerInv, OpenConnHasOneHolder, Held
  <2>7. \A v \in Workers : wconn'[v] \notin app' /\ ~Queued(wconn[v])'
    <3> SUFFICES ASSUME NEW v \in Workers PROVE wconn'[v] \notin app' /\ ~Queued(wconn[v])'
      OBVIOUS
    <3>1. wconn'[v] = NoConn \/ (wconn'[v] = wconn[v] /\ wconn[v] # wconn[w])
      BY SMTT(60), Z3T(60), <1>1, <2>1, ListenerAssumption DEF ListenerInv, OpenConnHasOneHolder
    <3>2. \A i \in DOMAIN accepted' : accepted'[i] # wconn'[v]
      BY ZenonT(60), <2>3, <2>5, <3>1 DEF ListenerInv, OpenConnHasOneHolder, Queued
    <3> QED BY <2>1, <2>5, <3>1, <3>2 DEF ListenerInv, OpenConnHasOneHolder, Queued
  <2>8. \A i \in DOMAIN accepted' : accepted'[i] \notin app'
    BY SMTT(60), Z3T(60), <2>1, <2>3 DEF ListenerInv, OpenConnHasOneHolder
  <2>9. \A i, j \in DOMAIN accepted' :
           accepted'[i] = accepted'[j] /\ accepted'[i] # Failure => i = j
    BY <2>3 DEF ListenerInv, OpenConnHasOneHolder, Queued
  <2>10. \A u, v \in Workers : wconn'[u] # NoConn /\ wconn'[u] = wconn'[v] => u = v
    BY SMTT(60), Z3T(60), <2>1 DEF ListenerInv, OpenConnHasOneHolder
  <2> QED BY <2>6, <2>7, <2>8, <2>9, <2>10 DEF OpenConnHasOneHolder
<1>5. SweepSparesSessions'
  BY DEF ListenerInv, PoolTypeOK, OpenConnHasOneHolder, SweepSparesSessions, OfferSession, Goto
<1>6. ClosedForGood'
  BY PoolFrames DEF OfferSession
<1> QED BY <1>2, <1>3, <1>4, <1>5, <1>6 DEF ListenerInv

\* Accept keeps ListenerInv: what it returns leaves the queue.
LEMMA AcceptKeeps ==
    ASSUME ListenerInv, Accept
    PROVE  ListenerInv'
<1>1. accepted \in Seq(ListenConns \cup {Failure}) /\ accepted # <<>> /\ accepted' = Tail(accepted)
  BY DEF Accept, ListenerInv, PoolTypeOK
<1> PICK h \in ListenConns \cup {Failure} : h = Head(accepted)
  BY <1>1, TailEntries
<1>2. app' = IF h = Failure THEN app ELSE app \cup {h}
  BY DEF Accept
<1>3. UNCHANGED <<ctxDone, closing, control, parked, open, bridged, live, wpc, wconn>>
  BY DEF Accept
<1>4. /\ accepted' \in Seq(ListenConns \cup {Failure})
      /\ 1 \in DOMAIN accepted /\ accepted[1] = h
      /\ \A i \in DOMAIN accepted' :
            i + 1 \in DOMAIN accepted /\ i + 1 # 1 /\ accepted'[i] = accepted[i + 1]
      /\ \A i \in DOMAIN accepted : i # 1 => i - 1 \in DOMAIN accepted' /\ accepted'[i - 1] = accepted[i]
      /\ \A i, j \in DOMAIN accepted' : i + 1 = j + 1 => i = j
  BY SMTT(60), Z3T(60), <1>1, TailEntries
<1>5. PoolTypeOK'
  BY <1>2, <1>3, <1>4 DEF ListenerInv, PoolTypeOK
<1>6. WorkersConsistent' /\ SweepSparesSessions' /\ ClosedForGood'
  BY SMTT(60), Z3T(60), <1>3, PoolFrames
<1>7. OpenConnHasOneHolder'
  <2>1. \A u : Queued(u) => u = h \/ Queued(u)'
    BY <1>4 DEF Queued
  <2>2. h # Failure => ~Queued(h)'
    BY SMTT(60), Z3T(60), <1>4 DEF Queued, ListenerInv, OpenConnHasOneHolder
  <2>3. \A u \in ListenConns : open'[u] => Held(u)'
    BY SMTT(60), Z3T(60), <1>2, <1>3, <2>1, ListenerAssumption DEF ListenerInv, OpenConnHasOneHolder, Held
  <2>4. \A v \in Workers : wconn'[v] \notin app' /\ ~Queued(wconn[v])'
    <3> SUFFICES ASSUME NEW v \in Workers PROVE wconn'[v] \notin app' /\ ~Queued(wconn[v])'
      BY SMTT(60), Z3T(60)
    <3>1. wconn[v] \notin app /\ wconn[v] # h /\ \A i \in DOMAIN accepted : accepted[i] # wconn[v]
      BY <1>4 DEF ListenerInv, OpenConnHasOneHolder, Queued
    <3> QED BY <1>2, <1>3, <1>4, <3>1 DEF Queued
  <2>5. \A i \in DOMAIN accepted' : accepted'[i] \notin app'
    <3> SUFFICES ASSUME NEW i \in DOMAIN accepted' PROVE accepted'[i] \notin app'
      OBVIOUS
    <3>1. accepted'[i] \notin app
      BY <1>4 DEF ListenerInv, OpenConnHasOneHolder
    <3>2. h # Failure => accepted'[i] # h
      BY <2>2 DEF Queued
    <3> QED BY <1>2, <3>1, <3>2
  <2>6. \A i, j \in DOMAIN accepted' :
           accepted'[i] = accepted'[j] /\ accepted'[i] # Failure => i = j
    BY SMTT(60), Z3T(60), <1>4 DEF ListenerInv, OpenConnHasOneHolder
  <2>7. \A u, v \in Workers : wconn'[u] # NoConn /\ wconn'[u] = wconn'[v] => u = v
    BY <1>3 DEF ListenerInv, OpenConnHasOneHolder
  <2> QED BY <2>3, <2>4, <2>5, <2>6, <2>7 DEF OpenConnHasOneHolder
<1> QED BY <1>5, <1>6, <1>7 DEF ListenerInv

\* The application's Session.Close keeps ListenerInv.
LEMMA CloseSessionKeeps ==
    ASSUME ListenerInv, NEW t \in ListenConns, CloseSession(t)
    PROVE  ListenerInv'
<1>1. PoolTypeOK'
  BY DEF ListenerInv, PoolTypeOK, CloseSession
<1>2. WorkersConsistent' /\ SweepSparesSessions'
  BY SMTT(60), Z3T(60), PoolFrames DEF CloseSession
<1>3. OpenConnHasOneHolder'
  BY DEF ListenerInv, PoolTypeOK, OpenConnHasOneHolder, CloseSession, Held, Queued
<1>4. ClosedForGood'
  BY DEF ListenerInv, PoolTypeOK, ClosedForGood, CloseSession
<1> QED BY <1>1, <1>2, <1>3, <1>4 DEF ListenerInv

\* The end of the listener's context and the steps of Listener.Close keep
\* ListenerInv.
LEMMA CloseKeeps ==
    ASSUME ListenerInv, ParentDone \/ CloseCancels \/ CloseControl \/ CloseSweeps
    PROVE  ListenerInv'
<1>1. PoolTypeOK'
  BY ZenonT(60) DEF ListenerInv, PoolTypeOK, ParentDone, CloseCancels, CloseControl, CloseSweeps
<1>2. WorkersConsistent'
  BY PoolFrames DEF ParentDone, CloseCancels, CloseControl, CloseSweeps
<1>3. OpenConnHasOneHolder'
  BY ZenonT(60), ClosingKeepsHolders DEF ParentDone, CloseCancels, CloseControl, CloseSweeps
<1>4. SweepSparesSessions'
  BY DEF ListenerInv, SweepSparesSessions, ParentDone, CloseCancels, CloseControl, CloseSweeps
<1>5. ClosedForGood'
  BY DEF ListenerInv, ClosedForGood, ParentDone, CloseCancels, CloseControl, CloseSweeps
<1> QED BY <1>1, <1>2, <1>3, <1>4, <1>5 DEF ListenerInv

\* ListenerInv holds when Register has started the workers.
LEMMA PoolInitEstablishes == PoolInit => ListenerInv
<1> SUFFICES ASSUME PoolInit PROVE ListenerInv
  OBVIOUS
<1>1. PoolTypeOK
  <2>1. accepted \in Seq(ListenConns \cup {Failure})
    BY DEF PoolInit
  <2>2. wpc \in [Workers -> {"top", "dialing", "backoff", "tracking", "activating",
                            "built", "offering", "failing", "reporting", "exited"}]
    BY DEF PoolInit
  <2> QED BY <2>1, <2>2, Zenon DEF PoolInit, PoolTypeOK
<1>2. WorkersConsistent /\ SweepSparesSessions /\ ClosedForGood
  BY DEF PoolInit, WorkersConsistent, SweepSparesSessions, ClosedForGood
<1>3. OpenConnHasOneHolder
  BY DEF PoolInit, OpenConnHasOneHolder, Queued
<1> QED BY <1>1, <1>2, <1>3 DEF ListenerInv

\* Every step of the listener keeps ListenerInv.
LEMMA PoolStepKeeps == ListenerInv /\ [PoolNext]_poolVars => ListenerInv'
<1> SUFFICES ASSUME ListenerInv, [PoolNext]_poolVars PROVE ListenerInv'
  OBVIOUS
<1>1. CASE UNCHANGED poolVars
  <2>1. PoolTypeOK'
    BY <1>1 DEF poolVars, ListenerInv, PoolTypeOK
  <2> QED BY SMTT(60), Z3T(60), <1>1, <2>1, PoolFrames DEF poolVars, ListenerInv
<1>2. ASSUME NEW t \in ListenConns, ClientArrives(t) \/ RelayDrops(t) \/ ConnLost(t) \/ CloseSession(t)
      PROVE  ListenerInv'
  BY <1>2, OutsideKeeps, CloseSessionKeeps
<1>3. ASSUME NEW w \in Workers, WorkerStep(w) \/ ActivateSucceeds(w) \/ ClientRefused(w)
      PROVE  ListenerInv'
  BY <1>3, EmptyHandedKeeps, DialListenKeeps, HoldingKeeps, LettingGoKeeps,
     ReportFailureKeeps, OfferSessionKeeps DEF WorkerStep
<1>4. CASE ControlLost
  BY <1>4, ControlLostKeeps
<1>5. CASE Accept
  BY <1>5, AcceptKeeps
<1>6. CASE ParentDone \/ CloseCancels \/ CloseStep
  BY <1>6, CloseKeeps DEF CloseStep
<1> QED BY <1>1, <1>2, <1>3, <1>4, <1>5, <1>6 DEF PoolNext

\* ListenerInv holds in every reachable state of a Listener, so the workers,
\* the accepted channel, the application and Close always agree on who holds
\* which connection.
THEOREM ListenerInvariant == PoolSpec => []ListenerInv
  BY PoolInitEstablishes, PoolStepKeeps, PTL DEF PoolSpec

\* A listen connection that is open is always held by one of its worker, the
\* accepted channel and the application: acceptWorker's error returns and the
\* races with Close leak none.
THEOREM OpenConnAlwaysHasOneHolder == PoolSpec => []OpenConnHasOneHolder
<1>1. ListenerInv => OpenConnHasOneHolder
  BY DEF ListenerInv
<1> QED BY <1>1, ListenerInvariant, PTL

\* Listener.Close never closes the connection of a Session that was queued
\* for Accept or returned by it.
THEOREM SweepAlwaysSparesSessions == PoolSpec => []SweepSparesSessions
<1>1. ListenerInv => SweepSparesSessions
  BY DEF ListenerInv
<1> QED BY <1>1, ListenerInvariant, PTL
==================================================================================
