------------------------------ MODULE RelayHub ------------------------------
(***************************************************************************)
(* The relay: the hub of registered instances (session.go) and the three   *)
(* connection handlers (register, listen, connect) that the QUIC and the   *)
(* WebTransport server share (quicserver.go, webtransport.go).             *)
(*                                                                         *)
(* Every connection is served by one handler goroutine; pc says where it   *)
(* is.  A step of a handler is the code between two points at which        *)
(* another goroutine can be observed: the hub mutex, a select, a write to  *)
(* the peer.  An instance is identified with the control connection that   *)
(* registered it, as the code does by pointer identity.                    *)
(*                                                                         *)
(* A connection name may be used again for a later connection once nothing *)
(* in the relay refers to the earlier one, so a finite set of names stands *)
(* for an unbounded sequence of connections.                               *)
(***************************************************************************)
EXTENDS FiniteSets

CONSTANTS Ids,       \* instance IDs that greetings name
          Controls,  \* connections whose greeting is register
          Listens,   \* connections whose greeting is listen
          Clients,   \* connections whose greeting is connect
          None       \* the nil pointer

Conns == Controls \cup Listens \cup Clients

ASSUME RelayAssumption ==
    /\ Controls \cap Listens = {}
    /\ Controls \cap Clients = {}
    /\ Listens \cap Clients = {}
    /\ None \notin Conns \cup Ids

VARIABLES
    alive,      \* alive[x]: the context of connection x is not done
    pc,         \* pc[x]: where the handler of x is; "gone" before and after
    id,         \* id[x]: the instance ID that x's greeting named
    slot,       \* slot[i]: hub.instances[i], a control connection or None
    cancelled,  \* cancelled[r]: the instance's own cancel() was called
    target,     \* target[x]: the instance a listen or a client got from hub.get
    partner     \* partner[c]: the listen connection matched to client c

vars == <<alive, pc, id, slot, cancelled, target, partner>>

ControlPCs == {"gone", "greeting", "registered", "serving", "leaving", "cancelling"}
ListenPCs  == {"gone", "greeting", "acking", "parked", "handed"}
ClientPCs  == {"gone", "greeting", "waiting", "acking", "bridging"}

TypeOK ==
    /\ alive \in [Conns -> BOOLEAN]
    /\ pc \in [Conns -> ControlPCs \cup ListenPCs \cup ClientPCs]
    /\ \A r \in Controls : pc[r] \in ControlPCs
    /\ \A l \in Listens : pc[l] \in ListenPCs
    /\ \A c \in Clients : pc[c] \in ClientPCs
    /\ id \in [Conns -> Ids \cup {None}]
    /\ slot \in [Ids -> Controls \cup {None}]
    /\ cancelled \in [Controls -> BOOLEAN]
    /\ target \in [Listens \cup Clients -> Controls \cup {None}]
    /\ partner \in [Clients -> Listens \cup {None}]

Init ==
    /\ alive = [x \in Conns |-> FALSE]
    /\ pc = [x \in Conns |-> "gone"]
    /\ id = [x \in Conns |-> None]
    /\ slot = [i \in Ids |-> None]
    /\ cancelled = [r \in Controls |-> FALSE]
    /\ target = [x \in Listens \cup Clients |-> None]
    /\ partner = [c \in Clients |-> None]

\* inst.ctx is a child of the control connection's context with its own cancel.
InstLive(r) == alive[r] /\ ~cancelled[r]

Referenced(x) ==
    \/ \E i \in Ids : slot[i] = x
    \/ \E y \in Listens \cup Clients : target[y] = x
    \/ \E c \in Clients : partner[c] = x

-----------------------------------------------------------------------------
(* The peers and the network.                                              *)

\* A peer dials the relay and opens its primary stream.
Arrive(x) ==
    /\ pc[x] = "gone"
    /\ ~Referenced(x)
    /\ pc' = [pc EXCEPT ![x] = "greeting"]
    /\ alive' = [alive EXCEPT ![x] = TRUE]
    /\ id' = [id EXCEPT ![x] = None]
    /\ IF x \in Controls
       THEN cancelled' = [cancelled EXCEPT ![x] = FALSE]
       ELSE UNCHANGED cancelled
    /\ UNCHANGED <<slot, target, partner>>

\* A connection ends at any time: closed by its peer, timed out, or lost.
Disconnect(x) ==
    /\ alive[x]
    /\ alive' = [alive EXCEPT ![x] = FALSE]
    /\ UNCHANGED <<pc, id, slot, cancelled, target, partner>>

-----------------------------------------------------------------------------
(* What every handler does to end.                                         *)

\* The handler closes its own connection and returns.
CloseAndReturn(x) ==
    /\ alive' = [alive EXCEPT ![x] = FALSE]
    /\ pc' = [pc EXCEPT ![x] = "gone"]

\* The primary stream or the greeting cannot be read, the greeting is
\* malformed, its instance ID is missing or too long where one is required,
\* or the Auth hook refuses the peer.
RejectGreeting(x) ==
    /\ pc[x] = "greeting"
    /\ CloseAndReturn(x)
    /\ UNCHANGED <<id, slot, cancelled, target, partner>>

-----------------------------------------------------------------------------
(* handleRegister.                                                         *)

\* Mutant: last writer wins.
HandleRegister_LastWriterWins(r, i) ==
    /\ pc[r] = "greeting"
    /\ id' = [id EXCEPT ![r] = i]
    /\ slot' = [slot EXCEPT ![i] = r]
    /\ pc' = [pc EXCEPT ![r] = "registered"]
    /\ UNCHANGED <<alive, cancelled, target, partner>>

\* newInstance and hub.register: a live holder of the ID keeps its slot; a
\* dead one that has not yet unregistered loses it.
HandleRegister(r, i) ==
    /\ pc[r] = "greeting"
    /\ id' = [id EXCEPT ![r] = i]
    /\ IF slot[i] # None /\ InstLive(slot[i])
       THEN /\ CloseAndReturn(r)
            /\ UNCHANGED slot
       ELSE /\ slot' = [slot EXCEPT ![i] = r]
            /\ pc' = [pc EXCEPT ![r] = "registered"]
            /\ UNCHANGED alive
    /\ UNCHANGED <<cancelled, target, partner>>

\* Mutant: the handler returns on a failed write before unregister is deferred.
WriteId_DeferTooLate(r) ==
    /\ pc[r] = "registered"
    /\ \/ /\ alive[r]
          /\ pc' = [pc EXCEPT ![r] = "serving"]
          /\ UNCHANGED alive
       \/ CloseAndReturn(r)
    /\ UNCHANGED <<id, slot, cancelled, target, partner>>

\* The assigned ID is written to the backend; a failed write closes the
\* connection and runs the deferred unregister.
WriteId(r) ==
    /\ pc[r] = "registered"
    /\ \/ /\ alive[r]
          /\ pc' = [pc EXCEPT ![r] = "serving"]
          /\ UNCHANGED alive
       \/ /\ pc' = [pc EXCEPT ![r] = "leaving"]
          /\ alive' = [alive EXCEPT ![r] = FALSE]
    /\ UNCHANGED <<id, slot, cancelled, target, partner>>

\* The handler waits for the control connection to end.
ControlDone(r) ==
    /\ pc[r] = "serving"
    /\ ~alive[r]
    /\ pc' = [pc EXCEPT ![r] = "leaving"]
    /\ UNCHANGED <<alive, id, slot, cancelled, target, partner>>

\* Mutant: the slot is freed by ID, whoever holds it.
Unregister_ById(r) ==
    /\ pc[r] = "leaving"
    /\ slot' = [slot EXCEPT ![id[r]] = None]
    /\ pc' = [pc EXCEPT ![r] = "cancelling"]
    /\ UNCHANGED <<alive, id, cancelled, target, partner>>

\* hub.unregister, under the mutex: the slot is freed only by its owner.
Unregister(r) ==
    /\ pc[r] = "leaving"
    /\ IF slot[id[r]] = r
       THEN /\ slot' = [slot EXCEPT ![id[r]] = None]
            /\ pc' = [pc EXCEPT ![r] = "cancelling"]
       ELSE /\ pc' = [pc EXCEPT ![r] = "gone"]
            /\ UNCHANGED slot
    /\ UNCHANGED <<alive, id, cancelled, target, partner>>

\* hub.unregister, after the mutex: the owner cancels its instance.
CancelInstance(r) ==
    /\ pc[r] = "cancelling"
    /\ cancelled' = [cancelled EXCEPT ![r] = TRUE]
    /\ pc' = [pc EXCEPT ![r] = "gone"]
    /\ UNCHANGED <<alive, id, slot, target, partner>>

-----------------------------------------------------------------------------
(* handleListen.                                                           *)

\* hub.get; an unknown instance closes the connection.
HandleListen(l, i) ==
    /\ pc[l] = "greeting"
    /\ id' = [id EXCEPT ![l] = i]
    /\ IF slot[i] = None
       THEN CloseAndReturn(l) /\ UNCHANGED target
       ELSE /\ target' = [target EXCEPT ![l] = slot[i]]
            /\ pc' = [pc EXCEPT ![l] = "acking"]
            /\ UNCHANGED alive
    /\ UNCHANGED <<slot, cancelled, partner>>

\* The ack goes out before the listen is parked.
AckListen(l) ==
    /\ pc[l] = "acking"
    /\ \/ /\ alive[l]
          /\ pc' = [pc EXCEPT ![l] = "parked"]
          /\ UNCHANGED <<alive, target>>
       \/ /\ CloseAndReturn(l)
          /\ target' = [target EXCEPT ![l] = None]
    /\ UNCHANGED <<id, slot, cancelled, partner>>

\* Mutant: parkListen without the inst.ctx.Done() arm.
ParkEnds_IgnoresInstance(l) ==
    /\ pc[l] = "parked"
    /\ ~alive[l]
    /\ CloseAndReturn(l)
    /\ target' = [target EXCEPT ![l] = None]
    /\ UNCHANGED <<id, slot, cancelled, partner>>

\* parkListen returns an error: the instance or the connection is done.
ParkEnds(l) ==
    /\ pc[l] = "parked"
    /\ ~InstLive(target[l]) \/ ~alive[l]
    /\ CloseAndReturn(l)
    /\ target' = [target EXCEPT ![l] = None]
    /\ UNCHANGED <<id, slot, cancelled, partner>>

-----------------------------------------------------------------------------
(* handleConnect.                                                          *)

\* hub.get; an unknown instance closes the connection.
HandleConnect(c, i) ==
    /\ pc[c] = "greeting"
    /\ id' = [id EXCEPT ![c] = i]
    /\ IF slot[i] = None
       THEN CloseAndReturn(c) /\ UNCHANGED target
       ELSE /\ target' = [target EXCEPT ![c] = slot[i]]
            /\ pc' = [pc EXCEPT ![c] = "waiting"]
            /\ UNCHANGED alive
    /\ UNCHANGED <<slot, cancelled, partner>>

\* Mutant: a match is made only for a client that waits alone.
Match_OneWaiterOnly(c, l) ==
    /\ \A d \in Clients : pc[d] = "waiting" => d = c
    /\ pc[c] = "waiting"
    /\ pc[l] = "parked"
    /\ target[c] = target[l]
    /\ partner' = [partner EXCEPT ![c] = l]
    /\ pc' = [pc EXCEPT ![c] = "acking", ![l] = "handed"]
    /\ target' = [target EXCEPT ![c] = None, ![l] = None]
    /\ UNCHANGED <<alive, id, slot, cancelled>>

\* The unbuffered channel inst.listens: parkListen's send and matchListen's
\* receive happen together.  Both are arms of a select that Go resolves at
\* random, so a match may win although a context is already done.  The
\* listen's handler returns without closing; the client's handler owns it.
Match(c, l) ==
    /\ pc[c] = "waiting"
    /\ pc[l] = "parked"
    /\ target[c] = target[l]
    /\ partner' = [partner EXCEPT ![c] = l]
    /\ pc' = [pc EXCEPT ![c] = "acking", ![l] = "handed"]
    /\ target' = [target EXCEPT ![c] = None, ![l] = None]
    /\ UNCHANGED <<alive, id, slot, cancelled>>

MatchOn(r) == \E c \in Clients, l \in Listens : target[c] = r /\ Match(c, l)

\* matchListen returns an error: the instance or the connection is done.
MatchEnds(c) ==
    /\ pc[c] = "waiting"
    /\ ~InstLive(target[c]) \/ ~alive[c]
    /\ CloseAndReturn(c)
    /\ target' = [target EXCEPT ![c] = None]
    /\ UNCHANGED <<id, slot, cancelled, partner>>

\* The client's handler closes both connections and returns.
CloseBoth(c) ==
    /\ alive' = [alive EXCEPT ![c] = FALSE, ![partner[c]] = FALSE]
    /\ pc' = [pc EXCEPT ![c] = "gone", ![partner[c]] = "gone"]
    /\ partner' = [partner EXCEPT ![c] = None]

\* The "ok" ack; a failed write closes the client and the matched listen.
AckConnect(c) ==
    /\ pc[c] = "acking"
    /\ \/ /\ alive[c]
          /\ pc' = [pc EXCEPT ![c] = "bridging"]
          /\ UNCHANGED <<alive, partner>>
       \/ CloseBoth(c)
    /\ UNCHANGED <<id, slot, cancelled, target>>

\* A primary pump of the bridge meets a read or a write error while both
\* connections are still up.
PrimaryFails(c) ==
    /\ pc[c] = "bridging"
    /\ CloseBoth(c)
    /\ UNCHANGED <<id, slot, cancelled, target>>

\* Mutant: the bridge does not watch the backend's connection.
BridgeEnds_WatchesClientOnly(c) ==
    /\ pc[c] = "bridging"
    /\ ~alive[c]
    /\ CloseBoth(c)
    /\ UNCHANGED <<id, slot, cancelled, target>>

\* The bridge ends because one of its two connections ended.
BridgeEnds(c) ==
    /\ pc[c] = "bridging"
    /\ ~alive[c] \/ ~alive[partner[c]]
    /\ CloseBoth(c)
    /\ UNCHANGED <<id, slot, cancelled, target>>

-----------------------------------------------------------------------------

ControlStep(r) ==
    \/ WriteId(r) \/ ControlDone(r) \/ Unregister(r) \/ CancelInstance(r)

ListenStep(l) == AckListen(l) \/ ParkEnds(l)

ClientStep(c) == MatchEnds(c) \/ AckConnect(c) \/ BridgeEnds(c)

Greeting(x) ==
    \/ RejectGreeting(x)
    \/ \E i \in Ids : \/ x \in Controls /\ HandleRegister(x, i)
                      \/ x \in Listens /\ HandleListen(x, i)
                      \/ x \in Clients /\ HandleConnect(x, i)

Next ==
    \/ \E x \in Conns : Arrive(x) \/ Disconnect(x) \/ Greeting(x)
    \/ \E r \in Controls : ControlStep(r)
    \/ \E l \in Listens : ListenStep(l)
    \/ \E c \in Clients : ClientStep(c) \/ PrimaryFails(c)
    \/ \E r \in Controls : MatchOn(r)

Spec == Init /\ [][Next]_vars

\* Handlers run; nothing makes a peer greet, stay or leave.  A select with a
\* ready arm is eventually taken; a goroutine that arrives at inst.listens
\* meets whichever counterpart is there, so the match is fair per instance
\* and not per pair.
Fairness ==
    /\ \A r \in Controls : WF_vars(ControlStep(r))
    /\ \A l \in Listens : WF_vars(ListenStep(l))
    /\ \A c \in Clients : WF_vars(ClientStep(c))
    /\ \A r \in Controls : WF_vars(MatchOn(r))

FairSpec == Spec /\ Fairness

-----------------------------------------------------------------------------
(* Properties.                                                             *)

\* A backend whose control connection is up keeps the ID it registered:
\* neither a second register for the ID nor the late unregister of an
\* earlier owner evicts it or cancels its instance (hub.register,
\* hub.unregister).
LiveOwnerKeepsSlot ==
    \A r \in Controls :
        pc[r] \in {"registered", "serving"} /\ alive[r]
            => slot[id[r]] = r /\ ~cancelled[r]

\* A matched listen belongs to exactly one client handler, which asked for
\* the instance ID the listen was parked under, even when the ID changed
\* hands between hub.get and the match (matchListen, handleConnect).
MatchedListenHasOneClient ==
    /\ \A c \in Clients : partner[c] # None => id[c] = id[partner[c]]
    /\ \A c, d \in Clients : partner[c] # None /\ partner[c] = partner[d] => c = d

\* No connection outlives its handlers: one that is still open has a handler
\* of its own running or, a matched listen, that of its client.  The error
\* returns of the three handlers and of the bridge close what they own.
OpenConnectionHasHandler ==
    \A x \in Conns : alive[x] =>
        \/ pc[x] \notin {"gone", "handed"}
        \/ \E c \in Clients : partner[c] = x /\ pc[c] \in {"acking", "bridging"}

\* A listen or a client that waits on an instance whose backend has gone
\* stops waiting on it: parkListen and matchListen return.
DeadInstanceReleasesWaiters ==
    \A x \in Listens \cup Clients, r \in Controls :
        (target[x] = r /\ ~InstLive(r)) ~> (target[x] # r)

\* Once either end of a matched pair is gone the relay closes the other.
PairEndsTogether ==
    \A c \in Clients, l \in Listens :
        (partner[c] = l /\ (~alive[c] \/ ~alive[l])) ~> (partner[c] # l /\ ~alive[l])

\* The slot of a dead backend is freed or taken over.
DeadSlotIsFreed ==
    \A i \in Ids, r \in Controls : (slot[i] = r /\ ~alive[r]) ~> (slot[i] # r)

\* A client and a listen that wait on one instance do not wait forever side
\* by side.
WaitersMeet ==
    \A r \in Controls :
        []<>~(/\ \E c \in Clients : pc[c] = "waiting" /\ target[c] = r
              /\ \E l \in Listens : pc[l] = "parked" /\ target[l] = r)

-----------------------------------------------------------------------------
(* What the handlers rely on about each other, as an inductive invariant.  *)

\* A slot points at a backend that registered under it and has not yet
\* unregistered; a handler past its wait has a closed connection.
SlotsConsistent ==
    /\ \A i \in Ids, r \in Controls :
          slot[i] = r => id[r] = i /\ pc[r] \in {"registered", "serving", "leaving"}
    /\ \A r \in Controls :
          /\ pc[r] \in {"registered", "serving", "leaving", "cancelling"} => id[r] \in Ids
          /\ pc[r] \in {"leaving", "cancelling"} => ~alive[r]
          /\ cancelled[r] => pc[r] = "gone"

\* A connection without a handler is closed; a listen or a client holds an
\* instance exactly while it waits on it, and the instance keeps the ID.
WaitersConsistent ==
    /\ \A x \in Conns : pc[x] = "gone" => ~alive[x]
    /\ \A l \in Listens : target[l] # None <=> pc[l] \in {"acking", "parked"}
    /\ \A c \in Clients : target[c] # None <=> pc[c] = "waiting"
    /\ \A x \in Listens \cup Clients, r \in Controls :
          target[x] = r => pc[r] # "greeting" /\ id[r] = id[x] /\ id[x] \in Ids

\* A client holds a listen exactly from its match to its return.
PairsConsistent ==
    /\ \A c \in Clients : partner[c] # None <=> pc[c] \in {"acking", "bridging"}
    /\ \A c \in Clients : partner[c] # None => pc[partner[c]] = "handed" /\ id[c] \in Ids
    /\ \A l \in Listens : pc[l] = "handed" => \E c \in Clients : partner[c] = l

\* hub.register, hub.unregister, parkListen, matchListen and bridge together
\* keep the hub, the waiters and the matched pairs consistent with one
\* another and with the position of every handler.
RelayInv ==
    /\ TypeOK
    /\ SlotsConsistent
    /\ LiveOwnerKeepsSlot
    /\ WaitersConsistent
    /\ PairsConsistent
    /\ MatchedListenHasOneClient

-----------------------------------------------------------------------------
(* The relay implements RelayService.                                      *)

liveOwner ==
    [i \in Ids |-> IF slot[i] # None /\ InstLive(slot[i]) THEN slot[i] ELSE None]

Service == INSTANCE RelayService WITH
    owner <- liveOwner,
    asked <- [x \in Listens \cup Clients |-> id[x]],
    link  <- partner

\* The hub and its handlers show their peers nothing but steps of the
\* service: ownership passes only through an ended connection, and links are
\* made one to one between peers that asked for the same ID.
ServiceImplemented == Service!ServiceSpec

=============================================================================
