----------------------------- MODULE LanUpgrade -----------------------------
(***************************************************************************)
(* The LAN upgrade of Sessions that one backend process shares a LANServer *)
(* for: offerLAN and handleLANOffer (lan_upgrade.go), the LANServer's      *)
(* pending table and handleConn (lan.go), swapTransport at both ends, and  *)
(* Session.Close (api.go) at any moment of it.                             *)
(*                                                                         *)
(* A direct connection and the challenge of its offer carry the name of    *)
(* the Session whose client dials.  The relay pipe of a Session goes down  *)
(* when either end closes its transport; so does a direct connection.      *)
(***************************************************************************)
EXTENDS Naturals

CONSTANTS Sessions,
          Peers,        \* InstanceIDs of clients, the keys of LANServer.conns
          PeerOf,       \* PeerOf[s]: the client's InstanceID
          Impatient,    \* Sessions whose dial may fail and whose offer may time out
                        \* while the handshake is still under way
          Closers,      \* pairs <<s, end>> that the application may Close
          Relay, None

Ends == {"backend", "client"}

ASSUME LanAssumption ==
    /\ PeerOf \in [Sessions -> Peers]
    /\ Impatient \subseteq Sessions
    /\ Closers \subseteq Sessions \X Ends
    /\ Relay \notin Sessions /\ None \notin Sessions /\ Relay # None

VARIABLES
    pending,   \* LANServer.conns: the Session whose challenge is filed per peer
    bpc,       \* bpc[s]: where offerLAN is
    offer,     \* Sessions whose lanOffer was sent
    verified,  \* verified[s]: the channel of offerLAN, a connection or None
    cpc,       \* cpc[s]: where handleLANOffer is
    srv,       \* srv[c]: where handleConn is
    taken,     \* taken[c]: the Session whose entry handleConn took
    confirmed, \* connections on which "ok" was written
    conn,      \* conn[c]: "none", "open" or "closed"
    relay,     \* Sessions whose relay pipe is up
    carrier,   \* carrier[s][e]: s.transport
    onLAN,     \* ends that have swapped
    old,       \* ends that close the old transport after the grace time
    closing,   \* closing[s][e]: Session.Close, "open", "closing" or "closed"
    ready      \* ends whose lanReady channel is closed

offerVars == <<bpc, offer, verified>>
dialVars == <<cpc, conn>>
serverVars == <<pending, srv, taken, confirmed>>
endVars == <<carrier, onLAN, old, closing, ready>>
vars == <<offerVars, dialVars, serverVars, relay, endVars>>

TypeOK ==
    /\ pending \in [Peers -> Sessions \cup {None}]
    /\ bpc \in [Sessions -> {"start", "opening", "offered", "swapping", "leaving", "done"}]
    /\ offer \subseteq Sessions
    /\ verified \in [Sessions -> Sessions \cup {None}]
    /\ cpc \in [Sessions -> {"idle", "dialing", "waiting", "swapping", "done"}]
    /\ srv \in [Sessions -> {"none", "verify", "confirm", "announce", "done"}]
    /\ taken \in [Sessions -> Sessions \cup {None}]
    /\ confirmed \subseteq Sessions
    /\ conn \in [Sessions -> {"none", "open", "closed"}]
    /\ relay \subseteq Sessions
    /\ carrier \in [Sessions -> [Ends -> Sessions \cup {Relay, None}]]
    /\ onLAN \subseteq Sessions \X Ends
    /\ old \subseteq Sessions \X Ends
    /\ closing \in [Sessions -> [Ends -> {"open", "closing", "closed"}]]
    /\ ready \subseteq Sessions \X Ends

\* Activation is over on both sides.
Init ==
    /\ pending = [p \in Peers |-> None]
    /\ bpc = [s \in Sessions |-> "start"]
    /\ offer = {}
    /\ verified = [s \in Sessions |-> None]
    /\ cpc = [s \in Sessions |-> "idle"]
    /\ srv = [c \in Sessions |-> "none"]
    /\ taken = [c \in Sessions |-> None]
    /\ confirmed = {}
    /\ conn = [c \in Sessions |-> "none"]
    /\ relay = Sessions
    /\ carrier = [s \in Sessions |-> [e \in Ends |-> Relay]]
    /\ onLAN = {} /\ old = {} /\ ready = {}
    /\ closing = [s \in Sessions |-> [e \in Ends |-> "open"]]

-----------------------------------------------------------------------------
(* swapTransport.                                                          *)

\* A Session that is on a direct connection closes the new one; any other
\* takes it as its carrier, signals LANReady and closes the old one later.
swapTransport(s, e, c) ==
    IF <<s, e>> \in onLAN
    THEN /\ conn' = [conn EXCEPT ![c] = "closed"]
         /\ UNCHANGED endVars
    ELSE /\ carrier' = [carrier EXCEPT ![s][e] = c]
         /\ onLAN' = onLAN \cup {<<s, e>>}
         /\ ready' = ready \cup {<<s, e>>}
         /\ old' = IF carrier[s][e] = Relay THEN old \cup {<<s, e>>} ELSE old
         /\ UNCHANGED <<conn, closing>>

\* The goroutine that swapTransport starts closes the old transport.
CloseOld(s, e) ==
    /\ <<s, e>> \in old
    /\ old' = old \ {<<s, e>>}
    /\ relay' = relay \ {s}
    /\ UNCHANGED <<offerVars, dialVars, serverVars, carrier, onLAN, closing, ready>>

-----------------------------------------------------------------------------
(* offerLAN, on the backend.                                               *)

\* Mutant: the challenge is not filed under the client's InstanceID.
RegisterPending_Forgets(s) ==
    /\ bpc[s] = "start"
    /\ bpc' = [bpc EXCEPT ![s] = "opening"]
    /\ UNCHANGED <<pending, offer, verified, dialVars, srv, taken, confirmed, relay, endVars>>

RegisterPending(s) ==
    /\ bpc[s] = "start"
    /\ pending' = [pending EXCEPT ![PeerOf[s]] = s]
    /\ bpc' = [bpc EXCEPT ![s] = "opening"]
    /\ UNCHANGED <<offer, verified, dialVars, srv, taken, confirmed, relay, endVars>>

\* OpenStream on the control stream's name, and Send.
SendOffer(s) ==
    /\ bpc[s] = "opening"
    /\ carrier[s]["backend"] = Relay /\ s \in relay
    /\ offer' = offer \cup {s}
    /\ bpc' = [bpc EXCEPT ![s] = "offered"]
    /\ UNCHANGED <<verified, dialVars, serverVars, relay, endVars>>

\* OpenStream or Send fails: the Session was closed or its relay pipe is down.
OfferFails(s) ==
    /\ bpc[s] = "opening"
    /\ carrier[s]["backend"] # Relay \/ s \notin relay
    /\ bpc' = [bpc EXCEPT ![s] = "leaving"]
    /\ UNCHANGED <<offer, verified, dialVars, serverVars, relay, endVars>>

\* The select of offerLAN: a verified connection, or the end of the context.
TakeVerified(s) ==
    /\ bpc[s] = "offered"
    /\ verified[s] # None
    /\ bpc' = [bpc EXCEPT ![s] = "swapping"]
    /\ UNCHANGED <<offer, verified, dialVars, serverVars, relay, endVars>>

\* The client gave up or was refused, or will never see the offer.
HandshakeOver(s) ==
    /\ verified[s] = None /\ srv[s] \in {"none", "done"}
    /\ cpc[s] \in {"idle", "done"}
    /\ cpc[s] = "idle" => s \notin relay \/ closing[s]["client"] # "open"

OfferTimesOut(s) ==
    /\ bpc[s] = "offered"
    /\ s \in Impatient \/ closing[s]["backend"] # "open" \/ HandshakeOver(s)
    /\ bpc' = [bpc EXCEPT ![s] = "leaving"]
    /\ UNCHANGED <<offer, verified, dialVars, serverVars, relay, endVars>>

BackendSwaps(s) ==
    /\ bpc[s] = "swapping"
    /\ swapTransport(s, "backend", verified[s])
    /\ bpc' = [bpc EXCEPT ![s] = "leaving"]
    /\ UNCHANGED <<offer, verified, cpc, serverVars, relay>>

\* The deferred UnregisterPending deletes whatever is filed under the peer.
UnregisterPending(s) ==
    /\ bpc[s] = "leaving"
    /\ pending' = [pending EXCEPT ![PeerOf[s]] = None]
    /\ bpc' = [bpc EXCEPT ![s] = "done"]
    /\ UNCHANGED <<offer, verified, dialVars, srv, taken, confirmed, relay, endVars>>

-----------------------------------------------------------------------------
(* handleLANOffer, on the client.                                          *)

\* acceptLoop starts the handler, and Recv returns the offer.
ReceiveOffer(s) ==
    /\ cpc[s] = "idle"
    /\ s \in offer \cap relay
    /\ closing[s]["client"] = "open"
    /\ cpc' = [cpc EXCEPT ![s] = "dialing"]
    /\ UNCHANGED <<offerVars, conn, serverVars, relay, endVars>>

\* dialLAN connects, for which the context must not have ended, and sends
\* lanVerify.
Dial(s) ==
    /\ cpc[s] = "dialing"
    /\ closing[s]["client"] = "open"
    /\ conn' = [conn EXCEPT ![s] = "open"]
    /\ srv' = [srv EXCEPT ![s] = "verify"]
    /\ cpc' = [cpc EXCEPT ![s] = "waiting"]
    /\ UNCHANGED <<offerVars, pending, taken, confirmed, relay, endVars>>

\* The address cannot be reached, or the context ends first.
DialFails(s) ==
    /\ cpc[s] = "dialing"
    /\ s \in Impatient \/ closing[s]["client"] # "open"
    /\ cpc' = [cpc EXCEPT ![s] = "done"]
    /\ UNCHANGED <<offerVars, conn, serverVars, relay, endVars>>

\* dialLAN reads "ok"; this read has no deadline.
Confirmed(s) ==
    /\ cpc[s] = "waiting"
    /\ s \in confirmed
    /\ cpc' = [cpc EXCEPT ![s] = "swapping"]
    /\ UNCHANGED <<offerVars, conn, serverVars, relay, endVars>>

\* Mutant: "ok" is not recognised.
Refused_OnOk(s) ==
    /\ cpc[s] = "waiting"
    /\ conn[s] = "closed" \/ s \in confirmed
    /\ cpc' = [cpc EXCEPT ![s] = "done"]
    /\ conn' = [conn EXCEPT ![s] = "closed"]
    /\ UNCHANGED <<offerVars, serverVars, relay, endVars>>

\* The server closed the connection instead.
Refused(s) ==
    /\ cpc[s] = "waiting"
    /\ conn[s] = "closed" /\ s \notin confirmed
    /\ cpc' = [cpc EXCEPT ![s] = "done"]
    /\ UNCHANGED <<offerVars, conn, serverVars, relay, endVars>>

ClientSwaps(s) ==
    /\ cpc[s] = "swapping"
    /\ swapTransport(s, "client", s)
    /\ cpc' = [cpc EXCEPT ![s] = "done"]
    /\ UNCHANGED <<offerVars, serverVars, relay>>

-----------------------------------------------------------------------------
(* LANServer.handleConn, for the connection that the client of c dialed.   *)

\* Mutant: challengeEqual is not asked.
Matches_AnyChallenge(c, q) == q # None

\* An entry is filed under the client's InstanceID, with this challenge.
Matches(c, q) == q = c

\* Mutant: a refused connection is left open.
Verify_LeavesOpen(c) ==
    LET q == pending[PeerOf[c]] IN
    /\ srv[c] = "verify"
    /\ pending' = [pending EXCEPT ![PeerOf[c]] = None]
    /\ IF Matches(c, q)
       THEN /\ taken' = [taken EXCEPT ![c] = q]
            /\ srv' = [srv EXCEPT ![c] = "confirm"]
       ELSE /\ srv' = [srv EXCEPT ![c] = "done"]
            /\ UNCHANGED taken
    /\ UNCHANGED <<offerVars, dialVars, confirmed, relay, endVars>>

\* The entry is deleted in any case; an unknown peer or a wrong challenge ends
\* the connection.
Verify(c) ==
    LET q == pending[PeerOf[c]] IN
    /\ srv[c] = "verify"
    /\ pending' = [pending EXCEPT ![PeerOf[c]] = None]
    /\ IF Matches(c, q)
       THEN /\ taken' = [taken EXCEPT ![c] = q]
            /\ srv' = [srv EXCEPT ![c] = "confirm"]
            /\ UNCHANGED conn
       ELSE /\ conn' = [conn EXCEPT ![c] = "closed"]
            /\ srv' = [srv EXCEPT ![c] = "done"]
            /\ UNCHANGED taken
    /\ UNCHANGED <<offerVars, cpc, confirmed, relay, endVars>>

Confirm(c) ==
    /\ srv[c] = "confirm"
    /\ confirmed' = confirmed \cup {c}
    /\ srv' = [srv EXCEPT ![c] = "announce"]
    /\ UNCHANGED <<offerVars, dialVars, pending, taken, relay, endVars>>

\* Mutant: the callback is not run.
Announce_Forgets(c) ==
    /\ srv[c] = "announce"
    /\ srv' = [srv EXCEPT ![c] = "done"]
    /\ UNCHANGED <<offerVars, dialVars, pending, taken, confirmed, relay, endVars>>

\* onVerify puts the connection into the offer's channel, if it is empty.
Announce(c) ==
    /\ srv[c] = "announce"
    /\ verified' = [verified EXCEPT ![taken[c]] = IF @ = None THEN c ELSE @]
    /\ srv' = [srv EXCEPT ![c] = "done"]
    /\ UNCHANGED <<bpc, offer, dialVars, pending, taken, confirmed, relay, endVars>>

-----------------------------------------------------------------------------
(* Session.Close.                                                          *)

\* The context is cancelled and the primary stream closed, which ends the
\* bridge of the relay.
CloseBegins(s, e) ==
    /\ <<s, e>> \in Closers
    /\ closing[s][e] = "open"
    /\ closing' = [closing EXCEPT ![s][e] = "closing"]
    /\ relay' = relay \ {s}
    /\ UNCHANGED <<offerVars, dialVars, serverVars, carrier, onLAN, old, ready>>

\* The transport is taken under transportMu and closed; LANReady is signalled.
CloseTransport(s, e) ==
    /\ closing[s][e] = "closing"
    /\ closing' = [closing EXCEPT ![s][e] = "closed"]
    /\ carrier' = [carrier EXCEPT ![s][e] = None]
    /\ conn' = [c \in Sessions |-> IF carrier[s][e] = c THEN "closed" ELSE conn[c]]
    /\ ready' = ready \cup {<<s, e>>}
    /\ UNCHANGED <<offerVars, cpc, serverVars, relay, onLAN, old>>

-----------------------------------------------------------------------------

BackendStep(s) ==
    \/ RegisterPending(s) \/ SendOffer(s) \/ OfferFails(s) \/ TakeVerified(s)
    \/ OfferTimesOut(s) \/ BackendSwaps(s) \/ UnregisterPending(s)

ClientStep(s) ==
    ReceiveOffer(s) \/ Dial(s) \/ DialFails(s) \/ Confirmed(s) \/ Refused(s) \/ ClientSwaps(s)

ServerStep(c) == Verify(c) \/ Confirm(c) \/ Announce(c)

Next ==
    \/ \E s \in Sessions : BackendStep(s) \/ ClientStep(s) \/ ServerStep(s)
    \/ \E s \in Sessions, e \in Ends :
          CloseOld(s, e) \/ CloseBegins(s, e) \/ CloseTransport(s, e)

Spec == Init /\ [][Next]_vars

\* Goroutines run on, timers fire, and a Close that began goes through.
Fairness ==
    /\ \A s \in Sessions :
          WF_vars(BackendStep(s)) /\ WF_vars(ClientStep(s)) /\ WF_vars(ServerStep(s))
    /\ \A s \in Sessions, e \in Ends : WF_vars(CloseOld(s, e)) /\ WF_vars(CloseTransport(s, e))

FairSpec == Spec /\ Fairness

-----------------------------------------------------------------------------
(* Properties.                                                             *)

\* A Session is carried by its relay pipe or by the connection that its own
\* client dialed, never by that of another Session with the same peer
\* (challengeEqual and the closure filed by RegisterPending).
CarrierIsOwn == \A s \in Sessions, e \in Ends : carrier[s][e] \in {Relay, None, s}

\* An end moves to a direct connection only after the server has confirmed it
\* to the other end (the order of handleConn, dialLAN's read of "ok").
SwapIsConfirmed == \A s \in Sessions, e \in Ends : carrier[s][e] \in Sessions => s \in confirmed

\* The server files a challenge only while the offerLAN that made it is
\* running (the deferred UnregisterPending).
PendingIsLive ==
    \A p \in Peers, s \in Sessions :
        pending[p] = s => bpc[s] \in {"opening", "offered", "swapping", "leaving"}

\* The offer of s is over, or another Session of the same client has made one
\* under the entry they share.
Explained(s) ==
    \/ bpc[s] \in {"leaving", "done"}
    \/ \E t \in Sessions \ {s} : PeerOf[t] = PeerOf[s] /\ bpc[t] # "start"

\* The server refuses a client only when the offer it answers is over, or
\* when another Session of the same client has used the entry they share.
RefusalExplained ==
    \A s \in Sessions : cpc[s] = "waiting" /\ conn[s] = "closed" => Explained(s)

\* A challenge is filed under its Session's client.
FiledByPeer == \A p \in Peers, s \in Sessions : pending[p] = s => p = PeerOf[s]

\* The server, the offer and the dial agree about what was verified.
HandshakeConsistent ==
    \A s \in Sessions :
        /\ taken[s] \in {s, None}
        /\ srv[s] \in {"confirm", "announce"} => taken[s] = s
        /\ srv[s] = "announce" => s \in confirmed
        /\ verified[s] = s => s \in confirmed
        /\ verified[s] \in {s, None}
        /\ bpc[s] = "swapping" => verified[s] = s
        /\ cpc[s] = "swapping" => s \in confirmed

\* The upgrade's bookkeeping is consistent at any moment.
LanInv ==
    /\ TypeOK /\ FiledByPeer /\ HandshakeConsistent
    /\ CarrierIsOwn /\ SwapIsConfirmed /\ PendingIsLive

\* Both ends of s are through and on one carrier, or were closed.
EndsMeet(s) ==
    /\ bpc[s] = "done" /\ cpc[s] = "done"
    /\ \A e \in Ends : closing[s][e] = "open"
    => carrier[s]["backend"] = carrier[s]["client"]

\* Once both ends are through and none was closed, they are on one carrier, if
\* the offer did not time out under the handshake.
CarriersMeet == \A s \in Sessions \ Impatient : EndsMeet(s)

\* The same whenever the offer's timer fires.
CarriersAlwaysMeet == \A s \in Sessions : EndsMeet(s)

\* The offer, the dial, the server and the two swaps of s come in this order.
StagesOf(s) ==
    /\ s \in offer => bpc[s] \notin {"start", "opening"}
    /\ cpc[s] # "idle" => s \in offer
    /\ cpc[s] \in {"idle", "dialing"} => srv[s] = "none"
    /\ s \in confirmed => srv[s] = "announce" \/ (srv[s] = "done" /\ verified[s] = s)
    /\ <<s, "backend">> \in onLAN \/ carrier[s]["backend"] = s => bpc[s] \in {"leaving", "done"}
    /\ <<s, "client">> \in onLAN \/ carrier[s]["client"] = s => cpc[s] = "done"

StagesInOrder == \A s \in Sessions : StagesOf(s)

\* Until the server has looked, the challenge of an offer is on file.
EntryWaits ==
    \A s \in Sessions :
        bpc[s] # "start" /\ srv[s] \in {"none", "verify"}
        => pending[PeerOf[s]] = s \/ Explained(s)

\* Of a Session that nobody closes and whose offer does not time out under the
\* handshake: only the server closes the connection, and then confirms it no
\* more; the client swaps if it was confirmed, and the backend stays on the
\* relay only if it never will be.
Decided(s) ==
    (\A e \in Ends : closing[s][e] = "open") =>
        /\ \A e \in Ends : carrier[s][e] # None
        /\ conn[s] = "closed" => srv[s] = "done" /\ s \notin confirmed
        /\ srv[s] \in {"verify", "confirm"} => cpc[s] = "waiting"
        /\ s \in confirmed /\ cpc[s] = "done" => carrier[s]["client"] = s
        /\ bpc[s] \in {"leaving", "done"} /\ carrier[s]["backend"] = Relay =>
              /\ s \notin confirmed /\ srv[s] \in {"none", "done"}
              /\ cpc[s] \in {"idle", "done"}
              /\ cpc[s] = "idle" => s \notin offer \cap relay

HandshakeDecides == \A s \in Sessions \ Impatient : Decided(s)

\* What RefusalExplained and CarriersMeet rest on beside LanInv.
UpgradeInv == StagesInOrder /\ EntryWaits /\ RefusalExplained /\ HandshakeDecides

\* Close leaves no connection behind: once it has returned and the upgrade of
\* that end is through, the Session holds no carrier.
CloseReleasesCarrier ==
    \A s \in Sessions :
        /\ closing[s]["backend"] = "closed" /\ bpc[s] = "done" => carrier[s]["backend"] = None
        /\ closing[s]["client"] = "closed" /\ cpc[s] = "done" => carrier[s]["client"] = None

\* offerLAN returns, and so does handleLANOffer once it has an offer.
UpgradeEnds ==
    \A s \in Sessions :
        /\ <>(bpc[s] = "done")
        /\ cpc[s] = "dialing" ~> cpc[s] = "done"

\* A Session that nobody closes and whose offer does not time out under the
\* handshake gets to the direct connection at both ends, and its relay pipe
\* goes down, unless the server refuses its client.
UpgradeCompletes ==
    \A s \in Sessions \ Impatient :
        [](\A e \in Ends : closing[s][e] = "open")
        => \/ <>[](/\ \A e \in Ends : carrier[s][e] = s
                  /\ conn[s] = "open" /\ s \notin relay)
           \/ <>(cpc[s] = "waiting" /\ conn[s] = "closed" /\ s \notin confirmed)

=============================================================================
