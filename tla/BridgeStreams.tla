--------------------------- MODULE BridgeStreams ---------------------------
(***************************************************************************)
(* The relay's bridge between a client's and a backend's connection        *)
(* (session.go: bridge, bridgeStream, streamTracker; streamctl.go; the     *)
(* stream wrappers of quicserver.go and webtransport.go).                  *)
(*                                                                         *)
(* A bridged stream s is two QUIC streams, one per leg.  "in" is the half  *)
(* of leg x from the end x to the relay, "out" the half from the relay to  *)
(* x.  The pump of <<s, x>> reads "in" of leg x and writes "out" of the    *)
(* other leg.  Messages are numbered in the order in which they are sent.  *)
(***************************************************************************)
EXTENDS Naturals, Sequences

CONSTANTS Streams,      \* streams that the ends open
          Opener,       \* Opener[s]: the end that opens s
          WebTransport, \* ends whose leg is a WebTransport session
          Losable,      \* ends that may disconnect
          Crowded,      \* ends whose leg may have no room for another stream
          MaxMsgs,      \* MaxMsgs[x]: bound on the messages that x sends on a stream
          Window        \* messages that flow control lets be in flight

Ends == {"client", "backend"}

Other(x) == CHOOSE y \in Ends : y # x

ASSUME BridgeAssumption ==
    /\ Opener \in [Streams -> Ends]
    /\ WebTransport \subseteq Ends /\ Losable \subseteq Ends /\ Crowded \subseteq Ends
    /\ MaxMsgs \in [Ends -> Nat] /\ Window \in Nat \ {0}

VARIABLES
    conn,      \* conn[x]: "up" or "gone"
    primary,   \* ends that have closed their primary stream
    stage,     \* where bridge is
    loop,      \* loop[x]: where the goroutine is that accepts streams from x
    phase,     \* phase[s]: how far s has got
    tracked,   \* streamTracker.streams, as pairs <<s, x>>
    sweep,     \* what closeAll has still to close
    inq, inEnd, inStop,      \* in half: data, "open" "fin" or "reset", CancelRead by the relay
    outq, outEnd, outStop,   \* out half: the same, CancelRead by the end
    deadline,  \* pairs <<s, x>> on which the relay set a past read deadline
    pump,      \* pump[s][x]: where bridgeStream(x, other) is
    hold,      \* hold[s][x]: the message it holds
    sent,      \* sent[s][x]: messages sent at x
    got,       \* got[s][x]: the last message received at x
    verdict    \* verdict[s][x]: how Recv at x ended

connVars == <<conn, primary>>
bridgeVars == <<stage, loop, phase, tracked, sweep>>
inVars == <<inq, inEnd, inStop>>
outVars == <<outq, outEnd, outStop>>
pumpVars == <<deadline, pump, hold>>
appVars == <<sent, got, verdict>>
vars == <<connVars, bridgeVars, inVars, outVars, pumpVars, appVars>>

PerLeg(T) == [Streams -> [Ends -> T]]
Legs == Streams \X Ends

TypeOK ==
    /\ conn \in [Ends -> {"up", "gone"}]
    /\ primary \subseteq Ends
    /\ stage \in {"run", "cancelled", "sweeping", "closing", "waiting", "ended"}
    /\ loop \in [Ends -> {"accepting", "opening", "starting", "done"}]
    /\ phase \in [Streams -> {"idle", "opened", "accepted", "opening", "bridged", "refused"}]
    /\ tracked \subseteq Legs /\ sweep \subseteq Legs
    /\ inq \in PerLeg(Seq(Nat)) /\ outq \in PerLeg(Seq(Nat))
    /\ inEnd \in PerLeg({"open", "fin", "reset"}) /\ outEnd \in PerLeg({"open", "fin", "reset"})
    /\ inStop \subseteq Legs /\ outStop \subseteq Legs /\ deadline \subseteq Legs
    /\ pump \in PerLeg({"none", "reading", "writing", "done"})
    /\ hold \in PerLeg(Nat) /\ sent \in PerLeg(Nat) /\ got \in PerLeg(Nat)
    /\ verdict \in PerLeg({"open", "eof", "reset"})

\* The pair has been matched and the greetings are over.
Init ==
    /\ conn = [x \in Ends |-> "up"]
    /\ primary = {}
    /\ stage = "run"
    /\ loop = [x \in Ends |-> "accepting"]
    /\ phase = [s \in Streams |-> "idle"]
    /\ tracked = {} /\ sweep = {}
    /\ inq = [s \in Streams |-> [x \in Ends |-> <<>>]] /\ outq = inq
    /\ inEnd = [s \in Streams |-> [x \in Ends |-> "open"]] /\ outEnd = inEnd
    /\ inStop = {} /\ outStop = {} /\ deadline = {}
    /\ pump = [s \in Streams |-> [x \in Ends |-> "none"]]
    /\ hold = [s \in Streams |-> [x \in Ends |-> 0]] /\ sent = hold /\ got = hold
    /\ verdict = [s \in Streams |-> [x \in Ends |-> "open"]]

Cancelled == stage # "run" \/ conn["client"] = "gone"

-----------------------------------------------------------------------------
(* The halves of a leg.                                                    *)

\* Close on the relay's side of leg x, also as CloseWrite: FIN, and over
\* WebTransport a past read deadline.
CloseLeg(s, x) ==
    /\ outEnd' = [outEnd EXCEPT ![s][x] = IF @ = "open" THEN "fin" ELSE @]
    /\ deadline' = IF x \in WebTransport THEN deadline \cup {<<s, x>>} ELSE deadline

closeWritePair(s, x) == CloseLeg(s, x) /\ UNCHANGED <<outq, outStop, inVars>>

\* CancelWrite: it replaces a FIN, unless that has been read or arrives first.
AfterCancel(end, read) == IF end = "fin" THEN {"fin"} \cup (IF read THEN {} ELSE {"reset"}) ELSE {"reset"}

\* Mutant: a reset is forwarded as a FIN.
resetPair_AsFin(s, x) == closeWritePair(s, x)

\* CancelWrite and CancelRead on the relay's side of leg x.
resetPair(s, x) ==
    /\ \E e \in AfterCancel(outEnd[s][x], verdict[s][x] # "open") :
          outEnd' = [outEnd EXCEPT ![s][x] = e]
    /\ inStop' = inStop \cup {<<s, x>>}
    /\ deadline' = IF x \in WebTransport THEN deadline \cup {<<s, x>>} ELSE deadline
    /\ UNCHANGED <<outq, outStop, inq, inEnd>>

\* A write on the out half of leg y fails.
OutBroken(s, y) == conn[y] = "gone" \/ outEnd[s][y] # "open" \/ <<s, y>> \in outStop

-----------------------------------------------------------------------------
(* The ends (api.go: Stream; transport.go).                                *)

\* OpenStream has returned s, or AcceptStream has: the header has been read.
Knows(s, x) == IF Opener[s] = x THEN phase[s] # "idle" ELSE got[s][x] > 0

OpenStream(s) ==
    /\ phase[s] = "idle"
    /\ conn[Opener[s]] = "up"
    /\ phase' = [phase EXCEPT ![s] = "opened"]
    /\ UNCHANGED <<connVars, stage, loop, tracked, sweep, inVars, outVars, pumpVars, appVars>>

Send(s, x) ==
    /\ Knows(s, x)
    /\ conn[x] = "up" /\ inEnd[s][x] = "open" /\ <<s, x>> \notin inStop
    /\ sent[s][x] < MaxMsgs[x] /\ Len(inq[s][x]) < Window
    /\ sent' = [sent EXCEPT ![s][x] = @ + 1]
    /\ inq' = [inq EXCEPT ![s][x] = Append(@, sent[s][x] + 1)]
    /\ UNCHANGED <<connVars, bridgeVars, inEnd, inStop, outVars, pumpVars, got, verdict>>

CloseWrite(s, x) ==
    /\ Knows(s, x)
    /\ conn[x] = "up" /\ inEnd[s][x] = "open"
    /\ inEnd' = [inEnd EXCEPT ![s][x] = "fin"]
    /\ UNCHANGED <<connVars, bridgeVars, inq, inStop, outVars, pumpVars, appVars>>

Reset(s, x) ==
    /\ Knows(s, x)
    /\ conn[x] = "up" /\ <<s, x>> \notin outStop
    /\ \E e \in AfterCancel(inEnd[s][x], pump[s][x] = "done") : inEnd' = [inEnd EXCEPT ![s][x] = e]
    /\ outStop' = outStop \cup {<<s, x>>}
    /\ UNCHANGED <<connVars, bridgeVars, inq, inStop, outq, outEnd, pumpVars, appVars>>

Reading(s, x) == verdict[s][x] = "open" /\ conn[x] = "up" /\ <<s, x>> \notin outStop

Recv(s, x) ==
    /\ Reading(s, x)
    /\ outq[s][x] # <<>>
    /\ got' = [got EXCEPT ![s][x] = Head(outq[s][x])]
    /\ outq' = [outq EXCEPT ![s][x] = Tail(@)]
    /\ UNCHANGED <<connVars, bridgeVars, inVars, outEnd, outStop, pumpVars, sent, verdict>>

\* Recv returns io.EOF, or a stream error.
RecvEnds(s, x) ==
    /\ Reading(s, x)
    /\ \/ outEnd[s][x] = "fin" /\ outq[s][x] = <<>> /\ verdict' = [verdict EXCEPT ![s][x] = "eof"]
       \/ outEnd[s][x] = "reset" /\ verdict' = [verdict EXCEPT ![s][x] = "reset"]
    /\ UNCHANGED <<connVars, bridgeVars, inVars, outVars, pumpVars, sent, got>>

\* transport.Close ends the primary stream before the connection.
ClosePrimary(x) ==
    /\ x \in Losable \ primary
    /\ conn[x] = "up"
    /\ primary' = primary \cup {x}
    /\ UNCHANGED <<conn, bridgeVars, inVars, outVars, pumpVars, appVars>>

Disconnect(x) ==
    /\ x \in Losable
    /\ conn[x] = "up"
    /\ conn' = [conn EXCEPT ![x] = "gone"]
    /\ UNCHANGED <<primary, bridgeVars, inVars, outVars, pumpVars, appVars>>

-----------------------------------------------------------------------------
(* The goroutines of bridge that forward streams opened by x.              *)

AcceptStream(s) ==
    LET x == Opener[s] IN
    /\ loop[x] = "accepting"
    /\ phase[s] = "opened"
    /\ conn[x] = "up" /\ ~Cancelled
    /\ phase' = [phase EXCEPT ![s] = "accepted"]
    /\ loop' = [loop EXCEPT ![x] = "opening"]
    /\ UNCHANGED <<connVars, stage, tracked, sweep, inVars, outVars, pumpVars, appVars>>

AcceptFails(x) ==
    /\ loop[x] = "accepting"
    /\ Cancelled \/ conn[x] = "gone"
    /\ loop' = [loop EXCEPT ![x] = "done"]
    /\ UNCHANGED <<connVars, stage, phase, tracked, sweep, inVars, outVars, pumpVars, appVars>>

\* OpenStream on the other leg, and the first tracker.add.
OpenOther(s) ==
    LET x == Opener[s] IN
    /\ phase[s] = "accepted"
    /\ conn[Other(x)] = "up"
    /\ tracked' = tracked \cup {<<s, x>>}
    /\ phase' = [phase EXCEPT ![s] = "opening"]
    /\ loop' = [loop EXCEPT ![x] = "starting"]
    /\ UNCHANGED <<connVars, stage, sweep, inVars, outVars, pumpVars, appVars>>

\* OpenStream fails: the source is closed, and the goroutine returns.
OpenFails(s) ==
    LET x == Opener[s] IN
    /\ phase[s] = "accepted"
    /\ conn[Other(x)] = "gone" \/ Other(x) \in Crowded
    /\ closeWritePair(s, x)
    /\ phase' = [phase EXCEPT ![s] = "refused"]
    /\ loop' = [loop EXCEPT ![x] = "done"]
    /\ UNCHANGED <<connVars, stage, tracked, sweep, pump, hold, appVars>>

\* The second tracker.add, and the two bridgeStream goroutines.
StartPumps(s) ==
    LET x == Opener[s] IN
    /\ phase[s] = "opening"
    /\ tracked' = tracked \cup {<<s, Other(x)>>}
    /\ phase' = [phase EXCEPT ![s] = "bridged"]
    /\ pump' = [pump EXCEPT ![s] = [e \in Ends |-> "reading"]]
    /\ loop' = [loop EXCEPT ![x] = "accepting"]
    /\ UNCHANGED <<connVars, stage, sweep, inVars, outVars, deadline, hold, appVars>>

-----------------------------------------------------------------------------
(* bridgeStream, from leg x to the other.                                  *)

PumpReads(s, x) ==
    /\ pump[s][x] = "reading"
    /\ conn[x] = "up" /\ <<s, x>> \notin inStop \cup deadline
    /\ inq[s][x] # <<>>
    /\ hold' = [hold EXCEPT ![s][x] = Head(inq[s][x])]
    /\ inq' = [inq EXCEPT ![s][x] = Tail(@)]
    /\ pump' = [pump EXCEPT ![s][x] = "writing"]
    /\ UNCHANGED <<connVars, bridgeVars, inEnd, inStop, outVars, deadline, appVars>>

\* Mutant: the end of the stream overtakes what was written before it.
InputOver_Early(s, x) ==
    conn[x] = "gone" \/ (<<s, x>> \notin inStop /\ (<<s, x>> \in deadline \/ inEnd[s][x] = "fin"))

\* ReadMessage fails, and not with a stream error: io.EOF, a past deadline, or
\* the end of the connection.
InputOver(s, x) ==
    \/ conn[x] = "gone"
    \/ /\ <<s, x>> \notin inStop
       /\ <<s, x>> \in deadline \/ (inEnd[s][x] = "fin" /\ inq[s][x] = <<>>)

\* Mutant: the source is closed too, which ends the return path.
PumpFinishes_ClosesSource(s, x) ==
    /\ pump[s][x] = "reading"
    /\ InputOver(s, x)
    /\ outEnd' = [outEnd EXCEPT ![s] = [e \in Ends |-> IF @[e] = "open" THEN "fin" ELSE @[e]]]
    /\ pump' = [pump EXCEPT ![s][x] = "done"]
    /\ UNCHANGED <<connVars, bridgeVars, inVars, outq, outStop, deadline, hold, appVars>>

PumpFinishes(s, x) ==
    /\ pump[s][x] = "reading"
    /\ InputOver(s, x)
    /\ closeWritePair(s, Other(x))
    /\ pump' = [pump EXCEPT ![s][x] = "done"]
    /\ UNCHANGED <<connVars, bridgeVars, hold, appVars>>

\* ReadMessage fails with a stream error (isStreamReset).
PumpResets(s, x) ==
    /\ pump[s][x] = "reading"
    /\ conn[x] = "up"
    /\ <<s, x>> \in inStop \/ inEnd[s][x] = "reset"
    /\ resetPair(s, Other(x))
    /\ pump' = [pump EXCEPT ![s][x] = "done"]
    /\ UNCHANGED <<connVars, bridgeVars, hold, appVars>>

PumpWrites(s, x) ==
    LET y == Other(x) IN
    /\ pump[s][x] = "writing"
    /\ ~OutBroken(s, y) /\ Len(outq[s][y]) < Window
    /\ outq' = [outq EXCEPT ![s][y] = Append(@, hold[s][x])]
    /\ hold' = [hold EXCEPT ![s][x] = 0]
    /\ pump' = [pump EXCEPT ![s][x] = "reading"]
    /\ UNCHANGED <<connVars, bridgeVars, inVars, outEnd, outStop, deadline, appVars>>

\* WriteMessage fails: nothing is forwarded to the source.
PumpGivesUp(s, x) ==
    /\ pump[s][x] = "writing"
    /\ OutBroken(s, Other(x))
    /\ pump' = [pump EXCEPT ![s][x] = "done"]
    /\ UNCHANGED <<connVars, bridgeVars, inVars, outVars, deadline, hold, appVars>>

-----------------------------------------------------------------------------
(* bridge itself.                                                          *)

\* A primary pump has failed to read x or to write to the other end, and has
\* reported it; errCh has room for all reports.
PrimaryPumpOver(x) == x \in primary \/ \E y \in Ends : conn[y] = "gone"

\* A datagram pump has returned: its context is done or a connection has ended.
DatagramPumpOver(x) == Cancelled \/ \E y \in Ends : conn[y] = "gone"

\* The select of bridge, and cancel.
BridgeNotices ==
    /\ stage = "run"
    /\ \E x \in Ends : PrimaryPumpOver(x) \/ conn[x] = "gone"
    /\ stage' = "cancelled"
    /\ UNCHANGED <<connVars, loop, phase, tracked, sweep, inVars, outVars, pumpVars, appVars>>

\* closeAll takes the list, and closes one stream after the other.
SweepBegins ==
    /\ stage = "cancelled"
    /\ sweep' = tracked /\ tracked' = {}
    /\ stage' = "sweeping"
    /\ UNCHANGED <<connVars, loop, phase, inVars, outVars, pumpVars, appVars>>

SweepOne(s, x) ==
    /\ stage = "sweeping"
    /\ <<s, x>> \in sweep
    /\ sweep' = sweep \ {<<s, x>>}
    /\ closeWritePair(s, x)
    /\ UNCHANGED <<connVars, stage, loop, phase, tracked, pump, hold, appVars>>

CloseClient ==
    /\ stage = "sweeping" /\ sweep = {}
    /\ conn' = [conn EXCEPT !["client"] = "gone"]
    /\ stage' = "closing"
    /\ UNCHANGED <<primary, loop, phase, tracked, sweep, inVars, outVars, pumpVars, appVars>>

\* Mutant: the backend's connection is left to the backend.
CloseBackend_Forgets ==
    /\ stage = "closing"
    /\ stage' = "waiting"
    /\ UNCHANGED <<connVars, loop, phase, tracked, sweep, inVars, outVars, pumpVars, appVars>>

CloseBackend ==
    /\ stage = "closing"
    /\ conn' = [conn EXCEPT !["backend"] = "gone"]
    /\ stage' = "waiting"
    /\ UNCHANGED <<primary, loop, phase, tracked, sweep, inVars, outVars, pumpVars, appVars>>

\* wg.Wait returns.
BridgeReturns ==
    /\ stage = "waiting"
    /\ \A x \in Ends : PrimaryPumpOver(x) /\ DatagramPumpOver(x) /\ loop[x] = "done"
    /\ \A s \in Streams, x \in Ends : pump[s][x] \in {"none", "done"}
    /\ stage' = "ended"
    /\ UNCHANGED <<connVars, loop, phase, tracked, sweep, inVars, outVars, pumpVars, appVars>>

-----------------------------------------------------------------------------

AppStep(s, x) ==
    Send(s, x) \/ CloseWrite(s, x) \/ Reset(s, x) \/ Recv(s, x) \/ RecvEnds(s, x)

LoopStep(s) == AcceptStream(s) \/ OpenOther(s) \/ OpenFails(s) \/ StartPumps(s)

PumpStep(s, x) ==
    PumpReads(s, x) \/ PumpFinishes(s, x) \/ PumpResets(s, x) \/ PumpWrites(s, x) \/ PumpGivesUp(s, x)

CloserStep ==
    \/ BridgeNotices \/ SweepBegins \/ CloseClient \/ CloseBackend \/ BridgeReturns
    \/ \E s \in Streams, x \in Ends : SweepOne(s, x)

Next ==
    \/ \E s \in Streams : OpenStream(s) \/ LoopStep(s)
    \/ \E s \in Streams, x \in Ends : AppStep(s, x) \/ PumpStep(s, x)
    \/ \E x \in Ends : ClosePrimary(x) \/ Disconnect(x) \/ AcceptFails(x)
    \/ CloserStep

Spec == Init /\ [][Next]_vars

\* The relay's goroutines run on.  The ends read what has arrived; they need
\* not open, send, finish or close anything.
Fairness ==
    /\ \A s \in Streams : WF_vars(LoopStep(s))
    /\ \A s \in Streams, x \in Ends :
          WF_vars(PumpStep(s, x)) /\ WF_vars(Recv(s, x) \/ RecvEnds(s, x))
    /\ \A x \in Ends : WF_vars(AcceptFails(x))
    /\ WF_vars(CloserStep)

FairSpec == Spec /\ Fairness

-----------------------------------------------------------------------------
(* Properties.                                                             *)

\* The bridge no longer stands between two live connections.
Broken == stage # "run" \/ \E x \in Ends : conn[x] = "gone"

\* Streams that the bridge refused, or carries no more.
NotCarried == {s \in Streams : Broken \/ phase[s] = "refused"}

Pipe == INSTANCE StreamPipe WITH writer <- inEnd, aborted <- outStop, cut <- NotCarried

\* To the two applications a bridged stream is one stream: in order, nothing
\* twice, io.EOF only after everything that was sent before CloseWrite, a
\* stream error only after a Reset (bridgeStream, closeWritePair, resetPair).
PipeImplemented == Pipe!Spec

\* A Recv that returns io.EOF has returned everything the other end sent, and
\* that end has finished writing, as long as the bridge carries the stream.
EofMeansDone ==
    \A s \in Streams \ NotCarried, y \in Ends :
        verdict[s][y] = "eof" => inEnd[s][Other(y)] # "open" /\ got[s][y] = sent[s][Other(y)]

\* The messages of a stream are, in order and without a gap, those received,
\* those in the out half, the one in the pump and those in the in half.
Consecutive(q, n) == \A i \in DOMAIN q : q[i] = n + i

InFlight(o, p) == Len(o) + (IF p = "writing" THEN 1 ELSE 0)

LaneOrdered(i, p, h, o, g, n) ==
    /\ Consecutive(o, g)
    /\ p = "writing" => h = g + InFlight(o, p)
    /\ p # "done" => Consecutive(i, g + InFlight(o, p)) /\ n = g + InFlight(o, p) + Len(i)
    /\ g + InFlight(o, p) <= n

PipelineOrdered ==
    \A s \in Streams, x \in Ends :
        LaneOrdered(inq[s][x], pump[s][x], hold[s][x], outq[s][Other(x)], got[s][Other(x)], sent[s][x])

\* While s is carried, a FIN on a leg stands for one on the other leg.
FinForwarded ==
    \A s \in Streams \ NotCarried, x \in Ends :
        outEnd[s][Other(x)] = "fin" =>
            /\ pump[s][x] = "done" /\ inEnd[s][x] = "fin"
            /\ got[s][Other(x)] + Len(outq[s][Other(x)]) = sent[s][x]

\* The relay resets a leg only after one of the ends has reset the stream.
ResetHasCause ==
    \A s \in Streams, x \in Ends :
        \/ outEnd[s][x] = "reset" \/ <<s, x>> \in inStop \/ inEnd[s][x] = "reset"
        => \E y \in Ends : <<s, y>> \in outStop

\* A pump runs only for a stream that was bridged.
PumpsStarted ==
    \A s \in Streams, x \in Ends : pump[s][x] = "none" <=> phase[s] # "bridged"

\* The bridge's pumps, queues and stream ends are consistent at any moment.
BridgeInv ==
    TypeOK /\ PipelineOrdered /\ FinForwarded /\ ResetHasCause /\ PumpsStarted

\* Without a WebTransport leg the relay sets no read deadline, and BridgeInv
\* is inductive.
NoDeadlines == WebTransport = {} => deadline = {}

\* A Reset by an end that was still writing reaches the other end, or the
\* bridge goes down (resetPair on isStreamReset).
ResetForwarded ==
    \A s \in Streams, x \in Ends :
        <<s, x>> \in outStop /\ inEnd[s][x] = "reset"
        ~> \/ outEnd[s][Other(x)] = "reset" \/ <<s, Other(x)>> \in outStop
           \/ s \in NotCarried

\* Once either connection or primary stream ends, bridge returns: no pump and
\* no accepting goroutine is left blocked behind wg.Wait (closeAll, Close).
BridgeEnds == primary # {} \/ Broken ~> stage = "ended"

=============================================================================
