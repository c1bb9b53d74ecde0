-------------------------- MODULE StreamRendezvous --------------------------
(***************************************************************************)
(* How a Session hands the streams its peer opens to the application:      *)
(* acceptLoop and deliverIncomingStream on one side, AcceptStream on the   *)
(* other, with the parking buffer, its timers and caps, cancelled waiters, *)
(* go-away draining and Close (api.go, stream_lifecycle.go).               *)
(*                                                                         *)
(* A step is one critical section of streamMu, one operation on a waiter's *)
(* channel or done flag, or one arm of a select.  A stream that the        *)
(* library lets go of is reset by the goroutine that alone holds it, so    *)
(* the reset belongs to the step that took it out.                         *)
(*                                                                         *)
(* A stream or waiter name stands for a later stream or call once nothing  *)
(* refers to the earlier one.                                              *)
(***************************************************************************)
EXTENDS Naturals, Sequences

CONSTANTS Names,     \* stream names
          Reserved,  \* the names reservedStreamName knows and acceptLoop does
                     \* not consume (discovery, when no Discover hook is set)
          Allowed,   \* allowedStreams; every name when no policy is given
          Streams,   \* streams opened by the peer
          Waiters,   \* application goroutines that call AcceptStream
          Drainers,  \* application goroutines that call GoAway
          Loops,     \* accept loops; a LAN upgrade starts a second one
          Cap,       \* bufferedCap()
          None

ASSUME RendezvousAssumption ==
    /\ Reserved \subseteq Names
    /\ Allowed \subseteq Names
    /\ Cap \in Nat \ {0}
    /\ None \notin Streams \cup Waiters \cup Names

VARIABLES
    closing,   \* "open", "cancelled" (Close cancelled the context), "closed"
    draining,  \* the draining flag
    pending,   \* pending[n]: pendingOpens[n]
    buffered,  \* buffered[n]: bufferedStreams[n]
    timers,    \* streams whose expiry timer is running
    fate,      \* fate[s]: "open" while the library holds s, then "app" or "reset"
    lpc,       \* lpc[d]: where accept loop d is
    lstream,   \* lstream[d]: the stream loop d holds
    lwaiter,   \* lwaiter[d]: the waiter loop d popped
    wpc,       \* wpc[w]: where the AcceptStream call w is
    wname,     \* wname[w]: the name it asked for
    done,      \* done[w]: the waiter's done flag
    ch,        \* ch[w]: what is in the waiter's channel (capacity one)
    gpc        \* gpc[g]: where the GoAway call g is

vars == <<closing, draining, pending, buffered, timers, fate,
          lpc, lstream, lwaiter, wpc, wname, done, ch, gpc>>
loopVars == <<lpc, lstream, lwaiter>>
waiterVars == <<wpc, wname, done, ch>>

TypeOK ==
    /\ closing \in {"open", "cancelled", "closed"}
    /\ draining \in BOOLEAN
    /\ pending \in [Names -> Seq(Waiters)]
    /\ buffered \in [Names -> Seq(Streams)]
    /\ timers \subseteq Streams
    /\ fate \in [Streams -> {"open", "app", "reset"}]
    /\ lpc \in [Loops -> {"off", "accepting", "reading", "sending", "checking",
                          "arming", "rejecting", "exited"}]
    /\ lstream \in [Loops -> Streams \cup {None}]
    /\ lwaiter \in [Loops -> Waiters \cup {None}]
    /\ wpc \in [Waiters -> {"idle", "waiting", "removing", "marking", "draining"}]
    /\ wname \in [Waiters -> Names \cup {None}]
    /\ done \in [Waiters -> BOOLEAN]
    /\ ch \in [Waiters -> Streams \cup {None}]
    /\ gpc \in [Drainers -> {"idle", "entering", "rejecting", "sending", "returned"}]

\* activate or Connect has built the session and started its first loop.
Init ==
    /\ closing = "open"
    /\ draining = FALSE
    /\ pending = [n \in Names |-> <<>>]
    /\ buffered = [n \in Names |-> <<>>]
    /\ timers = {}
    /\ fate = [s \in Streams |-> "reset"]
    /\ \E d \in Loops : lpc = [e \in Loops |-> IF e = d THEN "accepting" ELSE "off"]
    /\ lstream = [d \in Loops |-> None]
    /\ lwaiter = [d \in Loops |-> None]
    /\ wpc = [w \in Waiters |-> "idle"]
    /\ wname = [w \in Waiters |-> None]
    /\ done = [w \in Waiters |-> FALSE]
    /\ ch = [w \in Waiters |-> None]
    /\ gpc = [g \in Drainers |-> "idle"]

Done == closing # "open"    \* the session's context is done

\* append(q[:i], q[i+1:]...)
CutAt(q, i) == SubSeq(q, 1, i - 1) \o SubSeq(q, i + 1, Len(q))

Parked(s) == \E n \in Names : \E i \in DOMAIN buffered[n] : buffered[n][i] = s

-----------------------------------------------------------------------------
(* acceptLoop and deliverIncomingStream.                                   *)

\* swapTransport starts a loop on the new carrier.
StartLoop(d) ==
    /\ lpc[d] = "off"
    /\ lpc' = [lpc EXCEPT ![d] = "accepting"]
    /\ UNCHANGED <<closing, draining, pending, buffered, timers, fate,
                   lstream, lwaiter, waiterVars, gpc>>

\* AcceptStream on the carrier fails: the context is done or the carrier closed.
LoopExits(d) ==
    /\ lpc[d] = "accepting"
    /\ lpc' = [lpc EXCEPT ![d] = "exited"]
    /\ UNCHANGED <<closing, draining, pending, buffered, timers, fate,
                   lstream, lwaiter, waiterVars, gpc>>

\* The peer's stream s comes out of the carrier.
TakeStream(d, s) ==
    /\ lpc[d] = "accepting"
    /\ fate[s] # "open"
    /\ s \notin timers
    /\ \A e \in Loops : lstream[e] # s
    /\ fate' = [fate EXCEPT ![s] = "open"]
    /\ lpc' = [lpc EXCEPT ![d] = "reading"]
    /\ lstream' = [lstream EXCEPT ![d] = s]
    /\ UNCHANGED <<closing, draining, pending, buffered, timers, lwaiter, waiterVars, gpc>>

\* The loop lets go of its stream and goes on to the next.
NextStream(d) ==
    /\ lpc' = [lpc EXCEPT ![d] = "accepting"]
    /\ lstream' = [lstream EXCEPT ![d] = None]
    /\ lwaiter' = [lwaiter EXCEPT ![d] = None]

\* The header cannot be read or parsed, or the LAN control stream comes to a
\* side that does not upgrade: the stream is closed.
HeaderFails(d) ==
    /\ lpc[d] = "reading"
    /\ fate' = [fate EXCEPT ![lstream[d]] = "reset"]
    /\ NextStream(d)
    /\ UNCHANGED <<closing, draining, pending, buffered, timers, waiterVars, gpc>>

\* The stream is the peer's go-away and the session drains already.
PeerGoAwayAgain(d) ==
    /\ lpc[d] = "reading"
    /\ draining
    /\ fate' = [fate EXCEPT ![lstream[d]] = "reset"]
    /\ NextStream(d)
    /\ UNCHANGED <<closing, draining, pending, buffered, timers, waiterVars, gpc>>

\* The stream is the peer's first go-away: enterDrain sets the flag.
PeerGoAway(d) ==
    /\ lpc[d] = "reading"
    /\ ~draining
    /\ draining' = TRUE
    /\ fate' = [fate EXCEPT ![lstream[d]] = "reset"]
    /\ lpc' = [lpc EXCEPT ![d] = "rejecting"]
    /\ lstream' = [lstream EXCEPT ![d] = None]
    /\ UNCHANGED <<closing, pending, buffered, timers, lwaiter, waiterVars, gpc>>

-----------------------------------------------------------------------------
(* deliverIncomingStream up to the unlock.                                 *)

\* Mutant: deliverIncomingStream does not look at the draining flag.
Refused_IgnoresDrain(n) == n \notin Allowed /\ n \notin Reserved

Refused(n) == (draining \/ n \notin Allowed) /\ n \notin Reserved

Full(n) == Len(buffered[n]) >= Cap

\* The name is refused, or nobody waits for it and its buffer is full.
DeliverResets(d, n) ==
    /\ lpc[d] = "reading"
    /\ Refused(n) \/ (pending[n] = <<>> /\ Full(n))
    /\ fate' = [fate EXCEPT ![lstream[d]] = "reset"]
    /\ NextStream(d)
    /\ UNCHANGED <<closing, draining, pending, buffered, timers, waiterVars, gpc>>

\* The first waiter is popped; the send comes after the unlock.
DeliverPops(d, n) ==
    /\ lpc[d] = "reading"
    /\ ~Refused(n)
    /\ pending[n] # <<>>
    /\ lwaiter' = [lwaiter EXCEPT ![d] = Head(pending[n])]
    /\ pending' = [pending EXCEPT ![n] = Tail(pending[n])]
    /\ lpc' = [lpc EXCEPT ![d] = "sending"]
    /\ UNCHANGED <<closing, draining, buffered, timers, fate, lstream, waiterVars, gpc>>

\* The stream is parked; its timer is started after the unlock.
DeliverParks(d, n) ==
    /\ lpc[d] = "reading"
    /\ ~Refused(n)
    /\ pending[n] = <<>>
    /\ ~Full(n)
    /\ buffered' = [buffered EXCEPT ![n] = Append(buffered[n], lstream[d])]
    /\ lpc' = [lpc EXCEPT ![d] = "arming"]
    /\ UNCHANGED <<closing, draining, pending, timers, fate, lstream, lwaiter, waiterVars, gpc>>

\* Mutant: the expiry timer is not started.
ArmTimer_Never(d) ==
    /\ lpc[d] = "arming"
    /\ NextStream(d)
    /\ UNCHANGED <<closing, draining, pending, buffered, timers, fate, waiterVars, gpc>>

\* time.AfterFunc, after the unlock.
ArmTimer(d) ==
    /\ lpc[d] = "arming"
    /\ timers' = timers \cup {lstream[d]}
    /\ NextStream(d)
    /\ UNCHANGED <<closing, draining, pending, buffered, fate, waiterVars, gpc>>

\* w.ch <- rwc, outside the lock; the channel has room.
SendToWaiter(d) ==
    /\ lpc[d] = "sending"
    /\ ch[lwaiter[d]] = None
    /\ ch' = [ch EXCEPT ![lwaiter[d]] = lstream[d]]
    /\ lpc' = [lpc EXCEPT ![d] = "checking"]
    /\ lstream' = [lstream EXCEPT ![d] = None]
    /\ UNCHANGED <<closing, draining, pending, buffered, timers, fate,
                   lwaiter, wpc, wname, done, gpc>>

\* The non-blocking receive from w's channel resets what it finds.
DrainChannel(w) ==
    IF ch[w] = None
    THEN UNCHANGED <<ch, fate>>
    ELSE /\ fate' = [fate EXCEPT ![ch[w]] = "reset"]
         /\ ch' = [ch EXCEPT ![w] = None]

\* w.done.Load(): a waiter that gave up does not keep the stream.
CheckDone(d) ==
    /\ lpc[d] = "checking"
    /\ IF done[lwaiter[d]] THEN DrainChannel(lwaiter[d]) ELSE UNCHANGED <<ch, fate>>
    /\ NextStream(d)
    /\ UNCHANGED <<closing, draining, pending, buffered, timers, wpc, wname, done, gpc>>

\* A timer fires for a stream that is no longer parked.
TimerIdle(s) ==
    /\ s \in timers
    /\ ~Parked(s)
    /\ timers' = timers \ {s}
    /\ UNCHANGED <<closing, draining, pending, buffered, fate, loopVars, waiterVars, gpc>>

\* expireBuffered finds the stream at place i of its buffer and resets it.
ExpireBuffered(s, n, i) ==
    /\ s \in timers
    /\ buffered[n][i] = s
    /\ timers' = timers \ {s}
    /\ buffered' = [buffered EXCEPT ![n] = CutAt(buffered[n], i)]
    /\ fate' = [fate EXCEPT ![s] = "reset"]
    /\ UNCHANGED <<closing, draining, pending, loopVars, waiterVars, gpc>>

TimerFires(s) ==
    \/ TimerIdle(s)
    \/ \E n \in Names : \E i \in DOMAIN buffered[n] : ExpireBuffered(s, n, i)

-----------------------------------------------------------------------------
(* AcceptStream.                                                           *)

\* A call may begin under a name that no loop still refers to.
Callable(w) == wpc[w] = "idle" /\ \A d \in Loops : lwaiter[d] # w

\* Mutant: the parked stream is returned and stays parked.
AcceptTakes_KeepsParked(w, n) ==
    /\ Callable(w)
    /\ buffered[n] # <<>>
    /\ fate' = [fate EXCEPT ![Head(buffered[n])] = "app"]
    /\ UNCHANGED <<closing, draining, pending, buffered, timers, loopVars, waiterVars, gpc>>

\* Under the lock: the oldest parked stream is returned.
AcceptTakes(w, n) ==
    /\ Callable(w)
    /\ buffered[n] # <<>>
    /\ buffered' = [buffered EXCEPT ![n] = Tail(buffered[n])]
    /\ fate' = [fate EXCEPT ![Head(buffered[n])] = "app"]
    /\ UNCHANGED <<closing, draining, pending, timers, loopVars, waiterVars, gpc>>

\* Under the lock: nothing is parked and a new waiter joins the queue.
AcceptWaits(w, n) ==
    /\ Callable(w)
    /\ buffered[n] = <<>>
    /\ pending' = [pending EXCEPT ![n] = Append(pending[n], w)]
    /\ wpc' = [wpc EXCEPT ![w] = "waiting"]
    /\ wname' = [wname EXCEPT ![w] = n]
    /\ done' = [done EXCEPT ![w] = FALSE]
    /\ UNCHANGED <<closing, draining, buffered, timers, fate, loopVars, ch, gpc>>

\* The select takes the channel.
Receive(w) ==
    /\ wpc[w] = "waiting"
    /\ ch[w] # None
    /\ fate' = [fate EXCEPT ![ch[w]] = "app"]
    /\ ch' = [ch EXCEPT ![w] = None]
    /\ wpc' = [wpc EXCEPT ![w] = "idle"]
    /\ UNCHANGED <<closing, draining, pending, buffered, timers, loopVars, wname, done, gpc>>

\* Mutant: the select has no arm for the session's context.
GiveUp_CallerOnly(w) ==
    /\ wpc[w] = "waiting"
    /\ ~Done
    /\ wpc' = [wpc EXCEPT ![w] = "removing"]
    /\ UNCHANGED <<closing, draining, pending, buffered, timers, fate, loopVars,
                   wname, done, ch, gpc>>

\* The select takes a Done arm: the caller's context or the session's.
GiveUp(w) ==
    /\ wpc[w] = "waiting"
    /\ wpc' = [wpc EXCEPT ![w] = "removing"]
    /\ UNCHANGED <<closing, draining, pending, buffered, timers, fate, loopVars,
                   wname, done, ch, gpc>>

\* removePending finds the waiter at place i of its queue.
RemovePending(w, i) ==
    /\ wpc[w] = "removing"
    /\ pending[wname[w]][i] = w
    /\ pending' = [pending EXCEPT ![wname[w]] = CutAt(pending[wname[w]], i)]
    /\ wpc' = [wpc EXCEPT ![w] = "marking"]
    /\ UNCHANGED <<closing, draining, buffered, timers, fate, loopVars, wname, done, ch, gpc>>

\* removePending finds that the waiter was popped already.
RemoveNothing(w) ==
    /\ wpc[w] = "removing"
    /\ \A i \in DOMAIN pending[wname[w]] : pending[wname[w]][i] # w
    /\ wpc' = [wpc EXCEPT ![w] = "marking"]
    /\ UNCHANGED <<closing, draining, pending, buffered, timers, fate, loopVars,
                   wname, done, ch, gpc>>

\* abandonWaiter: done.Store(true) ...
MarkDone(w) ==
    /\ wpc[w] = "marking"
    /\ done' = [done EXCEPT ![w] = TRUE]
    /\ wpc' = [wpc EXCEPT ![w] = "draining"]
    /\ UNCHANGED <<closing, draining, pending, buffered, timers, fate, loopVars,
                   wname, ch, gpc>>

\* ... and then the non-blocking receive.
Abandon(w) ==
    /\ wpc[w] = "draining"
    /\ DrainChannel(w)
    /\ wpc' = [wpc EXCEPT ![w] = "idle"]
    /\ UNCHANGED <<closing, draining, pending, buffered, timers, loopVars, wname, done, gpc>>

-----------------------------------------------------------------------------
(* GoAway and Close.                                                       *)

\* rejectParkedStreams: swap the map for an empty one, reset what was in it.
RejectParkedStreams ==
    /\ fate' = [s \in Streams |-> IF Parked(s) THEN "reset" ELSE fate[s]]
    /\ buffered' = [n \in Names |-> <<>>]

\* GoAway's unlocked look at the flag.
CheckDraining(g) ==
    /\ gpc[g] = "idle"
    /\ gpc' = [gpc EXCEPT ![g] = IF draining THEN "returned" ELSE "entering"]
    /\ UNCHANGED <<closing, draining, pending, buffered, timers, fate, loopVars, waiterVars>>

\* enterDrain sets the flag; only the goroutine that sets it rejects.
EnterDrain(g) ==
    /\ gpc[g] = "entering"
    /\ draining' = TRUE
    /\ gpc' = [gpc EXCEPT ![g] = IF draining THEN "sending" ELSE "rejecting"]
    /\ UNCHANGED <<closing, pending, buffered, timers, fate, loopVars, waiterVars>>

DrainRejects(g) ==
    /\ gpc[g] = "rejecting"
    /\ RejectParkedStreams
    /\ gpc' = [gpc EXCEPT ![g] = "sending"]
    /\ UNCHANGED <<closing, draining, pending, timers, loopVars, waiterVars>>

\* go s.sendGoAway(), whatever becomes of it.
SendGoAway(g) ==
    /\ gpc[g] = "sending"
    /\ gpc' = [gpc EXCEPT ![g] = "returned"]
    /\ UNCHANGED <<closing, draining, pending, buffered, timers, fate, loopVars, waiterVars>>

\* The second half of enterDrain in an accept loop.
LoopRejects(d) ==
    /\ lpc[d] = "rejecting"
    /\ RejectParkedStreams
    /\ NextStream(d)
    /\ UNCHANGED <<closing, draining, pending, timers, waiterVars, gpc>>

Cancel ==
    /\ closing = "open"
    /\ closing' = "cancelled"
    /\ UNCHANGED <<draining, pending, buffered, timers, fate, loopVars, waiterVars, gpc>>

CloseRejects ==
    /\ closing = "cancelled"
    /\ closing' = "closed"
    /\ RejectParkedStreams
    /\ UNCHANGED <<draining, pending, timers, loopVars, waiterVars, gpc>>

-----------------------------------------------------------------------------

LoopStep(d) ==
    \/ HeaderFails(d) \/ PeerGoAway(d) \/ PeerGoAwayAgain(d)
    \/ \E n \in Names : DeliverResets(d, n) \/ DeliverPops(d, n) \/ DeliverParks(d, n)
    \/ ArmTimer(d) \/ SendToWaiter(d) \/ CheckDone(d) \/ LoopRejects(d)

WaiterLeaves(w) ==
    \/ wpc[w] = "removing" /\ \E i \in DOMAIN pending[wname[w]] : RemovePending(w, i)
    \/ RemoveNothing(w) \/ MarkDone(w) \/ Abandon(w)

DrainerStep(g) == EnterDrain(g) \/ DrainRejects(g) \/ SendGoAway(g)

Next ==
    \/ \E d \in Loops : \/ StartLoop(d) \/ LoopExits(d) \/ LoopStep(d)
                        \/ \E s \in Streams : TakeStream(d, s)
    \/ \E s \in Streams : TimerFires(s)
    \/ \E w \in Waiters : \/ Receive(w) \/ GiveUp(w) \/ WaiterLeaves(w)
                          \/ \E n \in Names : AcceptTakes(w, n) \/ AcceptWaits(w, n)
    \/ \E g \in Drainers : CheckDraining(g) \/ DrainerStep(g)
    \/ Cancel
    \/ CloseRejects

Spec == Init /\ [][Next]_vars

\* Goroutines past a blocking point run on; a timer fires; a select with a
\* ready arm is taken; a session that is done wakes its waiters.  A header
\* read ends because the peer's OpenStream writes it or closes the stream.
Fairness ==
    /\ \A d \in Loops : WF_vars(LoopStep(d))
    /\ \A s \in Streams : WF_vars(TimerFires(s))
    /\ \A w \in Waiters :
          /\ WF_vars(Receive(w) \/ (Done /\ GiveUp(w)))
          /\ WF_vars(WaiterLeaves(w))
    /\ \A g \in Drainers : WF_vars(DrainerStep(g))
    /\ WF_vars(CloseRejects)

FairSpec == Spec /\ Fairness

-----------------------------------------------------------------------------
(* Properties.                                                             *)

InHand(d) == lpc[d] \in {"reading", "sending"}

\* No stream is in two places.
HoldersDistinct ==
    /\ \A n, m \in Names : \A i \in DOMAIN buffered[n], j \in DOMAIN buffered[m] :
          buffered[n][i] = buffered[m][j] => n = m /\ i = j
    /\ \A d, e \in Loops : InHand(d) /\ InHand(e) /\ lstream[d] = lstream[e] => d = e
    /\ \A v, w \in Waiters : ch[v] # None /\ ch[v] = ch[w] => v = w
    /\ \A d \in Loops, w \in Waiters : InHand(d) => lstream[d] # ch[w]
    /\ \A n \in Names : \A i \in DOMAIN buffered[n] :
          /\ \A d \in Loops : InHand(d) => lstream[d] # buffered[n][i]
          /\ \A w \in Waiters : ch[w] # buffered[n][i]

InSomeHand(s) == \E d \in Loops : InHand(d) /\ lstream[d] = s
InSomeChannel(s) == \E w \in Waiters : ch[w] = s

\* A stream is somewhere exactly while it is open.
OpenIsHeld ==
    \A s \in Streams : fate[s] = "open" <=> Parked(s) \/ InSomeHand(s) \/ InSomeChannel(s)

\* A stream the library has accepted and not yet handed over or reset is in
\* one place: parked once under one name, in the hand of one accept loop, or
\* in the channel of one waiter.  One it has let go of is in none
\* (deliverIncomingStream, AcceptStream, expireBuffered, rejectParkedStreams).
EveryStreamHasOneHolder == HoldersDistinct /\ OpenIsHeld

\* A cancelled AcceptStream leaks no stream that races in: when a stream is
\* in its channel, either the call has still to look there or the accept loop
\* that put it there will see the done flag (abandonWaiter and the recheck in
\* deliverIncomingStream).
AbandonedChannelIsEmptied ==
    \A w \in Waiters : ch[w] # None =>
        \/ wpc[w] # "idle"
        \/ done[w] /\ \E d \in Loops : lpc[d] = "checking" /\ lwaiter[d] = w

\* No AcceptStream waits for a name under which a stream is parked
\* (AcceptStream and deliverIncomingStream each look at both maps).
NoWaiterBesideParked == \A n \in Names : buffered[n] = <<>> \/ pending[n] = <<>>

\* Once the goroutine that set the draining flag has rejected the parked
\* streams, no application stream is parked again (enterDrain, GoAway).
DrainLeavesNothingParked ==
    \/ ~draining
    \/ \E d \in Loops : lpc[d] = "rejecting"
    \/ \E g \in Drainers : gpc[g] = "rejecting"
    \/ \A n \in Names \ Reserved : buffered[n] = <<>>

\* A stream that AcceptStream returned is never reset by a late timer, a
\* drain, Close or the clean-up of another waiter.
AppStreamNeverReset == [][\A s \in Streams : fate[s] = "app" => fate'[s] # "reset"]_vars

\* Every stream the peer opens is handed to the application or reset in the
\* end, whatever is cancelled, drained or closed meanwhile.
StreamSettles == \A s \in Streams : fate[s] = "open" ~> fate[s] # "open"

\* Close ends every AcceptStream call.
CloseReleasesWaiters == \A w \in Waiters : (Done /\ wpc[w] # "idle") ~> wpc[w] = "idle"

-----------------------------------------------------------------------------
(* The inductive invariant.                                                *)

\* A waiter is queued, at most once and under its own name, only while its
\* call waits or has still to remove itself; a popped waiter is not queued.
QueuesConsistent ==
    /\ \A n \in Names : \A i \in DOMAIN pending[n] :
          /\ wname[pending[n][i]] = n
          /\ wpc[pending[n][i]] \in {"waiting", "removing"}
          /\ ch[pending[n][i]] = None
          /\ \A j \in DOMAIN pending[n] : pending[n][i] = pending[n][j] => i = j
          /\ \A d \in Loops : lwaiter[d] # pending[n][i]
    /\ \A w \in Waiters : wpc[w] # "idle" => wname[w] \in Names

\* What the loops hold at each point.
LoopsConsistent ==
    /\ \A d \in Loops :
          /\ lpc[d] \in {"reading", "sending", "arming"} <=> lstream[d] # None
          /\ lpc[d] \in {"sending", "checking"} <=> lwaiter[d] # None
          /\ lpc[d] = "sending" => ch[lwaiter[d]] = None
    /\ \A d, e \in Loops : lwaiter[d] # None /\ lwaiter[d] = lwaiter[e] => d = e

\* A waiter that returned although a loop is about to send to it has set the
\* flag that the loop reads after its send.
HandoverConsistent ==
    /\ \A w \in Waiters : wpc[w] = "draining" => done[w]
    /\ \A d \in Loops :
          lpc[d] = "sending" /\ wpc[lwaiter[d]] = "idle" => done[lwaiter[d]]

\* AcceptStream, its cancellation, deliverIncomingStream, the expiry timers,
\* enterDrain and Close together keep queues, channels, buffers and the
\* streams in hand consistent.
RendezvousInv ==
    /\ TypeOK
    /\ QueuesConsistent
    /\ LoopsConsistent
    /\ HandoverConsistent
    /\ HoldersDistinct
    /\ OpenIsHeld
    /\ AbandonedChannelIsEmptied
    /\ NoWaiterBesideParked
    /\ DrainLeavesNothingParked

=============================================================================
