---------------------------- MODULE ListenerPool ----------------------------
(***************************************************************************)
(* The backend's Listener (api.go): acceptWorker goroutines that each dial *)
(* a listen connection, wait for a client to be bridged onto it, activate  *)
(* it and queue the Session for Accept; and Close, which runs beside them. *)
(*                                                                         *)
(* A step is the code between two points at which another goroutine is     *)
(* seen: the mutex, the accepted channel, a context, the network.  A       *)
(* Session is named by its connection; a connection name is used again     *)
(* once nobody holds the earlier connection.                               *)
(***************************************************************************)
EXTENDS Naturals, Sequences

CONSTANTS Workers,      \* acceptWorker goroutines, listenPoolSize of them
          ListenConns,  \* listen connections
          QueueCap,     \* capacity of the accepted channel
          Failure,      \* an acceptResult that carries an error
          NoConn        \* the nil connection

ASSUME ListenerAssumption ==
    /\ QueueCap \in Nat \ {0}
    /\ NoConn \notin ListenConns
    /\ Failure \notin ListenConns \cup {NoConn}

VARIABLES
    ctxDone,   \* the listener's context is done
    closing,   \* how far Close has got
    control,   \* the control connection is up
    parked,    \* Listener.parked (nil, here {}, once closing = "closed")
    open,      \* open[t]: connection t is up
    bridged,   \* bridged[t]: the relay has matched a client to t
    live,      \* live[t]: the context of t's Session is not done
    wpc,       \* wpc[w]: where worker w is
    wconn,     \* wconn[w]: the connection worker w holds
    accepted,  \* the accepted channel
    app        \* Sessions that Accept returned and the application holds

poolVars == <<ctxDone, closing, control, parked, open, bridged, live,
              wpc, wconn, accepted, app>>

PoolTypeOK ==
    /\ ctxDone \in BOOLEAN
    /\ closing \in {"no", "cancelled", "sweeping", "closed"}
    /\ control \in BOOLEAN
    /\ parked \subseteq ListenConns
    /\ open \in [ListenConns -> BOOLEAN]
    /\ bridged \in [ListenConns -> BOOLEAN]
    /\ live \in [ListenConns -> BOOLEAN]
    /\ wpc \in [Workers -> {"top", "dialing", "backoff", "tracking", "activating",
                            "built", "offering", "failing", "reporting", "exited"}]
    /\ wconn \in [Workers -> ListenConns \cup {NoConn}]
    /\ accepted \in Seq(ListenConns \cup {Failure})
    /\ app \subseteq ListenConns

\* Register has dialled the control connection and started the workers.
PoolInit ==
    /\ ctxDone = FALSE
    /\ closing = "no"
    /\ control = TRUE
    /\ parked = {}
    /\ open = [t \in ListenConns |-> FALSE]
    /\ bridged = [t \in ListenConns |-> FALSE]
    /\ live = [t \in ListenConns |-> FALSE]
    /\ wpc = [w \in Workers |-> "top"]
    /\ wconn = [w \in Workers |-> NoConn]
    /\ accepted = <<>>
    /\ app = {}

Queued(t) == \E i \in DOMAIN accepted : accepted[i] = t

Held(t) == Queued(t) \/ t \in app \/ \E w \in Workers : wconn[w] = t

Goto(w, l) == wpc' = [wpc EXCEPT ![w] = l]

-----------------------------------------------------------------------------
(* The relay and the network.                                              *)

\* The relay matches a client to a parked listen connection.
ClientArrives(t) ==
    /\ open[t] /\ Held(t) /\ ~bridged[t]
    /\ bridged' = [bridged EXCEPT ![t] = TRUE]
    /\ UNCHANGED <<ctxDone, closing, control, parked, open, live, wpc, wconn, accepted, app>>

\* Once the control connection is gone the relay closes the listens that it
\* has not matched (RelayHub, DeadInstanceReleasesWaiters).
RelayDrops(t) ==
    /\ ~control
    /\ open[t] /\ ~bridged[t]
    /\ open' = [open EXCEPT ![t] = FALSE]
    /\ UNCHANGED <<ctxDone, closing, control, parked, bridged, live, wpc, wconn, accepted, app>>

\* A listen connection is lost, or its client leaves.
ConnLost(t) ==
    /\ open[t]
    /\ open' = [open EXCEPT ![t] = FALSE]
    /\ UNCHANGED <<ctxDone, closing, control, parked, bridged, live, wpc, wconn, accepted, app>>

\* The control connection is lost; the Listener does not watch it.
ControlLost ==
    /\ control
    /\ control' = FALSE
    /\ UNCHANGED <<ctxDone, closing, parked, open, bridged, live, wpc, wconn, accepted, app>>

-----------------------------------------------------------------------------
(* acceptWorker.                                                           *)

\* The loop condition.
NextListen(w) ==
    /\ wpc[w] = "top"
    /\ Goto(w, IF ctxDone THEN "exited" ELSE "dialing")
    /\ UNCHANGED <<ctxDone, closing, control, parked, open, bridged, live, wconn, accepted, app>>

\* dialListen reads the relay's ack without the context, so it may succeed
\* after the context is done.
DialListen(w, t) ==
    /\ wpc[w] = "dialing"
    /\ ~Held(t)
    /\ wconn' = [wconn EXCEPT ![w] = t]
    /\ open' = [open EXCEPT ![t] = TRUE]
    /\ bridged' = [bridged EXCEPT ![t] = FALSE]
    /\ live' = [live EXCEPT ![t] = FALSE]
    /\ Goto(w, "tracking")
    /\ UNCHANGED <<ctxDone, closing, control, parked, accepted, app>>

DialFails(w) ==
    /\ wpc[w] = "dialing"
    /\ Goto(w, IF ctxDone THEN "exited" ELSE "backoff")
    /\ UNCHANGED <<ctxDone, closing, control, parked, open, bridged, live, wconn, accepted, app>>

\* The select between the retry timer and the context.
Backoff(w) ==
    /\ wpc[w] = "backoff"
    /\ Goto(w, "top") \/ (ctxDone /\ Goto(w, "exited"))
    /\ UNCHANGED <<ctxDone, closing, control, parked, open, bridged, live, wconn, accepted, app>>

\* trackListen, unless Close has emptied the map for good.
TrackListen(w) ==
    /\ wpc[w] = "tracking"
    /\ parked' = IF closing = "closed" THEN parked ELSE parked \cup {wconn[w]}
    /\ Goto(w, "activating")
    /\ UNCHANGED <<ctxDone, closing, control, open, bridged, live, wconn, accepted, app>>

\* The bridged client's handshake succeeds; the Session's context is a child
\* of the listener's.
ActivateSucceeds(w) ==
    /\ wpc[w] = "activating"
    /\ open[wconn[w]] /\ bridged[wconn[w]]
    /\ live' = [live EXCEPT ![wconn[w]] = ~ctxDone]
    /\ Goto(w, "built")
    /\ UNCHANGED <<ctxDone, closing, control, parked, open, bridged, wconn, accepted, app>>

\* The connection ended under the handshake, whoever closed it.
ActivationCut(w) ==
    /\ wpc[w] = "activating"
    /\ ~open[wconn[w]]
    /\ Goto(w, "failing")
    /\ UNCHANGED <<ctxDone, closing, control, parked, open, bridged, live, wconn, accepted, app>>

\* The bridged client was refused.
ClientRefused(w) ==
    /\ wpc[w] = "activating"
    /\ open[wconn[w]] /\ bridged[wconn[w]]
    /\ Goto(w, "failing")
    /\ UNCHANGED <<ctxDone, closing, control, parked, open, bridged, live, wconn, accepted, app>>

\* untrackListen and Close of the connection whose activation failed.
DropListen(w) ==
    /\ wpc[w] = "failing"
    /\ parked' = parked \ {wconn[w]}
    /\ open' = [open EXCEPT ![wconn[w]] = FALSE]
    /\ wconn' = [wconn EXCEPT ![w] = NoConn]
    /\ Goto(w, IF ctxDone THEN "exited" ELSE "reporting")
    /\ UNCHANGED <<ctxDone, closing, control, bridged, live, accepted, app>>

\* The select between the accepted channel and the context, with the error.
ReportFailure(w) ==
    /\ wpc[w] = "reporting"
    /\ \/ /\ Len(accepted) < QueueCap
          /\ accepted' = Append(accepted, Failure)
          /\ Goto(w, "top")
       \/ ctxDone /\ Goto(w, "exited") /\ UNCHANGED accepted
    /\ UNCHANGED <<ctxDone, closing, control, parked, open, bridged, live, wconn, app>>

\* untrackListen: the Session owns the connection from here.
UntrackListen(w) ==
    /\ wpc[w] = "built"
    /\ parked' = parked \ {wconn[w]}
    /\ Goto(w, "offering")
    /\ UNCHANGED <<ctxDone, closing, control, open, bridged, live, wconn, accepted, app>>

\* The select between the accepted channel and the context, with the Session:
\* it is queued, ...
OfferSession(w) ==
    /\ wpc[w] = "offering"
    /\ Len(accepted) < QueueCap
    /\ accepted' = Append(accepted, wconn[w])
    /\ wconn' = [wconn EXCEPT ![w] = NoConn]
    /\ Goto(w, "top")
    /\ UNCHANGED <<ctxDone, closing, control, parked, open, bridged, live, app>>

\* Mutant: the worker returns without closing the Session.
WithdrawSession_LeavesOpen(w) ==
    /\ wpc[w] = "offering"
    /\ ctxDone
    /\ wconn' = [wconn EXCEPT ![w] = NoConn]
    /\ Goto(w, "exited")
    /\ UNCHANGED <<ctxDone, closing, control, parked, open, bridged, live, accepted, app>>

\* ... or it is closed and the worker returns.
WithdrawSession(w) ==
    /\ wpc[w] = "offering"
    /\ ctxDone
    /\ live' = [live EXCEPT ![wconn[w]] = FALSE]
    /\ open' = [open EXCEPT ![wconn[w]] = FALSE]
    /\ wconn' = [wconn EXCEPT ![w] = NoConn]
    /\ Goto(w, "exited")
    /\ UNCHANGED <<ctxDone, closing, control, parked, bridged, accepted, app>>

-----------------------------------------------------------------------------
(* The application.                                                        *)

\* Accept takes the channel's arm of its select; the other arms return an
\* error and change nothing.
Accept ==
    /\ accepted # <<>>
    /\ accepted' = Tail(accepted)
    /\ app' = IF Head(accepted) = Failure THEN app ELSE app \cup {Head(accepted)}
    /\ UNCHANGED <<ctxDone, closing, control, parked, open, bridged, live, wpc, wconn>>

\* Session.Close, after which the application lets go of the Session.
CloseSession(t) ==
    /\ t \in app
    /\ live' = [live EXCEPT ![t] = FALSE]
    /\ open' = [open EXCEPT ![t] = FALSE]
    /\ app' = app \ {t}
    /\ UNCHANGED <<ctxDone, closing, control, parked, bridged, wpc, wconn, accepted>>

\* The context given to Register is done.
ParentDone ==
    /\ ~ctxDone
    /\ ctxDone' = TRUE
    /\ live' = [t \in ListenConns |-> FALSE]
    /\ UNCHANGED <<closing, control, parked, open, bridged, wpc, wconn, accepted, app>>

\* Listener.Close: cancel, ...
CloseCancels ==
    /\ closing = "no"
    /\ closing' = "cancelled"
    /\ ctxDone' = TRUE
    /\ live' = [t \in ListenConns |-> FALSE]
    /\ UNCHANGED <<control, parked, open, bridged, wpc, wconn, accepted, app>>

\* Mutant: Close leaves the control connection up.
CloseControl_Skipped ==
    /\ closing = "cancelled"
    /\ closing' = "sweeping"
    /\ UNCHANGED <<ctxDone, control, parked, open, bridged, live, wpc, wconn, accepted, app>>

\* ... close the control connection, ...
CloseControl ==
    /\ closing = "cancelled"
    /\ closing' = "sweeping"
    /\ control' = FALSE
    /\ UNCHANGED <<ctxDone, parked, open, bridged, live, wpc, wconn, accepted, app>>

\* Mutant: Close forgets the parked connections without closing them.
CloseSweeps_Forgets ==
    /\ closing = "sweeping"
    /\ closing' = "closed"
    /\ parked' = {}
    /\ UNCHANGED <<ctxDone, control, open, bridged, live, wpc, wconn, accepted, app>>

\* ... and, under the mutex, close every parked connection.
CloseSweeps ==
    /\ closing = "sweeping"
    /\ closing' = "closed"
    /\ open' = [t \in ListenConns |-> open[t] /\ t \notin parked]
    /\ parked' = {}
    /\ UNCHANGED <<ctxDone, control, bridged, live, wpc, wconn, accepted, app>>

-----------------------------------------------------------------------------

\* What a worker does without waiting for a client.
WorkerStep(w) ==
    \/ NextListen(w) \/ DialFails(w) \/ (\E t \in ListenConns : DialListen(w, t))
    \/ Backoff(w) \/ TrackListen(w) \/ ActivationCut(w) \/ DropListen(w)
    \/ ReportFailure(w) \/ UntrackListen(w) \/ OfferSession(w) \/ WithdrawSession(w)

CloseStep == CloseControl \/ CloseSweeps

PoolNext ==
    \/ \E t \in ListenConns : ClientArrives(t) \/ RelayDrops(t) \/ ConnLost(t) \/ CloseSession(t)
    \/ \E w \in Workers : WorkerStep(w) \/ ActivateSucceeds(w) \/ ClientRefused(w)
    \/ ControlLost \/ Accept \/ ParentDone \/ CloseCancels \/ CloseStep

PoolSpec == PoolInit /\ [][PoolNext]_poolVars

\* Workers run on past everything but a silent client: a dial ends, timers
\* fire, a select with a ready arm is taken.  The relay closes the listens of
\* an instance that has gone, and Close runs to its end.  Nothing makes a
\* client arrive or finish its handshake, or the application call Accept.
PoolFairness ==
    /\ \A w \in Workers : WF_poolVars(WorkerStep(w))
    /\ \A t \in ListenConns : WF_poolVars(RelayDrops(t))
    /\ WF_poolVars(CloseStep)

PoolFairSpec == PoolSpec /\ PoolFairness

-----------------------------------------------------------------------------
(* Properties.                                                             *)

\* A listen connection or its Session is never in two places, and one that
\* is open is in one: with the worker that dialled it, in the accepted
\* channel, or with the application.  Each error return of acceptWorker
\* closes what the worker holds.
OpenConnHasOneHolder ==
    /\ \A t \in ListenConns : open[t] => Held(t)
    /\ \A v, w \in Workers : wconn[v] # NoConn /\ wconn[v] = wconn[w] => v = w
    /\ \A w \in Workers : wconn[w] \notin app /\ ~Queued(wconn[w])
    /\ \A i, j \in DOMAIN accepted :
          accepted[i] = accepted[j] /\ accepted[i] # Failure => i = j
    /\ \A i \in DOMAIN accepted : accepted[i] \notin app

\* Listener.Close closes only connections that are not yet a Session that
\* was offered to Accept: parked holds nothing that was queued or returned
\* (trackListen and untrackListen around activate).
SweepSparesSessions ==
    \A t \in parked : \E w \in Workers :
        wconn[w] = t /\ wpc[w] \in {"activating", "built", "failing"}

\* A worker holds a connection exactly while it tracks, activates or offers
\* it.  Close's steps leave their mark: the context is done, with it the
\* context of every Session, then the control connection is down, then parked
\* stays empty although late workers still call trackListen.
WorkersConsistent ==
    \A w \in Workers :
        wconn[w] # NoConn <=>
            wpc[w] \in {"tracking", "activating", "built", "offering", "failing"}

ClosedForGood ==
    /\ closing # "no" => ctxDone
    /\ ctxDone => \A t \in ListenConns : ~live[t]
    /\ closing \in {"sweeping", "closed"} => ~control
    /\ closing = "closed" => parked = {}

\* The workers, Accept, the application's Session.Close and Listener.Close
\* agree on who holds which connection, however they interleave.
ListenerInv ==
    /\ PoolTypeOK
    /\ WorkersConsistent
    /\ OpenConnHasOneHolder
    /\ SweepSparesSessions
    /\ ClosedForGood

\* After Close every idle listen connection goes away: one that was tracked
\* is swept, one that was dialled too late is dropped by the relay, which has
\* lost the control connection.
IdleListensTornDown ==
    \A t \in ListenConns :
        (closing = "closed" /\ open[t] /\ ~bridged[t]) ~> (~open[t] \/ bridged[t])

\* Close ends every worker, also one whose client is bridged and silent,
\* except a worker that is then still dialling: its connection comes too late
\* for the sweep, and it may serve a client that the relay matched to it.
CloseEndsWorkers ==
    \A w \in Workers :
        (closing = "sweeping" /\ wpc[w] \notin {"dialing", "tracking"}) ~> wpc[w] = "exited"

\* Sessions that Accept has returned are not affected by Listener.Close.
AcceptedSessionUnaffected ==
    [][\A t \in app : live[t] /\ closing' # closing => live'[t]]_poolVars

=============================================================================
