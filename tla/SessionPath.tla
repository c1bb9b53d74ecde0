---------------------------- MODULE SessionPath ----------------------------
(* The transport phase of a session: the backend and the client machine of *)
(* session_gen.go, driven through HandleEvent by an event loop that does   *)
(* what the returned commands say, over a relay that delivers and a direct *)
(* path that comes and goes.  The event loop is not in the repository: it  *)
(* is modelled from the commands and events the machines declare.  Both    *)
(* machines start in RelayConnected, as they do with a saved pairing.      *)
EXTENDS SessionMachine

CONSTANTS MaxPingFailures,  \* Health: consecutive failures before fallback
          MaxBackoffLevel,  \* Health: exponential backoff cap
          Pipes,            \* direct connections that may exist at once, numbered from 1
          MaxQueued,        \* bound on the candidates under way on the relay
          MaxFaults         \* bound on links that break and fallbacks the applications force

ASSUME SessionPathAssumption ==
  /\ MaxPingFailures \in Nat \ {0} /\ MaxBackoffLevel \in Nat
  /\ Pipes \subseteq Nat \ {0} /\ MaxQueued \in Nat \ {0} /\ MaxFaults \in Nat

VARIABLES backend, client, \* the machines
          bRuns, cRuns,  \* what their event loops have running
          bAlt, cAlt,    \* the direct connection each event loop holds, 0 for none
          relayed,       \* how many candidates messages are under way on the relay
          wire,          \* per pipe: the messages under way
          ends,          \* per pipe: the sides that have not closed it
          faults

vars == <<backend, client, bRuns, cRuns, bAlt, cAlt, relayed, wire, ends, faults>>

Init ==
  /\ backend = [NewBackend EXCEPT !.State = "RelayConnected"]
  /\ client = [NewClient EXCEPT !.State = "RelayConnected"]
  /\ bRuns = {} /\ cRuns = {}
  /\ bAlt = 0 /\ cAlt = 0
  /\ relayed = 0
  /\ wire = [p \in Pipes |-> {}]
  /\ ends = [p \in Pipes |-> {}]
  /\ faults = 0

---------------------------------------------------------------------------
(* The commands that start something, and those that end it.               *)
Starts ==
  [start_alt_stream_reader |-> "stream_reader", start_alt_dg_reader |-> "dg_reader",
   start_monitor |-> "monitor", start_pong_timeout |-> "pong_timer",
   start_backoff_timer |-> "backoff_timer", signal_alt_ready |-> "alt_ready",
   dial_candidate |-> "dialing"]

Stops ==
  [stop_alt_stream_reader |-> "stream_reader", stop_alt_dg_reader |-> "dg_reader",
   stop_monitor |-> "monitor", cancel_pong_timeout |-> "pong_timer",
   reset_alt_ready |-> "alt_ready"]

Running(runs, cmds) ==
  (runs \ {Stops[x] : x \in cmds \intersect DOMAIN Stops})
    \union {Starts[x] : x \in cmds \intersect DOMAIN Starts}

(* The message a command puts on the direct connection.                    *)
Sends ==
  [send_pair_check |-> "pair_check", send_pair_check_ack |-> "pair_check_ack",
   send_path_ping |-> "path_ping", send_path_pong |-> "path_pong"]

Sent(cmds) == {Sends[x] : x \in cmds \intersect DOMAIN Sends}

(* What one side's loop does to the pipe p, with got taken off the wire    *)
(* first.  A dial makes p; a closed or broken pipe carries nothing.        *)
OnPipe(side, p, got, cmds, opened) ==
  LET left == (IF opened THEN {"b", "c"} ELSE ends[p])
                \ (IF "close_alt_path" \in cmds THEN {side} ELSE {})
  IN  /\ ends' = IF p = 0 THEN ends ELSE [ends EXCEPT ![p] = left]
      /\ wire' = IF p = 0 THEN wire
                 ELSE [wire EXCEPT ![p] = IF left = {"b", "c"} THEN (@ \ got) \union Sent(cmds) ELSE {}]

(* One turn of the backend's event loop: the event on, taken off pipe p if *)
(* it is a message, and from the running timer or dial done if it ends one. *)
BackendTurn(on, p, got, done, q) ==
  \E h \in {Hooks(GuardsTrue(backend, q, MaxPingFailures), {}, FALSE)} :
  \E t \in {GoCase(BackendHandleEvent, backend, on, h)} :
    LET cmds == {t.emits[i] : i \in DOMAIN t.emits}
    IN  /\ backend' = writeGoTransitionBody(backend, t, h, MaxBackoffLevel)
        /\ bRuns' = Running(bRuns \ done, cmds)
        /\ relayed' = relayed + (IF "send_candidates" \in cmds THEN 1 ELSE 0)
        /\ relayed' <= MaxQueued
        /\ OnPipe("b", p, got, cmds, FALSE)
        /\ bAlt' = IF "close_alt_path" \in cmds THEN 0
                   ELSE IF "send_pair_check_ack" \in cmds THEN p ELSE bAlt
        /\ UNCHANGED <<client, cRuns, cAlt>>

(* The same for the client, which holds pipe p afterwards.                 *)
ClientTurn(on, p, got, done, q) ==
  \E h \in {Hooks(GuardsTrue(client, q, MaxPingFailures), {}, FALSE)} :
  \E t \in {GoCase(ClientHandleEvent, client, on, h)} :
    LET cmds == {t.emits[i] : i \in DOMAIN t.emits}
    IN  /\ client' = writeGoTransitionBody(client, t, h, MaxBackoffLevel)
        /\ cRuns' = Running(cRuns \ done, cmds)
        /\ OnPipe("c", p, got, cmds, "dialing" \in done /\ on = Internal("dial_ok"))
        /\ cAlt' = IF "close_alt_path" \in cmds THEN 0 ELSE p
        /\ UNCHANGED <<backend, bRuns, bAlt>>

Dead(p) == p # 0 /\ ends[p] # {"b", "c"}

---------------------------------------------------------------------------
(* The backend's events.                                                   *)
CandidatesGathered ==
  \E on \in {"candidates_gathered", "candidates_changed"} :
    BackendTurn(Internal(on), bAlt, {}, {}, TRUE) /\ UNCHANGED faults

CandidatesRefreshTick ==
  \E q \in BOOLEAN :
    BackendTurn(Internal("candidates_refresh_tick"), bAlt, {}, {}, q) /\ UNCHANGED faults

CandidatesTimeout ==
  /\ backend.State = "CandidatesAdvertised"
  /\ BackendTurn(Internal("candidates_timeout"), bAlt, {}, {}, TRUE)
  /\ UNCHANGED faults

BackoffExpired ==
  /\ "backoff_timer" \in bRuns
  /\ BackendTurn(Internal("backoff_expired"), bAlt, {}, {"backoff_timer"}, TRUE)
  /\ UNCHANGED faults

(* The ping interval is longer than the pong timeout.                      *)
PingTick ==
  /\ "monitor" \in bRuns
  /\ "pong_timer" \notin bRuns
  /\ BackendTurn(Internal("ping_tick"), bAlt, {}, {}, TRUE)
  /\ UNCHANGED faults

PongTimeout ==
  /\ "pong_timer" \in bRuns
  /\ BackendTurn(Internal("ping_timeout"), bAlt, {}, {"pong_timer"}, TRUE)
  /\ UNCHANGED faults

BackendReadError ==
  /\ "stream_reader" \in bRuns
  /\ Dead(bAlt)
  /\ BackendTurn(Internal("alt_stream_error"), bAlt, {}, {}, TRUE)
  /\ UNCHANGED faults

(* A pair check comes on a pipe that a client dialled, a pong only if the  *)
(* datagrams of the pipe are read.                                         *)
PairCheckArrives ==
  \E p \in Pipes :
    /\ "pair_check" \in wire[p]
    /\ BackendTurn(Recv("pair_check"), p, {"pair_check"}, {}, TRUE)
    /\ UNCHANGED faults

PathPongArrives ==
  /\ "dg_reader" \in bRuns
  /\ bAlt # 0
  /\ "path_pong" \in wire[bAlt]
  /\ BackendTurn(Recv("path_pong"), bAlt, {"path_pong"}, {}, TRUE)
  /\ UNCHANGED faults

---------------------------------------------------------------------------
(* The client's events.                                                    *)
CandidatesArrive ==
  /\ relayed > 0
  /\ relayed' = relayed - 1
  /\ \E q \in BOOLEAN : ClientTurn(Recv("candidates"), cAlt, {}, {}, q)
  /\ UNCHANGED faults

(* A dial succeeds: a new pipe, open at both ends, is the client's.        *)
DialOk ==
  \E p \in Pipes \ {bAlt, cAlt} :
    /\ "dialing" \in cRuns
    /\ wire[p] = {}
    /\ ClientTurn(Internal("dial_ok"), p, {}, {"dialing"}, TRUE)
    /\ UNCHANGED <<relayed, faults>>

DialFailed ==
  /\ "dialing" \in cRuns
  /\ ClientTurn(Internal("dial_failed"), cAlt, {}, {"dialing"}, TRUE)
  /\ UNCHANGED <<relayed, faults>>

VerifyTimeout ==
  /\ client.State = "PairChecking"
  /\ ClientTurn(Internal("verify_timeout"), cAlt, {}, {}, TRUE)
  /\ UNCHANGED <<relayed, faults>>

PairCheckAckArrives ==
  /\ cAlt # 0
  /\ "pair_check_ack" \in wire[cAlt]
  /\ ClientTurn(Recv("pair_check_ack"), cAlt, {"pair_check_ack"}, {}, TRUE)
  /\ UNCHANGED <<relayed, faults>>

PathPingArrives ==
  /\ "dg_reader" \in cRuns
  /\ cAlt # 0
  /\ "path_ping" \in wire[cAlt]
  /\ ClientTurn(Recv("path_ping"), cAlt, {"path_ping"}, {}, TRUE)
  /\ UNCHANGED <<relayed, faults>>

(* The reader of the stream, or that of the datagrams, sees the end.       *)
ClientReadError ==
  \E r \in {<<"stream_reader", "alt_stream_error">>, <<"dg_reader", "alt_error">>} :
    /\ r[1] \in cRuns
    /\ Dead(cAlt)
    /\ ClientTurn(Internal(r[2]), cAlt, {}, {}, TRUE)
    /\ UNCHANGED <<relayed, faults>>

RelayOk ==
  /\ client.State = "RelayFallback"
  /\ ClientTurn(Internal("relay_ok"), cAlt, {}, {}, TRUE)
  /\ UNCHANGED <<relayed, faults>>

---------------------------------------------------------------------------
(* What nobody can rely on: an application forces the relay or leaves, a   *)
(* link breaks, a datagram is lost.                                        *)
BackendApp ==
  /\ faults < MaxFaults
  /\ faults' = faults + 1
  /\ \E on \in {"app_force_fallback", "disconnect"} : BackendTurn(Internal(on), bAlt, {}, {}, TRUE)

ClientApp ==
  /\ faults < MaxFaults
  /\ faults' = faults + 1
  /\ \E on \in {"app_force_fallback", "disconnect"} : ClientTurn(Internal(on), cAlt, {}, {}, TRUE)
  /\ UNCHANGED relayed

LinkBreaks ==
  \E p \in Pipes :
    /\ faults < MaxFaults
    /\ faults' = faults + 1
    /\ ends[p] = {"b", "c"}
    /\ ends' = [ends EXCEPT ![p] = {}]
    /\ wire' = [wire EXCEPT ![p] = {}]
    /\ UNCHANGED <<backend, client, bRuns, cRuns, bAlt, cAlt, relayed>>

DatagramLost ==
  \E p \in Pipes, d \in {"path_ping", "path_pong"} :
    /\ d \in wire[p]
    /\ wire' = [wire EXCEPT ![p] = @ \ {d}]
    /\ UNCHANGED <<backend, client, bRuns, cRuns, bAlt, cAlt, relayed, ends, faults>>

---------------------------------------------------------------------------
Timers == PingTick \/ PongTimeout \/ BackoffExpired

Next ==
  \/ CandidatesGathered \/ CandidatesRefreshTick \/ CandidatesTimeout \/ Timers
  \/ BackendReadError \/ PairCheckArrives \/ PathPongArrives
  \/ CandidatesArrive \/ DialOk \/ DialFailed \/ VerifyTimeout \/ PairCheckAckArrives
  \/ PathPingArrives \/ ClientReadError \/ RelayOk
  \/ BackendApp \/ ClientApp \/ LinkBreaks \/ DatagramLost

(* A timer that runs expires, a reader sees the end of its pipe, a dial    *)
(* and a check end.                                                        *)
Fairness ==
  /\ WF_vars(PingTick) /\ WF_vars(PongTimeout) /\ WF_vars(BackoffExpired)
  /\ WF_vars(BackendReadError) /\ WF_vars(ClientReadError)
  /\ WF_vars(CandidatesArrive) /\ WF_vars(DialFailed) /\ WF_vars(VerifyTimeout) /\ WF_vars(RelayOk)

Spec == Init /\ [][Next]_vars

FairSpec == Spec /\ Fairness

---------------------------------------------------------------------------
AltRuns == {"stream_reader", "dg_reader", "alt_ready"}

(* The backend's machine and its event loop agree on the direct path: in   *)
(* AltActive and AltDegraded, and only there, the active path, the         *)
(* dispatcher and the monitor are on it, its connection is held, and its   *)
(* readers and its monitor run.  The backoff level is zero in AltActive    *)
(* and never passes one: nothing but a fallback raises it.                 *)
BackendPathHeld ==
  LET on == backend.State \in {"AltActive", "AltDegraded"}
  IN  /\ on <=> backend.BActivePath = "alt"
      /\ on <=> backend.BDispatcherPath = "alt"
      /\ on <=> backend.MonitorTarget = "alt"
      /\ on <=> backend.AltSignal = "ready"
      /\ on <=> bAlt # 0
      /\ \A r \in AltRuns \union {"monitor"} : on <=> r \in bRuns
      /\ backend.BackoffLevel <= 1
      /\ backend.State = "AltActive" => backend.BackoffLevel = 0

(* The client reads the direct path in AltActive and nowhere else, and it  *)
(* is there only on a connection the backend uses too or has closed, so    *)
(* that its reader will see the end: unlike the backend, the client is     *)
(* never left alone on an open connection.                                 *)
ClientNeverAlone ==
  LET on == client.State = "AltActive"
  IN  /\ on <=> "stream_reader" \in cRuns
      /\ on <=> "dg_reader" \in cRuns
      /\ on => client.CDispatcherPath = "alt" /\ cAlt # 0 /\ (bAlt = cAlt \/ Dead(cAlt))

(* With what follows the two are inductive: the levels of a backend on the *)
(* direct path, an acknowledgement under way only where the backend is, no *)
(* dial running once the client has a connection to check.                 *)
OnDirect == {"AltActive", "AltDegraded"}

PathTyped ==
  /\ DOMAIN backend = DOMAIN NewBackend /\ DOMAIN client = DOMAIN NewClient
  /\ backend.State \in BackendStates /\ client.State \in ClientStates
  /\ bAlt \in Pipes \union {0} /\ cAlt \in Pipes \union {0}
  /\ DOMAIN wire = Pipes /\ ends \in [Pipes -> SUBSET {"b", "c"}]

PathInv ==
  /\ PathTyped /\ BackendPathHeld /\ ClientNeverAlone
  /\ backend.State \in OnDirect => backend.BackoffLevel = 0
  /\ \A p \in Pipes : "pair_check_ack" \in wire[p] => bAlt = p
  /\ client.State \in {"PairChecking", "AltActive"} => "dialing" \notin cRuns

(* A backend alone on a direct path (the client gave up the check before   *)
(* the answer came, or took another connection) does not stay there.       *)
HalfOpenResolves ==
  [](backend.State \in {"AltActive", "AltDegraded"} /\ client.State # "AltActive"
       => <>(backend.State = "RelayBackoff" \/ client.State = "AltActive"))

(* The leads-to properties the protocol declares and the generator leaves  *)
(* out: a degraded path recovers or is given up, after a fallback the      *)
(* candidates are advertised again; and the client settles on a path.      *)
PathSettles ==
  /\ (backend.State = "AltDegraded") ~> (backend.State \in {"AltActive", "RelayBackoff"})
  /\ (backend.State = "RelayBackoff") ~> (backend.State = "CandidatesAdvertised")
  /\ (client.State \in {"PairDialing", "PairChecking", "RelayFallback"})
       ~> (client.State \in {"RelayConnected", "AltActive"})

(* docs/session-protocol.md: every transport state can send and receive;   *)
(* the path the client's machine names active is one its loop holds.       *)
ClientActivePathOpen == client.CActivePath = "alt" => cAlt # 0

(* docs/session-protocol.md: every resource start has a corresponding stop. *)
NoPongTimerOffPath ==
  "pong_timer" \in bRuns => backend.State \in {"AltActive", "AltDegraded"}
=============================================================================
