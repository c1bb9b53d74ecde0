------------------------- MODULE MachineExecutors -------------------------
(* Every state machine of the repository, run side by side by everything   *)
(* that can run it, on the same inputs:                                    *)
(*   interp  the interpreter of machine.go on the protocol's table, which  *)
(*           also says what a transition sends (sends);                    *)
(*   gen     the generated HandleMessage and Step;                         *)
(*   evt     the generated HandleEvent, which also returns commands (out); *)
(*   twin    HandleEvent of the copy generated into the package protocol.  *)
(* One behaviour is about one machine (which) of one embedder, who left    *)
(* the hooks in missing unregistered.                                      *)
EXTENDS SessionMachine, ProtocolSessionMachine, PathSwitchMachine, PairingMachine, ProtocolPairingMachine

CONSTANTS MaxPingFailures,  \* Health: consecutive failures before fallback
          MaxBackoffLevel,  \* Health: exponential backoff cap
          MaxAttempts       \* bound on CodeAttempts, which nothing bounds in the code

ASSUME ExecutorAssumption ==
  MaxPingFailures \in Nat /\ MaxBackoffLevel \in Nat /\ MaxAttempts \in Nat

VARIABLES which, missing, interp, gen, evt, twin, sends, out, twinOut

vars == <<which, missing, interp, gen, evt, twin, sends, out, twinOut>>

---------------------------------------------------------------------------
(* The two packages name the direct path differently. *)
LanNames ==
  [CandidatesAdvertised |-> "LANOffered", AltActive |-> "LANActive", AltDegraded |-> "LANDegraded",
   PairDialing |-> "LANConnecting", PairChecking |-> "LANVerifying", alt |-> "lan",
   candidates |-> "lan_offer", pair_check |-> "lan_verify", pair_check_ack |-> "lan_confirm",
   candidates_gathered |-> "lan_server_ready", candidates_changed |-> "lan_server_changed",
   candidates_refresh_tick |-> "readvertise_tick", candidates_timeout |-> "offer_timeout",
   dial_ok |-> "lan_dial_ok", dial_failed |-> "lan_dial_failed", pair_check_ok |-> "lan_verify_ok",
   alt_error |-> "lan_error", alt_stream_error |-> "lan_stream_error",
   alt_stream_data |-> "lan_stream_data", alt_datagram |-> "lan_datagram",
   alt_enabled |-> "lan_enabled", alt_disabled |-> "lan_disabled",
   local_candidates_available |-> "lan_server_available", dial_candidate |-> "dial_lan",
   send_candidates |-> "send_lan_offer", send_pair_check |-> "send_lan_verify",
   send_pair_check_ack |-> "send_lan_confirm", signal_alt_ready |-> "signal_lan_ready",
   reset_alt_ready |-> "reset_lan_ready", close_alt_path |-> "close_lan_path",
   start_alt_stream_reader |-> "start_lan_stream_reader", start_alt_dg_reader |-> "start_lan_dg_reader",
   stop_alt_stream_reader |-> "stop_lan_stream_reader", stop_alt_dg_reader |-> "stop_lan_dg_reader",
   AltSignal |-> "LanSignal"]

Lan(x) == IF x \in DOMAIN LanNames THEN LanNames[x] ELSE x

NamedFields == {"State", "BActivePath", "BDispatcherPath", "CActivePath", "CDispatcherPath", "MonitorTarget"}

(* The twin of a machine record holds the same values under its names. *)
SameUnderNames(m, t) ==
  /\ DOMAIN t = {Lan(x) : x \in DOMAIN m}
  /\ \A x \in DOMAIN m : t[Lan(x)] = IF x \in NamedFields THEN Lan(m[x]) ELSE m[x]

---------------------------------------------------------------------------
(* The machines, and the copy of each in another package (its own, where   *)
(* there is only one).                                                     *)
Machines ==
  [session_backend |-> Backend, session_client |-> Client, session_relay |-> Relay,
   lan_backend |-> LanBackend, lan_client |-> LanClient, lan_relay |-> LanRelay,
   path_backend |-> PathBackend, path_client |-> PathClient, path_relay |-> PathRelay,
   acceptor |-> PairingAcceptor, initiator |-> PairingInitiator,
   protocol_acceptor |-> ProtocolPairingAcceptor, protocol_initiator |-> ProtocolPairingInitiator]

Twin ==
  [w \in DOMAIN Machines |->
     CASE w = "session_backend" -> LanBackend
       [] w = "session_client"  -> LanClient
       [] w = "session_relay"   -> LanRelay
       [] w = "acceptor"        -> ProtocolPairingAcceptor
       [] w = "initiator"       -> ProtocolPairingInitiator
       [] OTHER -> Machines[w]]

---------------------------------------------------------------------------
(* The guards that hold of a machine record, whatever the package calls    *)
(* them; q is what the outside makes of the others.                        *)
GuardsHold(m, q) ==
  GuardsTrue(m, q, MaxPingFailures) \union LanGuardsTrue(m, q, MaxPingFailures)
    \union PathGuardsTrue(m, q, MaxPingFailures)

(* An embedder registers every hook, none (what a constructor returns), or *)
(* forgets one.                                                            *)
Init ==
  /\ which \in DOMAIN Machines
  /\ missing \in {{}, Machines[which].hooks} \union {{n} : n \in Machines[which].hooks}
  /\ gen = Machines[which].new
  /\ evt = gen
  /\ interp = gen.State
  /\ twin = Twin[which].new
  /\ sends = << >>
  /\ out = << >>
  /\ twinOut = << >>

(* The generated executors take the trigger on.                            *)
Generated(on, h) ==
  LET M  == Machines[which]
      th == Hooks(h.true, {Lan(x) : x \in h.absent}, h.fails)
      tn == <<on[1], Lan(on[2])>>
  IN  /\ gen' = GoDispatch(M.cases[gen.State], gen, on, h, MaxBackoffLevel)
      /\ evt' = GoDispatch(M.event[evt.State], evt, on, h, MaxBackoffLevel)
      /\ out' = GoCommands(M.event[evt.State], evt, on, h)
      /\ twin' = GoDispatch(Twin[which].event[twin.State], twin, tn, th, MaxBackoffLevel)
      /\ twinOut' = GoCommands(Twin[which].event[twin.State], twin, tn, th)
      /\ sends' = GoCommands(M.table[interp], [State |-> interp], on, h)
      /\ "CodeAttempts" \in DOMAIN gen => gen'.CodeAttempts <= MaxAttempts

(* A message or an event is handed to every executor; what the guards say  *)
(* and whether the action fails matters only where there is one.           *)
Input ==
  \E on \in Machines[which].on :
  \E q \in IF on \in Machines[which].guarded THEN BOOLEAN ELSE {TRUE} :
  \E fails \in IF on \in Machines[which].acting THEN BOOLEAN ELSE {FALSE} :
    LET h == Hooks(GuardsHold(gen, q), missing, fails)
    IN  /\ interp' = MachineDispatch(Machines[which].table[interp], interp, on, h)
        /\ Generated(on, h)
        /\ UNCHANGED <<which, missing>>

(* The interpreter is asked for any internal step, Step(""), which the     *)
(* generated code does not offer; the others are given the event it chose. *)
StepAny ==
  \E q, fails \in BOOLEAN :
    LET h == Hooks(GuardsHold(gen, q), missing, fails)
    IN  \E r \in MachineStepAny(Machines[which].table[interp], interp, h) :
          /\ interp' = r[2]
          /\ Generated(r[1], h)
          /\ UNCHANGED <<which, missing>>

Next == Input \/ StepAny

Spec == Init /\ [][Next]_vars

---------------------------------------------------------------------------
(* The command that asks the executor for a message of the table; the      *)
(* messages of pairing and authentication have none.                       *)
SendCommand ==
  [candidates |-> "send_candidates", pair_check |-> "send_pair_check",
   pair_check_ack |-> "send_pair_check_ack", lan_offer |-> "send_lan_offer",
   lan_verify |-> "send_lan_verify", lan_confirm |-> "send_lan_confirm",
   path_ping |-> "send_path_ping", path_pong |-> "send_path_pong"]

SendCommands == {SendCommand[x] : x \in DOMAIN SendCommand}

(* Every executor of a machine does the same thing with the same inputs:   *)
(* HandleMessage and Step leave the record HandleEvent leaves, with all    *)
(* hooks registered the interpreter of the table is in the same state, and *)
(* the session machines' HandleEvent returns a send command for exactly    *)
(* the path messages that the table's transition sends.                    *)
ExecutorsAgree ==
  /\ gen = evt
  /\ missing = {} =>
       /\ interp = gen.State
       /\ which \in {"session_backend", "session_client", "lan_backend", "lan_client"} =>
            {out[i] : i \in DOMAIN out} \intersect SendCommands
              = {SendCommand[sends[i]] : i \in {j \in DOMAIN sends : sends[j] \in DOMAIN SendCommand}}

(* The copies of a machine generated into two packages stay in step: the   *)
(* same fields with the same values, and the same commands, up to the      *)
(* names the packages give to the direct path.                             *)
TwinsAgree ==
  /\ SameUnderNames(evt, twin)
  /\ twinOut = [i \in DOMAIN out |-> Lan(out[i])]
=============================================================================
