------------------------ MODULE PathSwitchMachine ------------------------
(* The path-switching protocol of protocol/pathswitch_gen.go: the machine  *)
(* that the session protocol grew from, with the relay's re-bridging.  The *)
(* table and the three dispatchers are transcribed one by one.             *)
EXTENDS ProtocolMachine

PathBackendStates == {
  "RelayConnected", "LANOffered", "LANActive", "RelayBackoff", "LANDegraded" }

PathClientStates == {
  "RelayConnected", "LANConnecting", "LANVerifying", "LANActive", "RelayFallback" }

PathRelayStates == {
  "Idle", "BackendRegistered", "Bridged" }

PathMsgs == {
  "lan_offer", "lan_verify", "lan_confirm", "path_ping", "path_pong", "relay_resume",
  "relay_resumed" }

PathGuards == {
  "challenge_valid", "challenge_invalid", "lan_enabled", "lan_disabled",
  "lan_server_available", "under_max_failures", "at_max_failures" }

PathActions == {
  "activate_lan", "bridge_streams", "dial_lan", "fallback_to_relay", "rebridge_streams",
  "reset_failures", "unbridge" }

(* The internal events; recv_<message> is Recv(<message>).  *)
PathEvents == {
  "backend_disconnect", "backend_register", "backoff_expired", "client_connect",
  "client_disconnect", "lan_dial_failed", "lan_dial_ok", "lan_error", "lan_server_changed",
  "lan_server_ready", "offer_timeout", "ping_tick", "ping_timeout", "readvertise_tick",
  "relay_ok", "verify_timeout" }

(* The table's guard expressions, as in SessionMachine.                    *)
PathGuardsTrue(m, q, MaxPingFailures) ==
  (IF q THEN {"challenge_valid", "lan_enabled", "lan_server_available"}
        ELSE {"challenge_invalid", "lan_disabled"})
  \union (IF "PingFailures" \notin DOMAIN m THEN {}
          ELSE IF m.PingFailures + 1 < MaxPingFailures THEN {"under_max_failures"}
          ELSE {"at_max_failures"})

PathBackendActivated == [
  ActivePath |-> Lit("lan"), BackoffLevel |-> Lit(0), DispatcherPath |-> Lit("lan"),
  LanSignal |-> Lit("ready"), MonitorTarget |-> Lit("lan"), PingFailures |-> Lit(0) ]

PathBackendFellBack == [
  ActivePath |-> Lit("relay"), BackoffLevel |-> Capped, DispatcherPath |-> Lit("relay"),
  LanSignal |-> Lit("pending"), MonitorTarget |-> Lit("none"), PingFailures |-> Lit(0) ]

---------------------------------------------------------------------------
(* The backend: its rows of the table, its constructor, and its          *)
(* three generated dispatchers.                                          *)
PathBackendTable == <<
  Emit("RelayConnected", Internal("lan_server_ready"), <<"lan_offer">>, "LANOffered"),
  Row("LANOffered", Recv("lan_verify"), "challenge_valid", "activate_lan", PathBackendActivated,
      <<"lan_confirm">>, "LANActive"),
  Row("LANOffered", Recv("lan_verify"), "challenge_invalid", "", NoUpd, <<>>, "RelayConnected"),
  Row("LANOffered", Internal("offer_timeout"), "", "", [BackoffLevel |-> Capped], <<>>, "RelayBackoff"),
  Emit("LANActive", Internal("ping_tick"), <<"path_ping">>, "LANActive"),
  Row("LANActive", Internal("ping_timeout"), "", "", [PingFailures |-> Lit(1)], <<>>, "LANDegraded"),
  Emit("LANDegraded", Internal("ping_tick"), <<"path_ping">>, "LANDegraded"),
  Row("LANDegraded", Recv("path_pong"), "", "reset_failures", [PingFailures |-> Lit(0)], <<>>, "LANActive"),
  Row("LANDegraded", Internal("ping_timeout"), "under_max_failures", "", [PingFailures |-> Inc], <<>>,
      "LANDegraded"),
  Row("LANDegraded", Internal("ping_timeout"), "at_max_failures", "fallback_to_relay", PathBackendFellBack, <<>>,
      "RelayBackoff"),
  Emit("RelayBackoff", Internal("backoff_expired"), <<"lan_offer">>, "LANOffered"),
  Row("RelayBackoff", Internal("lan_server_changed"), "", "", [BackoffLevel |-> Lit(0)], <<"lan_offer">>,
      "LANOffered"),
  Row("RelayConnected", Internal("readvertise_tick"), "lan_server_available", "", NoUpd, <<"lan_offer">>,
      "LANOffered") >>

PathNewBackend == [
  State |-> "RelayConnected", PingFailures |-> 0, BackoffLevel |-> 0, ActivePath |-> "relay",
  DispatcherPath |-> "relay", MonitorTarget |-> "none", LanSignal |-> "pending" ]

PathBackendHandleMessage == <<
  Row("LANOffered", Recv("lan_verify"), "challenge_valid", "activate_lan", PathBackendActivated, <<>>,
      "LANActive"),
  Row("LANOffered", Recv("lan_verify"), "challenge_invalid", "", NoUpd, <<>>, "RelayConnected"),
  Row("LANDegraded", Recv("path_pong"), "", "reset_failures", [PingFailures |-> Lit(0)], <<>>, "LANActive") >>

PathBackendStep == <<
  Plain("RelayConnected", Internal("lan_server_ready"), "LANOffered"),
  Row("LANOffered", Internal("offer_timeout"), "", "", [BackoffLevel |-> Capped], <<>>, "RelayBackoff"),
  Plain("LANActive", Internal("ping_tick"), "LANActive"),
  Row("LANActive", Internal("ping_timeout"), "", "", [PingFailures |-> Lit(1)], <<>>, "LANDegraded"),
  Plain("LANDegraded", Internal("ping_tick"), "LANDegraded"),
  Row("LANDegraded", Internal("ping_timeout"), "under_max_failures", "", [PingFailures |-> Inc], <<>>,
      "LANDegraded"),
  Row("LANDegraded", Internal("ping_timeout"), "at_max_failures", "fallback_to_relay", PathBackendFellBack, <<>>,
      "RelayBackoff"),
  Plain("RelayBackoff", Internal("backoff_expired"), "LANOffered"),
  Row("RelayBackoff", Internal("lan_server_changed"), "", "", [BackoffLevel |-> Lit(0)], <<>>, "LANOffered"),
  Row("RelayConnected", Internal("readvertise_tick"), "lan_server_available", "", NoUpd, <<>>, "LANOffered") >>

PathBackendHandleEvent == <<
  Plain("RelayConnected", Internal("lan_server_ready"), "LANOffered"),
  Row("LANOffered", Recv("lan_verify"), "challenge_valid", "activate_lan", PathBackendActivated, <<>>,
      "LANActive"),
  Row("LANOffered", Recv("lan_verify"), "challenge_invalid", "", NoUpd, <<>>, "RelayConnected"),
  Row("LANOffered", Internal("offer_timeout"), "", "", [BackoffLevel |-> Capped], <<>>, "RelayBackoff"),
  Plain("LANActive", Internal("ping_tick"), "LANActive"),
  Row("LANActive", Internal("ping_timeout"), "", "", [PingFailures |-> Lit(1)], <<>>, "LANDegraded"),
  Plain("LANDegraded", Internal("ping_tick"), "LANDegraded"),
  Row("LANDegraded", Recv("path_pong"), "", "reset_failures", [PingFailures |-> Lit(0)], <<>>, "LANActive"),
  Row("LANDegraded", Internal("ping_timeout"), "under_max_failures", "", [PingFailures |-> Inc], <<>>,
      "LANDegraded"),
  Row("LANDegraded", Internal("ping_timeout"), "at_max_failures", "fallback_to_relay", PathBackendFellBack, <<>>,
      "RelayBackoff"),
  Plain("RelayBackoff", Internal("backoff_expired"), "LANOffered"),
  Row("RelayBackoff", Internal("lan_server_changed"), "", "", [BackoffLevel |-> Lit(0)], <<>>, "LANOffered"),
  Row("RelayConnected", Internal("readvertise_tick"), "lan_server_available", "", NoUpd, <<>>, "LANOffered") >>

PathBackend ==
  Machine(PathBackendTable, PathBackendHandleMessage, PathBackendStep, PathBackendHandleEvent, PathBackendStates, PathNewBackend, PathMsgs, PathEvents)

---------------------------------------------------------------------------
(* The client: its rows of the table, its constructor, and its           *)
(* three generated dispatchers.                                          *)
PathClientTable == <<
  Row("RelayConnected", Recv("lan_offer"), "lan_enabled", "dial_lan", NoUpd, <<>>, "LANConnecting"),
  Row("RelayConnected", Recv("lan_offer"), "lan_disabled", "", NoUpd, <<>>, "RelayConnected"),
  Emit("LANConnecting", Internal("lan_dial_ok"), <<"lan_verify">>, "LANVerifying"),
  Plain("LANConnecting", Internal("lan_dial_failed"), "RelayConnected"),
  Row("LANVerifying", Recv("lan_confirm"), "", "activate_lan", [ActivePath |-> Lit("lan"),
      DispatcherPath |-> Lit("lan"), LanSignal |-> Lit("ready")], <<>>, "LANActive"),
  Row("LANVerifying", Internal("verify_timeout"), "", "", [DispatcherPath |-> Lit("relay")], <<>>,
      "RelayConnected"),
  Emit("LANActive", Recv("path_ping"), <<"path_pong">>, "LANActive"),
  Row("LANActive", Internal("lan_error"), "", "fallback_to_relay", [ActivePath |-> Lit("relay"),
      DispatcherPath |-> Lit("relay"), LanSignal |-> Lit("pending")], <<>>, "RelayFallback"),
  Plain("RelayFallback", Internal("relay_ok"), "RelayConnected"),
  Row("LANActive", Recv("lan_offer"), "lan_enabled", "dial_lan", NoUpd, <<>>, "LANConnecting") >>

PathNewClient == [
  State |-> "RelayConnected", ActivePath |-> "relay", DispatcherPath |-> "relay",
  LanSignal |-> "pending" ]

PathClientHandleMessage == <<
  Row("RelayConnected", Recv("lan_offer"), "lan_enabled", "dial_lan", NoUpd, <<>>, "LANConnecting"),
  Row("RelayConnected", Recv("lan_offer"), "lan_disabled", "", NoUpd, <<>>, "RelayConnected"),
  Row("LANVerifying", Recv("lan_confirm"), "", "activate_lan", [ActivePath |-> Lit("lan"),
      DispatcherPath |-> Lit("lan"), LanSignal |-> Lit("ready")], <<>>, "LANActive"),
  Plain("LANActive", Recv("path_ping"), "LANActive"),
  Row("LANActive", Recv("lan_offer"), "lan_enabled", "dial_lan", NoUpd, <<>>, "LANConnecting") >>

PathClientStep == <<
  Plain("LANConnecting", Internal("lan_dial_ok"), "LANVerifying"),
  Plain("LANConnecting", Internal("lan_dial_failed"), "RelayConnected"),
  Row("LANVerifying", Internal("verify_timeout"), "", "", [DispatcherPath |-> Lit("relay")], <<>>,
      "RelayConnected"),
  Row("LANActive", Internal("lan_error"), "", "fallback_to_relay", [ActivePath |-> Lit("relay"),
      DispatcherPath |-> Lit("relay"), LanSignal |-> Lit("pending")], <<>>, "RelayFallback"),
  Plain("RelayFallback", Internal("relay_ok"), "RelayConnected") >>

PathClientHandleEvent == <<
  Row("RelayConnected", Recv("lan_offer"), "lan_enabled", "dial_lan", NoUpd, <<>>, "LANConnecting"),
  Row("RelayConnected", Recv("lan_offer"), "lan_disabled", "", NoUpd, <<>>, "RelayConnected"),
  Plain("LANConnecting", Internal("lan_dial_ok"), "LANVerifying"),
  Plain("LANConnecting", Internal("lan_dial_failed"), "RelayConnected"),
  Row("LANVerifying", Recv("lan_confirm"), "", "activate_lan", [ActivePath |-> Lit("lan"),
      DispatcherPath |-> Lit("lan"), LanSignal |-> Lit("ready")], <<>>, "LANActive"),
  Row("LANVerifying", Internal("verify_timeout"), "", "", [DispatcherPath |-> Lit("relay")], <<>>,
      "RelayConnected"),
  Plain("LANActive", Recv("path_ping"), "LANActive"),
  Row("LANActive", Internal("lan_error"), "", "fallback_to_relay", [ActivePath |-> Lit("relay"),
      DispatcherPath |-> Lit("relay"), LanSignal |-> Lit("pending")], <<>>, "RelayFallback"),
  Plain("RelayFallback", Internal("relay_ok"), "RelayConnected"),
  Row("LANActive", Recv("lan_offer"), "lan_enabled", "dial_lan", NoUpd, <<>>, "LANConnecting") >>

PathClient ==
  Machine(PathClientTable, PathClientHandleMessage, PathClientStep, PathClientHandleEvent, PathClientStates, PathNewClient, PathMsgs, PathEvents)

---------------------------------------------------------------------------
(* The relay: its rows of the table, its constructor, and its            *)
(* three generated dispatchers.                                          *)
PathRelayTable == <<
  Plain("Idle", Internal("backend_register"), "BackendRegistered"),
  Row("BackendRegistered", Internal("client_connect"), "", "bridge_streams", [RelayBridge |-> Lit("active")],
      <<>>, "Bridged"),
  Row("Bridged", Internal("client_disconnect"), "", "unbridge", [RelayBridge |-> Lit("idle")], <<>>,
      "BackendRegistered"),
  Row("Bridged", Recv("relay_resume"), "", "rebridge_streams", NoUpd, <<"relay_resumed">>, "Bridged"),
  Plain("BackendRegistered", Internal("backend_disconnect"), "Idle") >>

PathNewRelay == [
  State |-> "Idle", RelayBridge |-> "idle" ]

PathRelayHandleMessage == <<
  Row("Bridged", Recv("relay_resume"), "", "rebridge_streams", NoUpd, <<>>, "Bridged") >>

PathRelayStep == <<
  Plain("Idle", Internal("backend_register"), "BackendRegistered"),
  Row("BackendRegistered", Internal("client_connect"), "", "bridge_streams", [RelayBridge |-> Lit("active")],
      <<>>, "Bridged"),
  Row("Bridged", Internal("client_disconnect"), "", "unbridge", [RelayBridge |-> Lit("idle")], <<>>,
      "BackendRegistered"),
  Plain("BackendRegistered", Internal("backend_disconnect"), "Idle") >>

PathRelayHandleEvent == <<
  Plain("Idle", Internal("backend_register"), "BackendRegistered"),
  Row("BackendRegistered", Internal("client_connect"), "", "bridge_streams", [RelayBridge |-> Lit("active")],
      <<>>, "Bridged"),
  Row("Bridged", Internal("client_disconnect"), "", "unbridge", [RelayBridge |-> Lit("idle")], <<>>,
      "BackendRegistered"),
  Row("Bridged", Recv("relay_resume"), "", "rebridge_streams", NoUpd, <<>>, "Bridged"),
  Plain("BackendRegistered", Internal("backend_disconnect"), "Idle") >>

PathRelay ==
  Machine(PathRelayTable, PathRelayHandleMessage, PathRelayStep, PathRelayHandleEvent, PathRelayStates, PathNewRelay, PathMsgs, PathEvents)
=============================================================================
