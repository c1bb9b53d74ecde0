---------------------- MODULE ProtocolSessionMachine ----------------------
(* The session protocol as the package protocol generates it               *)
(* (protocol/session_gen.go): the LAN edition, with its own names for the  *)
(* states, messages and commands of the direct path.  As in SessionMachine *)
(* the table and the three dispatchers are transcribed one by one.         *)
EXTENDS ProtocolMachine

LanBackendStates == {
  "Idle", "GenerateToken", "RegisterRelay", "WaitingForClient", "DeriveSecret", "SendAck",
  "WaitingForCode", "ValidateCode", "StorePaired", "Paired", "AuthCheck", "SessionActive",
  "RelayConnected", "LANOffered", "LANActive", "RelayBackoff", "LANDegraded" }

LanClientStates == {
  "Idle", "ObtainBackchannelSecret", "ConnectRelay", "GenKeyPair", "WaitAck", "E2EReady",
  "ShowCode", "WaitPairComplete", "Paired", "Reconnect", "SendAuth", "SessionActive",
  "RelayConnected", "LANConnecting", "LANVerifying", "LANActive", "RelayFallback" }

LanRelayStates == {
  "Idle", "BackendRegistered", "Bridged" }

LanMsgs == {
  "pair_hello", "pair_hello_ack", "pair_confirm", "pair_complete", "auth_request", "auth_ok",
  "lan_offer", "lan_verify", "lan_confirm", "path_ping", "path_pong" }

LanGuards == {
  "token_valid", "token_invalid", "code_correct", "code_wrong", "device_known",
  "device_unknown", "nonce_fresh", "challenge_valid", "challenge_invalid", "lan_enabled",
  "lan_disabled", "lan_server_available", "under_max_failures", "at_max_failures" }

LanActions == {
  "activate_lan", "bridge_streams", "derive_secret", "dial_lan", "fallback_to_relay",
  "generate_token", "register_relay", "reset_failures", "send_pair_hello", "store_device",
  "store_secret", "unbridge", "verify_device" }

(* The internal events; recv_<message> is Recv(<message>).  *)
LanEvents == {
  "app_close", "app_force_fallback", "app_launch", "app_recv", "app_recv_datagram",
  "app_send", "app_send_datagram", "backchannel_received", "backend_disconnect",
  "backend_register", "backoff_expired", "check_code", "cli_code_entered", "cli_init_pair",
  "client_connect", "client_disconnect", "code_displayed", "disconnect", "ecdh_complete",
  "finalise", "key_pair_generated", "lan_datagram", "lan_dial_failed", "lan_dial_ok",
  "lan_error", "lan_server_changed", "lan_server_ready", "lan_stream_data",
  "lan_stream_error", "lan_verify_ok", "offer_timeout", "ping_tick", "ping_timeout",
  "readvertise_tick", "relay_connected", "relay_datagram", "relay_ok", "relay_registered",
  "relay_stream_data", "relay_stream_error", "secret_parsed", "session_established",
  "signal_code_display", "token_created", "verify", "verify_timeout" }

LanCmds == {
  "write_active_stream", "send_active_datagram", "send_path_ping", "send_path_pong",
  "send_lan_offer", "send_lan_verify", "send_lan_confirm", "dial_lan", "deliver_recv",
  "deliver_recv_error", "deliver_recv_datagram", "start_lan_stream_reader",
  "stop_lan_stream_reader", "start_lan_dg_reader", "stop_lan_dg_reader", "start_monitor",
  "stop_monitor", "start_pong_timeout", "cancel_pong_timeout", "start_backoff_timer",
  "close_lan_path", "signal_lan_ready", "reset_lan_ready", "set_crypto_datagram" }

---------------------------------------------------------------------------
(* The table's guard expressions.  Each pair is complementary; q is what   *)
(* the message, the typed code or the configuration makes of it, and the   *)
(* two that count failures look at the machine (m) and max_ping_failures.  *)
LanGuardsTrue(m, q, MaxPingFailures) ==
  (IF q THEN {"token_valid", "code_correct", "device_known", "nonce_fresh", "challenge_valid",
              "lan_enabled", "lan_server_available"}
        ELSE {"token_invalid", "code_wrong", "device_unknown", "challenge_invalid", "lan_disabled"})
  \union (IF "PingFailures" \notin DOMAIN m THEN {}
          ELSE IF m.PingFailures + 1 < MaxPingFailures THEN {"under_max_failures"}
          ELSE {"at_max_failures"})

LanTokenIssued == [
  ActiveTokens |-> Add("tok_1"), CurrentToken |-> Lit("tok_1") ]

LanHelloAccepted == [
  BackendCode |-> Calc("code"), BackendEcdhPub |-> Lit("backend_pub"),
  BackendSharedKey |-> Calc("shared_key"), ReceivedClientPub |-> Calc("pubkey") ]

LanDeviceStored == [
  ActiveTokens |-> DelVar("CurrentToken"), DeviceSecret |-> Lit("dev_secret_1"),
  PairedDevices |-> Add("device_1"), UsedTokens |-> AddVar("CurrentToken") ]

LanAuthReceived == [
  ReceivedAuthNonce |-> Calc("nonce"), ReceivedDeviceId |-> Calc("device_id") ]

LanAckReceived == [
  ClientSharedKey |-> Calc("shared_key"), ReceivedBackendPub |-> Calc("pubkey") ]

LanBackendActivated == [
  BActivePath |-> Lit("lan"), BDispatcherPath |-> Lit("lan"), BackoffLevel |-> Lit(0),
  LanSignal |-> Lit("ready"), MonitorTarget |-> Lit("lan"), PingFailures |-> Lit(0) ]

(* Mutant: the monitor's target is not reset. *)
LanBackendFellBack_Monitored == [
  BActivePath |-> Lit("relay"), BDispatcherPath |-> Lit("relay"), BackoffLevel |-> Capped,
  LanSignal |-> Lit("pending"), PingFailures |-> Lit(0) ]

LanBackendFellBack == [
  BActivePath |-> Lit("relay"), BDispatcherPath |-> Lit("relay"), BackoffLevel |-> Capped,
  LanSignal |-> Lit("pending"), MonitorTarget |-> Lit("none"), PingFailures |-> Lit(0) ]

LanClientActivated == [
  CActivePath |-> Lit("lan"), CDispatcherPath |-> Lit("lan"), LanSignal |-> Lit("ready") ]

LanClientFellBack == [
  CActivePath |-> Lit("relay"), CDispatcherPath |-> Lit("relay"), LanSignal |-> Lit("pending") ]

LanBackendTeardown ==
  <<"stop_monitor", "stop_lan_stream_reader", "stop_lan_dg_reader", "close_lan_path",
    "reset_lan_ready", "start_backoff_timer">>

LanBackendForcedTeardown ==
  <<"stop_monitor", "cancel_pong_timeout", "stop_lan_stream_reader", "stop_lan_dg_reader",
    "close_lan_path", "reset_lan_ready", "start_backoff_timer">>

LanClientTeardown ==
  <<"stop_lan_stream_reader", "stop_lan_dg_reader", "close_lan_path", "reset_lan_ready">>

(* The leaves of the superstates that forward data.                        *)
LanBackendConnected == <<"RelayConnected", "LANOffered", "LANActive", "LANDegraded", "RelayBackoff">>

LanBackendOnDirect == <<"LANActive", "LANDegraded">>

LanClientConnected == <<"RelayConnected", "LANConnecting", "LANVerifying", "LANActive", "RelayFallback">>

---------------------------------------------------------------------------
(* The backend: its rows of the table, its constructor, and its          *)
(* three generated dispatchers.                                          *)
LanBackendTable == <<
  Row("Idle", Internal("cli_init_pair"), "", "generate_token", LanTokenIssued, <<>>, "GenerateToken"),
  Row("GenerateToken", Internal("token_created"), "", "register_relay", NoUpd, <<>>, "RegisterRelay"),
  Row("RegisterRelay", Internal("relay_registered"), "", "", [SecretPublished |-> Lit(TRUE)], <<>>,
      "WaitingForClient"),
  Row("WaitingForClient", Recv("pair_hello"), "token_valid", "derive_secret", LanHelloAccepted, <<>>,
      "DeriveSecret"),
  Row("WaitingForClient", Recv("pair_hello"), "token_invalid", "", NoUpd, <<>>, "Idle"),
  Emit("DeriveSecret", Internal("ecdh_complete"), <<"pair_hello_ack">>, "SendAck"),
  Emit("SendAck", Internal("signal_code_display"), <<"pair_confirm">>, "WaitingForCode"),
  Row("WaitingForCode", Internal("cli_code_entered"), "", "", [ReceivedCode |-> Calc("entered_code")], <<>>,
      "ValidateCode"),
  Row("ValidateCode", Internal("check_code"), "code_correct", "", NoUpd, <<>>, "StorePaired"),
  Row("ValidateCode", Internal("check_code"), "code_wrong", "", [CodeAttempts |-> Inc], <<>>, "Idle"),
  Row("StorePaired", Internal("finalise"), "", "store_device", LanDeviceStored, <<"pair_complete">>, "Paired"),
  Row("Paired", Recv("auth_request"), "", "", LanAuthReceived, <<>>, "AuthCheck"),
  Row("AuthCheck", Internal("verify"), "device_known", "verify_device",
      [AuthNoncesUsed |-> AddVar("ReceivedAuthNonce")], <<"auth_ok">>, "SessionActive"),
  Row("AuthCheck", Internal("verify"), "device_unknown", "", NoUpd, <<>>, "Idle"),
  Plain("SessionActive", Internal("session_established"), "RelayConnected"),
  Emit("RelayConnected", Internal("lan_server_ready"), <<"lan_offer">>, "LANOffered"),
  Row("LANOffered", Recv("lan_verify"), "challenge_valid", "activate_lan", LanBackendActivated,
      <<"lan_confirm">>, "LANActive"),
  Row("LANOffered", Recv("lan_verify"), "challenge_invalid", "", NoUpd, <<>>, "RelayConnected"),
  Row("LANOffered", Internal("offer_timeout"), "", "", [BackoffLevel |-> Capped,
      LanSignal |-> Lit("pending")], <<>>, "RelayBackoff"),
  Emit("LANActive", Internal("ping_tick"), <<"path_ping">>, "LANActive"),
  Row("LANActive", Internal("ping_timeout"), "", "", [PingFailures |-> Lit(1)], <<>>, "LANDegraded"),
  Emit("LANDegraded", Internal("ping_tick"), <<"path_ping">>, "LANDegraded"),
  Row("LANActive", Internal("lan_stream_error"), "", "fallback_to_relay", LanBackendFellBack, <<>>,
      "RelayBackoff"),
  Row("LANDegraded", Internal("lan_stream_error"), "", "fallback_to_relay", LanBackendFellBack, <<>>,
      "RelayBackoff"),
  Row("LANDegraded", Recv("path_pong"), "", "reset_failures", [PingFailures |-> Lit(0)], <<>>, "LANActive"),
  Row("LANDegraded", Internal("ping_timeout"), "under_max_failures", "", [PingFailures |-> Inc], <<>>,
      "LANDegraded"),
  Row("LANDegraded", Internal("ping_timeout"), "at_max_failures", "fallback_to_relay", LanBackendFellBack, <<>>,
      "RelayBackoff"),
  Emit("RelayBackoff", Internal("backoff_expired"), <<"lan_offer">>, "LANOffered"),
  Row("RelayBackoff", Internal("lan_server_changed"), "", "", [BackoffLevel |-> Lit(0)], <<"lan_offer">>,
      "LANOffered"),
  Row("RelayConnected", Internal("readvertise_tick"), "lan_server_available", "", NoUpd, <<"lan_offer">>,
      "LANOffered"),
  Row("LANOffered", Internal("app_force_fallback"), "", "", [LanSignal |-> Lit("pending")], <<>>,
      "RelayConnected"),
  Row("LANActive", Internal("app_force_fallback"), "", "fallback_to_relay", LanBackendFellBack, <<>>,
      "RelayBackoff"),
  Row("LANDegraded", Internal("app_force_fallback"), "", "fallback_to_relay", LanBackendFellBack, <<>>,
      "RelayBackoff"),
  Plain("RelayConnected", Internal("disconnect"), "Paired") >>
  \o Loops(LanBackendConnected,
          <<<<"app_send", << >>>>, <<"relay_stream_data", << >>>>, <<"relay_stream_error", << >>>>,
            <<"app_send_datagram", << >>>>, <<"relay_datagram", << >>>>>>)
  \o Loops(LanBackendOnDirect,
          <<<<"lan_stream_data", << >>>>, <<"lan_datagram", << >>>>>>)

LanNewBackend == [
  State |-> "Idle", CurrentToken |-> "none", ActiveTokens |-> {}, UsedTokens |-> {},
  BackendEcdhPub |-> "none", ReceivedClientPub |-> "none", BackendSharedKey |-> "",
  BackendCode |-> "", ReceivedCode |-> "", CodeAttempts |-> 0, DeviceSecret |-> "none",
  PairedDevices |-> {}, ReceivedDeviceId |-> "none", AuthNoncesUsed |-> {},
  ReceivedAuthNonce |-> "none", SecretPublished |-> FALSE, PingFailures |-> 0, BackoffLevel |-> 0,
  BActivePath |-> "relay", BDispatcherPath |-> "relay", MonitorTarget |-> "none",
  LanSignal |-> "pending" ]

LanBackendHandleMessage == <<
  Row("WaitingForClient", Recv("pair_hello"), "token_valid", "derive_secret", LanHelloAccepted, <<>>,
      "DeriveSecret"),
  Row("WaitingForClient", Recv("pair_hello"), "token_invalid", "", NoUpd, <<>>, "Idle"),
  Row("Paired", Recv("auth_request"), "", "", LanAuthReceived, <<>>, "AuthCheck"),
  Row("LANOffered", Recv("lan_verify"), "challenge_valid", "activate_lan", LanBackendActivated, <<>>,
      "LANActive"),
  Row("LANOffered", Recv("lan_verify"), "challenge_invalid", "", NoUpd, <<>>, "RelayConnected"),
  Row("LANDegraded", Recv("path_pong"), "", "reset_failures", [PingFailures |-> Lit(0)], <<>>, "LANActive") >>

LanBackendStepPairing == <<
  Row("Idle", Internal("cli_init_pair"), "", "generate_token", LanTokenIssued, <<>>, "GenerateToken"),
  Row("GenerateToken", Internal("token_created"), "", "register_relay", NoUpd, <<>>, "RegisterRelay"),
  Row("RegisterRelay", Internal("relay_registered"), "", "", [SecretPublished |-> Lit(TRUE)], <<>>,
      "WaitingForClient"),
  Plain("DeriveSecret", Internal("ecdh_complete"), "SendAck"),
  Plain("SendAck", Internal("signal_code_display"), "WaitingForCode"),
  Row("WaitingForCode", Internal("cli_code_entered"), "", "", [ReceivedCode |-> Calc("entered_code")], <<>>,
      "ValidateCode"),
  Row("ValidateCode", Internal("check_code"), "code_correct", "", NoUpd, <<>>, "StorePaired"),
  Row("ValidateCode", Internal("check_code"), "code_wrong", "", [CodeAttempts |-> Inc], <<>>, "Idle"),
  Row("StorePaired", Internal("finalise"), "", "store_device", LanDeviceStored, <<>>, "Paired"),
  Row("AuthCheck", Internal("verify"), "device_known", "verify_device",
      [AuthNoncesUsed |-> AddVar("ReceivedAuthNonce")], <<>>, "SessionActive"),
  Row("AuthCheck", Internal("verify"), "device_unknown", "", NoUpd, <<>>, "Idle"),
  Plain("SessionActive", Internal("session_established"), "RelayConnected") >>

LanBackendStepLan == <<
  Plain("RelayConnected", Internal("lan_server_ready"), "LANOffered"),
  Row("LANOffered", Internal("offer_timeout"), "", "", [BackoffLevel |-> Capped,
      LanSignal |-> Lit("pending")], <<>>, "RelayBackoff"),
  Plain("LANActive", Internal("ping_tick"), "LANActive"),
  Row("LANActive", Internal("ping_timeout"), "", "", [PingFailures |-> Lit(1)], <<>>, "LANDegraded"),
  Plain("LANDegraded", Internal("ping_tick"), "LANDegraded"),
  Row("LANActive", Internal("lan_stream_error"), "", "fallback_to_relay", LanBackendFellBack, <<>>,
      "RelayBackoff"),
  Row("LANDegraded", Internal("lan_stream_error"), "", "fallback_to_relay", LanBackendFellBack, <<>>,
      "RelayBackoff") >>

LanBackendStepFallback == <<
  Row("LANDegraded", Internal("ping_timeout"), "under_max_failures", "", [PingFailures |-> Inc], <<>>,
      "LANDegraded"),
  Row("LANDegraded", Internal("ping_timeout"), "at_max_failures", "fallback_to_relay", LanBackendFellBack, <<>>,
      "RelayBackoff"),
  Plain("RelayBackoff", Internal("backoff_expired"), "LANOffered"),
  Row("RelayBackoff", Internal("lan_server_changed"), "", "", [BackoffLevel |-> Lit(0)], <<>>, "LANOffered"),
  Row("RelayConnected", Internal("readvertise_tick"), "lan_server_available", "", NoUpd, <<>>, "LANOffered"),
  Row("LANOffered", Internal("app_force_fallback"), "", "", [LanSignal |-> Lit("pending")], <<>>,
      "RelayConnected"),
  Row("LANActive", Internal("app_force_fallback"), "", "fallback_to_relay", LanBackendFellBack, <<>>,
      "RelayBackoff"),
  Row("LANDegraded", Internal("app_force_fallback"), "", "fallback_to_relay", LanBackendFellBack, <<>>,
      "RelayBackoff"),
  Plain("RelayConnected", Internal("disconnect"), "Paired") >>

LanBackendStepForward ==
     Loops(LanBackendConnected,
          <<<<"app_send", << >>>>, <<"relay_stream_data", << >>>>, <<"relay_stream_error", << >>>>,
            <<"app_send_datagram", << >>>>, <<"relay_datagram", << >>>>>>)
  \o Loops(LanBackendOnDirect,
          <<<<"lan_stream_data", << >>>>, <<"lan_datagram", << >>>>>>)

LanBackendStep ==
  LanBackendStepPairing \o LanBackendStepLan \o LanBackendStepFallback \o LanBackendStepForward

LanBackendEventPairing == <<
  Row("Idle", Internal("cli_init_pair"), "", "generate_token", LanTokenIssued, <<>>, "GenerateToken"),
  Row("GenerateToken", Internal("token_created"), "", "register_relay", NoUpd, <<>>, "RegisterRelay"),
  Row("RegisterRelay", Internal("relay_registered"), "", "", [SecretPublished |-> Lit(TRUE)], <<>>,
      "WaitingForClient"),
  Row("WaitingForClient", Recv("pair_hello"), "token_valid", "derive_secret", LanHelloAccepted, <<>>,
      "DeriveSecret"),
  Row("WaitingForClient", Recv("pair_hello"), "token_invalid", "", NoUpd, <<>>, "Idle"),
  Plain("DeriveSecret", Internal("ecdh_complete"), "SendAck"),
  Plain("SendAck", Internal("signal_code_display"), "WaitingForCode"),
  Row("WaitingForCode", Internal("cli_code_entered"), "", "", [ReceivedCode |-> Calc("entered_code")], <<>>,
      "ValidateCode"),
  Row("ValidateCode", Internal("check_code"), "code_correct", "", NoUpd, <<>>, "StorePaired"),
  Row("ValidateCode", Internal("check_code"), "code_wrong", "", [CodeAttempts |-> Inc], <<>>, "Idle"),
  Row("StorePaired", Internal("finalise"), "", "store_device", LanDeviceStored, <<>>, "Paired"),
  Row("Paired", Recv("auth_request"), "", "", LanAuthReceived, <<>>, "AuthCheck"),
  Row("AuthCheck", Internal("verify"), "device_known", "verify_device",
      [AuthNoncesUsed |-> AddVar("ReceivedAuthNonce")], <<>>, "SessionActive"),
  Row("AuthCheck", Internal("verify"), "device_unknown", "", NoUpd, <<>>, "Idle"),
  Plain("SessionActive", Internal("session_established"), "RelayConnected") >>

LanBackendEventLan == <<
  Emit("RelayConnected", Internal("lan_server_ready"), <<"send_lan_offer">>, "LANOffered"),
  Row("LANOffered", Recv("lan_verify"), "challenge_valid", "activate_lan", LanBackendActivated,
      <<"send_lan_confirm", "start_lan_stream_reader", "start_lan_dg_reader", "start_monitor",
      "signal_lan_ready", "set_crypto_datagram">>, "LANActive"),
  Row("LANOffered", Recv("lan_verify"), "challenge_invalid", "", NoUpd, <<>>, "RelayConnected"),
  Row("LANOffered", Internal("offer_timeout"), "", "", [BackoffLevel |-> Capped,
      LanSignal |-> Lit("pending")], <<"reset_lan_ready", "start_backoff_timer">>, "RelayBackoff"),
  Emit("LANActive", Internal("ping_tick"), <<"send_path_ping", "start_pong_timeout">>, "LANActive"),
  Row("LANActive", Internal("ping_timeout"), "", "", [PingFailures |-> Lit(1)], <<>>, "LANDegraded"),
  Emit("LANDegraded", Internal("ping_tick"), <<"send_path_ping", "start_pong_timeout">>, "LANDegraded"),
  Row("LANActive", Internal("lan_stream_error"), "", "fallback_to_relay", LanBackendFellBack, LanBackendTeardown,
      "RelayBackoff"),
  Row("LANDegraded", Internal("lan_stream_error"), "", "fallback_to_relay", LanBackendFellBack, LanBackendTeardown,
      "RelayBackoff"),
  Row("LANDegraded", Recv("path_pong"), "", "reset_failures", [PingFailures |-> Lit(0)],
      <<"cancel_pong_timeout">>, "LANActive") >>

LanBackendEventFallback == <<
  Row("LANDegraded", Internal("ping_timeout"), "under_max_failures", "", [PingFailures |-> Inc], <<>>,
      "LANDegraded"),
  Row("LANDegraded", Internal("ping_timeout"), "at_max_failures", "fallback_to_relay", LanBackendFellBack,
      LanBackendTeardown, "RelayBackoff"),
  Emit("RelayBackoff", Internal("backoff_expired"), <<"send_lan_offer">>, "LANOffered"),
  Row("RelayBackoff", Internal("lan_server_changed"), "", "", [BackoffLevel |-> Lit(0)],
      <<"send_lan_offer">>, "LANOffered"),
  Row("RelayConnected", Internal("readvertise_tick"), "lan_server_available", "", NoUpd,
      <<"send_lan_offer">>, "LANOffered"),
  Row("LANOffered", Internal("app_force_fallback"), "", "", [LanSignal |-> Lit("pending")],
      <<"reset_lan_ready">>, "RelayConnected"),
  Row("LANActive", Internal("app_force_fallback"), "", "fallback_to_relay", LanBackendFellBack,
      LanBackendForcedTeardown, "RelayBackoff"),
  Row("LANDegraded", Internal("app_force_fallback"), "", "fallback_to_relay", LanBackendFellBack,
      LanBackendForcedTeardown, "RelayBackoff"),
  Plain("RelayConnected", Internal("disconnect"), "Paired") >>

LanBackendEventForward ==
     Loops(LanBackendConnected,
          <<<<"app_send", <<"write_active_stream">>>>, <<"relay_stream_data", <<"deliver_recv">>>>,
            <<"relay_stream_error", <<"deliver_recv_error">>>>,
            <<"app_send_datagram", <<"send_active_datagram">>>>,
            <<"relay_datagram", <<"deliver_recv_datagram">>>>>>)
  \o Loops(LanBackendOnDirect,
          <<<<"lan_stream_data", <<"deliver_recv">>>>, <<"lan_datagram", <<"deliver_recv_datagram">>>>>>)

LanBackendHandleEvent ==
  LanBackendEventPairing \o LanBackendEventLan \o LanBackendEventFallback \o LanBackendEventForward

LanBackend ==
  Machine(LanBackendTable, LanBackendHandleMessage, LanBackendStep, LanBackendHandleEvent, LanBackendStates, LanNewBackend, LanMsgs, LanEvents)

---------------------------------------------------------------------------
(* The client: its rows of the table, its constructor, and its           *)
(* three generated dispatchers.                                          *)
LanClientTable == <<
  Plain("Idle", Internal("backchannel_received"), "ObtainBackchannelSecret"),
  Plain("ObtainBackchannelSecret", Internal("secret_parsed"), "ConnectRelay"),
  Plain("ConnectRelay", Internal("relay_connected"), "GenKeyPair"),
  Row("GenKeyPair", Internal("key_pair_generated"), "", "send_pair_hello", NoUpd, <<"pair_hello">>,
      "WaitAck"),
  Row("WaitAck", Recv("pair_hello_ack"), "", "derive_secret", LanAckReceived, <<>>, "E2EReady"),
  Row("E2EReady", Recv("pair_confirm"), "", "", [ClientCode |-> Calc("code")], <<>>, "ShowCode"),
  Plain("ShowCode", Internal("code_displayed"), "WaitPairComplete"),
  Row("WaitPairComplete", Recv("pair_complete"), "", "store_secret", NoUpd, <<>>, "Paired"),
  Plain("Paired", Internal("app_launch"), "Reconnect"),
  Emit("Reconnect", Internal("relay_connected"), <<"auth_request">>, "SendAuth"),
  Plain("SendAuth", Recv("auth_ok"), "SessionActive"),
  Plain("SessionActive", Internal("session_established"), "RelayConnected"),
  Row("RelayConnected", Recv("lan_offer"), "lan_enabled", "dial_lan", NoUpd, <<>>, "LANConnecting"),
  Row("RelayConnected", Recv("lan_offer"), "lan_disabled", "", NoUpd, <<>>, "RelayConnected"),
  Emit("LANConnecting", Internal("lan_dial_ok"), <<"lan_verify">>, "LANVerifying"),
  Plain("LANConnecting", Internal("lan_dial_failed"), "RelayConnected"),
  Row("LANVerifying", Recv("lan_confirm"), "", "activate_lan", LanClientActivated, <<>>, "LANActive"),
  Row("LANVerifying", Internal("verify_timeout"), "", "", [CDispatcherPath |-> Lit("relay")], <<>>,
      "RelayConnected"),
  Emit("LANActive", Recv("path_ping"), <<"path_pong">>, "LANActive"),
  Row("LANActive", Internal("lan_error"), "", "fallback_to_relay", LanClientFellBack, <<>>, "RelayFallback"),
  Row("LANActive", Internal("lan_stream_error"), "", "fallback_to_relay", LanClientFellBack, <<>>,
      "RelayFallback"),
  Plain("RelayFallback", Internal("relay_ok"), "RelayConnected"),
  Row("LANActive", Recv("lan_offer"), "lan_enabled", "dial_lan", NoUpd, <<>>, "LANConnecting"),
  Plain("LANConnecting", Internal("app_force_fallback"), "RelayConnected"),
  Row("LANVerifying", Internal("app_force_fallback"), "", "", [CDispatcherPath |-> Lit("relay")], <<>>,
      "RelayConnected"),
  Row("LANActive", Internal("app_force_fallback"), "", "fallback_to_relay", LanClientFellBack, <<>>,
      "RelayConnected"),
  Plain("RelayConnected", Internal("disconnect"), "Paired") >>
  \o Loops(LanClientConnected,
          <<<<"app_send", << >>>>, <<"relay_stream_data", << >>>>, <<"relay_stream_error", << >>>>,
            <<"app_send_datagram", << >>>>, <<"relay_datagram", << >>>>>>)
  \o Loops(<<"LANActive">>,
          <<<<"lan_stream_data", << >>>>, <<"lan_datagram", << >>>>>>)

LanNewClient == [
  State |-> "Idle", ReceivedBackendPub |-> "none", ClientSharedKey |-> "", ClientCode |-> "",
  CActivePath |-> "relay", CDispatcherPath |-> "relay", LanSignal |-> "pending" ]

LanClientHandleMessage == <<
  Row("WaitAck", Recv("pair_hello_ack"), "", "derive_secret", LanAckReceived, <<>>, "E2EReady"),
  Row("E2EReady", Recv("pair_confirm"), "", "", [ClientCode |-> Calc("code")], <<>>, "ShowCode"),
  Row("WaitPairComplete", Recv("pair_complete"), "", "store_secret", NoUpd, <<>>, "Paired"),
  Plain("SendAuth", Recv("auth_ok"), "SessionActive"),
  Row("RelayConnected", Recv("lan_offer"), "lan_enabled", "dial_lan", NoUpd, <<>>, "LANConnecting"),
  Row("RelayConnected", Recv("lan_offer"), "lan_disabled", "", NoUpd, <<>>, "RelayConnected"),
  Row("LANVerifying", Recv("lan_confirm"), "", "activate_lan", LanClientActivated, <<>>, "LANActive"),
  Plain("LANActive", Recv("path_ping"), "LANActive"),
  Row("LANActive", Recv("lan_offer"), "lan_enabled", "dial_lan", NoUpd, <<>>, "LANConnecting") >>

LanClientStepPairing == <<
  Plain("Idle", Internal("backchannel_received"), "ObtainBackchannelSecret"),
  Plain("ObtainBackchannelSecret", Internal("secret_parsed"), "ConnectRelay"),
  Plain("ConnectRelay", Internal("relay_connected"), "GenKeyPair"),
  Row("GenKeyPair", Internal("key_pair_generated"), "", "send_pair_hello", NoUpd, <<>>, "WaitAck"),
  Plain("ShowCode", Internal("code_displayed"), "WaitPairComplete"),
  Plain("Paired", Internal("app_launch"), "Reconnect"),
  Plain("Reconnect", Internal("relay_connected"), "SendAuth"),
  Plain("SessionActive", Internal("session_established"), "RelayConnected") >>

LanClientStepLan == <<
  Plain("LANConnecting", Internal("lan_dial_ok"), "LANVerifying"),
  Plain("LANConnecting", Internal("lan_dial_failed"), "RelayConnected"),
  Row("LANVerifying", Internal("verify_timeout"), "", "", [CDispatcherPath |-> Lit("relay")], <<>>,
      "RelayConnected"),
  Row("LANActive", Internal("lan_error"), "", "fallback_to_relay", LanClientFellBack, <<>>, "RelayFallback"),
  Row("LANActive", Internal("lan_stream_error"), "", "fallback_to_relay", LanClientFellBack, <<>>,
      "RelayFallback"),
  Plain("RelayFallback", Internal("relay_ok"), "RelayConnected"),
  Plain("LANConnecting", Internal("app_force_fallback"), "RelayConnected"),
  Row("LANVerifying", Internal("app_force_fallback"), "", "", [CDispatcherPath |-> Lit("relay")], <<>>,
      "RelayConnected"),
  Row("LANActive", Internal("app_force_fallback"), "", "fallback_to_relay", LanClientFellBack, <<>>,
      "RelayConnected"),
  Plain("RelayConnected", Internal("disconnect"), "Paired") >>

LanClientStepForward ==
     Loops(LanClientConnected,
          <<<<"app_send", << >>>>, <<"relay_stream_data", << >>>>, <<"relay_stream_error", << >>>>,
            <<"app_send_datagram", << >>>>, <<"relay_datagram", << >>>>>>)
  \o Loops(<<"LANActive">>,
          <<<<"lan_stream_data", << >>>>, <<"lan_datagram", << >>>>>>)

LanClientStep ==
  LanClientStepPairing \o LanClientStepLan \o LanClientStepForward

LanClientEventPairing == <<
  Plain("Idle", Internal("backchannel_received"), "ObtainBackchannelSecret"),
  Plain("ObtainBackchannelSecret", Internal("secret_parsed"), "ConnectRelay"),
  Plain("ConnectRelay", Internal("relay_connected"), "GenKeyPair"),
  Row("GenKeyPair", Internal("key_pair_generated"), "", "send_pair_hello", NoUpd, <<>>, "WaitAck"),
  Row("WaitAck", Recv("pair_hello_ack"), "", "derive_secret", LanAckReceived, <<>>, "E2EReady"),
  Row("E2EReady", Recv("pair_confirm"), "", "", [ClientCode |-> Calc("code")], <<>>, "ShowCode"),
  Plain("ShowCode", Internal("code_displayed"), "WaitPairComplete"),
  Row("WaitPairComplete", Recv("pair_complete"), "", "store_secret", NoUpd, <<>>, "Paired"),
  Plain("Paired", Internal("app_launch"), "Reconnect"),
  Plain("Reconnect", Internal("relay_connected"), "SendAuth"),
  Plain("SendAuth", Recv("auth_ok"), "SessionActive"),
  Plain("SessionActive", Internal("session_established"), "RelayConnected"),
  Row("RelayConnected", Recv("lan_offer"), "lan_enabled", "dial_lan", NoUpd, <<"dial_lan">>, "LANConnecting"),
  Row("RelayConnected", Recv("lan_offer"), "lan_disabled", "", NoUpd, <<>>, "RelayConnected") >>

LanClientEventLan == <<
  Emit("LANConnecting", Internal("lan_dial_ok"), <<"send_lan_verify">>, "LANVerifying"),
  Plain("LANConnecting", Internal("lan_dial_failed"), "RelayConnected"),
  Row("LANVerifying", Recv("lan_confirm"), "", "activate_lan", LanClientActivated, <<"start_lan_stream_reader",
      "start_lan_dg_reader", "signal_lan_ready", "set_crypto_datagram">>, "LANActive"),
  Row("LANVerifying", Internal("verify_timeout"), "", "", [CDispatcherPath |-> Lit("relay")], <<>>,
      "RelayConnected"),
  Emit("LANActive", Recv("path_ping"), <<"send_path_pong">>, "LANActive"),
  Row("LANActive", Internal("lan_error"), "", "fallback_to_relay", LanClientFellBack, LanClientTeardown,
      "RelayFallback"),
  Row("LANActive", Internal("lan_stream_error"), "", "fallback_to_relay", LanClientFellBack, LanClientTeardown,
      "RelayFallback"),
  Plain("RelayFallback", Internal("relay_ok"), "RelayConnected"),
  Row("LANActive", Recv("lan_offer"), "lan_enabled", "dial_lan", NoUpd, <<"stop_lan_stream_reader",
      "stop_lan_dg_reader", "close_lan_path", "dial_lan">>, "LANConnecting"),
  Plain("LANConnecting", Internal("app_force_fallback"), "RelayConnected"),
  Row("LANVerifying", Internal("app_force_fallback"), "", "", [CDispatcherPath |-> Lit("relay")],
      <<"stop_lan_stream_reader", "stop_lan_dg_reader", "close_lan_path">>, "RelayConnected"),
  Row("LANActive", Internal("app_force_fallback"), "", "fallback_to_relay", LanClientFellBack, LanClientTeardown,
      "RelayConnected"),
  Plain("RelayConnected", Internal("disconnect"), "Paired") >>

LanClientEventForward ==
     Loops(LanClientConnected,
          <<<<"app_send", <<"write_active_stream">>>>, <<"relay_stream_data", <<"deliver_recv">>>>,
            <<"relay_stream_error", <<"deliver_recv_error">>>>,
            <<"app_send_datagram", <<"send_active_datagram">>>>,
            <<"relay_datagram", <<"deliver_recv_datagram">>>>>>)
  \o Loops(<<"LANActive">>,
          <<<<"lan_stream_data", <<"deliver_recv">>>>, <<"lan_datagram", <<"deliver_recv_datagram">>>>>>)

LanClientHandleEvent ==
  LanClientEventPairing \o LanClientEventLan \o LanClientEventForward

LanClient ==
  Machine(LanClientTable, LanClientHandleMessage, LanClientStep, LanClientHandleEvent, LanClientStates, LanNewClient, LanMsgs, LanEvents)

---------------------------------------------------------------------------
(* The relay: its rows of the table, its constructor, and its            *)
(* three generated dispatchers.                                          *)
LanRelayTable == <<
  Plain("Idle", Internal("backend_register"), "BackendRegistered"),
  Row("BackendRegistered", Internal("client_connect"), "", "bridge_streams", [RelayBridge |-> Lit("active")],
      <<>>, "Bridged"),
  Row("Bridged", Internal("client_disconnect"), "", "unbridge", [RelayBridge |-> Lit("idle")], <<>>,
      "BackendRegistered"),
  Plain("BackendRegistered", Internal("backend_disconnect"), "Idle") >>

LanNewRelay == [
  State |-> "Idle", RelayBridge |-> "idle" ]

LanRelayHandleMessage == << >>

LanRelayStep == <<
  Plain("Idle", Internal("backend_register"), "BackendRegistered"),
  Row("BackendRegistered", Internal("client_connect"), "", "bridge_streams", [RelayBridge |-> Lit("active")],
      <<>>, "Bridged"),
  Row("Bridged", Internal("client_disconnect"), "", "unbridge", [RelayBridge |-> Lit("idle")], <<>>,
      "BackendRegistered"),
  Plain("BackendRegistered", Internal("backend_disconnect"), "Idle") >>

LanRelayHandleEvent == <<
  Plain("Idle", Internal("backend_register"), "BackendRegistered"),
  Row("BackendRegistered", Internal("client_connect"), "", "bridge_streams", [RelayBridge |-> Lit("active")],
      <<>>, "Bridged"),
  Row("Bridged", Internal("client_disconnect"), "", "unbridge", [RelayBridge |-> Lit("idle")], <<>>,
      "BackendRegistered"),
  Plain("BackendRegistered", Internal("backend_disconnect"), "Idle") >>

LanRelay ==
  Machine(LanRelayTable, LanRelayHandleMessage, LanRelayStep, LanRelayHandleEvent, LanRelayStates, LanNewRelay, LanMsgs, LanEvents)
=============================================================================
