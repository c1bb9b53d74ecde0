-------------------------- MODULE SessionMachine --------------------------
(* The session protocol of session_gen.go: pairing, authentication and the *)
(* switch between the relay and a direct (alt) path, as three machines.    *)
(* Each machine exists four times in the file: as rows of the table that   *)
(* SessionProtocol returns, and as HandleMessage, Step and HandleEvent.    *)
(* They are transcribed one by one, each from its own lines.               *)
EXTENDS ProtocolMachine

BackendStates == {
  "Idle", "GenerateToken", "RegisterRelay", "WaitingForClient", "DeriveSecret", "SendAck",
  "WaitingForCode", "ValidateCode", "StorePaired", "Paired", "AuthCheck", "SessionActive",
  "RelayConnected", "CandidatesAdvertised", "AltActive", "RelayBackoff", "AltDegraded" }

ClientStates == {
  "Idle", "ObtainBackchannelSecret", "ConnectRelay", "GenKeyPair", "WaitAck", "E2EReady",
  "ShowCode", "WaitPairComplete", "Paired", "Reconnect", "SendAuth", "SessionActive",
  "RelayConnected", "PairDialing", "PairChecking", "AltActive", "RelayFallback" }

RelayStates == {
  "Idle", "BackendRegistered", "Bridged" }

Msgs == {
  "pair_hello", "pair_hello_ack", "pair_confirm", "pair_complete", "auth_request", "auth_ok",
  "candidates", "pair_check", "pair_check_ack", "path_ping", "path_pong" }

Guards == {
  "token_valid", "token_invalid", "code_correct", "code_wrong", "device_known",
  "device_unknown", "nonce_fresh", "challenge_valid", "challenge_invalid", "alt_enabled",
  "alt_disabled", "local_candidates_available", "under_max_failures", "at_max_failures" }

Actions == {
  "activate_lan", "bridge_streams", "derive_secret", "dial_candidate", "fallback_to_relay",
  "generate_token", "register_relay", "reset_failures", "send_pair_hello", "store_device",
  "store_secret", "unbridge", "verify_device" }

(* The internal events; recv_<message> is Recv(<message>).  *)
Events == {
  "alt_datagram", "alt_error", "alt_stream_data", "alt_stream_error", "app_close",
  "app_force_fallback", "app_launch", "app_recv", "app_recv_datagram", "app_send",
  "app_send_datagram", "backchannel_received", "backend_disconnect", "backend_register",
  "backoff_expired", "candidates_changed", "candidates_gathered", "candidates_refresh_tick",
  "candidates_timeout", "check_code", "cli_code_entered", "cli_init_pair", "client_connect",
  "client_disconnect", "code_displayed", "dial_failed", "dial_ok", "disconnect",
  "ecdh_complete", "finalise", "key_pair_generated", "pair_check_ok", "ping_tick",
  "ping_timeout", "relay_connected", "relay_datagram", "relay_ok", "relay_registered",
  "relay_stream_data", "relay_stream_error", "secret_parsed", "session_established",
  "signal_code_display", "token_created", "verify", "verify_timeout" }

Cmds == {
  "write_active_stream", "send_active_datagram", "send_path_ping", "send_path_pong",
  "send_candidates", "send_pair_check", "send_pair_check_ack", "dial_candidate",
  "deliver_recv", "deliver_recv_error", "deliver_recv_datagram", "start_alt_stream_reader",
  "stop_alt_stream_reader", "start_alt_dg_reader", "stop_alt_dg_reader", "start_monitor",
  "stop_monitor", "start_pong_timeout", "cancel_pong_timeout", "start_backoff_timer",
  "close_alt_path", "signal_alt_ready", "reset_alt_ready", "set_crypto_datagram" }

---------------------------------------------------------------------------
(* The table's guard expressions.  Each pair is complementary; q is what   *)
(* the message, the typed code or the configuration makes of it, and the   *)
(* two that count failures look at the machine (m) and max_ping_failures.  *)
GuardsTrue(m, q, MaxPingFailures) ==
  (IF q THEN {"token_valid", "code_correct", "device_known", "nonce_fresh", "challenge_valid",
              "alt_enabled", "local_candidates_available"}
        ELSE {"token_invalid", "code_wrong", "device_unknown", "challenge_invalid", "alt_disabled"})
  \union (IF "PingFailures" \notin DOMAIN m THEN {}
          ELSE IF m.PingFailures + 1 < MaxPingFailures THEN {"under_max_failures"}
          ELSE {"at_max_failures"})

TokenIssued == [
  ActiveTokens |-> Add("tok_1"), CurrentToken |-> Lit("tok_1") ]

HelloAccepted == [
  BackendCode |-> Calc("code"), BackendEcdhPub |-> Lit("backend_pub"),
  BackendSharedKey |-> Calc("shared_key"), ReceivedClientPub |-> Calc("pubkey") ]

DeviceStored == [
  ActiveTokens |-> DelVar("CurrentToken"), DeviceSecret |-> Lit("dev_secret_1"),
  PairedDevices |-> Add("device_1"), UsedTokens |-> AddVar("CurrentToken") ]

AuthReceived == [
  ReceivedAuthNonce |-> Calc("nonce"), ReceivedDeviceId |-> Calc("device_id") ]

AckReceived == [
  ClientSharedKey |-> Calc("shared_key"), ReceivedBackendPub |-> Calc("pubkey") ]

BackendActivated == [
  AltSignal |-> Lit("ready"), BActivePath |-> Lit("alt"), BDispatcherPath |-> Lit("alt"),
  BackoffLevel |-> Lit(0), MonitorTarget |-> Lit("alt"), PingFailures |-> Lit(0) ]

BackendFellBack == [
  AltSignal |-> Lit("pending"), BActivePath |-> Lit("relay"), BDispatcherPath |-> Lit("relay"),
  BackoffLevel |-> Capped, MonitorTarget |-> Lit("none"), PingFailures |-> Lit(0) ]

ClientActivated == [
  AltSignal |-> Lit("ready"), CActivePath |-> Lit("alt"), CDispatcherPath |-> Lit("alt") ]

ClientFellBack == [
  AltSignal |-> Lit("pending"), CActivePath |-> Lit("relay"), CDispatcherPath |-> Lit("relay") ]

(* Mutant: the stream's reader goes on. *)
BackendTeardown_ReaderLeft ==
  <<"stop_monitor", "stop_alt_dg_reader", "close_alt_path", "reset_alt_ready", "start_backoff_timer">>

(* Mutant: no timer is started. *)
BackendTeardown_NoBackoff ==
  <<"stop_monitor", "stop_alt_stream_reader", "stop_alt_dg_reader", "close_alt_path", "reset_alt_ready">>

BackendTeardown ==
  <<"stop_monitor", "stop_alt_stream_reader", "stop_alt_dg_reader", "close_alt_path",
    "reset_alt_ready", "start_backoff_timer">>

BackendForcedTeardown ==
  <<"stop_monitor", "cancel_pong_timeout", "stop_alt_stream_reader", "stop_alt_dg_reader",
    "close_alt_path", "reset_alt_ready", "start_backoff_timer">>

(* Mutant: the datagrams' reader goes on. *)
ClientTeardown_ReaderLeft ==
  <<"stop_alt_stream_reader", "close_alt_path", "reset_alt_ready">>

ClientTeardown ==
  <<"stop_alt_stream_reader", "stop_alt_dg_reader", "close_alt_path", "reset_alt_ready">>

(* The leaves of the superstates that forward data.                        *)
BackendConnected == <<"RelayConnected", "CandidatesAdvertised", "AltActive", "AltDegraded", "RelayBackoff">>

BackendOnDirect == <<"AltActive", "AltDegraded">>

ClientConnected == <<"RelayConnected", "PairDialing", "PairChecking", "AltActive", "RelayFallback">>

---------------------------------------------------------------------------
(* The backend: its rows of the table, its constructor, and its          *)
(* three generated dispatchers.                                          *)
BackendTable == <<
  Row("Idle", Internal("cli_init_pair"), "", "generate_token", TokenIssued, <<>>, "GenerateToken"),
  Row("GenerateToken", Internal("token_created"), "", "register_relay", NoUpd, <<>>, "RegisterRelay"),
  Row("RegisterRelay", Internal("relay_registered"), "", "", [SecretPublished |-> Lit(TRUE)], <<>>,
      "WaitingForClient"),
  Row("WaitingForClient", Recv("pair_hello"), "token_valid", "derive_secret", HelloAccepted, <<>>,
      "DeriveSecret"),
  Row("WaitingForClient", Recv("pair_hello"), "token_invalid", "", NoUpd, <<>>, "Idle"),
  Emit("DeriveSecret", Internal("ecdh_complete"), <<"pair_hello_ack">>, "SendAck"),
  Emit("SendAck", Internal("signal_code_display"), <<"pair_confirm">>, "WaitingForCode"),
  Row("WaitingForCode", Internal("cli_code_entered"), "", "", [ReceivedCode |-> Calc("entered_code")], <<>>,
      "ValidateCode"),
  Row("ValidateCode", Internal("check_code"), "code_correct", "", NoUpd, <<>>, "StorePaired"),
  Row("ValidateCode", Internal("check_code"), "code_wrong", "", [CodeAttempts |-> Inc], <<>>, "Idle"),
  Row("StorePaired", Internal("finalise"), "", "store_device", DeviceStored, <<"pair_complete">>, "Paired"),
  Row("Paired", Recv("auth_request"), "", "", AuthReceived, <<>>, "AuthCheck"),
  Row("AuthCheck", Internal("verify"), "device_known", "verify_device",
      [AuthNoncesUsed |-> AddVar("ReceivedAuthNonce")], <<"auth_ok">>, "SessionActive"),
  Row("AuthCheck", Internal("verify"), "device_unknown", "", NoUpd, <<>>, "Idle"),
  Plain("SessionActive", Internal("session_established"), "RelayConnected"),
  Emit("RelayConnected", Internal("candidates_gathered"), <<"candidates">>, "CandidatesAdvertised"),
  Row("CandidatesAdvertised", Recv("pair_check"), "challenge_valid", "activate_lan", BackendActivated,
      <<"pair_check_ack">>, "AltActive"),
  Row("CandidatesAdvertised", Recv("pair_check"), "challenge_invalid", "", NoUpd, <<>>, "RelayConnected"),
  Row("CandidatesAdvertised", Internal("candidates_timeout"), "", "", [AltSignal |-> Lit("pending"),
      BackoffLevel |-> Capped], <<>>, "RelayBackoff"),
  Emit("AltActive", Internal("ping_tick"), <<"path_ping">>, "AltActive"),
  Row("AltActive", Internal("ping_timeout"), "", "", [PingFailures |-> Lit(1)], <<>>, "AltDegraded"),
  Emit("AltDegraded", Internal("ping_tick"), <<"path_ping">>, "AltDegraded"),
  Row("AltActive", Internal("alt_stream_error"), "", "fallback_to_relay", BackendFellBack, <<>>,
      "RelayBackoff"),
  Row("AltDegraded", Internal("alt_stream_error"), "", "fallback_to_relay", BackendFellBack, <<>>,
      "RelayBackoff"),
  Row("AltDegraded", Recv("path_pong"), "", "reset_failures", [PingFailures |-> Lit(0)], <<>>, "AltActive"),
  Row("AltDegraded", Internal("ping_timeout"), "under_max_failures", "", [PingFailures |-> Inc], <<>>,
      "AltDegraded"),
  Row("AltDegraded", Internal("ping_timeout"), "at_max_failures", "fallback_to_relay", BackendFellBack, <<>>,
      "RelayBackoff"),
  Emit("RelayBackoff", Internal("backoff_expired"), <<"candidates">>, "CandidatesAdvertised"),
  Row("RelayBackoff", Internal("candidates_changed"), "", "", [BackoffLevel |-> Lit(0)], <<"candidates">>,
      "CandidatesAdvertised"),
  Row("RelayConnected", Internal("candidates_refresh_tick"), "local_candidates_available", "", NoUpd,
      <<"candidates">>, "CandidatesAdvertised"),
  Row("CandidatesAdvertised", Internal("app_force_fallback"), "", "", [AltSignal |-> Lit("pending")], <<>>,
      "RelayConnected"),
  Row("AltActive", Internal("app_force_fallback"), "", "fallback_to_relay", BackendFellBack, <<>>,
      "RelayBackoff"),
  Row("AltDegraded", Internal("app_force_fallback"), "", "fallback_to_relay", BackendFellBack, <<>>,
      "RelayBackoff"),
  Plain("RelayConnected", Internal("disconnect"), "Paired") >>
  \o Loops(BackendConnected,
          <<<<"app_send", << >>>>, <<"relay_stream_data", << >>>>, <<"relay_stream_error", << >>>>,
            <<"app_send_datagram", << >>>>, <<"relay_datagram", << >>>>>>)
  \o Loops(BackendOnDirect,
          <<<<"alt_stream_data", << >>>>, <<"alt_datagram", << >>>>>>)

NewBackend == [
  State |-> "Idle", CurrentToken |-> "none", ActiveTokens |-> {}, UsedTokens |-> {},
  BackendEcdhPub |-> "none", ReceivedClientPub |-> "none", BackendSharedKey |-> "",
  BackendCode |-> "", ReceivedCode |-> "", CodeAttempts |-> 0, DeviceSecret |-> "none",
  PairedDevices |-> {}, ReceivedDeviceId |-> "none", AuthNoncesUsed |-> {},
  ReceivedAuthNonce |-> "none", SecretPublished |-> FALSE, PingFailures |-> 0, BackoffLevel |-> 0,
  BActivePath |-> "relay", BDispatcherPath |-> "relay", MonitorTarget |-> "none",
  AltSignal |-> "pending" ]

BackendHandleMessage == <<
  Row("WaitingForClient", Recv("pair_hello"), "token_valid", "derive_secret", HelloAccepted, <<>>,
      "DeriveSecret"),
  Row("WaitingForClient", Recv("pair_hello"), "token_invalid", "", NoUpd, <<>>, "Idle"),
  Row("Paired", Recv("auth_request"), "", "", AuthReceived, <<>>, "AuthCheck"),
  Row("CandidatesAdvertised", Recv("pair_check"), "challenge_valid", "activate_lan", BackendActivated, <<>>,
      "AltActive"),
  Row("CandidatesAdvertised", Recv("pair_check"), "challenge_invalid", "", NoUpd, <<>>, "RelayConnected"),
  Row("AltDegraded", Recv("path_pong"), "", "reset_failures", [PingFailures |-> Lit(0)], <<>>, "AltActive") >>

BackendStepPairing == <<
  Row("Idle", Internal("cli_init_pair"), "", "generate_token", TokenIssued, <<>>, "GenerateToken"),
  Row("GenerateToken", Internal("token_created"), "", "register_relay", NoUpd, <<>>, "RegisterRelay"),
  Row("RegisterRelay", Internal("relay_registered"), "", "", [SecretPublished |-> Lit(TRUE)], <<>>,
      "WaitingForClient"),
  Plain("DeriveSecret", Internal("ecdh_complete"), "SendAck"),
  Plain("SendAck", Internal("signal_code_display"), "WaitingForCode"),
  Row("WaitingForCode", Internal("cli_code_entered"), "", "", [ReceivedCode |-> Calc("entered_code")], <<>>,
      "ValidateCode"),
  Row("ValidateCode", Internal("check_code"), "code_correct", "", NoUpd, <<>>, "StorePaired"),
  Row("ValidateCode", Internal("check_code"), "code_wrong", "", [CodeAttempts |-> Inc], <<>>, "Idle"),
  Row("StorePaired", Internal("finalise"), "", "store_device", DeviceStored, <<>>, "Paired"),
  Row("AuthCheck", Internal("verify"), "device_known", "verify_device",
      [AuthNoncesUsed |-> AddVar("ReceivedAuthNonce")], <<>>, "SessionActive"),
  Row("AuthCheck", Internal("verify"), "device_unknown", "", NoUpd, <<>>, "Idle"),
  Plain("SessionActive", Internal("session_established"), "RelayConnected") >>

BackendStepAlt == <<
  Plain("RelayConnected", Internal("candidates_gathered"), "CandidatesAdvertised"),
  Row("CandidatesAdvertised", Internal("candidates_timeout"), "", "", [AltSignal |-> Lit("pending"),
      BackoffLevel |-> Capped], <<>>, "RelayBackoff"),
  Plain("AltActive", Internal("ping_tick"), "AltActive"),
  Row("AltActive", Internal("ping_timeout"), "", "", [PingFailures |-> Lit(1)], <<>>, "AltDegraded"),
  Plain("AltDegraded", Internal("ping_tick"), "AltDegraded"),
  Row("AltActive", Internal("alt_stream_error"), "", "fallback_to_relay", BackendFellBack, <<>>,
      "RelayBackoff"),
  Row("AltDegraded", Internal("alt_stream_error"), "", "fallback_to_relay", BackendFellBack, <<>>,
      "RelayBackoff") >>

BackendStepFallback == <<
  Row("AltDegraded", Internal("ping_timeout"), "under_max_failures", "", [PingFailures |-> Inc], <<>>,
      "AltDegraded"),
  Row("AltDegraded", Internal("ping_timeout"), "at_max_failures", "fallback_to_relay", BackendFellBack, <<>>,
      "RelayBackoff"),
  Plain("RelayBackoff", Internal("backoff_expired"), "CandidatesAdvertised"),
  Row("RelayBackoff", Internal("candidates_changed"), "", "", [BackoffLevel |-> Lit(0)], <<>>,
      "CandidatesAdvertised"),
  Row("RelayConnected", Internal("candidates_refresh_tick"), "local_candidates_available", "", NoUpd, <<>>,
      "CandidatesAdvertised"),
  Row("CandidatesAdvertised", Internal("app_force_fallback"), "", "", [AltSignal |-> Lit("pending")], <<>>,
      "RelayConnected"),
  Row("AltActive", Internal("app_force_fallback"), "", "fallback_to_relay", BackendFellBack, <<>>,
      "RelayBackoff"),
  Row("AltDegraded", Internal("app_force_fallback"), "", "fallback_to_relay", BackendFellBack, <<>>,
      "RelayBackoff"),
  Plain("RelayConnected", Internal("disconnect"), "Paired") >>

BackendStepForward ==
     Loops(BackendConnected,
          <<<<"app_send", << >>>>, <<"relay_stream_data", << >>>>, <<"relay_stream_error", << >>>>,
            <<"app_send_datagram", << >>>>, <<"relay_datagram", << >>>>>>)
  \o Loops(BackendOnDirect,
          <<<<"alt_stream_data", << >>>>, <<"alt_datagram", << >>>>>>)

BackendStep ==
  BackendStepPairing \o BackendStepAlt \o BackendStepFallback \o BackendStepForward

BackendEventPairing == <<
  Row("Idle", Internal("cli_init_pair"), "", "generate_token", TokenIssued, <<>>, "GenerateToken"),
  Row("GenerateToken", Internal("token_created"), "", "register_relay", NoUpd, <<>>, "RegisterRelay"),
  Row("RegisterRelay", Internal("relay_registered"), "", "", [SecretPublished |-> Lit(TRUE)], <<>>,
      "WaitingForClient"),
  Row("WaitingForClient", Recv("pair_hello"), "token_valid", "derive_secret", HelloAccepted, <<>>,
      "DeriveSecret"),
  Row("WaitingForClient", Recv("pair_hello"), "token_invalid", "", NoUpd, <<>>, "Idle"),
  Plain("DeriveSecret", Internal("ecdh_complete"), "SendAck"),
  Plain("SendAck", Internal("signal_code_display"), "WaitingForCode"),
  Row("WaitingForCode", Internal("cli_code_entered"), "", "", [ReceivedCode |-> Calc("entered_code")], <<>>,
      "ValidateCode"),
  Row("ValidateCode", Internal("check_code"), "code_correct", "", NoUpd, <<>>, "StorePaired"),
  Row("ValidateCode", Internal("check_code"), "code_wrong", "", [CodeAttempts |-> Inc], <<>>, "Idle"),
  Row("StorePaired", Internal("finalise"), "", "store_device", DeviceStored, <<>>, "Paired"),
  Row("Paired", Recv("auth_request"), "", "", AuthReceived, <<>>, "AuthCheck"),
  Row("AuthCheck", Internal("verify"), "device_known", "verify_device",
      [AuthNoncesUsed |-> AddVar("ReceivedAuthNonce")], <<>>, "SessionActive"),
  Row("AuthCheck", Internal("verify"), "device_unknown", "", NoUpd, <<>>, "Idle"),
  Plain("SessionActive", Internal("session_established"), "RelayConnected") >>

BackendEventAlt == <<
  Emit("RelayConnected", Internal("candidates_gathered"), <<"send_candidates">>, "CandidatesAdvertised"),
  Row("CandidatesAdvertised", Recv("pair_check"), "challenge_valid", "activate_lan", BackendActivated,
      <<"send_pair_check_ack", "start_alt_stream_reader", "start_alt_dg_reader", "start_monitor",
      "signal_alt_ready", "set_crypto_datagram">>, "AltActive"),
  Row("CandidatesAdvertised", Recv("pair_check"), "challenge_invalid", "", NoUpd, <<>>, "RelayConnected"),
  Row("CandidatesAdvertised", Internal("candidates_timeout"), "", "", [AltSignal |-> Lit("pending"),
      BackoffLevel |-> Capped], <<"reset_alt_ready", "start_backoff_timer">>, "RelayBackoff"),
  Emit("AltActive", Internal("ping_tick"), <<"send_path_ping", "start_pong_timeout">>, "AltActive"),
  Row("AltActive", Internal("ping_timeout"), "", "", [PingFailures |-> Lit(1)], <<>>, "AltDegraded"),
  Emit("AltDegraded", Internal("ping_tick"), <<"send_path_ping", "start_pong_timeout">>, "AltDegraded"),
  Row("AltActive", Internal("alt_stream_error"), "", "fallback_to_relay", BackendFellBack, BackendTeardown,
      "RelayBackoff"),
  Row("AltDegraded", Internal("alt_stream_error"), "", "fallback_to_relay", BackendFellBack, BackendTeardown,
      "RelayBackoff"),
  Row("AltDegraded", Recv("path_pong"), "", "reset_failures", [PingFailures |-> Lit(0)],
      <<"cancel_pong_timeout">>, "AltActive") >>

BackendEventFallback == <<
  Row("AltDegraded", Internal("ping_timeout"), "under_max_failures", "", [PingFailures |-> Inc], <<>>,
      "AltDegraded"),
  Row("AltDegraded", Internal("ping_timeout"), "at_max_failures", "fallback_to_relay", BackendFellBack,
      BackendTeardown, "RelayBackoff"),
  Emit("RelayBackoff", Internal("backoff_expired"), <<"send_candidates">>, "CandidatesAdvertised"),
  Row("RelayBackoff", Internal("candidates_changed"), "", "", [BackoffLevel |-> Lit(0)],
      <<"send_candidates">>, "CandidatesAdvertised"),
  Row("RelayConnected", Internal("candidates_refresh_tick"), "local_candidates_available", "", NoUpd,
      <<"send_candidates">>, "CandidatesAdvertised"),
  Row("CandidatesAdvertised", Internal("app_force_fallback"), "", "", [AltSignal |-> Lit("pending")],
      <<"reset_alt_ready">>, "RelayConnected"),
  Row("AltActive", Internal("app_force_fallback"), "", "fallback_to_relay", BackendFellBack,
      BackendForcedTeardown, "RelayBackoff"),
  Row("AltDegraded", Internal("app_force_fallback"), "", "fallback_to_relay", BackendFellBack,
      BackendForcedTeardown, "RelayBackoff"),
  Plain("RelayConnected", Internal("disconnect"), "Paired") >>

BackendEventForward ==
     Loops(BackendConnected,
          <<<<"app_send", <<"write_active_stream">>>>, <<"relay_stream_data", <<"deliver_recv">>>>,
            <<"relay_stream_error", <<"deliver_recv_error">>>>,
            <<"app_send_datagram", <<"send_active_datagram">>>>,
            <<"relay_datagram", <<"deliver_recv_datagram">>>>>>)
  \o Loops(BackendOnDirect,
          <<<<"alt_stream_data", <<"deliver_recv">>>>, <<"alt_datagram", <<"deliver_recv_datagram">>>>>>)

BackendHandleEvent ==
  BackendEventPairing \o BackendEventAlt \o BackendEventFallback \o BackendEventForward

Backend ==
  Machine(BackendTable, BackendHandleMessage, BackendStep, BackendHandleEvent, BackendStates, NewBackend, Msgs, Events)

---------------------------------------------------------------------------
(* The client: its rows of the table, its constructor, and its           *)
(* three generated dispatchers.                                          *)
ClientTable == <<
  Plain("Idle", Internal("backchannel_received"), "ObtainBackchannelSecret"),
  Plain("ObtainBackchannelSecret", Internal("secret_parsed"), "ConnectRelay"),
  Plain("ConnectRelay", Internal("relay_connected"), "GenKeyPair"),
  Row("GenKeyPair", Internal("key_pair_generated"), "", "send_pair_hello", NoUpd, <<"pair_hello">>,
      "WaitAck"),
  Row("WaitAck", Recv("pair_hello_ack"), "", "derive_secret", AckReceived, <<>>, "E2EReady"),
  Row("E2EReady", Recv("pair_confirm"), "", "", [ClientCode |-> Calc("code")], <<>>, "ShowCode"),
  Plain("ShowCode", Internal("code_displayed"), "WaitPairComplete"),
  Row("WaitPairComplete", Recv("pair_complete"), "", "store_secret", NoUpd, <<>>, "Paired"),
  Plain("Paired", Internal("app_launch"), "Reconnect"),
  Emit("Reconnect", Internal("relay_connected"), <<"auth_request">>, "SendAuth"),
  Plain("SendAuth", Recv("auth_ok"), "SessionActive"),
  Plain("SessionActive", Internal("session_established"), "RelayConnected"),
  Row("RelayConnected", Recv("candidates"), "alt_enabled", "dial_candidate", NoUpd, <<>>, "PairDialing"),
  Row("RelayConnected", Recv("candidates"), "alt_disabled", "", NoUpd, <<>>, "RelayConnected"),
  Emit("PairDialing", Internal("dial_ok"), <<"pair_check">>, "PairChecking"),
  Plain("PairDialing", Internal("dial_failed"), "RelayConnected"),
  Row("PairChecking", Recv("pair_check_ack"), "", "activate_lan", ClientActivated, <<>>, "AltActive"),
  Row("PairChecking", Internal("verify_timeout"), "", "", [CDispatcherPath |-> Lit("relay")], <<>>,
      "RelayConnected"),
  Emit("AltActive", Recv("path_ping"), <<"path_pong">>, "AltActive"),
  Row("AltActive", Internal("alt_error"), "", "fallback_to_relay", ClientFellBack, <<>>, "RelayFallback"),
  Row("AltActive", Internal("alt_stream_error"), "", "fallback_to_relay", ClientFellBack, <<>>,
      "RelayFallback"),
  Plain("RelayFallback", Internal("relay_ok"), "RelayConnected"),
  Row("AltActive", Recv("candidates"), "alt_enabled", "dial_candidate", NoUpd, <<>>, "PairDialing"),
  Plain("PairDialing", Internal("app_force_fallback"), "RelayConnected"),
  Row("PairChecking", Internal("app_force_fallback"), "", "", [CDispatcherPath |-> Lit("relay")], <<>>,
      "RelayConnected"),
  Row("AltActive", Internal("app_force_fallback"), "", "fallback_to_relay", ClientFellBack, <<>>,
      "RelayConnected"),
  Plain("RelayConnected", Internal("disconnect"), "Paired") >>
  \o Loops(ClientConnected,
          <<<<"app_send", << >>>>, <<"relay_stream_data", << >>>>, <<"relay_stream_error", << >>>>,
            <<"app_send_datagram", << >>>>, <<"relay_datagram", << >>>>>>)
  \o Loops(<<"AltActive">>,
          <<<<"alt_stream_data", << >>>>, <<"alt_datagram", << >>>>>>)

NewClient == [
  State |-> "Idle", ReceivedBackendPub |-> "none", ClientSharedKey |-> "", ClientCode |-> "",
  CActivePath |-> "relay", CDispatcherPath |-> "relay", AltSignal |-> "pending" ]

ClientHandleMessage == <<
  Row("WaitAck", Recv("pair_hello_ack"), "", "derive_secret", AckReceived, <<>>, "E2EReady"),
  Row("E2EReady", Recv("pair_confirm"), "", "", [ClientCode |-> Calc("code")], <<>>, "ShowCode"),
  Row("WaitPairComplete", Recv("pair_complete"), "", "store_secret", NoUpd, <<>>, "Paired"),
  Plain("SendAuth", Recv("auth_ok"), "SessionActive"),
  Row("RelayConnected", Recv("candidates"), "alt_enabled", "dial_candidate", NoUpd, <<>>, "PairDialing"),
  Row("RelayConnected", Recv("candidates"), "alt_disabled", "", NoUpd, <<>>, "RelayConnected"),
  Row("PairChecking", Recv("pair_check_ack"), "", "activate_lan", ClientActivated, <<>>, "AltActive"),
  Plain("AltActive", Recv("path_ping"), "AltActive"),
  Row("AltActive", Recv("candidates"), "alt_enabled", "dial_candidate", NoUpd, <<>>, "PairDialing") >>

ClientStepPairing == <<
  Plain("Idle", Internal("backchannel_received"), "ObtainBackchannelSecret"),
  Plain("ObtainBackchannelSecret", Internal("secret_parsed"), "ConnectRelay"),
  Plain("ConnectRelay", Internal("relay_connected"), "GenKeyPair"),
  Row("GenKeyPair", Internal("key_pair_generated"), "", "send_pair_hello", NoUpd, <<>>, "WaitAck"),
  Plain("ShowCode", Internal("code_displayed"), "WaitPairComplete"),
  Plain("Paired", Internal("app_launch"), "Reconnect"),
  Plain("Reconnect", Internal("relay_connected"), "SendAuth"),
  Plain("SessionActive", Internal("session_established"), "RelayConnected") >>

ClientStepAlt == <<
  Plain("PairDialing", Internal("dial_ok"), "PairChecking"),
  Plain("PairDialing", Internal("dial_failed"), "RelayConnected"),
  Row("PairChecking", Internal("verify_timeout"), "", "", [CDispatcherPath |-> Lit("relay")], <<>>,
      "RelayConnected"),
  Row("AltActive", Internal("alt_error"), "", "fallback_to_relay", ClientFellBack, <<>>, "RelayFallback"),
  Row("AltActive", Internal("alt_stream_error"), "", "fallback_to_relay", ClientFellBack, <<>>,
      "RelayFallback"),
  Plain("RelayFallback", Internal("relay_ok"), "RelayConnected"),
  Plain("PairDialing", Internal("app_force_fallback"), "RelayConnected"),
  Row("PairChecking", Internal("app_force_fallback"), "", "", [CDispatcherPath |-> Lit("relay")], <<>>,
      "RelayConnected"),
  Row("AltActive", Internal("app_force_fallback"), "", "fallback_to_relay", ClientFellBack, <<>>,
      "RelayConnected"),
  Plain("RelayConnected", Internal("disconnect"), "Paired") >>

ClientStepForward ==
     Loops(ClientConnected,
          <<<<"app_send", << >>>>, <<"relay_stream_data", << >>>>, <<"relay_stream_error", << >>>>,
            <<"app_send_datagram", << >>>>, <<"relay_datagram", << >>>>>>)
  \o Loops(<<"AltActive">>,
          <<<<"alt_stream_data", << >>>>, <<"alt_datagram", << >>>>>>)

ClientStep ==
  ClientStepPairing \o ClientStepAlt \o ClientStepForward

ClientEventPairing == <<
  Plain("Idle", Internal("backchannel_received"), "ObtainBackchannelSecret"),
  Plain("ObtainBackchannelSecret", Internal("secret_parsed"), "ConnectRelay"),
  Plain("ConnectRelay", Internal("relay_connected"), "GenKeyPair"),
  Row("GenKeyPair", Internal("key_pair_generated"), "", "send_pair_hello", NoUpd, <<>>, "WaitAck"),
  Row("WaitAck", Recv("pair_hello_ack"), "", "derive_secret", AckReceived, <<>>, "E2EReady"),
  Row("E2EReady", Recv("pair_confirm"), "", "", [ClientCode |-> Calc("code")], <<>>, "ShowCode"),
  Plain("ShowCode", Internal("code_displayed"), "WaitPairComplete"),
  Row("WaitPairComplete", Recv("pair_complete"), "", "store_secret", NoUpd, <<>>, "Paired"),
  Plain("Paired", Internal("app_launch"), "Reconnect"),
  Plain("Reconnect", Internal("relay_connected"), "SendAuth"),
  Plain("SendAuth", Recv("auth_ok"), "SessionActive"),
  Plain("SessionActive", Internal("session_established"), "RelayConnected"),
  Row("RelayConnected", Recv("candidates"), "alt_enabled", "dial_candidate", NoUpd, <<"dial_candidate">>,
      "PairDialing"),
  Row("RelayConnected", Recv("candidates"), "alt_disabled", "", NoUpd, <<>>, "RelayConnected") >>

ClientEventAlt == <<
  Emit("PairDialing", Internal("dial_ok"), <<"send_pair_check">>, "PairChecking"),
  Plain("PairDialing", Internal("dial_failed"), "RelayConnected"),
  Row("PairChecking", Recv("pair_check_ack"), "", "activate_lan", ClientActivated,
      <<"start_alt_stream_reader", "start_alt_dg_reader", "signal_alt_ready", "set_crypto_datagram">>,
      "AltActive"),
  Row("PairChecking", Internal("verify_timeout"), "", "", [CDispatcherPath |-> Lit("relay")], <<>>,
      "RelayConnected"),
  Emit("AltActive", Recv("path_ping"), <<"send_path_pong">>, "AltActive"),
  Row("AltActive", Internal("alt_error"), "", "fallback_to_relay", ClientFellBack, ClientTeardown,
      "RelayFallback"),
  Row("AltActive", Internal("alt_stream_error"), "", "fallback_to_relay", ClientFellBack, ClientTeardown,
      "RelayFallback"),
  Plain("RelayFallback", Internal("relay_ok"), "RelayConnected"),
  Row("AltActive", Recv("candidates"), "alt_enabled", "dial_candidate", NoUpd, <<"stop_alt_stream_reader",
      "stop_alt_dg_reader", "close_alt_path", "dial_candidate">>, "PairDialing"),
  Plain("PairDialing", Internal("app_force_fallback"), "RelayConnected"),
  Row("PairChecking", Internal("app_force_fallback"), "", "", [CDispatcherPath |-> Lit("relay")],
      <<"stop_alt_stream_reader", "stop_alt_dg_reader", "close_alt_path">>, "RelayConnected"),
  Row("AltActive", Internal("app_force_fallback"), "", "fallback_to_relay", ClientFellBack, ClientTeardown,
      "RelayConnected"),
  Plain("RelayConnected", Internal("disconnect"), "Paired") >>

ClientEventForward ==
     Loops(ClientConnected,
          <<<<"app_send", <<"write_active_stream">>>>, <<"relay_stream_data", <<"deliver_recv">>>>,
            <<"relay_stream_error", <<"deliver_recv_error">>>>,
            <<"app_send_datagram", <<"send_active_datagram">>>>,
            <<"relay_datagram", <<"deliver_recv_datagram">>>>>>)
  \o Loops(<<"AltActive">>,
          <<<<"alt_stream_data", <<"deliver_recv">>>>, <<"alt_datagram", <<"deliver_recv_datagram">>>>>>)

ClientHandleEvent ==
  ClientEventPairing \o ClientEventAlt \o ClientEventForward

Client ==
  Machine(ClientTable, ClientHandleMessage, ClientStep, ClientHandleEvent, ClientStates, NewClient, Msgs, Events)

---------------------------------------------------------------------------
(* The relay: its rows of the table, its constructor, and its            *)
(* three generated dispatchers.                                          *)
RelayTable == <<
  Plain("Idle", Internal("backend_register"), "BackendRegistered"),
  Row("BackendRegistered", Internal("client_connect"), "", "bridge_streams", [RelayBridge |-> Lit("active")],
      <<>>, "Bridged"),
  Row("Bridged", Internal("client_disconnect"), "", "unbridge", [RelayBridge |-> Lit("idle")], <<>>,
      "BackendRegistered"),
  Plain("BackendRegistered", Internal("backend_disconnect"), "Idle") >>

NewRelay == [
  State |-> "Idle", RelayBridge |-> "idle" ]

RelayHandleMessage == << >>

RelayStep == <<
  Plain("Idle", Internal("backend_register"), "BackendRegistered"),
  Row("BackendRegistered", Internal("client_connect"), "", "bridge_streams", [RelayBridge |-> Lit("active")],
      <<>>, "Bridged"),
  Row("Bridged", Internal("client_disconnect"), "", "unbridge", [RelayBridge |-> Lit("idle")], <<>>,
      "BackendRegistered"),
  Plain("BackendRegistered", Internal("backend_disconnect"), "Idle") >>

RelayHandleEvent == <<
  Plain("Idle", Internal("backend_register"), "BackendRegistered"),
  Row("BackendRegistered", Internal("client_connect"), "", "bridge_streams", [RelayBridge |-> Lit("active")],
      <<>>, "Bridged"),
  Row("Bridged", Internal("client_disconnect"), "", "unbridge", [RelayBridge |-> Lit("idle")], <<>>,
      "BackendRegistered"),
  Plain("BackendRegistered", Internal("backend_disconnect"), "Idle") >>

Relay ==
  Machine(RelayTable, RelayHandleMessage, RelayStep, RelayHandleEvent, RelayStates, NewRelay, Msgs, Events)
=============================================================================
