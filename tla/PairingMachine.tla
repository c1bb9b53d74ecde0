-------------------------- MODULE PairingMachine --------------------------
(* The pairing ceremony of pairing/pairingceremony_gen.go: acceptor and    *)
(* initiator.  The table and the three dispatchers are transcribed one by  *)
(* one.  The protocol has no guards.                                       *)
EXTENDS ProtocolMachine

PairingAcceptorStates == {
  "Idle", "GeneratingEphemeral", "RegisteringRelay", "WaitingForHello", "WaitingForReveal",
  "DerivingCode", "AwaitingUserConfirm", "AwaitingPeerConfirm", "Paired", "Aborted" }

PairingInitiatorStates == {
  "Idle", "DecodingToken", "GeneratingEphemeral", "ConnectingRelay", "AwaitingWelcome",
  "Revealing", "DerivingCode", "AwaitingUserConfirm", "AwaitingPeerConfirm", "Paired",
  "Aborted" }

PairingMsgs == {
  "hello", "welcome", "reveal", "confirm_to_initiator", "confirm_to_acceptor" }

PairingActions == {
  "decode_token", "derive_code", "dial_relay", "emit_token", "gen_ephemeral",
  "register_relay", "send_reveal", "store_commit", "store_record", "verify_commit_and_derive" }

(* The internal events; recv_<message> is Recv(<message>).  *)
PairingEvents == {
  "code_ready", "commit_fail", "ephemeral_ready", "pair_begin", "relay_connected",
  "relay_registered", "reveal_sent", "token_decoded", "token_received", "user_cancel",
  "user_confirm" }

PairingHelloStored == [
  AcceptorReceivedCommit |-> Calc("commit"), AcceptorReceivedIdentity |-> Calc("identity_pub"),
  AcceptorReceivedInstance |-> Calc("instance_id") ]

PairingRevealVerified == [
  AcceptorCode |-> Calc("code"), AcceptorCommitOk |-> Calc("commit_ok"),
  AcceptorReceivedEphPub |-> Calc("eph_pub") ]

PairingWelcomeStored == [
  InitiatorReceivedEphPub |-> Calc("eph_pub"), InitiatorReceivedIdentity |-> Calc("identity_pub"),
  InitiatorReceivedInstance |-> Calc("instance_id") ]

PairingTokenDecoded == [
  ReceivedAcceptorEphPub |-> Lit("acceptor_eph"), ReceivedAcceptorIdentity |-> Lit("acceptor_id"),
  ReceivedAcceptorInstance |-> Lit("acceptor_instance") ]

---------------------------------------------------------------------------
(* The acceptor: its rows of the table, its constructor, and its         *)
(* three generated dispatchers.                                          *)
PairingAcceptorTable == <<
  Row("Idle", Internal("pair_begin"), "", "gen_ephemeral", [AcceptorEphPub |-> Lit("acceptor_eph")], <<>>,
      "GeneratingEphemeral"),
  Row("GeneratingEphemeral", Internal("ephemeral_ready"), "", "register_relay", NoUpd, <<>>,
      "RegisteringRelay"),
  Row("RegisteringRelay", Internal("relay_registered"), "", "emit_token", NoUpd, <<>>, "WaitingForHello"),
  Row("WaitingForHello", Recv("hello"), "", "store_commit", PairingHelloStored, <<"welcome">>, "WaitingForReveal"),
  Row("WaitingForReveal", Recv("reveal"), "", "verify_commit_and_derive", PairingRevealVerified, <<>>,
      "DerivingCode"),
  Plain("DerivingCode", Internal("code_ready"), "AwaitingUserConfirm"),
  Row("AwaitingUserConfirm", Internal("user_confirm"), "", "", [AcceptorUserConfirmed |-> Lit("true")],
      <<"confirm_to_initiator">>, "AwaitingPeerConfirm"),
  Row("AwaitingPeerConfirm", Recv("confirm_to_acceptor"), "", "store_record",
      [AcceptorReceivedConfirm |-> Lit("true")], <<>>, "Paired"),
  Plain("AwaitingUserConfirm", Internal("user_cancel"), "Aborted"),
  Plain("AwaitingPeerConfirm", Internal("user_cancel"), "Aborted"),
  Plain("WaitingForReveal", Internal("commit_fail"), "Aborted") >>

PairingNewAcceptor == [
  State |-> "Idle", AcceptorEphPub |-> "none", AcceptorReceivedCommit |-> "none",
  AcceptorReceivedEphPub |-> "none", AcceptorReceivedIdentity |-> "none",
  AcceptorReceivedInstance |-> "none", AcceptorCommitOk |-> "false", AcceptorCode |-> "",
  AcceptorUserConfirmed |-> "false", AcceptorReceivedConfirm |-> "false" ]

PairingAcceptorHandleMessage == <<
  Row("WaitingForHello", Recv("hello"), "", "store_commit", PairingHelloStored, <<>>, "WaitingForReveal"),
  Row("WaitingForReveal", Recv("reveal"), "", "verify_commit_and_derive", PairingRevealVerified, <<>>,
      "DerivingCode"),
  Row("AwaitingPeerConfirm", Recv("confirm_to_acceptor"), "", "store_record",
      [AcceptorReceivedConfirm |-> Lit("true")], <<>>, "Paired") >>

PairingAcceptorStep == <<
  Row("Idle", Internal("pair_begin"), "", "gen_ephemeral", [AcceptorEphPub |-> Lit("acceptor_eph")], <<>>,
      "GeneratingEphemeral"),
  Row("GeneratingEphemeral", Internal("ephemeral_ready"), "", "register_relay", NoUpd, <<>>,
      "RegisteringRelay"),
  Row("RegisteringRelay", Internal("relay_registered"), "", "emit_token", NoUpd, <<>>, "WaitingForHello"),
  Plain("DerivingCode", Internal("code_ready"), "AwaitingUserConfirm"),
  Row("AwaitingUserConfirm", Internal("user_confirm"), "", "", [AcceptorUserConfirmed |-> Lit("true")], <<>>,
      "AwaitingPeerConfirm"),
  Plain("AwaitingUserConfirm", Internal("user_cancel"), "Aborted"),
  Plain("AwaitingPeerConfirm", Internal("user_cancel"), "Aborted"),
  Plain("WaitingForReveal", Internal("commit_fail"), "Aborted") >>

PairingAcceptorHandleEvent == <<
  Row("Idle", Internal("pair_begin"), "", "gen_ephemeral", [AcceptorEphPub |-> Lit("acceptor_eph")], <<>>,
      "GeneratingEphemeral"),
  Row("GeneratingEphemeral", Internal("ephemeral_ready"), "", "register_relay", NoUpd, <<>>,
      "RegisteringRelay"),
  Row("RegisteringRelay", Internal("relay_registered"), "", "emit_token", NoUpd, <<>>, "WaitingForHello"),
  Row("WaitingForHello", Recv("hello"), "", "store_commit", PairingHelloStored, <<>>, "WaitingForReveal"),
  Row("WaitingForReveal", Recv("reveal"), "", "verify_commit_and_derive", PairingRevealVerified, <<>>,
      "DerivingCode"),
  Plain("DerivingCode", Internal("code_ready"), "AwaitingUserConfirm"),
  Row("AwaitingUserConfirm", Internal("user_confirm"), "", "", [AcceptorUserConfirmed |-> Lit("true")], <<>>,
      "AwaitingPeerConfirm"),
  Row("AwaitingPeerConfirm", Recv("confirm_to_acceptor"), "", "store_record",
      [AcceptorReceivedConfirm |-> Lit("true")], <<>>, "Paired"),
  Plain("AwaitingUserConfirm", Internal("user_cancel"), "Aborted"),
  Plain("AwaitingPeerConfirm", Internal("user_cancel"), "Aborted"),
  Plain("WaitingForReveal", Internal("commit_fail"), "Aborted") >>

PairingAcceptor ==
  Machine(PairingAcceptorTable, PairingAcceptorHandleMessage, PairingAcceptorStep, PairingAcceptorHandleEvent, PairingAcceptorStates, PairingNewAcceptor, PairingMsgs, PairingEvents)

---------------------------------------------------------------------------
(* The initiator: its rows of the table, its constructor, and its        *)
(* three generated dispatchers.                                          *)
PairingInitiatorTable == <<
  Row("Idle", Internal("token_received"), "", "decode_token", PairingTokenDecoded, <<>>, "DecodingToken"),
  Row("DecodingToken", Internal("token_decoded"), "", "gen_ephemeral",
      [InitiatorCommit |-> Lit("initiator_commit"), InitiatorEphPub |-> Lit("initiator_eph")], <<>>,
      "GeneratingEphemeral"),
  Row("GeneratingEphemeral", Internal("ephemeral_ready"), "", "dial_relay", NoUpd, <<>>, "ConnectingRelay"),
  Emit("ConnectingRelay", Internal("relay_connected"), <<"hello">>, "AwaitingWelcome"),
  Row("AwaitingWelcome", Recv("welcome"), "", "send_reveal", PairingWelcomeStored, <<"reveal">>, "Revealing"),
  Row("Revealing", Internal("reveal_sent"), "", "derive_code", [InitiatorCode |-> Calc("code")], <<>>,
      "DerivingCode"),
  Plain("DerivingCode", Internal("code_ready"), "AwaitingUserConfirm"),
  Row("AwaitingUserConfirm", Internal("user_confirm"), "", "", [InitiatorUserConfirmed |-> Lit("true")],
      <<"confirm_to_acceptor">>, "AwaitingPeerConfirm"),
  Row("AwaitingPeerConfirm", Recv("confirm_to_initiator"), "", "store_record",
      [InitiatorReceivedConfirm |-> Lit("true")], <<>>, "Paired"),
  Plain("AwaitingUserConfirm", Internal("user_cancel"), "Aborted"),
  Plain("AwaitingPeerConfirm", Internal("user_cancel"), "Aborted") >>

PairingNewInitiator == [
  State |-> "Idle", InitiatorEphPub |-> "none", InitiatorCommit |-> "none",
  ReceivedAcceptorEphPub |-> "none", ReceivedAcceptorIdentity |-> "none",
  ReceivedAcceptorInstance |-> "none", InitiatorReceivedEphPub |-> "none",
  InitiatorReceivedIdentity |-> "none", InitiatorReceivedInstance |-> "none", InitiatorCode |-> "",
  InitiatorUserConfirmed |-> "false", InitiatorReceivedConfirm |-> "false" ]

PairingInitiatorHandleMessage == <<
  Row("AwaitingWelcome", Recv("welcome"), "", "send_reveal", PairingWelcomeStored, <<>>, "Revealing"),
  Row("AwaitingPeerConfirm", Recv("confirm_to_initiator"), "", "store_record",
      [InitiatorReceivedConfirm |-> Lit("true")], <<>>, "Paired") >>

PairingInitiatorStep == <<
  Row("Idle", Internal("token_received"), "", "decode_token", PairingTokenDecoded, <<>>, "DecodingToken"),
  Row("DecodingToken", Internal("token_decoded"), "", "gen_ephemeral",
      [InitiatorCommit |-> Lit("initiator_commit"), InitiatorEphPub |-> Lit("initiator_eph")], <<>>,
      "GeneratingEphemeral"),
  Row("GeneratingEphemeral", Internal("ephemeral_ready"), "", "dial_relay", NoUpd, <<>>, "ConnectingRelay"),
  Plain("ConnectingRelay", Internal("relay_connected"), "AwaitingWelcome"),
  Row("Revealing", Internal("reveal_sent"), "", "derive_code", [InitiatorCode |-> Calc("code")], <<>>,
      "DerivingCode"),
  Plain("DerivingCode", Internal("code_ready"), "AwaitingUserConfirm"),
  Row("AwaitingUserConfirm", Internal("user_confirm"), "", "", [InitiatorUserConfirmed |-> Lit("true")],
      <<>>, "AwaitingPeerConfirm"),
  Plain("AwaitingUserConfirm", Internal("user_cancel"), "Aborted"),
  Plain("AwaitingPeerConfirm", Internal("user_cancel"), "Aborted") >>

PairingInitiatorHandleEvent == <<
  Row("Idle", Internal("token_received"), "", "decode_token", PairingTokenDecoded, <<>>, "DecodingToken"),
  Row("DecodingToken", Internal("token_decoded"), "", "gen_ephemeral",
      [InitiatorCommit |-> Lit("initiator_commit"), InitiatorEphPub |-> Lit("initiator_eph")], <<>>,
      "GeneratingEphemeral"),
  Row("GeneratingEphemeral", Internal("ephemeral_ready"), "", "dial_relay", NoUpd, <<>>, "ConnectingRelay"),
  Plain("ConnectingRelay", Internal("relay_connected"), "AwaitingWelcome"),
  Row("AwaitingWelcome", Recv("welcome"), "", "send_reveal", PairingWelcomeStored, <<>>, "Revealing"),
  Row("Revealing", Internal("reveal_sent"), "", "derive_code", [InitiatorCode |-> Calc("code")], <<>>,
      "DerivingCode"),
  Plain("DerivingCode", Internal("code_ready"), "AwaitingUserConfirm"),
  Row("AwaitingUserConfirm", Internal("user_confirm"), "", "", [InitiatorUserConfirmed |-> Lit("true")],
      <<>>, "AwaitingPeerConfirm"),
  Row("AwaitingPeerConfirm", Recv("confirm_to_initiator"), "", "store_record",
      [InitiatorReceivedConfirm |-> Lit("true")], <<>>, "Paired"),
  Plain("AwaitingUserConfirm", Internal("user_cancel"), "Aborted"),
  Plain("AwaitingPeerConfirm", Internal("user_cancel"), "Aborted") >>

PairingInitiator ==
  Machine(PairingInitiatorTable, PairingInitiatorHandleMessage, PairingInitiatorStep, PairingInitiatorHandleEvent, PairingInitiatorStates, PairingNewInitiator, PairingMsgs, PairingEvents)
=============================================================================
