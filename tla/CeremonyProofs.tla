--------------------------- MODULE CeremonyProofs ---------------------------
(***************************************************************************)
(* Proofs about Ceremony, with and without DeferClose: the generated       *)
(* machines take every call the two C drivers make, CeremonyInv is         *)
(* inductive, and the safety properties follow from it.                    *)
(*                                                                         *)
(* The lemmas go from the tables to the system: what a machine does with a *)
(* trigger, which entry of a script meets which state, what a segment of   *)
(* mail keeps when a message is sent, taken or lost; then one lemma per    *)
(* action.                                                                 *)
(***************************************************************************)
EXTENDS Ceremony, SequenceTheorems, TLAPS

\* A machine in state q that is given on takes it, and goes to r.
Walks(s, q, on, r) ==
  /\ Matching(Rows(s, on), [State |-> q], on, Hooks({}, {}, FALSE)) # {}
  /\ GoCase(Rows(s, on), [State |-> q], on, Hooks({}, {}, FALSE)).to = r

Unguarded(t) == t.guard = ""

\* In a generated switch no two cases of which have the same state and the
\* same trigger, the case for them runs if it asks no guard.
LEMMA OnlyCase ==
  ASSUME NEW s, NEW rows, DOMAIN rows \subseteq Nat,
         \A i \in DOMAIN rows : Rows(s, rows[i].on) = rows,
         \A i, j \in DOMAIN rows : rows[i].from = rows[j].from /\ rows[i].on = rows[j].on => i = j,
         NEW i \in DOMAIN rows, Unguarded(rows[i])
  PROVE  Walks(s, rows[i].from, rows[i].on, rows[i].to)
<1> DEFINE m == [State |-> rows[i].from]
           h == Hooks({}, {}, FALSE)
<1>1. Matching(rows, m, rows[i].on, h) = {i}
  BY ZenonT(60) DEF Matching, Hooks, Unguarded
<1>2. Min({i}) = i
  <2>1. i \in Nat
    OBVIOUS
  <2>2. i <= i
    BY ONLY <2>1
  <2>3. QED
    BY Zenon, <2>2 DEF Min
<1>3. Rows(s, rows[i].on) = rows
  OBVIOUS
<1> HIDE DEF m, h
<1>4. Matching(rows, m, rows[i].on, h) # {} /\ GoCase(rows, m, rows[i].on, h).to = rows[i].to
  BY ONLY <1>1, <1>2 DEF GoCase
<1>5. QED
  BY Zenon, <1>3, <1>4 DEF Walks, m, h

\* What the acceptor's HandleMessage does with the messages of the ceremony.
LEMMA AcceptorMessages ==
  /\ Walks("acc", "WaitingForHello", Recv("hello"), "WaitingForReveal")
  /\ Walks("acc", "WaitingForReveal", Recv("reveal"), "DerivingCode")
  /\ Walks("acc", "AwaitingPeerConfirm", Recv("confirm_to_acceptor"), "Paired")
<1> DEFINE rows == PairingAcceptorHandleMessage
<1>1. DOMAIN rows = 1 .. 3
  BY DEF PairingAcceptorHandleMessage
<1>2. /\ rows[1].from = "WaitingForHello" /\ rows[1].on = Recv("hello")
      /\ Unguarded(rows[1]) /\ rows[1].to = "WaitingForReveal"
      /\ rows[2].from = "WaitingForReveal" /\ rows[2].on = Recv("reveal")
      /\ Unguarded(rows[2]) /\ rows[2].to = "DerivingCode"
      /\ rows[3].from = "AwaitingPeerConfirm" /\ rows[3].on = Recv("confirm_to_acceptor")
      /\ Unguarded(rows[3]) /\ rows[3].to = "Paired"
  BY ZenonT(60) DEF PairingAcceptorHandleMessage, Row, Plain, Unguarded
<1>3. \A i \in DOMAIN rows : Rows("acc", rows[i].on) = rows
  BY <1>1, <1>2 DEF Rows, Recv
<1>4. \A i, j \in DOMAIN rows : rows[i].from = rows[j].from /\ rows[i].on = rows[j].on => i = j
  BY <1>1, <1>2
<1> HIDE DEF rows
<1>5. \A i \in DOMAIN rows : Unguarded(rows[i]) => Walks("acc", rows[i].from, rows[i].on, rows[i].to)
  <2>1. DOMAIN rows \subseteq Nat
    BY <1>1
  <2>2. QED
    BY Zenon, <2>1, <1>3, <1>4, OnlyCase
<1>6. QED
  BY <1>1, <1>2, <1>5

\* What the acceptor's Step does with the events its driver gives it.
LEMMA AcceptorSteps ==
  /\ Walks("acc", "Idle", Internal("pair_begin"), "GeneratingEphemeral")
  /\ Walks("acc", "GeneratingEphemeral", Internal("ephemeral_ready"), "RegisteringRelay")
  /\ Walks("acc", "RegisteringRelay", Internal("relay_registered"), "WaitingForHello")
  /\ Walks("acc", "DerivingCode", Internal("code_ready"), "AwaitingUserConfirm")
  /\ Walks("acc", "AwaitingUserConfirm", Internal("user_confirm"), "AwaitingPeerConfirm")
<1> DEFINE rows == PairingAcceptorStep
<1>1. DOMAIN rows = 1 .. 8
  BY DEF PairingAcceptorStep
<1>2. /\ rows[1].from = "Idle" /\ rows[1].on = Internal("pair_begin")
      /\ Unguarded(rows[1]) /\ rows[1].to = "GeneratingEphemeral"
      /\ rows[2].from = "GeneratingEphemeral" /\ rows[2].on = Internal("ephemeral_ready")
      /\ Unguarded(rows[2]) /\ rows[2].to = "RegisteringRelay"
      /\ rows[3].from = "RegisteringRelay" /\ rows[3].on = Internal("relay_registered")
      /\ Unguarded(rows[3]) /\ rows[3].to = "WaitingForHello"
      /\ rows[4].from = "DerivingCode" /\ rows[4].on = Internal("code_ready")
      /\ Unguarded(rows[4]) /\ rows[4].to = "AwaitingUserConfirm"
      /\ rows[5].from = "AwaitingUserConfirm" /\ rows[5].on = Internal("user_confirm")
      /\ Unguarded(rows[5]) /\ rows[5].to = "AwaitingPeerConfirm"
      /\ rows[6].from = "AwaitingUserConfirm" /\ rows[6].on = Internal("user_cancel")
      /\ rows[7].from = "AwaitingPeerConfirm" /\ rows[7].on = Internal("user_cancel")
      /\ rows[8].from = "WaitingForReveal" /\ rows[8].on = Internal("commit_fail")
  BY ZenonT(60) DEF PairingAcceptorStep, Row, Plain, Unguarded
<1>3. \A i \in DOMAIN rows : Rows("acc", rows[i].on) = rows
  BY <1>1, <1>2 DEF Rows, Internal
<1>4. \A i, j \in DOMAIN rows : rows[i].from = rows[j].from /\ rows[i].on = rows[j].on => i = j
  <2>1. Internal("user_confirm") # Internal("user_cancel")
    BY DEF Internal
  <2> HIDE DEF rows
  <2>2. QED
    BY <1>1, <1>2, <2>1
<1> HIDE DEF rows
<1>5. \A i \in DOMAIN rows : Unguarded(rows[i]) => Walks("acc", rows[i].from, rows[i].on, rows[i].to)
  <2>1. DOMAIN rows \subseteq Nat
    BY <1>1
  <2>2. QED
    BY Zenon, <2>1, <1>3, <1>4, OnlyCase
<1>6. QED
  BY <1>1, <1>2, <1>5

\* What the initiator's HandleMessage does with the messages of the ceremony.
LEMMA InitiatorMessages ==
  /\ Walks("ini", "AwaitingWelcome", Recv("welcome"), "Revealing")
  /\ Walks("ini", "AwaitingPeerConfirm", Recv("confirm_to_initiator"), "Paired")
<1> DEFINE rows == PairingInitiatorHandleMessage
<1>1. DOMAIN rows = 1 .. 2
  BY DEF PairingInitiatorHandleMessage
<1>2. /\ rows[1].from = "AwaitingWelcome" /\ rows[1].on = Recv("welcome")
      /\ Unguarded(rows[1]) /\ rows[1].to = "Revealing"
      /\ rows[2].from = "AwaitingPeerConfirm" /\ rows[2].on = Recv("confirm_to_initiator")
      /\ Unguarded(rows[2]) /\ rows[2].to = "Paired"
  BY ZenonT(60) DEF PairingInitiatorHandleMessage, Row, Plain, Unguarded
<1>3. \A i \in DOMAIN rows : Rows("ini", rows[i].on) = rows
  BY <1>1, <1>2 DEF Rows, Recv
<1>4. \A i, j \in DOMAIN rows : rows[i].from = rows[j].from /\ rows[i].on = rows[j].on => i = j
  BY <1>1, <1>2
<1> HIDE DEF rows
<1>5. \A i \in DOMAIN rows : Unguarded(rows[i]) => Walks("ini", rows[i].from, rows[i].on, rows[i].to)
  <2>1. DOMAIN rows \subseteq Nat
    BY <1>1
  <2>2. QED
    BY Zenon, <2>1, <1>3, <1>4, OnlyCase
<1>6. QED
  BY <1>1, <1>2, <1>5

\* What the initiator's Step does with the events its driver gives it.
LEMMA InitiatorSteps ==
  /\ Walks("ini", "Idle", Internal("token_received"), "DecodingToken")
  /\ Walks("ini", "DecodingToken", Internal("token_decoded"), "GeneratingEphemeral")
  /\ Walks("ini", "GeneratingEphemeral", Internal("ephemeral_ready"), "ConnectingRelay")
  /\ Walks("ini", "ConnectingRelay", Internal("relay_connected"), "AwaitingWelcome")
  /\ Walks("ini", "Revealing", Internal("reveal_sent"), "DerivingCode")
  /\ Walks("ini", "DerivingCode", Internal("code_ready"), "AwaitingUserConfirm")
  /\ Walks("ini", "AwaitingUserConfirm", Internal("user_confirm"), "AwaitingPeerConfirm")
<1> DEFINE rows == PairingInitiatorStep
<1>1. DOMAIN rows = 1 .. 9
  BY DEF PairingInitiatorStep
<1>2. /\ rows[1].from = "Idle" /\ rows[1].on = Internal("token_received")
      /\ Unguarded(rows[1]) /\ rows[1].to = "DecodingToken"
      /\ rows[2].from = "DecodingToken" /\ rows[2].on = Internal("token_decoded")
      /\ Unguarded(rows[2]) /\ rows[2].to = "GeneratingEphemeral"
      /\ rows[3].from = "GeneratingEphemeral" /\ rows[3].on = Internal("ephemeral_ready")
      /\ Unguarded(rows[3]) /\ rows[3].to = "ConnectingRelay"
      /\ rows[4].from = "ConnectingRelay" /\ rows[4].on = Internal("relay_connected")
      /\ Unguarded(rows[4]) /\ rows[4].to = "AwaitingWelcome"
      /\ rows[5].from = "Revealing" /\ rows[5].on = Internal("reveal_sent")
      /\ Unguarded(rows[5]) /\ rows[5].to = "DerivingCode"
      /\ rows[6].from = "DerivingCode" /\ rows[6].on = Internal("code_ready")
      /\ Unguarded(rows[6]) /\ rows[6].to = "AwaitingUserConfirm"
      /\ rows[7].from = "AwaitingUserConfirm" /\ rows[7].on = Internal("user_confirm")
      /\ Unguarded(rows[7]) /\ rows[7].to = "AwaitingPeerConfirm"
      /\ rows[8].from = "AwaitingUserConfirm" /\ rows[8].on = Internal("user_cancel")
      /\ rows[9].from = "AwaitingPeerConfirm" /\ rows[9].on = Internal("user_cancel")
  BY ZenonT(60) DEF PairingInitiatorStep, Row, Plain, Unguarded
<1>3. \A i \in DOMAIN rows : Rows("ini", rows[i].on) = rows
  BY <1>1, <1>2 DEF Rows, Internal
<1>4. \A i, j \in DOMAIN rows : rows[i].from = rows[j].from /\ rows[i].on = rows[j].on => i = j
  <2>1. Internal("user_confirm") # Internal("user_cancel")
    BY DEF Internal
  <2> HIDE DEF rows
  <2>2. QED
    BY <1>1, <1>2, <2>1
<1> HIDE DEF rows
<1>5. \A i \in DOMAIN rows : Unguarded(rows[i]) => Walks("ini", rows[i].from, rows[i].on, rows[i].to)
  <2>1. DOMAIN rows \subseteq Nat
    BY <1>1
  <2>2. QED
    BY Zenon, <2>1, <1>3, <1>4, OnlyCase
<1>6. QED
  BY <1>1, <1>2, <1>5

\* What an entry of a script does to the counts and to the machine.
EntryFits(s, n) ==
  LET e == Script(s)[n]
  IN  /\ SentAt(Peer(s), n + 1) = SentAt(Peer(s), n) + (IF e.op = "send" THEN 1 ELSE 0)
      /\ TakenAt(s, n + 1) = TakenAt(s, n) + (IF e.op = "recv" THEN 1 ELSE 0)
      /\ e.op = "send" => e.msg = Mail(Peer(s))[SentAt(Peer(s), n + 1)]
      /\ e.op = "recv" => e.msg = Mail(s)[TakenAt(s, n + 1)]
      /\ e.op = "ask" <=> n = AskAt(s)
      /\ IF e.op \in {"step", "recv"}
         THEN Walks(s, StateAt(s)[n], e.on, StateAt(s)[n + 1])
         ELSE StateAt(s)[n + 1] = StateAt(s)[n]

\* The calls of a script, field by field.
LEMMA Calls ==
  /\ \A x : Step(x).op = "step" /\ Step(x).on = Internal(x)
  /\ \A x : Send(x).op = "send" /\ Send(x).msg = x
  /\ \A x, y : Await(x, y).op = "recv" /\ Await(x, y).msg = x /\ Await(x, y).on = Recv(y)
  /\ Show.op = "show" /\ Ask.op = "ask"
BY Zenon DEF Step, Send, Await, Show, Ask

\* Every call of the acceptor's driver fits its machine and the order of the messages.
LEMMA AcceptorFits == Len(Script("acc")) = 12 /\ \A n \in 1 .. 12 : EntryFits("acc", n)
<1> DEFINE e == Script("acc")
           q == StateAt("acc")
<1>1. Len(e) = 12
  BY DEF Script, pigeon_pair_acceptor
<1>2. /\ e[1] = Step("pair_begin") /\ e[2] = Step("ephemeral_ready")
      /\ e[3] = Step("relay_registered") /\ e[4] = Await("hello", "hello")
      /\ e[5] = Send("welcome") /\ e[6] = Await("reveal", "reveal") /\ e[7] = Step("code_ready")
      /\ e[8] = Show /\ e[9] = Ask /\ e[10] = Step("user_confirm") /\ e[11] = Send("confirm")
      /\ e[12] = Await("confirm", "confirm_to_acceptor")
  BY ZenonT(60) DEF Script, pigeon_pair_acceptor
<1>3. /\ q[1] = "Idle" /\ q[2] = "GeneratingEphemeral" /\ q[3] = "RegisteringRelay"
      /\ q[4] = "WaitingForHello" /\ q[5] = "WaitingForReveal" /\ q[6] = "WaitingForReveal"
      /\ q[7] = "DerivingCode" /\ q[8] = "AwaitingUserConfirm" /\ q[9] = "AwaitingUserConfirm"
      /\ q[10] = "AwaitingUserConfirm" /\ q[11] = "AwaitingPeerConfirm"
      /\ q[12] = "AwaitingPeerConfirm" /\ q[13] = "Paired"
  BY ZenonT(60) DEF StateAt
<1>4. Peer("acc") = "ini"
  BY DEF Peer
<1> HIDE DEF e, q
<1>5. EntryFits("acc", 1)
  BY <1>2, <1>3, <1>4, Calls, AcceptorSteps DEF EntryFits, SentAt, TakenAt, Mail, AskAt, e, q
<1>6. EntryFits("acc", 2)
  BY <1>2, <1>3, <1>4, Calls, AcceptorSteps DEF EntryFits, SentAt, TakenAt, Mail, AskAt, e, q
<1>7. EntryFits("acc", 3)
  BY <1>2, <1>3, <1>4, Calls, AcceptorSteps DEF EntryFits, SentAt, TakenAt, Mail, AskAt, e, q
<1>8. EntryFits("acc", 4)
  BY <1>2, <1>3, <1>4, Calls, AcceptorMessages DEF EntryFits, SentAt, TakenAt, Mail, AskAt, e, q
<1>9. EntryFits("acc", 5)
  BY <1>2, <1>3, <1>4, Calls DEF EntryFits, SentAt, TakenAt, Mail, AskAt, e, q
<1>10. EntryFits("acc", 6)
  BY <1>2, <1>3, <1>4, Calls, AcceptorMessages DEF EntryFits, SentAt, TakenAt, Mail, AskAt, e, q
<1>11. EntryFits("acc", 7)
  BY <1>2, <1>3, <1>4, Calls, AcceptorSteps DEF EntryFits, SentAt, TakenAt, Mail, AskAt, e, q
<1>12. EntryFits("acc", 8)
  BY <1>2, <1>3, <1>4, Calls DEF EntryFits, SentAt, TakenAt, Mail, AskAt, e, q
<1>13. EntryFits("acc", 9)
  BY <1>2, <1>3, <1>4, Calls DEF EntryFits, SentAt, TakenAt, Mail, AskAt, e, q
<1>14. EntryFits("acc", 10)
  BY <1>2, <1>3, <1>4, Calls, AcceptorSteps DEF EntryFits, SentAt, TakenAt, Mail, AskAt, e, q
<1>15. EntryFits("acc", 11)
  BY <1>2, <1>3, <1>4, Calls DEF EntryFits, SentAt, TakenAt, Mail, AskAt, e, q
<1>16. EntryFits("acc", 12)
  BY <1>2, <1>3, <1>4, Calls, AcceptorMessages DEF EntryFits, SentAt, TakenAt, Mail, AskAt, e, q
<1>17. QED
  BY SMTT(60), Z3T(60), <1>1, <1>5, <1>6, <1>7, <1>8, <1>9, <1>10, <1>11, <1>12, <1>13, <1>14, <1>15, <1>16 DEF e

\* Every call of the initiator's driver fits its machine and the order of the messages.
LEMMA InitiatorFits == Len(Script("ini")) = 14 /\ \A n \in 1 .. 14 : EntryFits("ini", n)
<1> DEFINE e == Script("ini")
           q == StateAt("ini")
<1>1. Len(e) = 14
  BY DEF Script, pigeon_pair_initiator
<1>2. /\ e[1] = Step("token_received") /\ e[2] = Step("token_decoded")
      /\ e[3] = Step("ephemeral_ready") /\ e[4] = Step("relay_connected") /\ e[5] = Send("hello")
      /\ e[6] = Await("welcome", "welcome") /\ e[7] = Send("reveal") /\ e[8] = Step("reveal_sent")
      /\ e[9] = Step("code_ready") /\ e[10] = Show /\ e[11] = Ask /\ e[12] = Step("user_confirm")
      /\ e[13] = Send("confirm") /\ e[14] = Await("confirm", "confirm_to_initiator")
  BY ZenonT(60) DEF Script, pigeon_pair_initiator
<1>3. /\ q[1] = "Idle" /\ q[2] = "DecodingToken" /\ q[3] = "GeneratingEphemeral"
      /\ q[4] = "ConnectingRelay" /\ q[5] = "AwaitingWelcome" /\ q[6] = "AwaitingWelcome"
      /\ q[7] = "Revealing" /\ q[8] = "Revealing" /\ q[9] = "DerivingCode"
      /\ q[10] = "AwaitingUserConfirm" /\ q[11] = "AwaitingUserConfirm"
      /\ q[12] = "AwaitingUserConfirm" /\ q[13] = "AwaitingPeerConfirm"
      /\ q[14] = "AwaitingPeerConfirm" /\ q[15] = "Paired"
  BY ZenonT(60) DEF StateAt
<1>4. Peer("ini") = "acc"
  BY DEF Peer
<1> HIDE DEF e, q
<1>5. EntryFits("ini", 1)
  BY <1>2, <1>3, <1>4, Calls, InitiatorSteps DEF EntryFits, SentAt, TakenAt, Mail, AskAt, e, q
<1>6. EntryFits("ini", 2)
  BY <1>2, <1>3, <1>4, Calls, InitiatorSteps DEF EntryFits, SentAt, TakenAt, Mail, AskAt, e, q
<1>7. EntryFits("ini", 3)
  BY <1>2, <1>3, <1>4, Calls, InitiatorSteps DEF EntryFits, SentAt, TakenAt, Mail, AskAt, e, q
<1>8. EntryFits("ini", 4)
  BY <1>2, <1>3, <1>4, Calls, InitiatorSteps DEF EntryFits, SentAt, TakenAt, Mail, AskAt, e, q
<1>9. EntryFits("ini", 5)
  BY <1>2, <1>3, <1>4, Calls DEF EntryFits, SentAt, TakenAt, Mail, AskAt, e, q
<1>10. EntryFits("ini", 6)
  BY <1>2, <1>3, <1>4, Calls, InitiatorMessages DEF EntryFits, SentAt, TakenAt, Mail, AskAt, e, q
<1>11. EntryFits("ini", 7)
  BY <1>2, <1>3, <1>4, Calls DEF EntryFits, SentAt, TakenAt, Mail, AskAt, e, q
<1>12. EntryFits("ini", 8)
  BY <1>2, <1>3, <1>4, Calls, InitiatorSteps DEF EntryFits, SentAt, TakenAt, Mail, AskAt, e, q
<1>13. EntryFits("ini", 9)
  BY SMTT(60), Z3T(60), <1>2, <1>3, <1>4, Calls, InitiatorSteps DEF EntryFits, SentAt, TakenAt, Mail, AskAt, e, q
<1>14. EntryFits("ini", 10)
  BY <1>2, <1>3, <1>4, Calls DEF EntryFits, SentAt, TakenAt, Mail, AskAt, e, q
<1>15. EntryFits("ini", 11)
  BY SMTT(60), Z3T(60), <1>2, <1>3, <1>4, Calls DEF EntryFits, SentAt, TakenAt, Mail, AskAt, e, q
<1>16. EntryFits("ini", 12)
  BY SMTT(60), Z3T(60), <1>2, <1>3, <1>4, Calls, InitiatorSteps DEF EntryFits, SentAt, TakenAt, Mail, AskAt, e, q
<1>17. EntryFits("ini", 13)
  BY <1>2, <1>3, <1>4, Calls DEF EntryFits, SentAt, TakenAt, Mail, AskAt, e, q
<1>18. EntryFits("ini", 14)
  BY <1>2, <1>3, <1>4, Calls, InitiatorMessages DEF EntryFits, SentAt, TakenAt, Mail, AskAt, e, q
<1>19. QED
  BY SMTT(60), Z3T(60), <1>1, <1>5, <1>6, <1>7, <1>8, <1>9, <1>10, <1>11, <1>12, <1>13, <1>14, <1>15, <1>16, <1>17, <1>18 DEF e

\* The same for either side.
LEMMA ScriptFits ==
  ASSUME NEW s \in Sides
  PROVE  /\ Len(Script(s)) = IF s = "acc" THEN 12 ELSE 14
         /\ \A n \in 1 .. Len(Script(s)) : EntryFits(s, n)
<1>1. CASE s = "acc"
  BY ZenonT(60), <1>1, AcceptorFits
<1>2. CASE s = "ini"
  BY ZenonT(60), <1>2, InitiatorFits
<1>3. QED
  BY <1>1, <1>2 DEF Sides

\* A segment of a sequence: one entry more at its end, one less at its head.
LEMMA Segments ==
  ASSUME NEW S, NEW q \in Seq(S), NEW i \in 1 .. Len(q) + 1, NEW j \in 0 .. Len(q), i <= j + 1
  PROVE  /\ SubSeq(q, i, j) \in Seq(S)
         /\ SubSeq(q, i, j) = << >> <=> i = j + 1
         /\ j < Len(q) => Append(SubSeq(q, i, j), q[j + 1]) = SubSeq(q, i, j + 1)
         /\ i <= j => /\ Head(SubSeq(q, i, j)) = q[i]
                      /\ Tail(SubSeq(q, i, j)) = SubSeq(q, i + 1, j)
OBVIOUS

\* The mail when one message more is sent, which a lossy carrier may drop.
LEMMA MailSent ==
  ASSUME NEW S, NEW q \in Seq(S), NEW w \in Seq(S), NEW t \in Nat, NEW k \in Nat, k < Len(q),
         NEW lossy \in BOOLEAN, MailFits(q, w, t, k, lossy)
  PROVE  /\ MailFits(q, Append(w, q[k + 1]), t, k + 1, lossy)
         /\ lossy => MailFits(q, w, t, k + 1, lossy)
<1>1. t <= k /\ t <= k + 1
  BY DEF MailFits
<1>2. \A i \in 1 .. Len(w) : \E n \in 1 .. k + 1 : w[i] = q[n]
  BY DEF MailFits
<1>3. \A i \in 1 .. Len(Append(w, q[k + 1])) : \E n \in 1 .. k + 1 : Append(w, q[k + 1])[i] = q[n]
  <2>1. Len(Append(w, q[k + 1])) = Len(w) + 1 /\ Append(w, q[k + 1])[Len(w) + 1] = q[k + 1]
    OBVIOUS
  <2>2. \A i \in 1 .. Len(w) : Append(w, q[k + 1])[i] = w[i]
    OBVIOUS
  <2>3. QED
    BY <1>2, <2>1, <2>2
<1>4. ~lossy => Append(w, q[k + 1]) = SubSeq(q, t + 1, k + 1)
  <2>1. t + 1 \in 1 .. Len(q) + 1 /\ k \in 0 .. Len(q) /\ t + 1 <= k + 1
    BY <1>1
  <2>2. Append(SubSeq(q, t + 1, k), q[k + 1]) = SubSeq(q, t + 1, k + 1)
    BY <2>1, Segments
  <2>3. QED
    BY ZenonT(60), <2>2 DEF MailFits
<1>5. QED
  BY ZenonT(60), <1>1, <1>2, <1>3, <1>4 DEF MailFits

NoTwice(q) == \A i, j \in 1 .. Len(q) : q[i] = q[j] => i = j

\* The mail when the message that is awaited is taken: it has been sent.
LEMMA MailTaken ==
  ASSUME NEW S, NEW q \in Seq(S), NoTwice(q),
         NEW w \in Seq(S), w # << >>, NEW t \in Nat, NEW k \in 0 .. Len(q), t < Len(q),
         Head(w) = q[t + 1], NEW lossy \in BOOLEAN, MailFits(q, w, t, k, lossy)
  PROVE  MailFits(q, Tail(w), t + 1, k, lossy)
<1>1. t + 1 <= k
  <2>1. 1 \in 1 .. Len(w) /\ w[1] = q[t + 1]
    OBVIOUS
  <2>2. PICK n \in 1 .. k : q[t + 1] = q[n]
    BY <2>1 DEF MailFits
  <2>3. QED
    BY <2>2 DEF NoTwice
<1>2. \A i \in 1 .. Len(Tail(w)) : \E n \in 1 .. k : Tail(w)[i] = q[n]
  <2>1. \A i \in 1 .. Len(Tail(w)) : i + 1 \in 1 .. Len(w) /\ Tail(w)[i] = w[i + 1]
    OBVIOUS
  <2>2. QED
    BY <2>1 DEF MailFits
<1>3. ~lossy => Tail(w) = SubSeq(q, t + 1 + 1, k)
  <2>1. t + 1 \in 1 .. Len(q) + 1 /\ t + 1 <= k + 1
    BY <1>1
  <2>2. Tail(SubSeq(q, t + 1, k)) = SubSeq(q, t + 1 + 1, k)
    BY <1>1, <2>1, Segments
  <2>3. QED
    BY ZenonT(60), <2>2 DEF MailFits
<1>4. QED
  BY <1>1, <1>2, <1>3 DEF MailFits

\* A carrier that loses messages may lose any of them.
LEMMA MailLost ==
  ASSUME NEW S, NEW q, NEW w \in Seq(S), NEW t, NEW k, NEW lossy, MailFits(q, w, t, k, lossy)
  PROVE  /\ MailFits(q, w, t, k, TRUE)
         /\ w # << >> => MailFits(q, Tail(w), t, k, TRUE)
         /\ MailFits(q, << >>, t, k, TRUE)
<1>1. w # << >> => \A i \in 1 .. Len(Tail(w)) : i + 1 \in 1 .. Len(w) /\ Tail(w)[i] = w[i + 1]
  OBVIOUS
<1>2. QED
  BY <1>1 DEF MailFits

\* The counts stay within the messages there are.
LEMMA Counts ==
  ASSUME NEW s \in Sides, NEW n \in Nat
  PROVE  /\ Mail(s) \in Seq(Messages)
         /\ SentAt(s, n) \in 0 .. Len(Mail(s)) /\ TakenAt(s, n) \in 0 .. Len(Mail(s))
         /\ NoTwice(Mail(s))
<1>1. CASE s = "acc"
  BY <1>1 DEF Mail, SentAt, TakenAt, Messages, NoTwice
<1>2. CASE s = "ini"
  BY <1>2 DEF Mail, SentAt, TakenAt, Messages, NoTwice
<1>3. QED
  BY <1>1, <1>2 DEF Sides

\* Initially nobody has done anything.
LEMMA CeremonyInitEstablishes == Init => CeremonyInv
<1> SUFFICES ASSUME Init PROVE CeremonyInv
  OBVIOUS
<1>1. Typed
  BY DEF Init, Typed, Sides, Finished
<1>2. /\ \A s \in Sides : mach[s] = "Idle" /\ at[s] = 1 /\ outcome[s] = "none" /\ wire[s] = << >>
      /\ \A s \in Sides : StateAt(s)[1] = "Idle"
  <2>1. PairingNewAcceptor.State = "Idle" /\ PairingNewInitiator.State = "Idle"
    BY Zenon DEF PairingNewAcceptor, PairingNewInitiator
  <2>2. \A s \in Sides : StateAt(s)[1] = "Idle"
    BY DEF StateAt
  <2>3. QED
    BY <2>1, <2>2 DEF Init, Sides
<1>3. InStep
  BY <1>2 DEF Init, InStep, AskAt, Sides, Finished
<1>4. MailInOrder
  <2>1. \A s \in Sides : Peer(s) \in Sides /\ SentAt(s, 1) = 0 /\ TakenAt(s, 1) = 0
    BY DEF Peer, Sides, SentAt, TakenAt
  <2>2. \A s \in Sides : SubSeq(Mail(s), 1, 0) = << >>
    BY Counts, Segments
  <2>3. QED
    <3> SUFFICES ASSUME NEW s \in Sides
                 PROVE  MailFits(Mail(s), wire[s], TakenAt(s, at[s]), SentAt(s, at[Peer(s)]), Cut)
      BY Zenon DEF MailInOrder
    <3>1. /\ TakenAt(s, at[s]) = 0 /\ SentAt(s, at[Peer(s)]) = 0 /\ wire[s] = << >>
          /\ SubSeq(Mail(s), 1, 0) = << >>
      BY Zenon, <1>2, <2>1, <2>2
    <3>2. QED
      BY ONLY <3>1 DEF MailFits
<1>5. EndsHaveCauses
  BY DEF Init, EndsHaveCauses, Cut, Sides
<1>6. BeforeInitiate /\ RecordDrained
  BY DEF Init, BeforeInitiate, RecordDrained, Sides
<1>7. QED
  BY <1>1, <1>3, <1>4, <1>5, <1>6 DEF CeremonyInv

\* What a conjunct of CeremonyInv does not mention may change.
LEMMA CeremonyFrames ==
  ASSUME CeremonyInv
  PROVE  /\ UNCHANGED <<phase, at, mach, outcome, confirmed>> => InStep'
         /\ phase'["ini"] = phase["ini"] /\ phase["ini"] # "absent" => BeforeInitiate'
         /\ UNCHANGED <<phase, at, up, stored, closer>> => BeforeInitiate'
         /\ UNCHANGED <<at, up, wire>> => MailInOrder'
         /\ UNCHANGED <<phase, at, outcome, closed, ctxDone, closer, up, listening, fin>>
              => EndsHaveCauses'
         /\ UNCHANGED <<phase, outcome, closed, ctxDone, result, caller>> => RecordDrained'
<1>1. UNCHANGED <<phase, at, mach, outcome, confirmed>> => InStep'
  BY DEF CeremonyInv, InStep
<1>2. UNCHANGED <<at, up, wire>> => MailInOrder'
  BY ZenonT(60) DEF CeremonyInv, MailInOrder, Cut
<1>3. UNCHANGED <<phase, at, outcome, closed, ctxDone, closer, up, listening, fin>> => EndsHaveCauses'
  BY DEF CeremonyInv, EndsHaveCauses, Cut, Ended
<1>4. UNCHANGED <<phase, outcome, closed, ctxDone, result, caller>> => RecordDrained'
  BY DEF CeremonyInv, RecordDrained, Ended
<1>5. /\ phase'["ini"] = phase["ini"] /\ phase["ini"] # "absent" => BeforeInitiate'
      /\ UNCHANGED <<phase, at, up, stored, closer>> => BeforeInitiate'
  BY DEF CeremonyInv, BeforeInitiate
<1>6. QED
  BY <1>1, <1>2, <1>3, <1>4, <1>5

\* Initiate keeps CeremonyInv: nothing was sent or cut before.
LEMMA InitiateKeeps ==
  ASSUME CeremonyInv, Initiate
  PROVE  CeremonyInv'
<1>1. Typed'
  BY DEF CeremonyInv, Typed, Initiate, Sides, Finished
<1>2. InStep'
  BY DEF CeremonyInv, Typed, InStep, Initiate, Sides, Finished
<1>3. MailInOrder'
  <2>1. Cut = FALSE /\ Cut' = FALSE
    BY DEF CeremonyInv, BeforeInitiate, Initiate, Sides, Cut
  <2>2. at' = at /\ wire' = wire
    BY DEF Initiate
  <2>3. QED
    BY Zenon, <2>1, <2>2 DEF CeremonyInv, MailInOrder
<1>4. EndsHaveCauses'
  <2>1. ~Cut /\ ~Cut' /\ outcome["ini"] = "none"
    BY DEF CeremonyInv, InStep, BeforeInitiate, Initiate, Sides, Cut, Finished
  <2>2. /\ UNCHANGED <<at, outcome, closed, ctxDone, closer, listening, fin>>
        /\ phase'["acc"] = phase["acc"]
    BY DEF Initiate, CeremonyInv, Typed, Sides
  <2>3. QED
    BY <2>1, <2>2 DEF CeremonyInv, EndsHaveCauses, Ended
<1>5. RecordDrained'
  BY DEF CeremonyInv, Typed, InStep, RecordDrained, Initiate, Sides, Ended, Finished
<1>6. BeforeInitiate'
  BY DEF CeremonyInv, Typed, BeforeInitiate, Initiate, Sides
<1>7. QED
  BY SMTT(60), Z3T(60), <1>1, <1>2, <1>3, <1>4, <1>5, <1>6 DEF CeremonyInv

\* The driver of s is at a call of its script.
Calling(s) == phase[s] = "script" /\ at[s] <= Len(Script(s))

\* The call a driver is at is an entry of its script, and fits its position.
LEMMA CallFits ==
  ASSUME CeremonyInv, NEW s \in Sides, Calling(s)
  PROVE  /\ at[s] \in 1 .. 14 /\ (s = "acc" => at[s] <= 12)
         /\ EntryFits(s, at[s])
         /\ outcome[s] = "none"
<1>1. Len(Script(s)) = (IF s = "acc" THEN 12 ELSE 14) /\ at[s] \in 1 .. 15 /\ at[s] <= Len(Script(s))
  BY ScriptFits DEF Calling, CeremonyInv, Typed
<1>2. at[s] \in 1 .. Len(Script(s)) /\ at[s] \in 1 .. 14 /\ (s = "acc" => at[s] <= 12)
  BY ONLY <1>1
<1>3. EntryFits(s, at[s])
  BY Zenon, <1>2, ScriptFits
<1>4. outcome[s] = "none"
  BY SMTT(60), Z3T(60) DEF Calling, CeremonyInv, InStep, Finished
<1>5. QED
  BY Zenon, <1>2, <1>3, <1>4

\* A driver goes on to its next call, having left the machine, the user and
\* the messages as that call needs them: CeremonyInv is kept.
LEMMA AdvanceKeeps ==
  ASSUME CeremonyInv, NEW s \in Sides, Calling(s), Advance(s),
         \A p \in Sides : mach'[p] = IF p = s THEN StateAt(s)[at[s] + 1] ELSE mach[p],
         DOMAIN mach' = Sides,
         at[s] = AskAt(s) => confirmed[s],
         wire' \in [Sides -> Seq(Messages)], MailInOrder',
         UNCHANGED <<confirmed, closed, ctxDone, result, caller, closer, stored, up, listening, fin>>
  PROVE  CeremonyInv'
<1> USE ScriptFits DEF CeremonyInv, Typed
<1>1. at[s] + 1 \in 1 .. 15 /\ (s = "acc" => at[s] + 1 <= 13) /\ at[s] \in 1 .. 14
  BY SMTT(60), Z3T(60), CallFits DEF Sides
<1>2. /\ at' \in [Sides -> 1 .. 15]
      /\ \A p \in Sides : at'[p] = IF p = s THEN at[s] + 1 ELSE at[p]
  BY <1>1 DEF Advance
<1>3. UNCHANGED <<phase, outcome>>
  BY DEF Advance
<1>4. Typed'
  BY <1>1, <1>2, <1>3 DEF Sides
<1>5. phase[s] = "script" /\ outcome[s] = "none"
  BY ZenonT(60) DEF Calling, InStep, Finished
<1>6. InStep'
  <2> SUFFICES ASSUME NEW p \in Sides PROVE InStep!(p)'
    BY SMTT(60), Z3T(60) DEF InStep
  <2>1. CASE p = s
    BY SMTT(60), Z3T(60), <1>1, <1>2, <1>3, <1>5, <2>1 DEF InStep, Finished, AskAt
  <2>2. CASE p # s
    BY SMTT(60), Z3T(60), <1>2, <1>3, <2>2 DEF InStep
  <2>3. QED
    BY SMTT(60), Z3T(60), <2>1, <2>2
<1>7. BeforeInitiate'
  BY SMTT(60), Z3T(60), <1>2, <1>3, <1>5 DEF BeforeInitiate, Sides
<1>8. EndsHaveCauses'
  BY SMTT(60), Z3T(60), <1>2, <1>3, <1>5 DEF EndsHaveCauses, Cut, Ended, Sides
<1>9. RecordDrained'
  BY <1>3, CeremonyFrames
<1>10. QED
  BY SMTT(60), Z3T(60), <1>4, <1>6, <1>7, <1>8, <1>9

\* A call that neither sends nor takes a message leaves the mail in order.
LEMMA QuietCall ==
  ASSUME CeremonyInv, NEW s \in Sides, Calling(s), Advance(s), UNCHANGED <<up, wire>>,
         Script(s)[at[s]].op \notin {"send", "recv"}
  PROVE  MailInOrder'
<1>1. at[s] \in 1 .. 14 /\ EntryFits(s, at[s])
  BY Zenon, CallFits
<1>2. /\ SentAt(Peer(s), at[s] + 1) = SentAt(Peer(s), at[s])
      /\ TakenAt(s, at[s] + 1) = TakenAt(s, at[s])
  <2>1. /\ SentAt(Peer(s), at[s] + 1) = SentAt(Peer(s), at[s]) + 0
        /\ TakenAt(s, at[s] + 1) = TakenAt(s, at[s]) + 0
    BY Zenon, <1>1 DEF EntryFits
  <2>2. SentAt(Peer(s), at[s]) \in Nat /\ TakenAt(s, at[s]) \in Nat
    BY DEF SentAt, TakenAt
  <2>3. QED
    BY <2>1, <2>2
<1>3. \A p \in Sides : at'[p] = IF p = s THEN at[s] + 1 ELSE at[p]
  BY DEF Advance, CeremonyInv, Typed
<1>4. \A p \in Sides : /\ Peer(p) \in Sides /\ (Peer(p) = s => p = Peer(s))
                       /\ TakenAt(p, at'[p]) = TakenAt(p, at[p])
                       /\ SentAt(p, at'[Peer(p)]) = SentAt(p, at[Peer(p)])
  BY <1>2, <1>3 DEF Peer, Sides
<1>5. (Cut' <=> Cut) /\ wire' = wire
  BY DEF Cut
<1>6. QED
  BY ZenonT(60), <1>4, <1>5 DEF CeremonyInv, MailInOrder

\* A call that sends leaves the mail in order: the next message goes to the
\* end of what is under way, or is lost on a carrier that is cut.
LEMMA SendCall ==
  ASSUME CeremonyInv, NEW s \in Sides, Calling(s), Advance(s), UNCHANGED up,
         Script(s)[at[s]].op = "send",
         wire' = IF up[s] = "cut" THEN wire
                 ELSE [wire EXCEPT ![Peer(s)] = Append(@, Script(s)[at[s]].msg)]
  PROVE  MailInOrder' /\ wire' \in [Sides -> Seq(Messages)]
<1> DEFINE p == Peer(s)
           k == SentAt(p, at[s])
           t == TakenAt(p, at[p])
           x == Script(s)[at[s]].msg
<1>1. at[s] \in 1 .. 14 /\ EntryFits(s, at[s]) /\ at[p] \in 1 .. 15
  BY CallFits DEF CeremonyInv, Typed, Peer, Sides
<1>2. p \in Sides /\ p # s /\ Peer(p) = s /\ Sides = {s, p}
  BY SMTT(60), Z3T(60) DEF Peer, Sides
<1>3. /\ SentAt(p, at[s] + 1) = k + 1 /\ x = Mail(p)[k + 1]
      /\ TakenAt(s, at[s] + 1) = TakenAt(s, at[s])
  <2>1. /\ SentAt(p, at[s] + 1) = k + 1 /\ x = Mail(p)[SentAt(p, at[s] + 1)]
        /\ TakenAt(s, at[s] + 1) = TakenAt(s, at[s]) + 0
    BY Zenon, <1>1 DEF EntryFits
  <2>2. TakenAt(s, at[s]) \in Nat
    BY DEF TakenAt
  <2>3. QED
    BY <2>1, <2>2
<1>4. Mail(p) \in Seq(Messages) /\ k \in Nat /\ k < Len(Mail(p)) /\ t \in Nat
  <2>1. at[s] + 1 \in Nat /\ at[s] \in Nat /\ at[p] \in Nat
    BY SMTT(60), Z3T(60), <1>1
  <2>2. /\ Mail(p) \in Seq(Messages) /\ k \in 0 .. Len(Mail(p)) /\ t \in 0 .. Len(Mail(p))
        /\ SentAt(p, at[s] + 1) \in 0 .. Len(Mail(p))
    BY Zenon, <1>2, <2>1, Counts
  <2> HIDE DEF k, t
  <2>3. QED
    BY ONLY <1>3, <2>2
<1>5. /\ at'[s] = at[s] + 1 /\ at'[p] = at[p]
      /\ Cut' = Cut /\ Cut \in BOOLEAN /\ (up[s] = "cut" => Cut)
  BY <1>2 DEF Advance, CeremonyInv, Typed, Cut
<1>6. wire[p] \in Seq(Messages)
  BY <1>2 DEF CeremonyInv, Typed
<1>7. wire'[s] = wire[s] /\ wire'[p] = IF up[s] = "cut" THEN wire[p] ELSE Append(wire[p], x)
  BY <1>2 DEF CeremonyInv, Typed
<1>8. wire' \in [Sides -> Seq(Messages)]
  <2>1. x \in Messages
    BY <1>3, <1>4
  <2>2. QED
    BY SMTT(60), Z3T(60), <1>2, <1>6, <2>1 DEF CeremonyInv, Typed
<1>9. MailFits(Mail(p), wire[p], t, k, Cut)
  BY Zenon, <1>2 DEF CeremonyInv, MailInOrder
<1>10. MailFits(Mail(p), wire'[p], t, k + 1, Cut)
  BY Zenon, <1>3, <1>4, <1>5, <1>6, <1>7, <1>9, MailSent
<1>11. MailFits(Mail(s), wire[s], TakenAt(s, at[s]), SentAt(s, at[p]), Cut)
  BY Zenon DEF CeremonyInv, MailInOrder
<1>12. \A r \in Sides : MailFits(Mail(r), wire'[r], TakenAt(r, at'[r]), SentAt(r, at'[Peer(r)]), Cut')
  BY Zenon, <1>2, <1>3, <1>5, <1>7, <1>10, <1>11
<1>13. QED
  BY Zenon, <1>8, <1>12 DEF MailInOrder

\* A call that takes the message it waits for leaves the mail in order.
LEMMA TakeCall ==
  ASSUME CeremonyInv, NEW s \in Sides, Calling(s), Advance(s), UNCHANGED up,
         Script(s)[at[s]].op = "recv", wire[s] # << >>, Head(wire[s]) = Script(s)[at[s]].msg,
         wire' = [wire EXCEPT ![s] = Tail(@)]
  PROVE  MailInOrder'
<1> DEFINE p == Peer(s)
           k == SentAt(s, at[p])
           t == TakenAt(s, at[s])
<1>1. at[s] \in 1 .. 14 /\ EntryFits(s, at[s]) /\ at[p] \in 1 .. 15
  BY SMTT(60), Z3T(60), CallFits DEF CeremonyInv, Typed, Peer, Sides
<1>2. p \in Sides /\ p # s /\ Peer(p) = s /\ Sides = {s, p}
  BY DEF Peer, Sides
<1>3. /\ TakenAt(s, at[s] + 1) = t + 1 /\ Script(s)[at[s]].msg = Mail(s)[t + 1]
      /\ SentAt(p, at[s] + 1) = SentAt(p, at[s])
  <2>1. /\ TakenAt(s, at[s] + 1) = t + 1 /\ Script(s)[at[s]].msg = Mail(s)[TakenAt(s, at[s] + 1)]
        /\ SentAt(p, at[s] + 1) = SentAt(p, at[s]) + 0
    BY Zenon, <1>1 DEF EntryFits
  <2>2. SentAt(p, at[s]) \in Nat
    BY DEF SentAt
  <2>3. QED
    BY <2>1, <2>2
<1>4. Mail(s) \in Seq(Messages) /\ k \in 0 .. Len(Mail(s)) /\ t \in Nat /\ t < Len(Mail(s))
  <2>1. at[s] + 1 \in Nat /\ at[s] \in Nat /\ at[p] \in Nat
    BY SMTT(60), Z3T(60), <1>1
  <2>2. /\ Mail(s) \in Seq(Messages) /\ k \in 0 .. Len(Mail(s)) /\ t \in 0 .. Len(Mail(s))
        /\ TakenAt(s, at[s] + 1) \in 0 .. Len(Mail(s))
    BY Zenon, <2>1, Counts
  <2> HIDE DEF k, t
  <2>3. QED
    BY ONLY <1>3, <2>2
<1>5. NoTwice(Mail(s))
  BY 1 \in Nat, Counts
<1>6. /\ at'[s] = at[s] + 1 /\ at'[p] = at[p]
      /\ Cut' = Cut /\ Cut \in BOOLEAN
  BY <1>2 DEF Advance, CeremonyInv, Typed, Cut
<1>7. wire[s] \in Seq(Messages)
  BY DEF CeremonyInv, Typed
<1>8. wire'[p] = wire[p] /\ wire'[s] = Tail(wire[s])
  BY <1>2 DEF CeremonyInv, Typed
<1>9. MailFits(Mail(s), wire[s], t, k, Cut)
  BY Zenon DEF CeremonyInv, MailInOrder
<1>10. MailFits(Mail(s), wire'[s], t + 1, k, Cut)
  <2>1. Head(wire[s]) = Mail(s)[t + 1]
    BY Zenon, <1>3
  <2> HIDE DEF k, t
  <2>2. MailFits(Mail(s), Tail(wire[s]), t + 1, k, Cut)
    BY Zenon, <2>1, <1>4, <1>5, <1>6, <1>7, <1>9, MailTaken
  <2>3. QED
    BY Zenon, <2>2, <1>8
<1>11. MailFits(Mail(p), wire[p], TakenAt(p, at[p]), SentAt(p, at[s]), Cut)
  BY Zenon, <1>2 DEF CeremonyInv, MailInOrder
<1>12. \A r \in Sides : MailFits(Mail(r), wire'[r], TakenAt(r, at'[r]), SentAt(r, at'[Peer(r)]), Cut')
  BY Zenon, <1>2, <1>3, <1>6, <1>8, <1>10, <1>11
<1>13. QED
  BY Zenon, <1>12 DEF MailInOrder

\* A driver that fails with a cause keeps CeremonyInv: the acceptor's is the
\* end of the ceremony or the initiator's failure; that of an initiator which
\* has sent its last message is the end of the ceremony, or of the acceptor.
LEMMA FailsKeeps ==
  ASSUME CeremonyInv, NEW s \in Sides, phase[s] \in {"listen", "stream", "script"}, Fails(s),
         UNCHANGED <<at, mach, confirmed, closed, ctxDone, result, caller, closer, stored, up,
                     listening, fin>>,
         wire' \in [Sides -> Seq(Messages)], MailInOrder',
         Cut \/ \E p \in Sides : ctxDone[p],
         s = "ini" /\ at[s] > 13 => Ended \/ phase["acc"] = "done",
         s = "acc" => at[s] <= 12 /\ (Ended \/ outcome["ini"] = "err")
  PROVE  CeremonyInv'
<1> USE DEF CeremonyInv, Typed
<1>1. /\ \A p \in Sides : outcome'[p] = IF p = s THEN "err" ELSE outcome[p]
      /\ \A p \in Sides : p # s => phase'[p] = phase[p]
      /\ phase'[s] \in {"close", "deliver"} /\ (s = "acc" => phase'[s] = "deliver")
  BY DEF Fails
<1>2. outcome[s] = "none" /\ phase[s] \notin Finished
  BY DEF InStep, Finished
<1>3. Typed'
  BY ZenonT(60), <1>1 DEF Fails, Finished
<1>4. InStep'
  <2> SUFFICES ASSUME NEW p \in Sides PROVE InStep!(p)'
    BY SMTT(60), Z3T(60) DEF InStep
  <2>1. CASE p = s
    <3>1. s = "acc" => at[s] <= Len(Script(s))
      BY ZenonT(60), ScriptFits
    <3>2. QED
      BY <1>1, <2>1, <3>1 DEF InStep, Finished
  <2>2. CASE p # s
    BY SMTT(60), Z3T(60), <1>1, <2>2 DEF InStep
  <2>3. QED
    BY SMTT(60), Z3T(60), <2>1, <2>2
<1>5. BeforeInitiate'
  BY SMTT(60), Z3T(60), <1>1 DEF BeforeInitiate, Sides
<1>6. EndsHaveCauses'
  BY SMTT(60), Z3T(60), <1>1, <1>2 DEF EndsHaveCauses, Cut, Ended, Sides
<1>7. RecordDrained'
  BY <1>1, <1>2 DEF RecordDrained, Ended, Sides
<1>8. QED
  BY SMTT(60), Z3T(60), <1>3, <1>4, <1>5, <1>6, <1>7

\* A side whose driver waits for a message that will not come, on a carrier
\* that is up, has a peer that failed.
LEMMA EmptyWaitHasCause ==
  ASSUME CeremonyInv, NEW s \in Sides, Calling(s), Script(s)[at[s]].op = "recv",
         ~Cut, wire[s] = << >>, fin[s]
  PROVE  outcome[Peer(s)] = "err"
<1> DEFINE p == Peer(s)
           k == SentAt(s, at[p])
           t == TakenAt(s, at[s])
<1>1. at[s] \in 1 .. 14 /\ EntryFits(s, at[s]) /\ at[p] \in 1 .. 15 /\ p \in Sides
  BY CallFits DEF CeremonyInv, Typed, Peer, Sides
<1>2. at[s] \in Nat /\ at[s] + 1 \in Nat /\ at[p] \in Nat
  BY SMTT(60), Z3T(60), <1>1
<1>3. outcome[p] # "none"
  BY DEF CeremonyInv, EndsHaveCauses, InStep, Finished, Sides, Peer
<1>4. t = k
  <2>1. /\ t <= k /\ SubSeq(Mail(s), t + 1, k) = << >>
    BY Zenon DEF CeremonyInv, MailInOrder, MailFits
  <2>2. Mail(s) \in Seq(Messages) /\ k \in 0 .. Len(Mail(s)) /\ t \in 0 .. Len(Mail(s))
    BY Zenon, <1>2, Counts
  <2> HIDE DEF k, t
  <2>3. t + 1 \in 1 .. Len(Mail(s)) + 1 /\ t + 1 <= k + 1
    BY <2>1, <2>2
  <2>4. t + 1 = k + 1
    BY SMTT(60), Z3T(60), <2>1, <2>2, <2>3, Segments
  <2>5. QED
    BY <2>2, <2>4
<1>5. t < Len(Mail(s))
  <2>1. TakenAt(s, at[s] + 1) = t + 1
    BY Zenon, <1>1 DEF EntryFits
  <2>2. TakenAt(s, at[s] + 1) \in 0 .. Len(Mail(s)) /\ t \in 0 .. Len(Mail(s)) /\ Mail(s) \in Seq(Messages)
    BY Zenon, <1>2, Counts
  <2> HIDE DEF t
  <2>3. QED
    BY ONLY <2>1, <2>2
<1>6. outcome[p] # "rec"
  <2> SUFFICES ASSUME outcome[p] = "rec" PROVE FALSE
    OBVIOUS
  <2>1. at[p] > IF p = "acc" THEN 12 ELSE 14
    BY ZenonT(60), <1>1, ScriptFits DEF CeremonyInv, InStep
  <2>2. k = Len(Mail(s))
    BY <1>1, <2>1 DEF SentAt, Mail, Peer, Sides
  <2>3. QED
    BY SMTT(60), Z3T(60), <1>4, <1>5, <2>2
<1>7. QED
  BY SMTT(60), Z3T(60), <1>1, <1>3, <1>6 DEF CeremonyInv, Typed

\* On a carrier that is up the message that comes is the one that is awaited.
LEMMA AwaitedComes ==
  ASSUME CeremonyInv, NEW s \in Sides, Calling(s), Script(s)[at[s]].op = "recv",
         ~Cut, wire[s] # << >>
  PROVE  Head(wire[s]) = Script(s)[at[s]].msg
<1> DEFINE p == Peer(s)
           k == SentAt(s, at[p])
           t == TakenAt(s, at[s])
<1>1. at[s] \in 1 .. 14 /\ EntryFits(s, at[s]) /\ at[p] \in 1 .. 15 /\ p \in Sides
  BY CallFits DEF CeremonyInv, Typed, Peer, Sides
<1>2. at[s] \in Nat /\ at[s] + 1 \in Nat /\ at[p] \in Nat
  BY SMTT(60), Z3T(60), <1>1
<1>3. t <= k /\ wire[s] = SubSeq(Mail(s), t + 1, k)
  BY Zenon DEF CeremonyInv, MailInOrder, MailFits
<1>4. Mail(s) \in Seq(Messages) /\ k \in 0 .. Len(Mail(s)) /\ t \in 0 .. Len(Mail(s))
  BY Zenon, <1>2, Counts
<1>5. Script(s)[at[s]].msg = Mail(s)[t + 1]
  <2>1. /\ TakenAt(s, at[s] + 1) = t + 1
        /\ Script(s)[at[s]].msg = Mail(s)[TakenAt(s, at[s] + 1)]
    BY Zenon, <1>1 DEF EntryFits
  <2>2. QED
    BY Zenon, <2>1
<1> HIDE DEF k, t
<1>6. t + 1 \in 1 .. Len(Mail(s)) + 1 /\ t + 1 <= k + 1
  BY <1>3, <1>4
<1>7. t + 1 # k + 1 /\ t + 1 <= k
  <2>1. t + 1 # k + 1
    BY SMTT(60), Z3T(60), <1>3, <1>4, <1>6, Segments
  <2>2. QED
    BY <1>4, <1>6, <2>1
<1>8. Head(SubSeq(Mail(s), t + 1, k)) = Mail(s)[t + 1]
  BY <1>4, <1>6, <1>7, Segments
<1>9. QED
  BY Zenon, <1>3, <1>5, <1>8

\* A carrier that is cut may lose what is under way.
LEMMA LosingKeeps ==
  ASSUME CeremonyInv, NEW s \in Sides, Cut', UNCHANGED at,
         wire'[s] = << >> \/ (wire[s] # << >> /\ wire'[s] = Tail(wire[s])),
         \A p \in Sides : p # s => wire'[p] = wire[p]
  PROVE  MailInOrder'
<1>1. Cut' = TRUE
  OBVIOUS
<1> SUFFICES ASSUME NEW p \in Sides
             PROVE  MailFits(Mail(p), wire'[p], TakenAt(p, at[p]), SentAt(p, at[Peer(p)]), TRUE)
  BY Zenon, <1>1 DEF MailInOrder
<1>2. /\ MailFits(Mail(p), wire[p], TakenAt(p, at[p]), SentAt(p, at[Peer(p)]), Cut)
      /\ wire[p] \in Seq(Messages)
  BY DEF CeremonyInv, MailInOrder, Typed
<1> DEFINE F(w) == MailFits(Mail(p), w, TakenAt(p, at[p]), SentAt(p, at[Peer(p)]), TRUE)
<1>3. F(wire[p]) /\ F(<< >>) /\ (wire[p] # << >> => F(Tail(wire[p])))
  BY Zenon, <1>2, MailLost
<1>4. wire'[p] = wire[p] \/ wire'[p] = << >> \/ (wire[p] # << >> /\ wire'[p] = Tail(wire[p]))
  BY Zenon
<1> HIDE DEF F
<1>5. F(wire'[p])
  BY Zenon, <1>3, <1>4
<1>6. QED
  BY Zenon, <1>5 DEF F

\* A step of the machine is never refused, and keeps CeremonyInv.
LEMMA StepMachineKeeps ==
  ASSUME CeremonyInv, NEW s \in Sides, StepMachine(s)
  PROVE  CeremonyInv'
<1>1. Calling(s) /\ Script(s)[at[s]].op = "step" /\ EntryFits(s, at[s])
  BY CallFits DEF StepMachine, Now, Calling
<1>2. Walks(s, mach[s], Script(s)[at[s]].on, StateAt(s)[at[s] + 1])
  <2>1. mach[s] = StateAt(s)[at[s]]
    BY DEF CeremonyInv, InStep
  <2>2. QED
    BY Zenon, <1>1, <2>1 DEF EntryFits
<1>3. Takes(s, Script(s)[at[s]].on) /\ Moves(s, Script(s)[at[s]].on) = StateAt(s)[at[s] + 1]
  BY Zenon, <1>2 DEF Walks, Takes, Moves
<1>4. Advance(s) /\ mach' = [mach EXCEPT ![s] = StateAt(s)[at[s] + 1]] /\ UNCHANGED <<fields, link>>
  BY Zenon, <1>3 DEF StepMachine
<1>5. /\ \A p \in Sides : mach'[p] = IF p = s THEN StateAt(s)[at[s] + 1] ELSE mach[p]
      /\ DOMAIN mach' = Sides
  BY <1>4 DEF CeremonyInv, Typed
<1>6. at[s] # AskAt(s)
  BY Zenon, <1>1 DEF EntryFits
<1>7. MailInOrder'
  BY ZenonT(60), <1>1, <1>4, QuietCall DEF link
<1>8. QED
  BY SMTT(60), Z3T(60), <1>1, <1>4, <1>5, <1>6, <1>7, AdvanceKeeps DEF fields, link, CeremonyInv, Typed

\* A call that leaves the machine alone: what AdvanceKeeps asks of it.
LEMMA MachineStays ==
  ASSUME CeremonyInv, NEW s \in Sides, Calling(s), Script(s)[at[s]].op \notin {"step", "recv"},
         UNCHANGED mach
  PROVE  /\ \A p \in Sides : mach'[p] = IF p = s THEN StateAt(s)[at[s] + 1] ELSE mach[p]
         /\ DOMAIN mach' = Sides
<1>1. StateAt(s)[at[s] + 1] = StateAt(s)[at[s]]
  BY Zenon, CallFits DEF EntryFits
<1>2. QED
  BY <1>1 DEF CeremonyInv, InStep, Typed

\* Sending keeps CeremonyInv.
LEMMA SendKeeps ==
  ASSUME CeremonyInv, NEW s \in Sides, pair_send(s)
  PROVE  CeremonyInv'
<1>1. Calling(s) /\ Script(s)[at[s]].op = "send" /\ phase[s] = "script"
  BY DEF pair_send, Now, Calling
<1>2. UNCHANGED <<mach, confirmed, closed, ctxDone, result, caller, closer, stored, up, listening, fin>>
  BY SMTT(60), Z3T(60) DEF pair_send, fields
<1>3. ASSUME Advance(s), wire' = IF up[s] = "cut" THEN wire
                              ELSE [wire EXCEPT ![Peer(s)] = Append(@, Script(s)[at[s]].msg)]
      PROVE  CeremonyInv'
  <2>1. MailInOrder' /\ wire' \in [Sides -> Seq(Messages)]
    BY <1>1, <1>2, <1>3, SendCall
  <2>2. at[s] # AskAt(s)
    BY Zenon, <1>1, CallFits DEF EntryFits
  <2>3. /\ \A p \in Sides : mach'[p] = IF p = s THEN StateAt(s)[at[s] + 1] ELSE mach[p]
        /\ DOMAIN mach' = Sides
    BY SMTT(60), Z3T(60), <1>1, <1>2, MachineStays
  <2>4. QED
    BY SMTT(60), Z3T(60), <1>1, <1>2, <1>3, <2>1, <2>2, <2>3, AdvanceKeeps
<1>4. ASSUME up[s] = "cut", Fails(s), UNCHANGED <<at, wire>>
      PROVE  CeremonyInv'
  <2>1. Cut /\ Ended
    BY SMTT(60), Z3T(60), <1>4 DEF Cut, CeremonyInv, EndsHaveCauses
  <2>2. MailInOrder' /\ wire' \in [Sides -> Seq(Messages)]
    BY SMTT(60), Z3T(60), <1>2, <1>4, CeremonyFrames DEF CeremonyInv, Typed
  <2>3. s = "acc" => at[s] <= 12
    BY SMTT(60), Z3T(60), <1>1, CallFits
  <2>4. QED
    BY SMTT(60), Z3T(60), <1>1, <1>2, <1>4, <2>1, <2>2, <2>3, FailsKeeps
<1>5. QED
  BY SMTT(60), Z3T(60), <1>3, <1>4 DEF pair_send

\* Showing the code keeps CeremonyInv.
LEMMA ShowCodeKeeps ==
  ASSUME CeremonyInv, NEW s \in Sides, ShowCode(s)
  PROVE  CeremonyInv'
<1>1. Calling(s) /\ Script(s)[at[s]].op = "show" /\ Advance(s)
  BY DEF ShowCode, Now, Calling
<1>2. UNCHANGED <<mach, confirmed, closed, ctxDone, result, caller, closer, stored, up, listening, fin, wire>>
  BY SMTT(60), Z3T(60) DEF ShowCode, link
<1>3. MailInOrder'
  BY <1>1, <1>2, QuietCall
<1>4. at[s] # AskAt(s)
  BY Zenon, <1>1, CallFits DEF EntryFits
<1>5. /\ \A p \in Sides : mach'[p] = IF p = s THEN StateAt(s)[at[s] + 1] ELSE mach[p]
      /\ DOMAIN mach' = Sides
  BY <1>1, <1>2, MachineStays
<1>6. QED
  BY SMTT(60), Z3T(60), <1>1, <1>2, <1>3, <1>4, <1>5, AdvanceKeeps DEF CeremonyInv, Typed

\* The wait for the user keeps CeremonyInv: only a confirmation goes on.
LEMMA AskUserKeeps ==
  ASSUME CeremonyInv, NEW s \in Sides, AskUser(s)
  PROVE  CeremonyInv'
<1>1. Calling(s) /\ Script(s)[at[s]].op = "ask" /\ phase[s] = "script"
  BY DEF AskUser, Now, Calling
<1>2. UNCHANGED <<mach, confirmed, closed, ctxDone, result, caller, closer, stored, up, listening, fin, wire>>
  BY DEF AskUser, link, fields
<1>3. \/ confirmed[s] /\ Advance(s)
      \/ ctxDone[s] /\ Fails(s) /\ UNCHANGED at
  BY ZenonT(60) DEF AskUser, waitConfirm
<1>4. ASSUME confirmed[s], Advance(s)
      PROVE  CeremonyInv'
  <2>1. MailInOrder'
    BY ZenonT(60), <1>1, <1>2, <1>4, QuietCall
  <2>2. /\ \A p \in Sides : mach'[p] = IF p = s THEN StateAt(s)[at[s] + 1] ELSE mach[p]
        /\ DOMAIN mach' = Sides
    BY SMTT(60), Z3T(60), <1>1, <1>2, MachineStays
  <2>3. QED
    BY SMTT(60), Z3T(60), <1>1, <1>2, <1>4, <2>1, <2>2, AdvanceKeeps DEF CeremonyInv, Typed
<1>5. ASSUME ctxDone[s], Fails(s), UNCHANGED at
      PROVE  CeremonyInv'
  <2>1. at[s] = AskAt(s)
    BY Zenon, <1>1, CallFits DEF EntryFits
  <2>2. MailInOrder' /\ wire' \in [Sides -> Seq(Messages)]
    BY SMTT(60), Z3T(60), <1>2, <1>5, CeremonyFrames DEF CeremonyInv, Typed
  <2>3. /\ s = "acc" => at[s] <= 12 /\ Ended
        /\ s = "ini" => ~(at[s] > 13)
    BY SMTT(60), Z3T(60), <1>5, <2>1 DEF AskAt, Ended
  <2>4. QED
    BY SMTT(60), Z3T(60), <1>1, <1>2, <1>5, <2>2, <2>3, FailsKeeps
<1>6. QED
  BY <1>3, <1>4, <1>5

\* Waiting for a message keeps CeremonyInv: on a carrier that is up the
\* message that comes is the one that is awaited, and the machine takes it.
LEMMA RecvKeeps ==
  ASSUME CeremonyInv, NEW s \in Sides, pair_recv(s)
  PROVE  CeremonyInv'
<1> DEFINE e == Script(s)[at[s]]
<1>1. Calling(s) /\ e.op = "recv" /\ phase[s] = "script"
  BY ZenonT(60) DEF pair_recv, Now, Calling
<1>2. UNCHANGED <<confirmed, closed, ctxDone, result, caller, closer, stored, up, listening, fin>>
  BY DEF pair_recv, fields
<1>3. EntryFits(s, at[s]) /\ at[s] \in 1 .. 14 /\ (s = "acc" => at[s] <= 12)
  BY Zenon, <1>1, CallFits
<1>4. Takes(s, e.on) /\ Moves(s, e.on) = StateAt(s)[at[s] + 1]
  <2>1. mach[s] = StateAt(s)[at[s]]
    BY DEF CeremonyInv, InStep
  <2>2. Walks(s, mach[s], e.on, StateAt(s)[at[s] + 1])
    BY Zenon, <1>1, <1>3, <2>1 DEF EntryFits
  <2>3. QED
    BY Zenon, <2>2 DEF Walks, Takes, Moves
<1>5. wire[s] \in Seq(Messages) /\ wire \in [Sides -> Seq(Messages)]
  BY SMTT(60), Z3T(60) DEF CeremonyInv, Typed
<1>6. ASSUME wire[s] # << >>, wire' = [wire EXCEPT ![s] = Tail(@)], Head(wire[s]) = e.msg,
             Advance(s), mach' = [mach EXCEPT ![s] = Moves(s, e.on)]
      PROVE  CeremonyInv'
  <2>1. MailInOrder'
    BY ZenonT(60), <1>1, <1>2, <1>6, TakeCall
  <2>2. wire' \in [Sides -> Seq(Messages)]
    BY SMTT(60), Z3T(60), <1>5, <1>6
  <2>3. /\ \A p \in Sides : mach'[p] = IF p = s THEN StateAt(s)[at[s] + 1] ELSE mach[p]
        /\ DOMAIN mach' = Sides
    BY <1>4, <1>6 DEF CeremonyInv, Typed
  <2>4. at[s] # AskAt(s)
    BY Zenon, <1>1, <1>3 DEF EntryFits
  <2>5. QED
    BY SMTT(60), Z3T(60), <1>1, <1>2, <1>6, <2>1, <2>2, <2>3, <2>4, AdvanceKeeps
<1>7. ASSUME wire[s] # << >>, wire' = [wire EXCEPT ![s] = Tail(@)], Head(wire[s]) # e.msg,
             Fails(s), UNCHANGED <<at, mach>>
      PROVE  CeremonyInv'
  <2>1. Cut
    BY SMTT(60), Z3T(60), <1>1, <1>7, AwaitedComes
  <2>2. Ended
    BY SMTT(60), Z3T(60), <2>1 DEF CeremonyInv, EndsHaveCauses
  <2>3. wire' \in [Sides -> Seq(Messages)] /\ wire'[s] = Tail(wire[s])
    BY SMTT(60), Z3T(60), <1>5, <1>7
  <2>4. MailInOrder'
    <3>1. Cut' /\ \A p \in Sides : p # s => wire'[p] = wire[p]
      BY <1>2, <1>5, <1>7, <2>1 DEF Cut
    <3>2. QED
      BY SMTT(60), Z3T(60), <1>7, <2>3, <3>1, LosingKeeps
  <2>5. QED
    BY ZenonT(60), <1>1, <1>2, <1>3, <1>7, <2>1, <2>2, <2>3, <2>4, FailsKeeps
<1>8. ASSUME wire[s] = << >>, fin[s] \/ up[s] = "cut", Fails(s), UNCHANGED <<at, mach, wire>>
      PROVE  CeremonyInv'
  <2>1. MailInOrder'
    BY SMTT(60), Z3T(60), <1>2, <1>8, CeremonyFrames
  <2>2. CASE Cut
    <3>1. Ended
      BY SMTT(60), Z3T(60), <2>2 DEF CeremonyInv, EndsHaveCauses
    <3>2. QED
      BY ZenonT(60), <1>1, <1>2, <1>3, <1>5, <1>8, <2>1, <2>2, <3>1, FailsKeeps
  <2>3. CASE ~Cut
    <3>1. fin[s] /\ outcome[Peer(s)] = "err"
      BY SMTT(60), Z3T(60), <1>1, <1>8, <2>3, EmptyWaitHasCause DEF Cut
    <3>2. \E p \in Sides : ctxDone[p]
      BY SMTT(60), Z3T(60), <2>3, <3>1 DEF CeremonyInv, EndsHaveCauses, Peer, Sides
    <3>3. /\ s = "ini" => phase["acc"] = "done"
          /\ s = "acc" => outcome["ini"] = "err"
      BY SMTT(60), Z3T(60), <3>1 DEF CeremonyInv, EndsHaveCauses, Peer
    <3>4. QED
      BY SMTT(60), Z3T(60), <1>1, <1>2, <1>3, <1>5, <1>8, <2>1, <3>2, <3>3, FailsKeeps
  <2>4. QED
    BY SMTT(60), Z3T(60), <2>2, <2>3
<1>9. QED
  BY ZenonT(60), <1>4, <1>6, <1>7, <1>8 DEF pair_recv

\* The acceptor's wait for a Session keeps CeremonyInv.
LEMMA AcceptSessionKeeps ==
  ASSUME CeremonyInv, AcceptSession
  PROVE  CeremonyInv'
<1> USE DEF CeremonyInv, Typed
<1>1. UNCHANGED <<at, mach, confirmed, closed, ctxDone, result, caller, closer, stored, listening, wire, fin>>
  BY SMTT(60), Z3T(60) DEF AcceptSession, fields
<1>2. phase["acc"] = "listen" /\ at["acc"] = 1 /\ "acc" \in Sides
  BY SMTT(60), Z3T(60) DEF AcceptSession, InStep, Sides
<1>3. ASSUME up["acc"] = "queued", up' = [up EXCEPT !["acc"] = "up"],
             phase' = [phase EXCEPT !["acc"] = "store"], UNCHANGED outcome
      PROVE  CeremonyInv'
  <2>1. /\ phase'["ini"] = phase["ini"] /\ phase'["acc"] = "store"
        /\ up'["ini"] = up["ini"] /\ up'["acc"] = "up" /\ up["acc"] = "queued"
    BY SMTT(60), Z3T(60), <1>3 DEF Sides
  <2>2. Typed'
    BY SMTT(60), Z3T(60), <1>1, <1>3 DEF Sides, Finished
  <2>3. InStep'
    BY SMTT(60), Z3T(60), <1>1, <1>2, <1>3, <2>1 DEF InStep, Sides, Finished
  <2>4. Cut' = Cut
    BY <2>1 DEF Cut, Sides
  <2>5. MailInOrder'
    BY Zenon, <1>1, <2>4 DEF MailInOrder
  <2>6. BeforeInitiate'
    BY SMTT(60), Z3T(60), <2>1 DEF BeforeInitiate, Sides
  <2>7. EndsHaveCauses'
    BY SMTT(60), Z3T(60), <1>1, <1>2, <1>3, <2>1, <2>4 DEF EndsHaveCauses, Ended
  <2>8. RecordDrained'
    BY SMTT(60), Z3T(60), <1>1, <1>2, <1>3, <2>1 DEF RecordDrained, InStep, Ended, Sides, Finished
  <2>9. QED
    BY SMTT(60), Z3T(60), <2>2, <2>3, <2>5, <2>6, <2>7, <2>8
<1>4. ASSUME ctxDone["acc"] \/ ~listening, Fails("acc"), UNCHANGED up
      PROVE  CeremonyInv'
  <2>1. ctxDone["acc"] /\ Ended
    BY SMTT(60), Z3T(60), <1>4 DEF EndsHaveCauses, Ended
  <2>2. MailInOrder' /\ wire' \in [Sides -> Seq(Messages)]
    BY SMTT(60), Z3T(60), <1>1, <1>4, CeremonyFrames
  <2> HIDE DEF CeremonyInv, Typed
  <2>3. QED
    BY SMTT(60), Z3T(60), <1>1, <1>2, <1>4, <2>1, <2>2, FailsKeeps
<1>5. QED
  BY SMTT(60), Z3T(60), <1>3, <1>4 DEF AcceptSession

\* The store of the accepted Session in the Ceremony keeps CeremonyInv.
LEMMA StoreSessionKeeps ==
  ASSUME CeremonyInv, StoreSession
  PROVE  CeremonyInv'
<1> USE DEF CeremonyInv, Typed
<1>1. UNCHANGED <<at, mach, outcome, confirmed, closed, ctxDone, result, caller, closer, up, listening, wire, fin>>
  BY DEF StoreSession, link
<1>2. /\ phase["acc"] = "store" /\ phase'["acc"] = "stream" /\ phase'["ini"] = phase["ini"]
  BY SMTT(60), Z3T(60) DEF StoreSession, Sides
<1>3. Typed'
  BY SMTT(60), Z3T(60), <1>1 DEF StoreSession, Sides, Finished
<1>4. InStep'
  BY SMTT(60), Z3T(60), <1>1, <1>2 DEF InStep, Sides, Finished
<1>5. BeforeInitiate' /\ MailInOrder'
  BY SMTT(60), Z3T(60), <1>1, <1>2, CeremonyFrames DEF BeforeInitiate
<1>6. EndsHaveCauses'
  BY SMTT(60), Z3T(60), <1>1, <1>2 DEF EndsHaveCauses, Ended, Cut
<1>7. RecordDrained'
  BY SMTT(60), Z3T(60), <1>1, <1>2 DEF RecordDrained, InStep, Ended, Sides, Finished
<1>8. QED
  BY SMTT(60), Z3T(60), <1>3, <1>4, <1>5, <1>6, <1>7

\* The start of a driver's script keeps CeremonyInv.
LEMMA StartKeeps ==
  ASSUME CeremonyInv, NEW s \in Sides, phase[s] = "stream",
         phase' = [phase EXCEPT ![s] = "script"],
         UNCHANGED <<at, mach, outcome, fields, up, listening, wire, fin>>
  PROVE  CeremonyInv'
<1> USE DEF CeremonyInv, Typed
<1>1. UNCHANGED <<confirmed, closed, ctxDone, result, caller, closer, stored>>
  BY SMTT(60), Z3T(60) DEF fields
<1>2. \A p \in Sides : phase'[p] = IF p = s THEN "script" ELSE phase[p]
  BY SMTT(60), Z3T(60)
<1>3. Typed'
  BY SMTT(60), Z3T(60), <1>1 DEF Finished
<1>4. InStep'
  BY SMTT(60), Z3T(60), <1>1, <1>2 DEF InStep, Finished
<1>5. BeforeInitiate'
  BY SMTT(60), Z3T(60), <1>1, <1>2 DEF BeforeInitiate, Sides
<1>6. MailInOrder'
  BY SMTT(60), Z3T(60), CeremonyFrames
<1>7. EndsHaveCauses'
  BY SMTT(60), Z3T(60), <1>1, <1>2 DEF EndsHaveCauses, Ended, Cut, Sides
<1>8. RecordDrained'
  BY SMTT(60), Z3T(60), <1>1, <1>2 DEF RecordDrained, InStep, Ended, Sides, Finished
<1>9. QED
  BY SMTT(60), Z3T(60), <1>3, <1>4, <1>5, <1>6, <1>7, <1>8

\* The end of AcceptStream on the acceptor keeps CeremonyInv.
LEMMA AcceptStreamKeeps ==
  ASSUME CeremonyInv, AcceptStream
  PROVE  CeremonyInv'
<1>1. phase["acc"] = "stream" /\ at["acc"] = 1 /\ "acc" \in Sides
  BY DEF AcceptStream, CeremonyInv, InStep, Sides
<1>2. UNCHANGED <<at, mach, fields, up, listening, wire, fin>>
  BY DEF AcceptStream, link
<1>3. CASE phase' = [phase EXCEPT !["acc"] = "script"] /\ UNCHANGED outcome
  BY ZenonT(60), <1>1, <1>2, <1>3, StartKeeps
<1>4. CASE (ctxDone["acc"] \/ up["acc"] = "cut") /\ Fails("acc")
  <2>1. (Cut \/ \E p \in Sides : ctxDone[p]) /\ Ended
    BY SMTT(60), Z3T(60), <1>1, <1>4 DEF CeremonyInv, EndsHaveCauses, Ended, Cut
  <2>2. MailInOrder' /\ wire' \in [Sides -> Seq(Messages)]
    BY SMTT(60), Z3T(60), <1>2, CeremonyFrames DEF CeremonyInv, Typed
  <2>3. QED
    BY SMTT(60), Z3T(60), <1>1, <1>2, <1>4, <2>1, <2>2, FailsKeeps DEF fields
<1>5. QED
  BY SMTT(60), Z3T(60), <1>3, <1>4 DEF AcceptStream

\* OpenStream on the initiator keeps CeremonyInv.
LEMMA OpenStreamKeeps ==
  ASSUME CeremonyInv, OpenStream
  PROVE  CeremonyInv'
<1>1. phase["ini"] = "stream" /\ at["ini"] = 1 /\ "ini" \in Sides
  BY DEF OpenStream, CeremonyInv, InStep, Sides
<1>2. UNCHANGED <<at, mach, fields, up, listening, wire, fin>>
  BY DEF OpenStream
<1>3. CASE phase' = [phase EXCEPT !["ini"] = "script"] /\ UNCHANGED outcome
  BY ZenonT(60), <1>1, <1>2, <1>3, StartKeeps
<1>4. CASE up["ini"] = "cut" /\ Fails("ini")
  <2>1. Cut
    BY SMTT(60), Z3T(60), <1>1, <1>4 DEF Cut
  <2>2. MailInOrder' /\ wire' \in [Sides -> Seq(Messages)]
    BY <1>2, CeremonyFrames DEF CeremonyInv, Typed
  <2>3. QED
    BY SMTT(60), Z3T(60), <1>1, <1>2, <1>4, <2>1, <2>2, FailsKeeps DEF fields
<1>5. QED
  BY SMTT(60), Z3T(60), <1>3, <1>4 DEF OpenStream

\* The return of the driver keeps CeremonyInv: the acceptor goes on to drain.
LEMMA ReturnsKeeps ==
  ASSUME CeremonyInv, NEW s \in Sides, Returns(s)
  PROVE  CeremonyInv'
<1> USE DEF CeremonyInv, Typed
<1>1. UNCHANGED <<at, mach, confirmed, closed, ctxDone, result, caller, closer, stored, up, listening, wire, fin>>
  BY DEF Returns, fields, link
<1>2. /\ phase[s] = "script" /\ outcome[s] = "none" /\ at[s] > Len(Script(s))
      /\ \A p \in Sides : outcome'[p] = IF p = s THEN "rec" ELSE outcome[p]
      /\ \A p \in Sides : p # s => phase'[p] = phase[p]
      /\ phase'[s] = IF s = "acc" THEN "drain" ELSE "close"
  BY ZenonT(60) DEF Returns, InStep, Finished
<1>3. Typed'
  BY SMTT(60), Z3T(60), <1>1, <1>2 DEF Returns, Finished
<1>4. InStep'
  BY SMTT(60), Z3T(60), <1>1, <1>2 DEF InStep, Finished
<1>5. BeforeInitiate'
  <2>1. s = "acc" => at[s] # 1
    <3> SUFFICES ASSUME s = "acc" PROVE at[s] # 1
      OBVIOUS
    <3>1. Len(Script(s)) = 12
      BY ScriptFits
    <3>2. at[s] > 12
      BY Zenon, <1>2, <3>1
    <3>3. QED
      BY ONLY SMTT(60), Z3T(60), <3>2
  <2>2. QED
    BY SMTT(60), Z3T(60), <1>1, <1>2, <2>1 DEF BeforeInitiate, Sides
<1>6. MailInOrder'
  BY SMTT(60), Z3T(60), <1>1, CeremonyFrames
<1>7. EndsHaveCauses'
  BY SMTT(60), Z3T(60), <1>1, <1>2 DEF EndsHaveCauses, Ended, Cut, Sides
<1>8. RecordDrained'
  BY SMTT(60), Z3T(60), <1>1, <1>2 DEF RecordDrained, Ended, Sides
<1>9. QED
  BY SMTT(60), Z3T(60), <1>3, <1>4, <1>5, <1>6, <1>7, <1>8

\* drainPeerStream keeps CeremonyInv: an initiator that has closed its end of
\* the stream has its record, or the ceremony has ended.
LEMMA DrainKeeps ==
  ASSUME CeremonyInv, drainPeerStream
  PROVE  CeremonyInv'
<1> USE DEF CeremonyInv, Typed
<1>1. UNCHANGED <<at, mach, outcome, confirmed, closed, ctxDone, result, caller, closer, stored, up,
                  listening, wire, fin>>
  BY SMTT(60), Z3T(60) DEF drainPeerStream, fields, link
<1>2. /\ phase["acc"] = "drain" /\ phase'["acc"] = "deliver" /\ phase'["ini"] = phase["ini"]
      /\ "acc" \in Sides /\ "ini" \in Sides
  BY DEF drainPeerStream, Sides
<1>3. Typed'
  BY ZenonT(60), <1>1 DEF drainPeerStream, Finished
<1>4. InStep'
  BY SMTT(60), Z3T(60), <1>1, <1>2 DEF InStep, Sides, Finished
<1>5. BeforeInitiate' /\ MailInOrder'
  BY SMTT(60), Z3T(60), <1>1, <1>2, CeremonyFrames DEF BeforeInitiate
<1>6. EndsHaveCauses'
  BY SMTT(60), Z3T(60), <1>1, <1>2 DEF EndsHaveCauses, Ended, Cut
<1>7. RecordDrained'
  <2>1. outcome["acc"] = "rec" => outcome["ini"] = "rec" \/ Ended
    <3> SUFFICES ASSUME outcome["acc"] = "rec", ~Ended PROVE outcome["ini"] = "rec"
      BY SMTT(60), Z3T(60)
    <3>1. fin["acc"]
      BY SMTT(60), Z3T(60), <1>2 DEF drainPeerStream, Drained, Ended, EndsHaveCauses, Cut
    <3>2. at["ini"] > 13
      <4>1. at["acc"] > 12
        <5>1. at["acc"] > Len(Script("acc"))
          BY SMTT(60), Z3T(60), <1>2 DEF InStep
        <5>2. QED
          BY ZenonT(60), <5>1, AcceptorFits
      <4>2. TakenAt("acc", at["acc"]) <= SentAt("acc", at["ini"])
        BY SMTT(60), Z3T(60), <1>2 DEF MailInOrder, MailFits, Peer
      <4>3. QED
        BY SMTT(60), Z3T(60), <1>2, <4>1, <4>2 DEF TakenAt, SentAt
    <3>3. outcome["ini"] # "none" /\ outcome["ini"] # "err"
      BY SMTT(60), Z3T(60), <1>2, <3>1, <3>2 DEF EndsHaveCauses
    <3>4. QED
      BY SMTT(60), Z3T(60), <1>2, <3>3
  <2>2. QED
    BY SMTT(60), Z3T(60), <1>1, <1>2, <2>1 DEF RecordDrained, Ended, Sides
<1>8. QED
  BY <1>3, <1>4, <1>5, <1>6, <1>7

\* The close of the stream keeps CeremonyInv.
LEMMA CloseStreamKeeps ==
  ASSUME CeremonyInv, NEW s \in Sides, CloseStream(s)
  PROVE  CeremonyInv'
<1> USE DEF CeremonyInv, Typed
<1>1. UNCHANGED <<at, mach, outcome, confirmed, closed, ctxDone, result, caller, closer, stored, up,
                  listening, wire>>
  BY SMTT(60), Z3T(60) DEF CloseStream, fields
<1>2. /\ phase[s] = "close" /\ outcome[s] # "none"
      /\ phase'[s] = IF s = "ini" THEN "deliver" ELSE "done"
      /\ \A p \in Sides : p # s => phase'[p] = phase[p]
  BY DEF CloseStream, InStep, Finished
<1>3. fin'[s] = fin[s] /\ fin'[Peer(s)] = TRUE
  BY ZenonT(60) DEF CloseStream, Peer, Sides
<1>4. Typed'
  BY SMTT(60), Z3T(60), <1>1 DEF CloseStream, Finished, Peer, Sides
<1>5. InStep'
  BY SMTT(60), Z3T(60), <1>1, <1>2 DEF InStep, Finished
<1>6. BeforeInitiate'
  BY SMTT(60), Z3T(60), <1>1, <1>2 DEF BeforeInitiate, Sides
<1>7. MailInOrder'
  BY SMTT(60), Z3T(60), <1>1, CeremonyFrames
<1>8. EndsHaveCauses'
  BY SMTT(60), Z3T(60), <1>1, <1>2, <1>3 DEF EndsHaveCauses, Ended, Cut, Sides, Peer
<1>9. RecordDrained'
  BY SMTT(60), Z3T(60), <1>1, <1>2 DEF RecordDrained, Ended, Sides
<1>10. QED
  BY <1>4, <1>5, <1>6, <1>7, <1>8, <1>9

\* Delivering the result keeps CeremonyInv.
LEMMA DeliverKeeps ==
  ASSUME CeremonyInv, NEW s \in Sides, Deliver(s)
  PROVE  CeremonyInv'
<1> USE DEF CeremonyInv, Typed
<1>1. UNCHANGED <<at, mach, outcome, confirmed, closed, ctxDone, caller, closer, stored, up, listening,
                  wire, fin>>
  BY SMTT(60), Z3T(60) DEF Deliver, link
<1>2. /\ phase[s] = "deliver" /\ outcome[s] \in {"rec", "err"}
      /\ phase'[s] \in {"close", "done"} /\ (s = "acc" /\ at[s] = 1 => phase'[s] = "done")
      /\ (s = "ini" => phase'[s] = "done")
      /\ \A p \in Sides : p # s => phase'[p] = phase[p]
  BY SMTT(60), Z3T(60) DEF Deliver, InStep, Finished
<1>3. /\ result'[s] = (IF result[s] = << >> THEN <<outcome[s]>> ELSE result[s])
      /\ \A p \in Sides : p # s => result'[p] = result[p]
  BY SMTT(60), Z3T(60) DEF Deliver, deliverResult
<1>4. Typed'
  <2>1. result' \in [Sides -> {<< >>, <<"rec">>, <<"err">>}]
    BY SMTT(60), Z3T(60), <1>2 DEF Deliver, deliverResult
  <2>2. phase' \in [Sides -> {"absent", "listen", "store", "stream", "script"} \cup Finished]
    BY SMTT(60), Z3T(60) DEF Deliver, Finished
  <2>3. QED
    BY SMTT(60), Z3T(60), <1>1, <2>1, <2>2
<1>5. InStep'
  BY ZenonT(60), <1>1, <1>2 DEF InStep, Finished
<1>6. BeforeInitiate'
  BY SMTT(60), Z3T(60), <1>1, <1>2 DEF BeforeInitiate, Sides
<1>7. MailInOrder'
  BY SMTT(60), Z3T(60), <1>1, CeremonyFrames
<1>8. EndsHaveCauses'
  BY SMTT(60), Z3T(60), <1>1, <1>2 DEF EndsHaveCauses, Ended, Cut, Sides
<1>9. RecordDrained'
  <2>1. result'[s] = <<"rec">> => outcome[s] = "rec"
    <3>1. \A x : <<x>> = <<"rec">> => x = "rec"
      BY SMTT(60), Z3T(60)
    <3>2. result[s] = <<"rec">> => outcome[s] = "rec"
      BY SMTT(60), Z3T(60) DEF RecordDrained
    <3>3. QED
      BY Zenon, <1>3, <3>1, <3>2
  <2>2. QED
    BY SMTT(60), Z3T(60), <1>1, <1>2, <1>3, <2>1 DEF RecordDrained, Ended, Sides
<1>10. QED
  BY <1>4, <1>5, <1>6, <1>7, <1>8, <1>9

\* The application's calls of Confirm keep CeremonyInv.
LEMMA ConfirmKeeps ==
  ASSUME CeremonyInv, NEW s \in Sides, Confirm(s) \/ ConfirmReturns(s) \/ ConfirmGivesUp(s)
  PROVE  CeremonyInv'
<1> USE DEF CeremonyInv, Typed
<1>1. /\ UNCHANGED <<phase, at, mach, outcome, closed, ctxDone, closer, stored, up, listening, wire, fin>>
      /\ confirmed' \in [Sides -> BOOLEAN] /\ \A p \in Sides : confirmed[p] => confirmed'[p]
  BY ZenonT(60) DEF Confirm, ConfirmReturns, ConfirmGivesUp, driver, link
<1>2. /\ result' \in [Sides -> {<< >>, <<"rec">>, <<"err">>}]
      /\ \A p \in Sides : result'[p] = <<"rec">> => result[p] = <<"rec">>
  <2>1. << >> # <<"rec">>
    OBVIOUS
  <2>2. QED
    BY ZenonT(60), <2>1 DEF Confirm, ConfirmReturns, ConfirmGivesUp
<1>3. /\ caller' \in [Sides -> {"idle", "waiting", "timeout", "rec", "err"}]
      /\ \A p \in Sides : caller'[p] = "rec" => caller[p] = "rec" \/ result[p] = <<"rec">>
  <2>1. CASE Confirm(s) \/ ConfirmGivesUp(s)
    <3>1. PICK v \in {"waiting", "timeout", "err"} : caller' = [caller EXCEPT ![s] = v]
      BY Zenon, <2>1 DEF Confirm, ConfirmGivesUp
    <3>2. QED
      BY <3>1
  <2>2. CASE ConfirmReturns(s)
    <3>1. Head(<<"rec">>) = "rec" /\ Head(<<"err">>) = "err"
      BY SMTT(60), Z3T(60)
    <3>2. \/ result[s] = <<"rec">> /\ Head(result[s]) = "rec"
          \/ result[s] = <<"err">> /\ Head(result[s]) = "err"
      BY SMTT(60), Z3T(60), <2>2, <3>1 DEF ConfirmReturns
    <3>3. caller' = [caller EXCEPT ![s] = Head(result[s])]
      BY SMTT(60), Z3T(60), <2>2 DEF ConfirmReturns
    <3>4. QED
      BY SMTT(60), Z3T(60), <3>2, <3>3
  <2>3. QED
    BY SMTT(60), Z3T(60), <2>1, <2>2
<1>4. Typed'
  BY SMTT(60), Z3T(60), <1>1, <1>2, <1>3
<1>5. InStep'
  BY SMTT(60), Z3T(60), <1>1 DEF InStep
<1>6. BeforeInitiate' /\ MailInOrder' /\ EndsHaveCauses'
  BY SMTT(60), Z3T(60), <1>1, CeremonyFrames
<1>7. RecordDrained'
  BY SMTT(60), Z3T(60), <1>1, <1>2, <1>3 DEF RecordDrained, Ended
<1>8. QED
  BY SMTT(60), Z3T(60), <1>4, <1>5, <1>6, <1>7

\* The first half of Close keeps CeremonyInv.
LEMMA CloseReadsKeeps ==
  ASSUME CeremonyInv, NEW s \in Sides, CloseReads(s)
  PROVE  CeremonyInv'
<1> USE DEF CeremonyInv, Typed
<1>1. UNCHANGED <<phase, at, mach, outcome, confirmed, ctxDone, result, caller, stored, up, listening, wire, fin>>
  BY SMTT(60), Z3T(60) DEF CloseReads, driver, link
<1>2. /\ \A p \in Sides : closed[p] => closed'[p]
      /\ closed'[s] /\ \A p \in Sides : p # s => closer'[p] = closer[p]
      /\ closer'[s] \in {"reads_sess", "reads_nil"} /\ (closer'[s] = "reads_sess" => stored[s])
  BY SMTT(60), Z3T(60) DEF CloseReads
<1>3. Typed'
  BY SMTT(60), Z3T(60), <1>1 DEF CloseReads
<1>4. InStep' /\ MailInOrder'
  BY SMTT(60), Z3T(60), <1>1, CeremonyFrames
<1>5. BeforeInitiate'
  BY SMTT(60), Z3T(60), <1>1, <1>2 DEF BeforeInitiate
<1>6. EndsHaveCauses'
  BY SMTT(60), Z3T(60), <1>1, <1>2 DEF EndsHaveCauses, Ended, Cut, Sides
<1>7. RecordDrained'
  BY SMTT(60), Z3T(60), <1>1, <1>2 DEF RecordDrained, Ended, Sides
<1>8. QED
  BY SMTT(60), Z3T(60), <1>3, <1>4, <1>5, <1>6, <1>7

\* The end of the parent context (Pairer.Close, or the caller's) keeps CeremonyInv.
LEMMA ParentEndsKeeps ==
  ASSUME CeremonyInv, NEW s \in Sides, ParentEnds(s)
  PROVE  CeremonyInv'
<1> USE DEF CeremonyInv, Typed
<1>1. UNCHANGED <<phase, at, mach, outcome, confirmed, closed, closer, result, caller, stored, up, listening,
                  wire, fin>>
  BY SMTT(60), Z3T(60) DEF ParentEnds, driver, link
<1>2. \A p \in Sides : ctxDone[p] => ctxDone'[p]
  BY SMTT(60), Z3T(60) DEF ParentEnds
<1>3. Typed'
  BY SMTT(60), Z3T(60), <1>1 DEF ParentEnds
<1>4. InStep' /\ MailInOrder' /\ BeforeInitiate'
  BY SMTT(60), Z3T(60), <1>1, CeremonyFrames
<1>5. EndsHaveCauses'
  BY SMTT(60), Z3T(60), <1>1, <1>2 DEF EndsHaveCauses, Ended, Cut, Sides
<1>6. RecordDrained'
  BY SMTT(60), Z3T(60), <1>1, <1>2 DEF RecordDrained, Ended, Sides
<1>7. QED
  BY SMTT(60), Z3T(60), <1>3, <1>4, <1>5, <1>6

\* The second half of Close keeps CeremonyInv: what it cuts, it cuts after
\* the context has ended.
LEMMA CloseEndsKeeps ==
  ASSUME CeremonyInv, NEW s \in Sides, CloseEnds(s)
  PROVE  CeremonyInv'
<1> USE DEF CeremonyInv, Typed
<1>1. UNCHANGED <<phase, at, mach, outcome, confirmed, closed, result, caller, stored, fin>>
  BY SMTT(60), Z3T(60) DEF CloseEnds, driver
<1>2. /\ closer[s] \in {"reads_nil", "reads_sess"} /\ closed[s]
      /\ ctxDone' = [ctxDone EXCEPT ![s] = TRUE] /\ listening' = (listening /\ s = "ini")
  BY SMTT(60), Z3T(60) DEF CloseEnds, EndsHaveCauses
<1>3. ctxDone'[s] /\ (\A p \in Sides : ctxDone[p] => ctxDone'[p]) /\ ctxDone' \in [Sides -> BOOLEAN]
  BY SMTT(60), Z3T(60), <1>2
<1>4. listening' \in BOOLEAN /\ (~listening' => ~listening \/ s = "acc")
  BY <1>2 DEF Sides
<1>5. /\ closer'[s] \in {"nil", "sess"} /\ \A p \in Sides : p # s => closer'[p] = closer[p]
      /\ closer' \in [Sides -> {"no", "reads_nil", "reads_sess", "nil", "sess"}]
  BY ZenonT(60) DEF CloseEnds
<1>6. /\ up' \in [Sides -> {"none", "queued", "up", "cut"}]
      /\ \A p \in Sides : up'[p] = up[p] \/ (p = s /\ up'[p] = "cut")
      /\ up[s] = "none" /\ closer[s] # "reads_sess" => up'[s] = "none"
  BY ZenonT(60) DEF CloseEnds
<1>7. wire' = wire \/ (wire' = [wire EXCEPT ![s] = << >>] /\ up'[s] = "cut")
  BY DEF CloseEnds
<1>8. wire' \in [Sides -> Seq(Messages)]
  <2>1. << >> \in Seq(Messages)
    BY SMTT(60), Z3T(60)
  <2>2. QED
    BY ZenonT(60), <1>7, <2>1
<1>9. Typed'
  BY ZenonT(60), <1>1, <1>2, <1>3, <1>4, <1>5, <1>6, <1>8
<1>10. (Cut' => Cut \/ up'[s] = "cut") /\ (Cut => Cut') /\ (up'[s] = "cut" => Cut') /\ Ended'
  BY SMTT(60), Z3T(60), <1>1, <1>2, <1>3, <1>4, <1>5, <1>6 DEF Cut, Ended, Sides
<1>11. MailInOrder'
  <2>1. CASE wire' = wire /\ Cut' = Cut
    BY Zenon, <1>1, <2>1 DEF MailInOrder
  <2>2. CASE wire' = wire /\ Cut'
    <3> SUFFICES ASSUME NEW p \in Sides
                 PROVE  MailFits(Mail(p), wire[p], TakenAt(p, at[p]), SentAt(p, at[Peer(p)]), TRUE)
      BY Zenon, <1>1, <2>2 DEF MailInOrder
    <3>1. /\ MailFits(Mail(p), wire[p], TakenAt(p, at[p]), SentAt(p, at[Peer(p)]), Cut)
          /\ wire[p] \in Seq(Messages)
      BY DEF MailInOrder
    <3>2. QED
      BY Zenon, <3>1, MailLost
  <2>3. CASE wire' = [wire EXCEPT ![s] = << >>] /\ Cut'
    <3>1. wire'[s] = << >> /\ \A p \in Sides : p # s => wire'[p] = wire[p]
      BY SMTT(60), Z3T(60), <2>3
    <3> HIDE DEF CeremonyInv, Typed
    <3>2. QED
      BY SMTT(60), Z3T(60), <1>1, <2>3, <3>1, LosingKeeps
  <2>4. Cut' = Cut \/ Cut'
    BY SMTT(60), Z3T(60), <1>10 DEF Cut
  <2>5. QED
    BY Zenon, <1>7, <1>10, <2>1, <2>2, <2>3, <2>4
<1>12. InStep'
  BY SMTT(60), Z3T(60), <1>1, CeremonyFrames
<1>13. BeforeInitiate'
  BY SMTT(60), Z3T(60), <1>1, <1>2, <1>3, <1>4, <1>5, <1>6 DEF BeforeInitiate
<1>14. EndsHaveCauses'
  BY SMTT(60), Z3T(60), <1>1, <1>2, <1>3, <1>4, <1>5, <1>10 DEF EndsHaveCauses, Sides
<1>15. RecordDrained'
  BY SMTT(60), Z3T(60), <1>1, <1>10 DEF RecordDrained
<1>16. QED
  BY SMTT(60), Z3T(60), <1>9, <1>11, <1>12, <1>13, <1>14, <1>15

\* The bridge that passes the end of a carrier on keeps CeremonyInv.
LEMMA CarrierEndsKeeps ==
  ASSUME CeremonyInv, NEW s \in Sides, CarrierEnds(s)
  PROVE  CeremonyInv'
<1> USE DEF CeremonyInv, Typed
<1>1. UNCHANGED <<phase, at, mach, outcome, confirmed, closed, ctxDone, result, caller, closer, stored, listening,
                  fin>>
  BY SMTT(60), Z3T(60) DEF CarrierEnds, driver, fields
<1>2. Peer(s) \in Sides /\ Cut /\ Cut' /\ up[s] # "none"
  BY SMTT(60), Z3T(60) DEF CarrierEnds, Cut, Peer, Sides
<1>3. wire'[s] = << >> /\ \A p \in Sides : p # s => wire'[p] = wire[p]
  BY SMTT(60), Z3T(60) DEF CarrierEnds
<1>4. Typed'
  BY SMTT(60), Z3T(60), <1>1 DEF CarrierEnds
<1>5. InStep' /\ RecordDrained'
  BY SMTT(60), Z3T(60), <1>1, CeremonyFrames
<1>6. BeforeInitiate'
  BY SMTT(60), Z3T(60), <1>1, <1>2 DEF BeforeInitiate
<1>7. EndsHaveCauses'
  BY SMTT(60), Z3T(60), <1>1, <1>2 DEF EndsHaveCauses, Ended
<1>8. MailInOrder'
  <2> HIDE DEF CeremonyInv, Typed
  <2>1. QED
    BY ZenonT(60), <1>1, <1>2, <1>3, LosingKeeps
<1>9. QED
  BY SMTT(60), Z3T(60), <1>4, <1>5, <1>6, <1>7, <1>8

\* Every step keeps CeremonyInv.
LEMMA CeremonyInductive == CeremonyInv /\ [Next]_vars => CeremonyInv'
<1> SUFFICES ASSUME CeremonyInv, [Next]_vars PROVE CeremonyInv'
  BY SMTT(60), Z3T(60)
<1>1. CASE UNCHANGED vars
  <2>1. Typed'
    BY SMTT(60), Z3T(60), <1>1 DEF vars, driver, fields, link, CeremonyInv, Typed
  <2>2. QED
    BY SMTT(60), Z3T(60), <1>1, <2>1, CeremonyFrames DEF vars, driver, fields, link, CeremonyInv
<1>2. CASE Initiate \/ DriveAcceptor \/ OpenStream
  BY SMTT(60), Z3T(60), <1>2, InitiateKeeps, AcceptSessionKeeps, StoreSessionKeeps, AcceptStreamKeeps, DrainKeeps,
     OpenStreamKeeps DEF DriveAcceptor
<1>3. ASSUME NEW s \in Sides, Drive(s) PROVE CeremonyInv'
  BY SMTT(60), Z3T(60), <1>3, StepMachineKeeps, SendKeeps, RecvKeeps, ShowCodeKeeps, AskUserKeeps, ReturnsKeeps,
     CloseStreamKeeps, DeliverKeeps DEF Drive
<1>4. ASSUME NEW s \in Sides,
             \/ Confirm(s) \/ ConfirmReturns(s) \/ ConfirmGivesUp(s)
             \/ CloseReads(s) \/ CloseEnds(s) \/ ParentEnds(s) \/ CarrierEnds(s)
      PROVE  CeremonyInv'
  BY SMTT(60), Z3T(60), <1>4, ConfirmKeeps, CloseReadsKeeps, CloseEndsKeeps, ParentEndsKeeps, CarrierEndsKeeps
<1>5. QED
  BY Zenon, <1>1, <1>2, <1>3, <1>4 DEF Next

\* The positions of two drivers, one of which has its record.
LEMMA RecordMeansBoth ==
  ASSUME CeremonyInv, NEW s \in Sides, outcome[s] = "rec"
  PROVE  /\ confirmed["acc"] /\ confirmed["ini"] /\ mach[s] = "Paired"
         /\ s = "acc" => at["ini"] > 13
<1> USE DEF CeremonyInv, Typed
<1>1. at[s] = IF s = "acc" THEN 13 ELSE 15
  <2>1. at[s] > Len(Script(s)) /\ at[s] \in 1 .. 15 /\ (s = "acc" => at[s] <= 13)
    BY SMTT(60), Z3T(60) DEF InStep
  <2>2. Len(Script(s)) = IF s = "acc" THEN 12 ELSE 14
    BY SMTT(60), Z3T(60), ScriptFits
  <2>3. QED
    BY ONLY SMTT(60), Z3T(60), <2>1, <2>2
<1>2. TakenAt(s, at[s]) <= SentAt(s, at[Peer(s)]) /\ Peer(s) \in Sides
  BY SMTT(60), Z3T(60) DEF MailInOrder, MailFits, Peer, Sides
<1>3. at[Peer(s)] > IF s = "acc" THEN 13 ELSE 11
  BY SMTT(60), Z3T(60), <1>1, <1>2 DEF TakenAt, SentAt, Peer, Sides
<1>4. confirmed["acc"] /\ confirmed["ini"]
  BY SMTT(60), Z3T(60), <1>1, <1>2, <1>3 DEF InStep, AskAt, Peer, Sides
<1>5. mach[s] = "Paired"
  <2>1. StateAt(s)[at[s]] = "Paired"
    BY <1>1 DEF StateAt, Sides
  <2>2. QED
    BY SMTT(60), Z3T(60), <2>1 DEF InStep
<1>6. QED
  BY SMTT(60), Z3T(60), <1>3, <1>4, <1>5 DEF Peer

\* RecordNeedsBothUsers holds of every ceremony: a PairingRecord is made on a
\* side only if both users have confirmed (waitConfirm, in both C drivers).
THEOREM CeremonyRecordNeedsBothUsers == Spec => []RecordNeedsBothUsers
<1>1. CeremonyInv => RecordNeedsBothUsers
  BY SMTT(60), Z3T(60), RecordMeansBoth DEF RecordNeedsBothUsers
<1>2. QED
  BY <1>1, CeremonyInitEstablishes, CeremonyInductive, PTL DEF Spec

\* DriverFollowsMachine holds of every ceremony: the generated machines take
\* every call the C drivers make, and are in Paired when a record is made.
THEOREM CeremonyDriverFollowsMachine == Spec => []DriverFollowsMachine
<1>1. CeremonyInv => DriverFollowsMachine
  <2> SUFFICES ASSUME CeremonyInv PROVE DriverFollowsMachine
    OBVIOUS
  <2>1. \A s \in Sides : outcome[s] = "rec" => mach[s] = "Paired"
    BY SMTT(60), Z3T(60), RecordMeansBoth
  <2>2. \A s \in Sides : outcome[s] = "err" => \E p \in Sides : ctxDone[p] \/ up[p] = "cut"
    BY SMTT(60), Z3T(60) DEF CeremonyInv, EndsHaveCauses, Cut
  <2>3. QED
    BY <2>1, <2>2 DEF DriverFollowsMachine
<1>2. QED
  BY <1>1, CeremonyInitEstablishes, CeremonyInductive, PTL DEF Spec

\* AcceptorOutlastsPeer holds of every ceremony: drainPeerStream hands out the
\* acceptor's record after the initiator has its own.
THEOREM CeremonyAcceptorOutlastsPeer == Spec => []AcceptorOutlastsPeer
<1>1. CeremonyInv => AcceptorOutlastsPeer
  BY DEF CeremonyInv, RecordDrained, AcceptorOutlastsPeer, Ended, Sides
<1>2. QED
  BY <1>1, CeremonyInitEstablishes, CeremonyInductive, PTL DEF Spec

\* PairingAgreed holds of every ceremony: one side has a record and the other
\* an error only after the acceptor was cancelled or the initiator closed.
THEOREM CeremonyAgrees == Spec => []PairingAgreed
<1>1. CeremonyInv => PairingAgreed
  <2> SUFFICES ASSUME CeremonyInv, NEW s \in Sides, outcome[s] = "rec", outcome[Peer(s)] = "err"
               PROVE  Ended
    BY SMTT(60), Z3T(60) DEF PairingAgreed, Ended
  <2>1. CASE s = "ini"
    BY SMTT(60), Z3T(60), <2>1 DEF CeremonyInv, EndsHaveCauses, Peer
  <2>2. CASE s = "acc"
    <3>1. at["ini"] > 13 /\ outcome["ini"] = "err"
      BY SMTT(60), Z3T(60), <2>2, RecordMeansBoth DEF Peer
    <3>2. Ended \/ phase["acc"] = "done"
      BY <3>1 DEF CeremonyInv, EndsHaveCauses
    <3>3. QED
      BY SMTT(60), Z3T(60), <2>2, <3>1, <3>2 DEF CeremonyInv, RecordDrained
  <2>3. QED
    BY <2>1, <2>2 DEF Sides
<1>2. QED
  BY <1>1, CeremonyInitEstablishes, CeremonyInductive, PTL DEF Spec
=============================================================================
