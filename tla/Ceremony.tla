------------------------------ MODULE Ceremony ------------------------------
(* One pairing ceremony between an acceptor and an initiator: the Ceremony *)
(* of pairing/pairing.go on each side, the goroutine that drives it, the C *)
(* drivers it calls (c/src/pairing.c) with the machine each of them walks, *)
(* and the stream between them, which a Session carries through the relay. *)
EXTENDS PairingMachine

CONSTANT DeferClose  \* applications do not call Close while their Confirm waits

ASSUME CeremonyAssumption == DeferClose \in BOOLEAN

Sides == {"acc", "ini"}

Peer(s) == IF s = "acc" THEN "ini" ELSE "acc"

VARIABLES
  phase,      \* where the driving goroutine is
  at,         \* position in the C driver's script
  mach,       \* state of the machine the C driver walks
  outcome,    \* what the C driver returned: "none", "rec" or "err"
  confirmed,  \* Ceremony.confirmed: confirmCh is closed
  closed,     \* Ceremony.closed
  ctxDone,    \* the Ceremony's context has ended
  code,       \* codeReady: "none", or closed with the "code" or an "err"
  result,     \* the result channel, of capacity one
  caller,     \* the application's call of Confirm
  closer,     \* what Close has read of sess ("reads_nil", "reads_sess") and closed ("nil", "sess")
  stored,     \* Ceremony.sess is set
  up,         \* the carrier at this end: "none", "queued", "up" or "cut"
  listening,  \* the acceptor's relay listener
  opened,     \* the initiator has opened the ceremony's stream
  wire,       \* the messages under way to a side
  fin         \* the peer of a side has ended its direction of the stream

driver == <<phase, at, mach, outcome>>
fields == <<confirmed, closed, ctxDone, code, result, caller, closer, stored>>
link == <<up, listening, opened, wire, fin>>
vars == <<driver, fields, link>>

Init ==
  /\ phase = [acc |-> "listen", ini |-> "absent"]
  /\ at = [s \in Sides |-> 1]
  /\ mach = [acc |-> PairingNewAcceptor.State, ini |-> PairingNewInitiator.State]
  /\ outcome = [s \in Sides |-> "none"]
  /\ confirmed = [s \in Sides |-> FALSE]
  /\ closed = [s \in Sides |-> FALSE]
  /\ ctxDone = [s \in Sides |-> FALSE]
  /\ code = [s \in Sides |-> "none"]
  /\ result = [s \in Sides |-> << >>]
  /\ caller = [s \in Sides |-> "idle"]
  /\ closer = [s \in Sides |-> "no"]
  /\ stored = [s \in Sides |-> FALSE]
  /\ up = [s \in Sides |-> "none"]
  /\ listening = TRUE
  /\ opened = FALSE
  /\ wire = [s \in Sides |-> << >>]
  /\ fin = [s \in Sides |-> FALSE]

---------------------------------------------------------------------------
(* The C drivers, call by call: a step of the machine, a message sent, a   *)
(* message awaited with the one the machine is given for it, the confirm   *)
(* callback (which shows the code and waits).                              *)
Step(e) == [op |-> "step", msg |-> "", on |-> Internal(e)]
Send(x) == [op |-> "send", msg |-> x, on |-> Internal("")]
Await(x, y) == [op |-> "recv", msg |-> x, on |-> Recv(y)]
Show == [op |-> "show", msg |-> "", on |-> Internal("")]
Ask == [op |-> "ask", msg |-> "", on |-> Internal("")]

(* Mutant: the machine is not told that the code is there. *)
pigeon_pair_acceptor_NoCodeReady ==
  <<Step("pair_begin"), Step("ephemeral_ready"), Step("relay_registered"), Await("hello", "hello"),
    Send("welcome"), Await("reveal", "reveal"), Show, Ask, Step("user_confirm"),
    Send("confirm"), Await("confirm", "confirm_to_acceptor")>>

pigeon_pair_acceptor ==
  <<Step("pair_begin"), Step("ephemeral_ready"), Step("relay_registered"), Await("hello", "hello"),
    Send("welcome"), Await("reveal", "reveal"), Step("code_ready"), Show, Ask, Step("user_confirm"),
    Send("confirm"), Await("confirm", "confirm_to_acceptor")>>

pigeon_pair_initiator ==
  <<Step("token_received"), Step("token_decoded"), Step("ephemeral_ready"), Step("relay_connected"),
    Send("hello"), Await("welcome", "welcome"), Send("reveal"), Step("reveal_sent"), Step("code_ready"),
    Show, Ask, Step("user_confirm"), Send("confirm"), Await("confirm", "confirm_to_initiator")>>

Script(s) == IF s = "acc" THEN pigeon_pair_acceptor ELSE pigeon_pair_initiator

(* The generated switch a trigger is given to: a message to the C twin of  *)
(* HandleMessage, an event to that of Step, which have the Go functions'   *)
(* cases in the same order.                                                *)
Rows(s, on) ==
  IF s = "acc"
  THEN IF on[1] = "recv" THEN PairingAcceptorHandleMessage ELSE PairingAcceptorStep
  ELSE IF on[1] = "recv" THEN PairingInitiatorHandleMessage ELSE PairingInitiatorStep

(* Whether the machine takes a trigger, and the state it is in then.       *)
Takes(s, on) == Matching(Rows(s, on), [State |-> mach[s]], on, Hooks({}, {}, FALSE)) # {}

Moves(s, on) == GoCase(Rows(s, on), [State |-> mach[s]], on, Hooks({}, {}, FALSE)).to

---------------------------------------------------------------------------
(* Initiate: Connect reaches the acceptor's listener, which queues the     *)
(* Session; the driver starts.                                             *)
Initiate ==
  /\ phase["ini"] = "absent"
  /\ listening
  /\ phase' = [phase EXCEPT !["ini"] = "stream"]
  /\ up' = [acc |-> "queued", ini |-> "up"]
  /\ stored' = [stored EXCEPT !["ini"] = TRUE]
  /\ UNCHANGED <<at, mach, outcome, confirmed, closed, ctxDone, code, result, caller, closer,
                 listening, opened, wire, fin>>

(* The driver of s ends with an error.                                     *)
Fails(s) ==
  /\ outcome' = [outcome EXCEPT ![s] = "err"]
  /\ phase' = [phase EXCEPT ![s] = IF s = "ini" /\ @ = "script" THEN "close" ELSE "deliver"]

(* runAcceptor: Accept, then the Session is stored, then AcceptStream.     *)
(* Either may return what it waits for although the context has ended.     *)
AcceptSession ==
  /\ phase["acc"] = "listen"
  /\ \/ /\ up["acc"] = "queued"
        /\ up' = [up EXCEPT !["acc"] = "up"]
        /\ phase' = [phase EXCEPT !["acc"] = "store"]
        /\ UNCHANGED outcome
     \/ /\ ctxDone["acc"] \/ ~listening
        /\ Fails("acc")
        /\ UNCHANGED up
  /\ UNCHANGED <<at, mach, fields, listening, opened, wire, fin>>

StoreSession ==
  /\ phase["acc"] = "store"
  /\ stored' = [stored EXCEPT !["acc"] = TRUE]
  /\ phase' = [phase EXCEPT !["acc"] = "stream"]
  /\ UNCHANGED <<at, mach, outcome, confirmed, closed, ctxDone, code, result, caller, closer, link>>

AcceptStream ==
  /\ phase["acc"] = "stream"
  /\ \/ /\ opened /\ up["acc"] = "up"
        /\ phase' = [phase EXCEPT !["acc"] = "script"]
        /\ UNCHANGED outcome
     \/ /\ ctxDone["acc"] \/ up["acc"] = "cut"
        /\ Fails("acc")
  /\ UNCHANGED <<at, mach, fields, link>>

(* runInitiator: OpenStream.                                               *)
OpenStream ==
  /\ phase["ini"] = "stream"
  /\ \/ /\ up["ini"] = "up"
        /\ opened' = TRUE
        /\ phase' = [phase EXCEPT !["ini"] = "script"]
        /\ UNCHANGED outcome
     \/ /\ up["ini"] = "cut"
        /\ Fails("ini")
        /\ UNCHANGED opened
  /\ UNCHANGED <<at, mach, fields, up, listening, wire, fin>>

---------------------------------------------------------------------------
(* One call of the C driver of s, the script's next entry.                 *)
Now(s, op) == phase[s] = "script" /\ at[s] <= Len(Script(s)) /\ Script(s)[at[s]].op = op

Advance(s) == at' = [at EXCEPT ![s] = @ + 1] /\ UNCHANGED <<phase, outcome>>

StepMachine(s) ==
  /\ Now(s, "step")
  /\ LET on == Script(s)[at[s]].on
     IN  IF Takes(s, on)
         THEN Advance(s) /\ mach' = [mach EXCEPT ![s] = Moves(s, on)]
         ELSE Fails(s) /\ UNCHANGED <<at, mach>>
  /\ UNCHANGED <<fields, link>>

(* A message sent on a carrier that is cut is lost or refused.             *)
pair_send(s) ==
  /\ Now(s, "send")
  /\ \/ Advance(s) /\ wire' = IF up[s] = "cut" THEN wire
                              ELSE [wire EXCEPT ![Peer(s)] = Append(@, Script(s)[at[s]].msg)]
     \/ up[s] = "cut" /\ Fails(s) /\ UNCHANGED <<at, wire>>
  /\ UNCHANGED <<mach, fields, up, listening, opened, fin>>

(* The read has no context: it ends with a message, with the stream or     *)
(* with the carrier.                                                       *)
pair_recv(s) ==
  /\ Now(s, "recv")
  /\ LET want == Script(s)[at[s]]
     IN  \/ /\ wire[s] # << >>
            /\ wire' = [wire EXCEPT ![s] = Tail(@)]
            /\ IF Head(wire[s]) = want.msg /\ Takes(s, want.on)
               THEN Advance(s) /\ mach' = [mach EXCEPT ![s] = Moves(s, want.on)]
               ELSE Fails(s) /\ UNCHANGED <<at, mach>>
         \/ /\ wire[s] = << >>
            /\ fin[s] \/ up[s] = "cut"
            /\ Fails(s)
            /\ UNCHANGED <<at, mach, wire>>
  /\ UNCHANGED <<fields, up, listening, opened, fin>>

(* signalCode: the first call decides.                                     *)
signalCode(s, c) == code' = [code EXCEPT ![s] = IF @ = "none" THEN c ELSE @]

ShowCode(s) ==
  /\ Now(s, "show")
  /\ signalCode(s, "code")
  /\ Advance(s)
  /\ UNCHANGED <<mach, confirmed, closed, ctxDone, result, caller, closer, stored, link>>

(* Mutant: the end of the context counts as a confirmation. *)
waitConfirm_EndIsYes(s) == IF confirmed[s] \/ ctxDone[s] THEN {TRUE} ELSE {}

(* waitConfirm prefers a confirmation to the end of the context.           *)
waitConfirm(s) == IF confirmed[s] THEN {TRUE} ELSE IF ctxDone[s] THEN {FALSE} ELSE {}

AskUser(s) ==
  /\ Now(s, "ask")
  /\ \E yes \in waitConfirm(s) : IF yes THEN Advance(s) ELSE Fails(s) /\ UNCHANGED at
  /\ UNCHANGED <<mach, fields, link>>

Returns(s) ==
  /\ phase[s] = "script" /\ at[s] > Len(Script(s))
  /\ outcome' = [outcome EXCEPT ![s] = "rec"]
  /\ phase' = [phase EXCEPT ![s] = IF s = "acc" THEN "drain" ELSE "close"]
  /\ UNCHANGED <<at, mach, fields, link>>

---------------------------------------------------------------------------
(* The acceptor waits until the initiator's end of the stream is closed.   *)
Drained == wire["acc"] = << >> /\ (fin["acc"] \/ up["acc"] = "cut")

(* Mutant: the record is handed out at once. *)
drainPeerStream_NoWait ==
  /\ phase["acc"] = "drain"
  /\ phase' = [phase EXCEPT !["acc"] = "deliver"]
  /\ UNCHANGED <<at, mach, outcome, fields, link>>

drainPeerStream ==
  /\ phase["acc"] = "drain"
  /\ Drained \/ ctxDone["acc"]
  /\ phase' = [phase EXCEPT !["acc"] = "deliver"]
  /\ UNCHANGED <<at, mach, outcome, fields, link>>

(* The stream's Close: before the result on the initiator, deferred on the *)
(* acceptor.                                                               *)
CloseStream(s) ==
  /\ phase[s] = "close"
  /\ phase' = [phase EXCEPT ![s] = IF s = "ini" THEN "deliver" ELSE "done"]
  /\ fin' = [fin EXCEPT ![Peer(s)] = TRUE]
  /\ UNCHANGED <<at, mach, outcome, fields, up, listening, opened, wire>>

(* Mutant: only a record is delivered. *)
deliverResult_RecordOnly(s) ==
  /\ result' = [result EXCEPT ![s] = IF @ = << >> /\ outcome[s] = "rec" THEN <<outcome[s]>> ELSE @]
  /\ IF outcome[s] = "err" THEN signalCode(s, "err") ELSE UNCHANGED code

(* The result is kept for one Confirm; an error also ends the wait for the *)
(* code.                                                                   *)
deliverResult(s) ==
  /\ result' = [result EXCEPT ![s] = IF @ = << >> THEN <<outcome[s]>> ELSE @]
  /\ IF outcome[s] = "err" THEN signalCode(s, "err") ELSE UNCHANGED code

Deliver(s) ==
  /\ phase[s] = "deliver"
  /\ deliverResult(s)
  /\ phase' = [phase EXCEPT ![s] = IF s = "acc" /\ at[s] > 1 THEN "close" ELSE "done"]
  /\ UNCHANGED <<at, mach, outcome, confirmed, closed, ctxDone, caller, closer, stored, link>>

---------------------------------------------------------------------------
(* The application: Confirm, which then waits for the result or for its    *)
(* own context, and Close, which reads what to close under the lock and    *)
(* closes it after.                                                        *)
Confirm(s) ==
  /\ phase[s] # "absent"
  /\ caller[s] = "idle"
  /\ IF closed[s]
     THEN caller' = [caller EXCEPT ![s] = "err"] /\ UNCHANGED confirmed
     ELSE /\ caller' = [caller EXCEPT ![s] = "waiting"]
          /\ confirmed' = [confirmed EXCEPT ![s] = TRUE]
  /\ UNCHANGED <<driver, closed, ctxDone, code, result, closer, stored, link>>

ConfirmReturns(s) ==
  /\ caller[s] = "waiting"
  /\ result[s] # << >>
  /\ caller' = [caller EXCEPT ![s] = Head(result[s])]
  /\ result' = [result EXCEPT ![s] = << >>]
  /\ UNCHANGED <<driver, confirmed, closed, ctxDone, code, closer, stored, link>>

ConfirmGivesUp(s) ==
  /\ caller[s] = "waiting"
  /\ caller' = [caller EXCEPT ![s] = "timeout"]
  /\ UNCHANGED <<driver, confirmed, closed, ctxDone, code, result, closer, stored, link>>

CloseReads(s) ==
  /\ phase[s] # "absent"
  /\ ~closed[s]
  /\ DeferClose => caller[s] # "waiting"
  /\ closed' = [closed EXCEPT ![s] = TRUE]
  /\ closer' = [closer EXCEPT ![s] = IF stored[s] THEN "reads_sess" ELSE "reads_nil"]
  /\ UNCHANGED <<driver, confirmed, ctxDone, code, result, caller, stored, link>>

(* The context, the Session that was read, the acceptor's listener; a      *)
(* Session the listener has queued is closed with it or left.              *)
CloseEnds(s) ==
  /\ closer[s] \in {"reads_nil", "reads_sess"}
  /\ ctxDone' = [ctxDone EXCEPT ![s] = TRUE]
  /\ listening' = (listening /\ s = "ini")
  /\ IF closer[s] = "reads_sess"
     THEN /\ closer' = [closer EXCEPT ![s] = "sess"]
          /\ up' = [up EXCEPT ![s] = "cut"]
          /\ wire' = [wire EXCEPT ![s] = << >>]
     ELSE /\ closer' = [closer EXCEPT ![s] = "nil"]
          /\ up' \in {up, [up EXCEPT ![s] = IF @ = "queued" THEN "cut" ELSE @]}
          /\ UNCHANGED wire
  /\ UNCHANGED <<driver, confirmed, closed, code, result, caller, stored, opened, fin>>

(* The parent context ends: Pairer.Close, or the caller's on the initiator. *)
ParentEnds(s) ==
  /\ phase[s] # "absent"
  /\ ~ctxDone[s]
  /\ ctxDone' = [ctxDone EXCEPT ![s] = TRUE]
  /\ UNCHANGED <<driver, confirmed, closed, code, result, caller, closer, stored, link>>

(* The relay's bridge passes the end of a carrier on; what was under way   *)
(* to that side is gone.                                                   *)
CarrierEnds(s) ==
  /\ up[Peer(s)] = "cut" /\ up[s] \in {"up", "queued"}
  /\ up' = [up EXCEPT ![s] = "cut"]
  /\ wire' = [wire EXCEPT ![s] = << >>]
  /\ UNCHANGED <<driver, fields, listening, opened, fin>>

---------------------------------------------------------------------------
Drive(s) ==
  \/ StepMachine(s) \/ pair_send(s) \/ pair_recv(s) \/ ShowCode(s) \/ AskUser(s) \/ Returns(s)
  \/ CloseStream(s) \/ Deliver(s)

DriveAcceptor == AcceptSession \/ StoreSession \/ AcceptStream \/ drainPeerStream

Next ==
  \/ Initiate \/ DriveAcceptor \/ OpenStream
  \/ \E s \in Sides : \/ Drive(s) \/ Confirm(s) \/ ConfirmReturns(s) \/ ConfirmGivesUp(s)
                      \/ CloseReads(s) \/ CloseEnds(s) \/ ParentEnds(s) \/ CarrierEnds(s)

(* The goroutines run, Close returns, the bridge ends; nobody has to call  *)
(* anything.                                                               *)
Fairness ==
  /\ WF_vars(DriveAcceptor) /\ WF_vars(OpenStream)
  /\ \A s \in Sides :
       /\ WF_vars(Drive(s)) /\ WF_vars(ConfirmReturns(s))
       /\ WF_vars(CloseEnds(s)) /\ WF_vars(CarrierEnds(s))

Spec == Init /\ [][Next]_vars

FairSpec == Spec /\ Fairness

---------------------------------------------------------------------------
(* A PairingRecord is made on a side only if both users have confirmed:    *)
(* each driver's confirm leaves after waitConfirm said yes, and each waits *)
(* for the other's.                                                        *)
RecordNeedsBothUsers ==
  \A s \in Sides : outcome[s] = "rec" => confirmed["acc"] /\ confirmed["ini"]

(* The C drivers and the machines they walk agree: a machine never refuses *)
(* what its driver does (a driver fails only when the user cancels, the    *)
(* peer or the carrier goes away), and a driver returns a record exactly   *)
(* when its machine is in Paired.                                          *)
DriverFollowsMachine ==
  /\ \A s \in Sides : outcome[s] = "rec" => mach[s] = "Paired"
  /\ \A s \in Sides : outcome[s] = "err" => \E p \in Sides : ctxDone[p] \/ up[p] = "cut"

(* drainPeerStream: when the acceptor hands out its record, so that its    *)
(* application may close the Session, the initiator's driver has its own,  *)
(* unless one of them was cancelled.                                       *)
AcceptorOutlastsPeer ==
  result["acc"] = <<"rec">> \/ caller["acc"] = "rec"
    => outcome["ini"] = "rec" \/ ctxDone["acc"] \/ closed["ini"]

(* Both sides make a record or neither does, unless the acceptor was       *)
(* cancelled or the initiator closed: no other interleaving of the two     *)
(* drivers, of the bridge that ends and of contexts that end leaves one    *)
(* side paired with a peer whose ceremony failed.                          *)
PairingAgreed ==
  \A s \in Sides :
    outcome[s] = "rec" /\ outcome[Peer(s)] = "err" => ctxDone["acc"] \/ closed["ini"]

---------------------------------------------------------------------------
(* The inductive invariant.  Everything a driver has done is determined by *)
(* its position: the state of its machine, and how many messages it has    *)
(* sent and has taken.                                                     *)
StateAt(s) ==
  IF s = "acc"
  THEN <<"Idle", "GeneratingEphemeral", "RegisteringRelay", "WaitingForHello", "WaitingForReveal",
         "WaitingForReveal", "DerivingCode", "AwaitingUserConfirm", "AwaitingUserConfirm",
         "AwaitingUserConfirm", "AwaitingPeerConfirm", "AwaitingPeerConfirm", "Paired">>
  ELSE <<"Idle", "DecodingToken", "GeneratingEphemeral", "ConnectingRelay", "AwaitingWelcome",
         "AwaitingWelcome", "Revealing", "Revealing", "DerivingCode", "AwaitingUserConfirm",
         "AwaitingUserConfirm", "AwaitingUserConfirm", "AwaitingPeerConfirm", "AwaitingPeerConfirm",
         "Paired">>

Messages == {"hello", "welcome", "reveal", "confirm"}

(* The messages for s, in order; how many of them the peer has sent at its *)
(* position n, and how many s has taken at its own.                        *)
Mail(s) == IF s = "acc" THEN <<"hello", "reveal", "confirm">> ELSE <<"welcome", "confirm">>

SentAt(s, n) ==
  IF s = "acc"
  THEN IF n > 13 THEN 3 ELSE IF n > 7 THEN 2 ELSE IF n > 5 THEN 1 ELSE 0
  ELSE IF n > 11 THEN 2 ELSE IF n > 5 THEN 1 ELSE 0

TakenAt(s, n) ==
  IF s = "acc"
  THEN IF n > 12 THEN 3 ELSE IF n > 6 THEN 2 ELSE IF n > 4 THEN 1 ELSE 0
  ELSE IF n > 14 THEN 2 ELSE IF n > 6 THEN 1 ELSE 0

AskAt(s) == IF s = "acc" THEN 9 ELSE 11

Cut == \E s \in Sides : up[s] = "cut"

Ended == ctxDone["acc"] \/ closed["ini"]

Finished == {"drain", "close", "deliver", "done"}

Typed ==
  /\ phase \in [Sides -> {"absent", "listen", "store", "stream", "script"} \cup Finished]
  /\ at \in [Sides -> 1..15] /\ at["acc"] <= 13
  /\ DOMAIN mach = Sides
  /\ outcome \in [Sides -> {"none", "rec", "err"}]
  /\ confirmed \in [Sides -> BOOLEAN] /\ closed \in [Sides -> BOOLEAN]
  /\ ctxDone \in [Sides -> BOOLEAN]
  /\ result \in [Sides -> {<< >>, <<"rec">>, <<"err">>}]
  /\ caller \in [Sides -> {"idle", "waiting", "timeout", "rec", "err"}]
  /\ closer \in [Sides -> {"no", "reads_nil", "reads_sess", "nil", "sess"}]
  /\ stored \in [Sides -> BOOLEAN] /\ listening \in BOOLEAN
  /\ up \in [Sides -> {"none", "queued", "up", "cut"}]
  /\ wire \in [Sides -> Seq(Messages)]
  /\ fin \in [Sides -> BOOLEAN]

(* The driver, its machine and its user.                                   *)
InStep ==
  \A s \in Sides :
    /\ mach[s] = StateAt(s)[at[s]]
    /\ at[s] > AskAt(s) => confirmed[s]
    /\ phase[s] \in {"absent", "listen", "store", "stream"} => at[s] = 1
    /\ outcome[s] = "none" <=> phase[s] \notin Finished
    /\ outcome[s] = "rec" => at[s] > Len(Script(s))
    /\ s = "acc" /\ outcome[s] = "err" => at[s] <= Len(Script(s))

(* Before Initiate there is nothing to store, to close or to cut.          *)
BeforeInitiate ==
  phase["ini"] = "absent" =>
    /\ at["acc"] = 1 /\ phase["acc"] \in {"listen", "deliver", "done"}
    /\ \A s \in Sides : up[s] = "none" /\ ~stored[s] /\ closer[s] # "reads_sess"

(* Of the messages q, of which so many were sent and taken, w is under     *)
(* way: what is on the wire was sent, and unless the carrier loses some,   *)
(* nothing is missing and nothing overtakes.                               *)
MailFits(q, w, taken, sent, lossy) ==
  /\ taken <= sent
  /\ \A i \in 1..Len(w) : \E k \in 1..sent : w[i] = q[k]
  /\ ~lossy => w = SubSeq(q, taken + 1, sent)

MailInOrder ==
  \A s \in Sides :
    MailFits(Mail(s), wire[s], TakenAt(s, at[s]), SentAt(s, at[Peer(s)]), Cut)

(* Who ended what: a cut, a failure, an end of stream has its cause.       *)
EndsHaveCauses ==
  /\ Cut => Ended
  /\ ~listening => ctxDone["acc"]
  /\ \A s \in Sides : closer[s] \in {"reads_nil", "reads_sess"} => closed[s]
  /\ fin["acc"] => outcome["ini"] # "none"
  /\ fin["ini"] => phase["acc"] = "done"
  /\ \A s \in Sides : outcome[s] = "err" => Cut \/ \E p \in Sides : ctxDone[p]
  /\ outcome["ini"] = "err" /\ at["ini"] > 13 => Ended \/ phase["acc"] = "done"
  /\ outcome["acc"] = "err" => Ended \/ outcome["ini"] = "err"

(* The acceptor's record leaves its driver after drainPeerStream.          *)
RecordDrained ==
  /\ \A s \in Sides : result[s] = <<"rec">> \/ caller[s] = "rec"
                         => /\ outcome[s] = "rec"
                            /\ phase[s] \in IF s = "acc" THEN {"close", "done"} ELSE {"done"}
  /\ outcome["acc"] = "rec" /\ phase["acc"] # "drain" => outcome["ini"] = "rec" \/ Ended

CeremonyInv ==
  Typed /\ InStep /\ BeforeInitiate /\ MailInOrder /\ EndsHaveCauses /\ RecordDrained

---------------------------------------------------------------------------
(* After Close the driver ends and its Session is released, whatever the   *)
(* driver was doing, unless Close came before runAcceptor had stored the   *)
(* Session that Accept gave it; and then a Confirm that waits returns, and *)
(* so does Code: the driver's last word reaches both.                      *)
CloseUnwinds ==
  \A s \in Sides :
    /\ closed[s] ~> \/ phase[s] = "done" /\ up[s] # "up"
                    \/ s = "acc" /\ closer[s] = "nil" /\ up[s] = "up"
    /\ (closed[s] /\ phase[s] = "done") ~> (caller[s] # "waiting" /\ code[s] # "none")

(* pairing/pairing.go, runInitiator: the order keeps Ceremony.Close from   *)
(* racing the peer.  Once the initiator's Confirm has returned a record,   *)
(* the acceptor does not fail unless it was cancelled itself.              *)
CloseSparesPeer ==
  caller["ini"] = "rec" /\ outcome["acc"] = "err" => ctxDone["acc"]
=============================================================================
