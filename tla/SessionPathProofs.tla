-------------------------- MODULE SessionPathProofs --------------------------
(***************************************************************************)
(* Proofs about SessionPath, for any number of direct connections, faults, *)
(* forced fallbacks and candidates under way, and any max_ping_failures    *)
(* and max_backoff_level.                                                  *)
(*                                                                         *)
(* The rows of the two HandleEvent switches are sorted into a few kinds by *)
(* what they do to the direct path.  A turn of an event loop is then one   *)
(* of these kinds, and keeps PathInv, whatever the event is.               *)
(*                                                                         *)
(* Before them come facts about the framework all machines are written in: *)
(* for every table, what executes it makes no difference.                  *)
(***************************************************************************)
EXTENDS SessionPath, SequenceTheorems, WellFoundedInduction, TLAPS

\* A nonempty set of naturals has a least element, and Min is that.
LEMMA MinIn ==
  ASSUME NEW S \in SUBSET Nat, S # {}
  PROVE  Min(S) \in S /\ \A y \in S : Min(S) <= y
<1>1. OpToRel(<, Nat) = {ss \in Nat \X Nat : ss[1] < ss[2]}
  BY Zenon DEF OpToRel
<1> DEFINE R == {ss \in Nat \X Nat : ss[1] < ss[2]}
<1>2. IsWellFoundedOn(R, Nat)
  BY Zenon, <1>1, NatLessThanWellFounded
<1>3. \A x, y \in Nat : y < x => <<y, x>> \in R
  OBVIOUS
<1> HIDE DEF R
<1>4. PICK x \in S : \A y \in S : ~ (<<y, x>> \in R)
  BY ZenonT(60), <1>2, WFMin
<1>5. \A y \in S : ~ (y < x)
  BY Zenon, <1>3, <1>4
<1>6. \A y \in S : x <= y
  BY ONLY <1>5, x \in S, S \in SUBSET Nat
<1>7. QED
  BY ZenonT(60), <1>6 DEF Min

\* An element of a set of naturals that is below the others is its Min.
LEMMA MinIs ==
  ASSUME NEW S \in SUBSET Nat, NEW x \in S, \A y \in S : x <= y
  PROVE  Min(S) = x
<1>1. S # {}
  OBVIOUS
<1>2. Min(S) \in S /\ \A y \in S : Min(S) <= y
  BY Zenon, <1>1, MinIn
<1>3. Min(S) \in Nat /\ x \in Nat /\ x <= Min(S) /\ Min(S) <= x
  BY ZenonT(60), <1>2
<1>4. QED
  BY ONLY <1>3

\* The case of a switch that runs is one that matches.
LEMMA GoCaseMatches ==
  ASSUME NEW rows, DOMAIN rows \subseteq Nat, NEW m, NEW on, NEW h,
         NEW t, t = GoCase(rows, m, on, h)
  PROVE  \/ t = Plain(m.State, on, m.State)
         \/ \E i \in DOMAIN rows : t = rows[i] /\ t.from = m.State /\ t.on = on
<1> DEFINE hit == Matching(rows, m, on, h)
<1>1. CASE hit = {}
  BY <1>1 DEF GoCase
<1>2. CASE hit # {}
  <2>1. hit \in SUBSET Nat
    BY ZenonT(60) DEF Matching
  <2>2. Min(hit) \in hit
    BY <1>2, <2>1, MinIn
  <2>3. t = rows[Min(hit)]
    BY <1>2 DEF GoCase
  <2>4. Min(hit) \in DOMAIN rows /\ rows[Min(hit)].from = m.State /\ rows[Min(hit)].on = on
    BY ZenonT(60), <2>2 DEF Matching
  <2>5. QED
    BY Zenon, <2>3, <2>4
<1>3. QED
  BY <1>1, <1>2

---------------------------------------------------------------------------
(* The executors of a state machine, for every table.                      *)

\* A transition that names an action.
Acts(t) == t.do # ""

\* The state a generated case leaves: the action may veto it.
LEMMA BodyState ==
  ASSUME NEW m, "State" \in DOMAIN m, NEW t, NEW h, NEW max
  PROVE  writeGoTransitionBody(m, t, h, max).State
           = IF ActionRuns(t, h) /\ h.fails THEN m.State ELSE t.to
  BY DEF writeGoTransitionBody

\* A switch that falls through leaves the state.
LEMMA FallThrough ==
  ASSUME NEW s, NEW on, NEW h
  PROVE  ~ActionRuns(Plain(s, on, s), h) /\ Plain(s, on, s).to = s
<1>1. Plain(s, on, s).do = ""
  BY Zenon DEF Plain, Row
<1>2. Plain(s, on, s).to = s
  BY DEF Plain, Row
<1>3. QED
  BY Zenon, <1>1, <1>2 DEF ActionRuns

\* With every hook registered, the interpreter (tryTransitions) and a
\* generated switch stop at the same transitions.
LEMMA SameStops ==
  ASSUME NEW rows, NEW m, NEW on, NEW h,
         \A i \in DOMAIN rows : rows[i].guard \notin h.absent
  PROVE  {i \in {j \in DOMAIN rows : rows[j].from = m.State /\ rows[j].on = on} :
             rows[i].guard = "" \/ rows[i].guard \in h.true \union h.absent}
           = Matching(rows, m, on, h)
  BY Zenon DEF Matching

\* The interpreter of machine.go and the code ExportGo writes agree about
\* every table: given the same transitions, the same trigger and an embedder
\* who has registered every guard and action they name, both end in the same
\* state, whatever the guards say and whether or not the action fails.
THEOREM InterpreterMatchesGenerated ==
  ASSUME NEW rows, DOMAIN rows \subseteq Nat, NEW m, "State" \in DOMAIN m, NEW on, NEW h, NEW max,
         \A i \in DOMAIN rows : rows[i].guard \notin h.absent /\ rows[i].do \notin h.absent
  PROVE  MachineDispatch(rows, m.State, on, h) = GoDispatch(rows, m, on, h, max).State
<1> DEFINE hit == Matching(rows, m, on, h)
           t   == rows[Min(hit)]
<1>1. {i \in {j \in DOMAIN rows : rows[j].from = m.State /\ rows[j].on = on} :
         rows[i].guard = "" \/ rows[i].guard \in h.true \union h.absent} = hit
  BY Zenon, SameStops
<1>2. MachineDispatch(rows, m.State, on, h)
        = IF hit = {} \/ t.guard \in h.absent \/ (Acts(t) /\ (t.do \in h.absent \/ h.fails))
          THEN m.State ELSE t.to
  BY Zenon, <1>1 DEF MachineDispatch, tryTransitions, Acts
<1>3. CASE hit = {}
  <2>1. GoCase(rows, m, on, h) = Plain(m.State, on, m.State)
    BY Zenon, <1>3 DEF GoCase
  <2> DEFINE p == Plain(m.State, on, m.State)
  <2>2. GoDispatch(rows, m, on, h, max) = writeGoTransitionBody(m, p, h, max)
    BY Zenon, <2>1 DEF GoDispatch
  <2>3. ~ActionRuns(p, h) /\ p.to = m.State
    BY Zenon, FallThrough
  <2> HIDE DEF p
  <2>4. writeGoTransitionBody(m, p, h, max).State = m.State
    BY <2>3, BodyState
  <2>5. QED
    BY Zenon, <1>2, <1>3, <2>2, <2>4
<1>4. CASE hit # {}
  <2>1. hit \in SUBSET Nat /\ hit \subseteq DOMAIN rows
    BY Zenon DEF Matching
  <2>2. Min(hit) \in DOMAIN rows
    BY Zenon, <1>4, <2>1, MinIn
  <2>3. GoCase(rows, m, on, h) = t
    BY Zenon, <1>4 DEF GoCase
  <2>4. ActionRuns(t, h) <=> Acts(t)
    BY Zenon, <2>2 DEF ActionRuns, Acts
  <2>5. GoDispatch(rows, m, on, h, max) = writeGoTransitionBody(m, t, h, max)
    BY Zenon, <2>3 DEF GoDispatch
  <2>6. t.guard \notin h.absent /\ t.do \notin h.absent
    BY Zenon, <2>2
  <2> HIDE DEF t
  <2>7. writeGoTransitionBody(m, t, h, max).State = IF Acts(t) /\ h.fails THEN m.State ELSE t.to
    BY <2>4, BodyState
  <2> HIDE DEF hit
  <2>8. MachineDispatch(rows, m.State, on, h) = IF Acts(t) /\ h.fails THEN m.State ELSE t.to
    BY ONLY <1>2, <1>4, <2>6
  <2>9. QED
    BY Zenon, <2>5, <2>7, <2>8
<1>5. QED
  BY <1>3, <1>4

\* So do Step("") of the interpreter, which takes the event it finds first in
\* an index that Go ranges over in any order, and the generated code given
\* the event that it took.
THEOREM AnyStepMatchesGenerated ==
  ASSUME NEW rows, DOMAIN rows \subseteq Nat, NEW m, "State" \in DOMAIN m, NEW h, NEW max,
         \A i \in DOMAIN rows : rows[i].guard \notin h.absent /\ rows[i].do \notin h.absent,
         NEW r \in MachineStepAny(rows, m.State, h)
  PROVE  r[2] = GoDispatch(rows, m, r[1], h, max).State
<1>1. PICK on : r = <<on, MachineDispatch(rows, m.State, on, h)>>
  BY Zenon DEF MachineStepAny
<1>2. r[1] = on /\ r[2] = MachineDispatch(rows, m.State, on, h)
  BY <1>1
<1>3. MachineDispatch(rows, m.State, on, h) = GoDispatch(rows, m, on, h, max).State
  BY InterpreterMatchesGenerated
<1>4. QED
  BY Zenon, <1>2, <1>3

\* Two cases that do the same, apart from the commands they return.
SameCase(t, u) ==
  t.from = u.from /\ t.on = u.on /\ t.guard = u.guard /\ t.do = u.do /\ t.upd = u.upd /\ t.to = u.to

\* The body of a case does not depend on the commands.
LEMMA SameBody ==
  ASSUME NEW t, NEW u, SameCase(t, u), NEW m, NEW h, NEW max
  PROVE  writeGoTransitionBody(m, t, h, max) = writeGoTransitionBody(m, u, h, max)
<1>1. ActionRuns(t, h) <=> ActionRuns(u, h)
  BY Zenon DEF SameCase, ActionRuns
<1>2. t.upd = u.upd /\ t.to = u.to
  BY Zenon DEF SameCase
<1>3. QED
  BY <1>1, <1>2 DEF writeGoTransitionBody

\* Generated switches may order their cases in any way that keeps the cases
\* of one state and one trigger in order: HandleEvent, and the split into
\* HandleMessage and Step, leave the same machine record for every input.
THEOREM RegroupedSwitchAgrees ==
  ASSUME NEW a, DOMAIN a \subseteq Nat, NEW b, DOMAIN b \subseteq Nat,
         NEW f \in [DOMAIN a -> DOMAIN b],
         \A j \in DOMAIN b : \E i \in DOMAIN a : f[i] = j,
         \A i \in DOMAIN a : SameCase(a[i], b[f[i]]),
         \A i, j \in DOMAIN a :
            a[i].from = a[j].from /\ a[i].on = a[j].on /\ i < j => f[i] < f[j],
         NEW m, NEW on, NEW h, NEW max
  PROVE  GoDispatch(a, m, on, h, max) = GoDispatch(b, m, on, h, max)
<1> DEFINE hit == Matching(a, m, on, h)
           got == Matching(b, m, on, h)
<1>1. hit \in SUBSET Nat /\ got \in SUBSET Nat /\ hit \subseteq DOMAIN a
  BY Zenon DEF Matching
<1>2. \A i \in DOMAIN a : i \in hit <=> f[i] \in got
  <2> SUFFICES ASSUME NEW i \in DOMAIN a PROVE i \in hit <=> f[i] \in got
    OBVIOUS
  <2>1. SameCase(a[i], b[f[i]]) /\ f[i] \in DOMAIN b
    OBVIOUS
  <2>2. QED
    BY Zenon, <2>1 DEF Matching, SameCase
<1>3. CASE hit = {}
  <2>1. got = {}
    <3>1. \A j \in got : j \in DOMAIN b
      BY Zenon DEF Matching
    <3>2. QED
      BY Zenon, <1>2, <1>3, <3>1
  <2>2. QED
    BY Zenon, <1>3, <2>1 DEF GoDispatch, GoCase
<1>4. CASE hit # {}
  <2> DEFINE k == Min(hit)
  <2>1. k \in hit /\ \A i \in hit : k <= i
    BY Zenon, <1>1, <1>4, MinIn
  <2>2. f[k] \in got /\ f[k] \in Nat
    BY <1>1, <1>2, <2>1
  <2>3. \A i \in hit : a[i].from = m.State /\ a[i].on = on
    BY Zenon DEF Matching
  <2> HIDE DEF k, hit
  <2>4. \A j \in got : f[k] <= j
    <3> SUFFICES ASSUME NEW j \in got PROVE f[k] <= j
      OBVIOUS
    <3>1. j \in DOMAIN b
      BY Zenon DEF Matching
    <3> HIDE DEF got
    <3>2. PICK i \in DOMAIN a : f[i] = j
      BY Zenon, <3>1
    <3>3. i \in hit
      BY Zenon, <1>2, <3>2
    <3>4. k \in DOMAIN a /\ k \in Nat /\ i \in Nat /\ k <= i /\ j \in Nat
      BY <1>1, <2>1, <3>3
    <3>5. CASE k = i
      BY <2>2, <3>2, <3>4, <3>5
    <3>6. CASE k # i
      <4>1. k < i
        BY <3>4, <3>6
      <4>2. f[k] < f[i]
        BY Zenon, <2>1, <2>3, <3>3, <3>4, <4>1
      <4>3. QED
        BY <2>2, <3>2, <3>4, <4>2
    <3>7. QED
      BY <3>5, <3>6
  <2>5. Min(got) = f[k]
    BY Zenon, <1>1, <2>2, <2>4, MinIs
  <2>6. GoCase(a, m, on, h) = a[k] /\ GoCase(b, m, on, h) = b[f[k]]
    BY Zenon, <1>4, <2>2, <2>5 DEF GoCase, hit, k
  <2>7. SameCase(a[k], b[f[k]])
    BY Zenon, <1>1, <2>1
  <2>8. writeGoTransitionBody(m, a[k], h, max) = writeGoTransitionBody(m, b[f[k]], h, max)
    BY ONLY <2>7, SameBody
  <2>9. QED
    BY Zenon, <2>6, <2>8 DEF GoDispatch
<1>5. QED
  BY <1>3, <1>4

---------------------------------------------------------------------------
(* The session.                                                            *)

\* A sequence, from its entries.
LEMMA SeqOf ==
  ASSUME NEW f, NEW n \in Nat, NEW S, f = [i \in 1 .. n |-> f[i]], \A i \in 1 .. n : f[i] \in S
  PROVE  f \in Seq(S)
BY SeqDef

\* The entries of a superstate's rows.
LEMMA LoopsEntries ==
  ASSUME NEW leaves, NEW evs, Len(leaves) \in Nat \ {0}, Len(evs) \in Nat \ {0},
         NEW i \in DOMAIN Loops(leaves, evs)
  PROVE  \E p \in 1 .. Len(leaves), q \in 1 .. Len(evs) :
           Loops(leaves, evs)[i] = Emit(leaves[p], Internal(evs[q][1]), evs[q][2], leaves[p])
<1>1. PICK n \in Nat \ {0}, k \in Nat \ {0} : Len(leaves) = n /\ Len(evs) = k
  OBVIOUS
<1>2. DOMAIN Loops(leaves, evs) = 1 .. (n * k)
  BY Zenon, <1>1 DEF Loops
<1>3. i \in 1 .. (n * k)
  BY <1>2
<1> DEFINE p == ((i - 1) % n) + 1
           q == ((i - 1) \div n) + 1
<1>4. p \in 1 .. n
  BY <1>3
<1>5. q \in 1 .. k
  <2>1. PICK a \in Nat : a = i - 1 /\ a < n * k
    BY <1>3
  <2>2. PICK d \in Int : d = a \div n
    BY SMTT(60)
  <2>3. n * d <= a /\ a < n * (d + 1)
    BY ONLY SMTT(60), <2>2, a \in Nat, n \in Nat \ {0}
  <2>4. d >= 0
    <3>1. ASSUME d + 1 <= 0 PROVE n * (d + 1) <= 0
      BY ONLY SMTT(60), <3>1, d \in Int, n \in Nat
    <3>2. QED
      BY ONLY SMTT(60), <2>3, <3>1, d \in Int, a \in Nat, n \in Nat
  <2>5. d < k
    <3>1. ASSUME d >= k PROVE n * d >= n * k
      <4>1. n * (d - k) >= 0
        BY ONLY SMTT(60), <3>1, d \in Int, n \in Nat, k \in Nat
      <4>2. QED
        BY ONLY SMTT(60), <4>1, d \in Int, n \in Nat, k \in Nat
    <3>2. QED
      BY ONLY SMTT(60), <2>1, <2>3, <3>1, d \in Int, a \in Nat, k \in Nat
  <2>6. QED
    BY <2>1, <2>2, <2>4, <2>5
<1>6. Loops(leaves, evs)[i] = Emit(leaves[p], Internal(evs[q][1]), evs[q][2], leaves[p])
  BY Zenon, <1>1, <1>2, <1>3 DEF Loops
<1>7. QED
  BY Zenon, <1>1, <1>4, <1>5, <1>6

-----------------------------------------------------------------------------
(* The backend's rows.                                                     *)

\* The commands a case returns.
CmdsOf(t) == {t.emits[i] : i \in DOMAIN t.emits}

\* The commands that touch the direct path, and the fields that name it.
StartCmds ==
  {"send_pair_check_ack", "start_alt_stream_reader", "start_alt_dg_reader", "start_monitor", "signal_alt_ready"}

StopCmds ==
  {"close_alt_path", "stop_alt_stream_reader", "stop_alt_dg_reader", "stop_monitor"}

PathFields == {"State", "BActivePath", "BDispatcherPath", "MonitorTarget"}

\* The pair check is answered: the direct path is taken.
BackendEnters(t) ==
  /\ t.from = "CandidatesAdvertised" /\ t.to = "AltActive" /\ t.on = Recv("pair_check")
  /\ t.do = "activate_lan" /\ t.upd = BackendActivated
  /\ \A c \in StartCmds : c \in CmdsOf(t)
  /\ "close_alt_path" \notin CmdsOf(t)

\* A fallback: everything the direct path had running is stopped.
BackendLeaves(t) ==
  /\ t.from \in OnDirect /\ t.to = "RelayBackoff" /\ t.on # Recv("pair_check")
  /\ t.do = "fallback_to_relay" /\ t.upd = BackendFellBack
  /\ \A c \in StopCmds : c \in CmdsOf(t)
  /\ "reset_alt_ready" \in CmdsOf(t)
  /\ \A c \in StartCmds : c \notin CmdsOf(t)

\* On the same path as before, which is left alone.
BackendStays(t) ==
  /\ t.to \in BackendStates
  /\ t.from \in OnDirect <=> t.to \in OnDirect
  /\ \A c \in StartCmds : c \notin CmdsOf(t)
  /\ \A c \in StopCmds : c \notin CmdsOf(t)
  /\ "reset_alt_ready" \in CmdsOf(t) => t.from \notin OnDirect
  /\ \A f \in PathFields : f \notin DOMAIN t.upd
  /\ "AltSignal" \in DOMAIN t.upd => t.from \notin OnDirect /\ t.upd["AltSignal"] = Lit("pending")
  /\ "BackoffLevel" \in DOMAIN t.upd =>
       t.from \notin OnDirect /\ (t.upd["BackoffLevel"] = Lit(0) \/ (t.do = "" /\ t.upd["BackoffLevel"] = Capped))

BackendKind(t) == BackendEnters(t) \/ BackendLeaves(t) \/ BackendStays(t)


\* The cases before the transport phase never touch the direct path.
LEMMA BackendEventPairingRows ==
  \A i \in DOMAIN BackendEventPairing : BackendKind(BackendEventPairing[i])
<1>1. BackendStays(BackendEventPairing[1])
  <2>1. /\ BackendEventPairing[1].from = "Idle"
        /\ BackendEventPairing[1].to = "GenerateToken"
        /\ BackendEventPairing[1].upd = TokenIssued
        /\ BackendEventPairing[1].emits = << >>
    BY ZenonT(60) DEF BackendEventPairing, Row, Emit, Plain
  <2>2. CmdsOf(BackendEventPairing[1]) = {}
    BY ONLY <2>1 DEF CmdsOf
  <2>3. DOMAIN BackendEventPairing[1].upd = {"ActiveTokens", "CurrentToken"}
    BY ONLY <2>1 DEF TokenIssued
  <2> QED
    BY ONLY <2>1, <2>2, <2>3 DEF BackendStays, BackendStates, OnDirect, StartCmds, StopCmds, PathFields
<1>2. BackendStays(BackendEventPairing[2])
  <2>1. /\ BackendEventPairing[2].from = "GenerateToken"
        /\ BackendEventPairing[2].to = "RegisterRelay"
        /\ BackendEventPairing[2].upd = NoUpd
        /\ BackendEventPairing[2].emits = << >>
    BY ZenonT(60) DEF BackendEventPairing, Row, Emit, Plain
  <2>2. CmdsOf(BackendEventPairing[2]) = {}
    BY ONLY <2>1 DEF CmdsOf
  <2>3. DOMAIN BackendEventPairing[2].upd = {}
    BY ONLY <2>1 DEF NoUpd
  <2> QED
    BY ONLY <2>1, <2>2, <2>3 DEF BackendStays, BackendStates, OnDirect, StartCmds, StopCmds, PathFields
<1>3. BackendStays(BackendEventPairing[3])
  <2>1. /\ BackendEventPairing[3].from = "RegisterRelay"
        /\ BackendEventPairing[3].to = "WaitingForClient"
        /\ BackendEventPairing[3].upd = [SecretPublished |-> Lit(TRUE)]
        /\ BackendEventPairing[3].emits = << >>
    BY ZenonT(60) DEF BackendEventPairing, Row, Emit, Plain
  <2>2. CmdsOf(BackendEventPairing[3]) = {}
    BY ONLY <2>1 DEF CmdsOf
  <2>3. DOMAIN BackendEventPairing[3].upd = {"SecretPublished"}
    BY ONLY <2>1
  <2> QED
    BY ONLY <2>1, <2>2, <2>3 DEF BackendStays, BackendStates, OnDirect, StartCmds, StopCmds, PathFields
<1>4. BackendStays(BackendEventPairing[4])
  <2>1. /\ BackendEventPairing[4].from = "WaitingForClient"
        /\ BackendEventPairing[4].to = "DeriveSecret"
        /\ BackendEventPairing[4].upd = HelloAccepted
        /\ BackendEventPairing[4].emits = << >>
    BY DEF BackendEventPairing, Row, Emit, Plain
  <2>2. CmdsOf(BackendEventPairing[4]) = {}
    BY ONLY <2>1 DEF CmdsOf
  <2>3. DOMAIN BackendEventPairing[4].upd = {"BackendCode", "BackendEcdhPub", "BackendSharedKey", "ReceivedClientPub"}
    BY ONLY <2>1 DEF HelloAccepted
  <2> QED
    BY ONLY <2>1, <2>2, <2>3 DEF BackendStays, BackendStates, OnDirect, StartCmds, StopCmds, PathFields
<1>5. BackendStays(BackendEventPairing[5])
  <2>1. /\ BackendEventPairing[5].from = "WaitingForClient"
        /\ BackendEventPairing[5].to = "Idle"
        /\ BackendEventPairing[5].upd = NoUpd
        /\ BackendEventPairing[5].emits = << >>
    BY ZenonT(60) DEF BackendEventPairing, Row, Emit, Plain
  <2>2. CmdsOf(BackendEventPairing[5]) = {}
    BY ONLY <2>1 DEF CmdsOf
  <2>3. DOMAIN BackendEventPairing[5].upd = {}
    BY ONLY <2>1 DEF NoUpd
  <2> QED
    BY ONLY <2>1, <2>2, <2>3 DEF BackendStays, BackendStates, OnDirect, StartCmds, StopCmds, PathFields
<1>6. BackendStays(BackendEventPairing[6])
  <2>1. /\ BackendEventPairing[6].from = "DeriveSecret"
        /\ BackendEventPairing[6].to = "SendAck"
        /\ BackendEventPairing[6].upd = NoUpd
        /\ BackendEventPairing[6].emits = << >>
    BY ZenonT(60) DEF BackendEventPairing, Row, Emit, Plain
  <2>2. CmdsOf(BackendEventPairing[6]) = {}
    BY ONLY <2>1 DEF CmdsOf
  <2>3. DOMAIN BackendEventPairing[6].upd = {}
    BY ONLY <2>1 DEF NoUpd
  <2> QED
    BY ONLY <2>1, <2>2, <2>3 DEF BackendStays, BackendStates, OnDirect, StartCmds, StopCmds, PathFields
<1>7. BackendStays(BackendEventPairing[7])
  <2>1. /\ BackendEventPairing[7].from = "SendAck"
        /\ BackendEventPairing[7].to = "WaitingForCode"
        /\ BackendEventPairing[7].upd = NoUpd
        /\ BackendEventPairing[7].emits = << >>
    BY ZenonT(60) DEF BackendEventPairing, Row, Emit, Plain
  <2>2. CmdsOf(BackendEventPairing[7]) = {}
    BY ONLY <2>1 DEF CmdsOf
  <2>3. DOMAIN BackendEventPairing[7].upd = {}
    BY ONLY <2>1 DEF NoUpd
  <2> QED
    BY ONLY <2>1, <2>2, <2>3 DEF BackendStays, BackendStates, OnDirect, StartCmds, StopCmds, PathFields
<1>8. BackendStays(BackendEventPairing[8])
  <2>1. /\ BackendEventPairing[8].from = "WaitingForCode"
        /\ BackendEventPairing[8].to = "ValidateCode"
        /\ BackendEventPairing[8].upd = [ReceivedCode |-> Calc("entered_code")]
        /\ BackendEventPairing[8].emits = << >>
    BY ZenonT(60) DEF BackendEventPairing, Row, Emit, Plain
  <2>2. CmdsOf(BackendEventPairing[8]) = {}
    BY ONLY <2>1 DEF CmdsOf
  <2>3. DOMAIN BackendEventPairing[8].upd = {"ReceivedCode"}
    BY ONLY <2>1
  <2> QED
    BY ONLY <2>1, <2>2, <2>3 DEF BackendStays, BackendStates, OnDirect, StartCmds, StopCmds, PathFields
<1>9. BackendStays(BackendEventPairing[9])
  <2>1. /\ BackendEventPairing[9].from = "ValidateCode"
        /\ BackendEventPairing[9].to = "StorePaired"
        /\ BackendEventPairing[9].upd = NoUpd
        /\ BackendEventPairing[9].emits = << >>
    BY ZenonT(60) DEF BackendEventPairing, Row, Emit, Plain
  <2>2. CmdsOf(BackendEventPairing[9]) = {}
    BY ONLY <2>1 DEF CmdsOf
  <2>3. DOMAIN BackendEventPairing[9].upd = {}
    BY ONLY <2>1 DEF NoUpd
  <2> QED
    BY ONLY <2>1, <2>2, <2>3 DEF BackendStays, BackendStates, OnDirect, StartCmds, StopCmds, PathFields
<1>10. BackendStays(BackendEventPairing[10])
  <2>1. /\ BackendEventPairing[10].from = "ValidateCode"
        /\ BackendEventPairing[10].to = "Idle"
        /\ BackendEventPairing[10].upd = [CodeAttempts |-> Inc]
        /\ BackendEventPairing[10].emits = << >>
    BY ZenonT(60) DEF BackendEventPairing, Row, Emit, Plain
  <2>2. CmdsOf(BackendEventPairing[10]) = {}
    BY ONLY <2>1 DEF CmdsOf
  <2>3. DOMAIN BackendEventPairing[10].upd = {"CodeAttempts"}
    BY ONLY <2>1
  <2> QED
    BY ONLY <2>1, <2>2, <2>3 DEF BackendStays, BackendStates, OnDirect, StartCmds, StopCmds, PathFields
<1>11. BackendStays(BackendEventPairing[11])
  <2>1. /\ BackendEventPairing[11].from = "StorePaired"
        /\ BackendEventPairing[11].to = "Paired"
        /\ BackendEventPairing[11].upd = DeviceStored
        /\ BackendEventPairing[11].emits = << >>
    BY ZenonT(60) DEF BackendEventPairing, Row, Emit, Plain
  <2>2. CmdsOf(BackendEventPairing[11]) = {}
    BY ONLY <2>1 DEF CmdsOf
  <2>3. DOMAIN BackendEventPairing[11].upd = {"ActiveTokens", "DeviceSecret", "PairedDevices", "UsedTokens"}
    BY ONLY <2>1 DEF DeviceStored
  <2> QED
    BY ONLY <2>1, <2>2, <2>3 DEF BackendStays, BackendStates, OnDirect, StartCmds, StopCmds, PathFields
<1>12. BackendStays(BackendEventPairing[12])
  <2>1. /\ BackendEventPairing[12].from = "Paired"
        /\ BackendEventPairing[12].to = "AuthCheck"
        /\ BackendEventPairing[12].upd = AuthReceived
        /\ BackendEventPairing[12].emits = << >>
    BY ZenonT(60) DEF BackendEventPairing, Row, Emit, Plain
  <2>2. CmdsOf(BackendEventPairing[12]) = {}
    BY ONLY <2>1 DEF CmdsOf
  <2>3. DOMAIN BackendEventPairing[12].upd = {"ReceivedAuthNonce", "ReceivedDeviceId"}
    BY ONLY <2>1 DEF AuthReceived
  <2> QED
    BY ONLY <2>1, <2>2, <2>3 DEF BackendStays, BackendStates, OnDirect, StartCmds, StopCmds, PathFields
<1>13. BackendStays(BackendEventPairing[13])
  <2>1. /\ BackendEventPairing[13].from = "AuthCheck"
        /\ BackendEventPairing[13].to = "SessionActive"
        /\ BackendEventPairing[13].upd = [AuthNoncesUsed |-> AddVar("ReceivedAuthNonce")]
        /\ BackendEventPairing[13].emits = << >>
    BY DEF BackendEventPairing, Row, Emit, Plain
  <2>2. CmdsOf(BackendEventPairing[13]) = {}
    BY ONLY <2>1 DEF CmdsOf
  <2>3. DOMAIN BackendEventPairing[13].upd = {"AuthNoncesUsed"}
    BY ONLY <2>1
  <2> QED
    BY ONLY <2>1, <2>2, <2>3 DEF BackendStays, BackendStates, OnDirect, StartCmds, StopCmds, PathFields
<1>14. BackendStays(BackendEventPairing[14])
  <2>1. /\ BackendEventPairing[14].from = "AuthCheck"
        /\ BackendEventPairing[14].to = "Idle"
        /\ BackendEventPairing[14].upd = NoUpd
        /\ BackendEventPairing[14].emits = << >>
    BY ZenonT(60) DEF BackendEventPairing, Row, Emit, Plain
  <2>2. CmdsOf(BackendEventPairing[14]) = {}
    BY ONLY <2>1 DEF CmdsOf
  <2>3. DOMAIN BackendEventPairing[14].upd = {}
    BY ONLY <2>1 DEF NoUpd
  <2> QED
    BY ONLY <2>1, <2>2, <2>3 DEF BackendStays, BackendStates, OnDirect, StartCmds, StopCmds, PathFields
<1>15. BackendStays(BackendEventPairing[15])
  <2>1. /\ BackendEventPairing[15].from = "SessionActive"
        /\ BackendEventPairing[15].to = "RelayConnected"
        /\ BackendEventPairing[15].upd = NoUpd
        /\ BackendEventPairing[15].emits = << >>
    BY ZenonT(60) DEF BackendEventPairing, Row, Emit, Plain
  <2>2. CmdsOf(BackendEventPairing[15]) = {}
    BY ONLY <2>1 DEF CmdsOf
  <2>3. DOMAIN BackendEventPairing[15].upd = {}
    BY ONLY <2>1 DEF NoUpd
  <2> QED
    BY ONLY <2>1, <2>2, <2>3 DEF BackendStays, BackendStates, OnDirect, StartCmds, StopCmds, PathFields
<1>16. DOMAIN BackendEventPairing = 1 .. 15
  BY DEF BackendEventPairing
<1>17. QED
  BY SMTT(60), Z3T(60), <1>16, <1>1, <1>2, <1>3, <1>4, <1>5, <1>6, <1>7, <1>8, <1>9, <1>10, <1>11, <1>12, <1>13, <1>14, <1>15 DEF BackendKind

\* Candidates, the pair check, pings and a path that breaks.
LEMMA BackendEventAltRows ==
  \A i \in DOMAIN BackendEventAlt : BackendKind(BackendEventAlt[i])
<1>1. BackendStays(BackendEventAlt[1])
  <2>1. /\ BackendEventAlt[1].from = "RelayConnected"
        /\ BackendEventAlt[1].to = "CandidatesAdvertised"
        /\ BackendEventAlt[1].upd = NoUpd
        /\ BackendEventAlt[1].emits = <<"send_candidates">>
    BY ZenonT(60) DEF BackendEventAlt, Row, Emit, Plain
  <2>2. CmdsOf(BackendEventAlt[1]) = {"send_candidates"}
    BY ONLY <2>1 DEF CmdsOf
  <2>3. DOMAIN BackendEventAlt[1].upd = {}
    BY ONLY <2>1 DEF NoUpd
  <2> QED
    BY ONLY <2>1, <2>2, <2>3 DEF BackendStays, BackendStates, OnDirect, StartCmds, StopCmds, PathFields
<1>2. BackendEnters(BackendEventAlt[2])
  <2>1. /\ BackendEventAlt[2].from = "CandidatesAdvertised"
        /\ BackendEventAlt[2].to = "AltActive"
        /\ BackendEventAlt[2].on = Recv("pair_check")
        /\ BackendEventAlt[2].do = "activate_lan"
        /\ BackendEventAlt[2].upd = BackendActivated
        /\ BackendEventAlt[2].emits = <<"send_pair_check_ack", "start_alt_stream_reader", "start_alt_dg_reader", "start_monitor", "signal_alt_ready", "set_crypto_datagram">>
    BY DEF BackendEventAlt, Row, Emit, Plain
  <2>2. CmdsOf(BackendEventAlt[2]) = {"send_pair_check_ack", "start_alt_stream_reader", "start_alt_dg_reader", "start_monitor", "signal_alt_ready", "set_crypto_datagram"}
    BY ONLY <2>1 DEF CmdsOf
  <2> QED
    BY ONLY <2>1, <2>2 DEF BackendEnters, BackendStates, OnDirect, StartCmds, StopCmds
<1>3. BackendStays(BackendEventAlt[3])
  <2>1. /\ BackendEventAlt[3].from = "CandidatesAdvertised"
        /\ BackendEventAlt[3].to = "RelayConnected"
        /\ BackendEventAlt[3].upd = NoUpd
        /\ BackendEventAlt[3].emits = << >>
    BY ZenonT(60) DEF BackendEventAlt, Row, Emit, Plain
  <2>2. CmdsOf(BackendEventAlt[3]) = {}
    BY ONLY <2>1 DEF CmdsOf
  <2>3. DOMAIN BackendEventAlt[3].upd = {}
    BY ONLY <2>1 DEF NoUpd
  <2> QED
    BY ONLY <2>1, <2>2, <2>3 DEF BackendStays, BackendStates, OnDirect, StartCmds, StopCmds, PathFields
<1>4. BackendStays(BackendEventAlt[4])
  <2>1. /\ BackendEventAlt[4].from = "CandidatesAdvertised"
        /\ BackendEventAlt[4].to = "RelayBackoff"
        /\ BackendEventAlt[4].do = ""
    BY ZenonT(60) DEF BackendEventAlt, Row, Emit, Plain
  <2>2. BackendEventAlt[4].emits = <<"reset_alt_ready", "start_backoff_timer">>
    BY ZenonT(60) DEF BackendEventAlt, Row, Emit, Plain
  <2>3. CmdsOf(BackendEventAlt[4]) = {"reset_alt_ready", "start_backoff_timer"}
    BY ONLY <2>2 DEF CmdsOf
  <2>4. BackendEventAlt[4].upd = [AltSignal |-> Lit("pending"), BackoffLevel |-> Capped]
    BY ZenonT(60) DEF BackendEventAlt, Row, Emit, Plain
  <2>5. DOMAIN BackendEventAlt[4].upd = {"AltSignal", "BackoffLevel"}
    BY ONLY <2>4
  <2>6. BackendEventAlt[4].upd.AltSignal = Lit("pending") /\ BackendEventAlt[4].upd.BackoffLevel = Capped
    BY ONLY <2>4
  <2> QED
    BY ONLY ZenonT(60), <2>1, <2>3, <2>5, <2>6 DEF BackendStays, BackendStates, OnDirect, StartCmds, StopCmds, PathFields
<1>5. BackendStays(BackendEventAlt[5])
  <2>1. /\ BackendEventAlt[5].from = "AltActive"
        /\ BackendEventAlt[5].to = "AltActive"
        /\ BackendEventAlt[5].upd = NoUpd
        /\ BackendEventAlt[5].emits = <<"send_path_ping", "start_pong_timeout">>
    BY ZenonT(60) DEF BackendEventAlt, Row, Emit, Plain
  <2>2. CmdsOf(BackendEventAlt[5]) = {"send_path_ping", "start_pong_timeout"}
    BY ONLY <2>1 DEF CmdsOf
  <2>3. DOMAIN BackendEventAlt[5].upd = {}
    BY ONLY <2>1 DEF NoUpd
  <2> QED
    BY ONLY <2>1, <2>2, <2>3 DEF BackendStays, BackendStates, OnDirect, StartCmds, StopCmds, PathFields
<1>6. BackendStays(BackendEventAlt[6])
  <2>1. /\ BackendEventAlt[6].from = "AltActive"
        /\ BackendEventAlt[6].to = "AltDegraded"
        /\ BackendEventAlt[6].upd = [PingFailures |-> Lit(1)]
        /\ BackendEventAlt[6].emits = << >>
    BY ZenonT(60) DEF BackendEventAlt, Row, Emit, Plain
  <2>2. CmdsOf(BackendEventAlt[6]) = {}
    BY ONLY <2>1 DEF CmdsOf
  <2>3. DOMAIN BackendEventAlt[6].upd = {"PingFailures"}
    BY ONLY <2>1
  <2> QED
    BY ONLY <2>1, <2>2, <2>3 DEF BackendStays, BackendStates, OnDirect, StartCmds, StopCmds, PathFields
<1>7. BackendStays(BackendEventAlt[7])
  <2>1. /\ BackendEventAlt[7].from = "AltDegraded"
        /\ BackendEventAlt[7].to = "AltDegraded"
        /\ BackendEventAlt[7].upd = NoUpd
        /\ BackendEventAlt[7].emits = <<"send_path_ping", "start_pong_timeout">>
    BY ZenonT(60) DEF BackendEventAlt, Row, Emit, Plain
  <2>2. CmdsOf(BackendEventAlt[7]) = {"send_path_ping", "start_pong_timeout"}
    BY ONLY <2>1 DEF CmdsOf
  <2>3. DOMAIN BackendEventAlt[7].upd = {}
    BY ONLY <2>1 DEF NoUpd
  <2> QED
    BY ONLY <2>1, <2>2, <2>3 DEF BackendStays, BackendStates, OnDirect, StartCmds, StopCmds, PathFields
<1>8. BackendLeaves(BackendEventAlt[8])
  <2>1. /\ BackendEventAlt[8].from = "AltActive"
        /\ BackendEventAlt[8].to = "RelayBackoff"
        /\ BackendEventAlt[8].on = Internal("alt_stream_error")
        /\ BackendEventAlt[8].do = "fallback_to_relay"
        /\ BackendEventAlt[8].upd = BackendFellBack
        /\ BackendEventAlt[8].emits = <<"stop_monitor", "stop_alt_stream_reader", "stop_alt_dg_reader", "close_alt_path", "reset_alt_ready", "start_backoff_timer">>
    BY ZenonT(60) DEF BackendEventAlt, Row, Emit, Plain, BackendTeardown
  <2>2. CmdsOf(BackendEventAlt[8]) = {"stop_monitor", "stop_alt_stream_reader", "stop_alt_dg_reader", "close_alt_path", "reset_alt_ready", "start_backoff_timer"}
    BY ONLY <2>1 DEF CmdsOf
  <2> QED
    BY ONLY <2>1, <2>2 DEF BackendLeaves, BackendStates, OnDirect, StartCmds, StopCmds, Recv, Internal
<1>9. BackendLeaves(BackendEventAlt[9])
  <2>1. /\ BackendEventAlt[9].from = "AltDegraded"
        /\ BackendEventAlt[9].to = "RelayBackoff"
        /\ BackendEventAlt[9].on = Internal("alt_stream_error")
        /\ BackendEventAlt[9].do = "fallback_to_relay"
        /\ BackendEventAlt[9].upd = BackendFellBack
        /\ BackendEventAlt[9].emits = <<"stop_monitor", "stop_alt_stream_reader", "stop_alt_dg_reader", "close_alt_path", "reset_alt_ready", "start_backoff_timer">>
    BY ZenonT(60) DEF BackendEventAlt, Row, Emit, Plain, BackendTeardown
  <2>2. CmdsOf(BackendEventAlt[9]) = {"stop_monitor", "stop_alt_stream_reader", "stop_alt_dg_reader", "close_alt_path", "reset_alt_ready", "start_backoff_timer"}
    BY ONLY <2>1 DEF CmdsOf
  <2> QED
    BY ONLY <2>1, <2>2 DEF BackendLeaves, BackendStates, OnDirect, StartCmds, StopCmds, Recv, Internal
<1>10. BackendStays(BackendEventAlt[10])
  <2>1. /\ BackendEventAlt[10].from = "AltDegraded"
        /\ BackendEventAlt[10].to = "AltActive"
        /\ BackendEventAlt[10].upd = [PingFailures |-> Lit(0)]
        /\ BackendEventAlt[10].emits = <<"cancel_pong_timeout">>
    BY ZenonT(60) DEF BackendEventAlt, Row, Emit, Plain
  <2>2. CmdsOf(BackendEventAlt[10]) = {"cancel_pong_timeout"}
    BY ONLY <2>1 DEF CmdsOf
  <2>3. DOMAIN BackendEventAlt[10].upd = {"PingFailures"}
    BY ONLY <2>1
  <2> QED
    BY ONLY <2>1, <2>2, <2>3 DEF BackendStays, BackendStates, OnDirect, StartCmds, StopCmds, PathFields
<1>11. DOMAIN BackendEventAlt = 1 .. 10
  BY DEF BackendEventAlt
<1>12. QED
  BY <1>11, <1>1, <1>2, <1>3, <1>4, <1>5, <1>6, <1>7, <1>8, <1>9, <1>10 DEF BackendKind

\* Fallbacks, the backoff and what follows it.
LEMMA BackendEventFallbackRows ==
  \A i \in DOMAIN BackendEventFallback : BackendKind(BackendEventFallback[i])
<1>1. BackendStays(BackendEventFallback[1])
  <2>1. /\ BackendEventFallback[1].from = "AltDegraded"
        /\ BackendEventFallback[1].to = "AltDegraded"
        /\ BackendEventFallback[1].upd = [PingFailures |-> Inc]
        /\ BackendEventFallback[1].emits = << >>
    BY ZenonT(60) DEF BackendEventFallback, Row, Emit, Plain
  <2>2. CmdsOf(BackendEventFallback[1]) = {}
    BY ONLY <2>1 DEF CmdsOf
  <2>3. DOMAIN BackendEventFallback[1].upd = {"PingFailures"}
    BY ONLY <2>1
  <2> QED
    BY ONLY <2>1, <2>2, <2>3 DEF BackendStays, BackendStates, OnDirect, StartCmds, StopCmds, PathFields
<1>2. BackendLeaves(BackendEventFallback[2])
  <2>1. /\ BackendEventFallback[2].from = "AltDegraded"
        /\ BackendEventFallback[2].to = "RelayBackoff"
        /\ BackendEventFallback[2].on = Internal("ping_timeout")
        /\ BackendEventFallback[2].do = "fallback_to_relay"
        /\ BackendEventFallback[2].upd = BackendFellBack
        /\ BackendEventFallback[2].emits = <<"stop_monitor", "stop_alt_stream_reader", "stop_alt_dg_reader", "close_alt_path", "reset_alt_ready", "start_backoff_timer">>
    BY DEF BackendEventFallback, Row, Emit, Plain, BackendTeardown
  <2>2. CmdsOf(BackendEventFallback[2]) = {"stop_monitor", "stop_alt_stream_reader", "stop_alt_dg_reader", "close_alt_path", "reset_alt_ready", "start_backoff_timer"}
    BY ONLY <2>1 DEF CmdsOf
  <2> QED
    BY ONLY <2>1, <2>2 DEF BackendLeaves, BackendStates, OnDirect, StartCmds, StopCmds, Recv, Internal
<1>3. BackendStays(BackendEventFallback[3])
  <2>1. /\ BackendEventFallback[3].from = "RelayBackoff"
        /\ BackendEventFallback[3].to = "CandidatesAdvertised"
        /\ BackendEventFallback[3].upd = NoUpd
        /\ BackendEventFallback[3].emits = <<"send_candidates">>
    BY ZenonT(60) DEF BackendEventFallback, Row, Emit, Plain
  <2>2. CmdsOf(BackendEventFallback[3]) = {"send_candidates"}
    BY ONLY <2>1 DEF CmdsOf
  <2>3. DOMAIN BackendEventFallback[3].upd = {}
    BY ONLY <2>1 DEF NoUpd
  <2> QED
    BY ONLY <2>1, <2>2, <2>3 DEF BackendStays, BackendStates, OnDirect, StartCmds, StopCmds, PathFields
<1>4. BackendStays(BackendEventFallback[4])
  <2>1. /\ BackendEventFallback[4].from = "RelayBackoff"
        /\ BackendEventFallback[4].to = "CandidatesAdvertised"
        /\ BackendEventFallback[4].do = ""
    BY ZenonT(60) DEF BackendEventFallback, Row, Emit, Plain
  <2>2. BackendEventFallback[4].emits = <<"send_candidates">>
    BY ZenonT(60) DEF BackendEventFallback, Row, Emit, Plain
  <2>3. CmdsOf(BackendEventFallback[4]) = {"send_candidates"}
    BY ONLY <2>2 DEF CmdsOf
  <2>4. BackendEventFallback[4].upd = [BackoffLevel |-> Lit(0)]
    BY ZenonT(60) DEF BackendEventFallback, Row, Emit, Plain
  <2>5. DOMAIN BackendEventFallback[4].upd = {"BackoffLevel"}
    BY ONLY <2>4
  <2>6. BackendEventFallback[4].upd.BackoffLevel = Lit(0)
    BY ONLY <2>4
  <2> QED
    BY ONLY ZenonT(60), <2>1, <2>3, <2>5, <2>6 DEF BackendStays, BackendStates, OnDirect, StartCmds, StopCmds, PathFields
<1>5. BackendStays(BackendEventFallback[5])
  <2>1. /\ BackendEventFallback[5].from = "RelayConnected"
        /\ BackendEventFallback[5].to = "CandidatesAdvertised"
        /\ BackendEventFallback[5].upd = NoUpd
        /\ BackendEventFallback[5].emits = <<"send_candidates">>
    BY ZenonT(60) DEF BackendEventFallback, Row, Emit, Plain
  <2>2. CmdsOf(BackendEventFallback[5]) = {"send_candidates"}
    BY ONLY <2>1 DEF CmdsOf
  <2>3. DOMAIN BackendEventFallback[5].upd = {}
    BY ONLY <2>1 DEF NoUpd
  <2> QED
    BY ONLY <2>1, <2>2, <2>3 DEF BackendStays, BackendStates, OnDirect, StartCmds, StopCmds, PathFields
<1>6. BackendStays(BackendEventFallback[6])
  <2>1. /\ BackendEventFallback[6].from = "CandidatesAdvertised"
        /\ BackendEventFallback[6].to = "RelayConnected"
    BY ZenonT(60) DEF BackendEventFallback, Row, Emit, Plain
  <2>2. BackendEventFallback[6].emits = <<"reset_alt_ready">>
    BY ZenonT(60) DEF BackendEventFallback, Row, Emit, Plain
  <2>3. CmdsOf(BackendEventFallback[6]) = {"reset_alt_ready"}
    BY ONLY <2>2 DEF CmdsOf
  <2>4. BackendEventFallback[6].upd = [AltSignal |-> Lit("pending")]
    BY ZenonT(60) DEF BackendEventFallback, Row, Emit, Plain
  <2>5. DOMAIN BackendEventFallback[6].upd = {"AltSignal"}
    BY ONLY <2>4
  <2>6. BackendEventFallback[6].upd.AltSignal = Lit("pending")
    BY ONLY <2>4
  <2> QED
    BY ONLY <2>1, <2>3, <2>5, <2>6 DEF BackendStays, BackendStates, OnDirect, StartCmds, StopCmds, PathFields
<1>7. BackendLeaves(BackendEventFallback[7])
  <2>1. /\ BackendEventFallback[7].from = "AltActive"
        /\ BackendEventFallback[7].to = "RelayBackoff"
        /\ BackendEventFallback[7].on = Internal("app_force_fallback")
        /\ BackendEventFallback[7].do = "fallback_to_relay"
        /\ BackendEventFallback[7].upd = BackendFellBack
        /\ BackendEventFallback[7].emits = <<"stop_monitor", "cancel_pong_timeout", "stop_alt_stream_reader", "stop_alt_dg_reader", "close_alt_path", "reset_alt_ready", "start_backoff_timer">>
    BY ZenonT(60) DEF BackendEventFallback, Row, Emit, Plain, BackendForcedTeardown
  <2>2. CmdsOf(BackendEventFallback[7]) = {"stop_monitor", "cancel_pong_timeout", "stop_alt_stream_reader", "stop_alt_dg_reader", "close_alt_path", "reset_alt_ready", "start_backoff_timer"}
    BY ONLY <2>1 DEF CmdsOf
  <2> QED
    BY ONLY <2>1, <2>2 DEF BackendLeaves, BackendStates, OnDirect, StartCmds, StopCmds, Recv, Internal
<1>8. BackendLeaves(BackendEventFallback[8])
  <2>1. /\ BackendEventFallback[8].from = "AltDegraded"
        /\ BackendEventFallback[8].to = "RelayBackoff"
        /\ BackendEventFallback[8].on = Internal("app_force_fallback")
        /\ BackendEventFallback[8].do = "fallback_to_relay"
        /\ BackendEventFallback[8].upd = BackendFellBack
        /\ BackendEventFallback[8].emits = <<"stop_monitor", "cancel_pong_timeout", "stop_alt_stream_reader", "stop_alt_dg_reader", "close_alt_path", "reset_alt_ready", "start_backoff_timer">>
    BY ZenonT(60) DEF BackendEventFallback, Row, Emit, Plain, BackendForcedTeardown
  <2>2. CmdsOf(BackendEventFallback[8]) = {"stop_monitor", "cancel_pong_timeout", "stop_alt_stream_reader", "stop_alt_dg_reader", "close_alt_path", "reset_alt_ready", "start_backoff_timer"}
    BY ONLY <2>1 DEF CmdsOf
  <2> QED
    BY ONLY <2>1, <2>2 DEF BackendLeaves, BackendStates, OnDirect, StartCmds, StopCmds, Recv, Internal
<1>9. BackendStays(BackendEventFallback[9])
  <2>1. /\ BackendEventFallback[9].from = "RelayConnected"
        /\ BackendEventFallback[9].to = "Paired"
        /\ BackendEventFallback[9].upd = NoUpd
        /\ BackendEventFallback[9].emits = << >>
    BY ZenonT(60) DEF BackendEventFallback, Row, Emit, Plain
  <2>2. CmdsOf(BackendEventFallback[9]) = {}
    BY ONLY <2>1 DEF CmdsOf
  <2>3. DOMAIN BackendEventFallback[9].upd = {}
    BY ONLY <2>1 DEF NoUpd
  <2> QED
    BY ONLY <2>1, <2>2, <2>3 DEF BackendStays, BackendStates, OnDirect, StartCmds, StopCmds, PathFields
<1>10. DOMAIN BackendEventFallback = 1 .. 9
  BY DEF BackendEventFallback
<1>11. QED
  BY <1>10, <1>1, <1>2, <1>3, <1>4, <1>5, <1>6, <1>7, <1>8, <1>9 DEF BackendKind

\* The data that a superstate's leaves forward.
LEMMA BackendForwardRows ==
  LET a == Loops(BackendConnected,
                 <<<<"app_send", <<"write_active_stream">>>>, <<"relay_stream_data", <<"deliver_recv">>>>,
                   <<"relay_stream_error", <<"deliver_recv_error">>>>,
                   <<"app_send_datagram", <<"send_active_datagram">>>>,
                   <<"relay_datagram", <<"deliver_recv_datagram">>>>>>)
      b == Loops(BackendOnDirect,
                 <<<<"alt_stream_data", <<"deliver_recv">>>>, <<"alt_datagram", <<"deliver_recv_datagram">>>>>>)
  IN  /\ \A i \in DOMAIN a : BackendKind(a[i])
      /\ \A i \in DOMAIN b : BackendKind(b[i])
<1> DEFINE evs == <<<<"app_send", <<"write_active_stream">>>>, <<"relay_stream_data", <<"deliver_recv">>>>,
                   <<"relay_stream_error", <<"deliver_recv_error">>>>,
                   <<"app_send_datagram", <<"send_active_datagram">>>>,
                   <<"relay_datagram", <<"deliver_recv_datagram">>>>>>
           alt == <<<<"alt_stream_data", <<"deliver_recv">>>>, <<"alt_datagram", <<"deliver_recv_datagram">>>>>>
           a == Loops(BackendConnected, evs)
           b == Loops(BackendOnDirect, alt)
           Data == {"write_active_stream", "deliver_recv", "deliver_recv_error", "send_active_datagram",
                    "deliver_recv_datagram"}
<1>1. Len(BackendConnected) = 5 /\ Len(BackendOnDirect) = 2 /\ Len(evs) = 5 /\ Len(alt) = 2
  BY DEF BackendConnected, BackendOnDirect
<1>2. \A q \in 1 .. 5 : \E c \in Data : evs[q][2] = <<c>>
  OBVIOUS
<1>3. \A q \in 1 .. 2 : \E c \in Data : alt[q][2] = <<c>>
  OBVIOUS
<1>4. /\ \A p \in 1 .. 5 : BackendConnected[p] \in BackendStates
      /\ \A p \in 1 .. 2 : BackendOnDirect[p] \in BackendStates
  BY DEF BackendConnected, BackendOnDirect, BackendStates
<1>5. ASSUME NEW s \in BackendStates, NEW on, NEW c \in Data
      PROVE  BackendKind(Emit(s, on, <<c>>, s))
  <2>1. PICK t : t = Emit(s, on, <<c>>, s)
    OBVIOUS
  <2>2. t.from = s /\ t.to = s /\ t.upd = NoUpd /\ t.emits = <<c>>
    BY ZenonT(60), <2>1 DEF Emit, Row
  <2>3. CmdsOf(t) = {c}
    BY ONLY <2>2 DEF CmdsOf
  <2>4. DOMAIN t.upd = {}
    BY ONLY <2>2 DEF NoUpd
  <2>5. BackendStays(t)
    BY ONLY <2>2, <2>3, <2>4, s \in BackendStates, c \in Data
    DEF BackendStays, BackendStates, OnDirect, StartCmds, StopCmds, PathFields
  <2>6. QED
    BY <2>1, <2>5 DEF BackendKind
<1> HIDE DEF evs, alt
<1>6. /\ Len(BackendConnected) \in Nat \ {0} /\ Len(BackendOnDirect) \in Nat \ {0}
      /\ Len(evs) \in Nat \ {0} /\ Len(alt) \in Nat \ {0}
  BY <1>1
<1>7. \A i \in DOMAIN a : BackendKind(a[i])
  <2>1. SUFFICES ASSUME NEW i \in DOMAIN a PROVE BackendKind(a[i])
    OBVIOUS
  <2>2. PICK p \in 1 .. Len(BackendConnected), q \in 1 .. Len(evs) :
          a[i] = Emit(BackendConnected[p], Internal(evs[q][1]), evs[q][2], BackendConnected[p])
    BY Zenon, <1>6, LoopsEntries
  <2>3. QED
    BY <1>1, <1>2, <1>4, <1>5, <2>2
<1>8. \A i \in DOMAIN b : BackendKind(b[i])
  <2>1. SUFFICES ASSUME NEW i \in DOMAIN b PROVE BackendKind(b[i])
    OBVIOUS
  <2>2. PICK p \in 1 .. Len(BackendOnDirect), q \in 1 .. Len(alt) :
          b[i] = Emit(BackendOnDirect[p], Internal(alt[q][1]), alt[q][2], BackendOnDirect[p])
    BY Zenon, <1>6, LoopsEntries
  <2>3. QED
    BY <1>1, <1>3, <1>4, <1>5, <2>2
<1> QED
  BY <1>7, <1>8 DEF evs, alt

\* Every case of the backend's HandleEvent is of one of the three kinds.
LEMMA BackendRows ==
  /\ DOMAIN BackendHandleEvent \subseteq Nat
  /\ \A i \in DOMAIN BackendHandleEvent : BackendKind(BackendHandleEvent[i])
<1> DEFINE evs == <<<<"app_send", <<"write_active_stream">>>>, <<"relay_stream_data", <<"deliver_recv">>>>,
                   <<"relay_stream_error", <<"deliver_recv_error">>>>,
                   <<"app_send_datagram", <<"send_active_datagram">>>>,
                   <<"relay_datagram", <<"deliver_recv_datagram">>>>>>
           alt == <<<<"alt_stream_data", <<"deliver_recv">>>>, <<"alt_datagram", <<"deliver_recv_datagram">>>>>>
           a == Loops(BackendConnected, evs)
           b == Loops(BackendOnDirect, alt)
           S == {BackendEventPairing[i] : i \in DOMAIN BackendEventPairing}
                  \union {BackendEventAlt[i] : i \in DOMAIN BackendEventAlt}
                  \union {BackendEventFallback[i] : i \in DOMAIN BackendEventFallback}
                  \union {a[i] : i \in DOMAIN a} \union {b[i] : i \in DOMAIN b}
           K == {t \in S : BackendKind(t)}
<1>1. BackendEventPairing = [i \in 1 .. 15 |-> BackendEventPairing[i]]
  BY DEF BackendEventPairing
<1>2. BackendEventAlt = [i \in 1 .. 10 |-> BackendEventAlt[i]]
  BY DEF BackendEventAlt
<1>3. BackendEventFallback = [i \in 1 .. 9 |-> BackendEventFallback[i]]
  BY DEF BackendEventFallback
<1>4. PICK n \in Nat, k \in Nat : n = Len(BackendConnected) * Len(evs) /\ k = Len(BackendOnDirect) * Len(alt)
  BY DEF BackendConnected, BackendOnDirect
<1>5. BackendHandleEvent = BackendEventPairing \o BackendEventAlt \o BackendEventFallback \o (a \o b)
  BY Zenon DEF BackendHandleEvent, BackendEventForward
<1>6. (\A i \in DOMAIN a : BackendKind(a[i])) /\ (\A i \in DOMAIN b : BackendKind(b[i]))
  BY Zenon, BackendForwardRows
<1> HIDE DEF evs, alt
<1>7. DOMAIN a = 1 .. n /\ a = [i \in 1 .. n |-> a[i]] /\ DOMAIN b = 1 .. k /\ b = [i \in 1 .. k |-> b[i]]
  BY Zenon, <1>4 DEF Loops
<1> HIDE DEF a, b
<1>8. a \in Seq(K) /\ b \in Seq(K)
  <2>1. (\A i \in 1 .. n : a[i] \in K) /\ (\A i \in 1 .. k : b[i] \in K)
    BY <1>6, <1>7
  <2>2. QED
    BY Zenon, <1>7, <2>1, SeqOf
<1>9. BackendEventPairing \in Seq(K)
  <2>1. \A i \in 1 .. 15 : BackendEventPairing[i] \in K
    BY <1>1, BackendEventPairingRows
  <2>2. QED
    BY <1>1, <2>1, SeqOf
<1>10. BackendEventAlt \in Seq(K)
  <2>1. \A i \in 1 .. 10 : BackendEventAlt[i] \in K
    BY <1>2, BackendEventAltRows
  <2>2. QED
    BY <1>2, <2>1, SeqOf
<1>11. BackendEventFallback \in Seq(K)
  <2>1. \A i \in 1 .. 9 : BackendEventFallback[i] \in K
    BY <1>3, BackendEventFallbackRows
  <2>2. QED
    BY <1>3, <2>1, SeqOf
<1>12. \A t \in K : BackendKind(t)
  OBVIOUS
<1> HIDE DEF K
<1>13. BackendHandleEvent \in Seq(K)
  BY <1>5, <1>8, <1>9, <1>10, <1>11
<1>14. QED
  BY <1>12, <1>13

-----------------------------------------------------------------------------
(* The client's rows.                                                      *)

\* The acknowledgement is in: the direct path is taken.
ClientEnters(t) ==
  /\ t.from = "PairChecking" /\ t.to = "AltActive" /\ t.on = Recv("pair_check_ack")
  /\ t.do = "activate_lan" /\ t.upd = ClientActivated
  /\ {"start_alt_stream_reader", "start_alt_dg_reader"} \subseteq CmdsOf(t)
  /\ \A c \in {"close_alt_path", "send_pair_check_ack", "dial_candidate"} : c \notin CmdsOf(t)

\* The direct path is given up, for the relay or for another candidate.
ClientLeaves(t) ==
  /\ t.from = "AltActive" /\ t.to \in ClientStates \ {"AltActive", "PairChecking"}
  /\ {"stop_alt_stream_reader", "stop_alt_dg_reader", "close_alt_path"} \subseteq CmdsOf(t)
  /\ \A c \in {"start_alt_stream_reader", "start_alt_dg_reader", "send_pair_check_ack"} : c \notin CmdsOf(t)

\* On the direct path, which is left alone.
ClientStays(t) ==
  /\ t.from = "AltActive" /\ t.to = "AltActive"
  /\ \A c \in {"start_alt_stream_reader", "start_alt_dg_reader", "stop_alt_stream_reader", "stop_alt_dg_reader",
               "close_alt_path", "send_pair_check_ack", "dial_candidate"} : c \notin CmdsOf(t)
  /\ "CDispatcherPath" \notin DOMAIN t.upd

\* Off the direct path before and after; a check needs the dial's end.
ClientOff(t) ==
  /\ t.from # "AltActive" /\ t.to \in ClientStates \ {"AltActive"}
  /\ \A c \in {"start_alt_stream_reader", "start_alt_dg_reader", "send_pair_check_ack"} : c \notin CmdsOf(t)
  /\ t.to = "PairChecking" =>
       "dial_candidate" \notin CmdsOf(t) /\ (t.from = "PairChecking" \/ t.on = Internal("dial_ok"))

ClientKind(t) == ClientEnters(t) \/ ClientLeaves(t) \/ ClientStays(t) \/ ClientOff(t)

\* The cases before the transport phase, and a candidate that is dialled.
LEMMA ClientEventPairingRows ==
  \A i \in DOMAIN ClientEventPairing : ClientKind(ClientEventPairing[i])
<1>1. ClientOff(ClientEventPairing[1])
  <2>1. /\ ClientEventPairing[1].from = "Idle"
        /\ ClientEventPairing[1].to = "ObtainBackchannelSecret"
        /\ ClientEventPairing[1].on = Internal("backchannel_received")
        /\ ClientEventPairing[1].emits = << >>
    BY ZenonT(60) DEF ClientEventPairing, Row, Emit, Plain
  <2>2. CmdsOf(ClientEventPairing[1]) = {}
    BY ONLY <2>1 DEF CmdsOf
  <2> QED
    BY ONLY <2>1, <2>2 DEF ClientOff, ClientStates, Recv, Internal
<1>2. ClientOff(ClientEventPairing[2])
  <2>1. /\ ClientEventPairing[2].from = "ObtainBackchannelSecret"
        /\ ClientEventPairing[2].to = "ConnectRelay"
        /\ ClientEventPairing[2].on = Internal("secret_parsed")
        /\ ClientEventPairing[2].emits = << >>
    BY ZenonT(60) DEF ClientEventPairing, Row, Emit, Plain
  <2>2. CmdsOf(ClientEventPairing[2]) = {}
    BY ONLY <2>1 DEF CmdsOf
  <2> QED
    BY ONLY <2>1, <2>2 DEF ClientOff, ClientStates, Recv, Internal
<1>3. ClientOff(ClientEventPairing[3])
  <2>1. /\ ClientEventPairing[3].from = "ConnectRelay"
        /\ ClientEventPairing[3].to = "GenKeyPair"
        /\ ClientEventPairing[3].on = Internal("relay_connected")
        /\ ClientEventPairing[3].emits = << >>
    BY ZenonT(60) DEF ClientEventPairing, Row, Emit, Plain
  <2>2. CmdsOf(ClientEventPairing[3]) = {}
    BY ONLY <2>1 DEF CmdsOf
  <2> QED
    BY ONLY <2>1, <2>2 DEF ClientOff, ClientStates, Recv, Internal
<1>4. ClientOff(ClientEventPairing[4])
  <2>1. /\ ClientEventPairing[4].from = "GenKeyPair"
        /\ ClientEventPairing[4].to = "WaitAck"
        /\ ClientEventPairing[4].on = Internal("key_pair_generated")
        /\ ClientEventPairing[4].emits = << >>
    BY ZenonT(60) DEF ClientEventPairing, Row, Emit, Plain
  <2>2. CmdsOf(ClientEventPairing[4]) = {}
    BY ONLY <2>1 DEF CmdsOf
  <2> QED
    BY ONLY <2>1, <2>2 DEF ClientOff, ClientStates, Recv, Internal
<1>5. ClientOff(ClientEventPairing[5])
  <2>1. /\ ClientEventPairing[5].from = "WaitAck"
        /\ ClientEventPairing[5].to = "E2EReady"
        /\ ClientEventPairing[5].on = Recv("pair_hello_ack")
        /\ ClientEventPairing[5].emits = << >>
    BY ZenonT(60) DEF ClientEventPairing, Row, Emit, Plain
  <2>2. CmdsOf(ClientEventPairing[5]) = {}
    BY ONLY <2>1 DEF CmdsOf
  <2> QED
    BY ONLY <2>1, <2>2 DEF ClientOff, ClientStates, Recv, Internal
<1>6. ClientOff(ClientEventPairing[6])
  <2>1. /\ ClientEventPairing[6].from = "E2EReady"
        /\ ClientEventPairing[6].to = "ShowCode"
        /\ ClientEventPairing[6].on = Recv("pair_confirm")
        /\ ClientEventPairing[6].emits = << >>
    BY ZenonT(60) DEF ClientEventPairing, Row, Emit, Plain
  <2>2. CmdsOf(ClientEventPairing[6]) = {}
    BY ONLY <2>1 DEF CmdsOf
  <2> QED
    BY ONLY <2>1, <2>2 DEF ClientOff, ClientStates, Recv, Internal
<1>7. ClientOff(ClientEventPairing[7])
  <2>1. /\ ClientEventPairing[7].from = "ShowCode"
        /\ ClientEventPairing[7].to = "WaitPairComplete"
        /\ ClientEventPairing[7].on = Internal("code_displayed")
        /\ ClientEventPairing[7].emits = << >>
    BY ZenonT(60) DEF ClientEventPairing, Row, Emit, Plain
  <2>2. CmdsOf(ClientEventPairing[7]) = {}
    BY ONLY <2>1 DEF CmdsOf
  <2> QED
    BY ONLY <2>1, <2>2 DEF ClientOff, ClientStates, Recv, Internal
<1>8. ClientOff(ClientEventPairing[8])
  <2>1. /\ ClientEventPairing[8].from = "WaitPairComplete"
        /\ ClientEventPairing[8].to = "Paired"
        /\ ClientEventPairing[8].on = Recv("pair_complete")
        /\ ClientEventPairing[8].emits = << >>
    BY ZenonT(60) DEF ClientEventPairing, Row, Emit, Plain
  <2>2. CmdsOf(ClientEventPairing[8]) = {}
    BY ONLY <2>1 DEF CmdsOf
  <2> QED
    BY ONLY <2>1, <2>2 DEF ClientOff, ClientStates, Recv, Internal
<1>9. ClientOff(ClientEventPairing[9])
  <2>1. /\ ClientEventPairing[9].from = "Paired"
        /\ ClientEventPairing[9].to = "Reconnect"
        /\ ClientEventPairing[9].on = Internal("app_launch")
        /\ ClientEventPairing[9].emits = << >>
    BY ZenonT(60) DEF ClientEventPairing, Row, Emit, Plain
  <2>2. CmdsOf(ClientEventPairing[9]) = {}
    BY ONLY <2>1 DEF CmdsOf
  <2> QED
    BY ONLY <2>1, <2>2 DEF ClientOff, ClientStates, Recv, Internal
<1>10. ClientOff(ClientEventPairing[10])
  <2>1. /\ ClientEventPairing[10].from = "Reconnect"
        /\ ClientEventPairing[10].to = "SendAuth"
        /\ ClientEventPairing[10].on = Internal("relay_connected")
        /\ ClientEventPairing[10].emits = << >>
    BY ZenonT(60) DEF ClientEventPairing, Row, Emit, Plain
  <2>2. CmdsOf(ClientEventPairing[10]) = {}
    BY ONLY <2>1 DEF CmdsOf
  <2> QED
    BY ONLY <2>1, <2>2 DEF ClientOff, ClientStates, Recv, Internal
<1>11. ClientOff(ClientEventPairing[11])
  <2>1. /\ ClientEventPairing[11].from = "SendAuth"
        /\ ClientEventPairing[11].to = "SessionActive"
        /\ ClientEventPairing[11].on = Recv("auth_ok")
        /\ ClientEventPairing[11].emits = << >>
    BY ZenonT(60) DEF ClientEventPairing, Row, Emit, Plain
  <2>2. CmdsOf(ClientEventPairing[11]) = {}
    BY ONLY <2>1 DEF CmdsOf
  <2> QED
    BY ONLY <2>1, <2>2 DEF ClientOff, ClientStates, Recv, Internal
<1>12. ClientOff(ClientEventPairing[12])
  <2>1. /\ ClientEventPairing[12].from = "SessionActive"
        /\ ClientEventPairing[12].to = "RelayConnected"
        /\ ClientEventPairing[12].on = Internal("session_established")
        /\ ClientEventPairing[12].emits = << >>
    BY ZenonT(60) DEF ClientEventPairing, Row, Emit, Plain
  <2>2. CmdsOf(ClientEventPairing[12]) = {}
    BY ONLY <2>1 DEF CmdsOf
  <2> QED
    BY ONLY <2>1, <2>2 DEF ClientOff, ClientStates, Recv, Internal
<1>13. ClientOff(ClientEventPairing[13])
  <2>1. /\ ClientEventPairing[13].from = "RelayConnected"
        /\ ClientEventPairing[13].to = "PairDialing"
        /\ ClientEventPairing[13].on = Recv("candidates")
        /\ ClientEventPairing[13].emits = <<"dial_candidate">>
    BY DEF ClientEventPairing, Row, Emit, Plain
  <2>2. CmdsOf(ClientEventPairing[13]) = {"dial_candidate"}
    BY ONLY <2>1 DEF CmdsOf
  <2> QED
    BY ONLY <2>1, <2>2 DEF ClientOff, ClientStates, Recv, Internal
<1>14. ClientOff(ClientEventPairing[14])
  <2>1. /\ ClientEventPairing[14].from = "RelayConnected"
        /\ ClientEventPairing[14].to = "RelayConnected"
        /\ ClientEventPairing[14].on = Recv("candidates")
        /\ ClientEventPairing[14].emits = << >>
    BY ZenonT(60) DEF ClientEventPairing, Row, Emit, Plain
  <2>2. CmdsOf(ClientEventPairing[14]) = {}
    BY ONLY <2>1 DEF CmdsOf
  <2> QED
    BY ONLY <2>1, <2>2 DEF ClientOff, ClientStates, Recv, Internal
<1>15. DOMAIN ClientEventPairing = 1 .. 14
  BY DEF ClientEventPairing
<1>16. QED
  BY SMTT(60), Z3T(60), <1>15, <1>1, <1>2, <1>3, <1>4, <1>5, <1>6, <1>7, <1>8, <1>9, <1>10, <1>11, <1>12, <1>13, <1>14 DEF ClientKind

\* The dial, the pair check, pings, a path that breaks and fallbacks.
LEMMA ClientEventAltRows ==
  \A i \in DOMAIN ClientEventAlt : ClientKind(ClientEventAlt[i])
<1>1. ClientOff(ClientEventAlt[1])
  <2>1. /\ ClientEventAlt[1].from = "PairDialing"
        /\ ClientEventAlt[1].to = "PairChecking"
        /\ ClientEventAlt[1].on = Internal("dial_ok")
        /\ ClientEventAlt[1].emits = <<"send_pair_check">>
    BY ZenonT(60) DEF ClientEventAlt, Row, Emit, Plain
  <2>2. CmdsOf(ClientEventAlt[1]) = {"send_pair_check"}
    BY ONLY <2>1 DEF CmdsOf
  <2> QED
    BY ONLY <2>1, <2>2 DEF ClientOff, ClientStates, Recv, Internal
<1>2. ClientOff(ClientEventAlt[2])
  <2>1. /\ ClientEventAlt[2].from = "PairDialing"
        /\ ClientEventAlt[2].to = "RelayConnected"
        /\ ClientEventAlt[2].on = Internal("dial_failed")
        /\ ClientEventAlt[2].emits = << >>
    BY ZenonT(60) DEF ClientEventAlt, Row, Emit, Plain
  <2>2. CmdsOf(ClientEventAlt[2]) = {}
    BY ONLY <2>1 DEF CmdsOf
  <2> QED
    BY ONLY <2>1, <2>2 DEF ClientOff, ClientStates, Recv, Internal
<1>3. ClientEnters(ClientEventAlt[3])
  <2>1. /\ ClientEventAlt[3].from = "PairChecking"
        /\ ClientEventAlt[3].to = "AltActive"
        /\ ClientEventAlt[3].on = Recv("pair_check_ack")
        /\ ClientEventAlt[3].do = "activate_lan"
        /\ ClientEventAlt[3].upd = ClientActivated
        /\ ClientEventAlt[3].emits = <<"start_alt_stream_reader", "start_alt_dg_reader", "signal_alt_ready", "set_crypto_datagram">>
    BY ZenonT(60) DEF ClientEventAlt, Row, Emit, Plain
  <2>2. CmdsOf(ClientEventAlt[3]) = {"start_alt_stream_reader", "start_alt_dg_reader", "signal_alt_ready", "set_crypto_datagram"}
    BY ONLY <2>1 DEF CmdsOf
  <2> QED
    BY ONLY <2>1, <2>2 DEF ClientEnters, ClientStates
<1>4. ClientOff(ClientEventAlt[4])
  <2>1. /\ ClientEventAlt[4].from = "PairChecking"
        /\ ClientEventAlt[4].to = "RelayConnected"
        /\ ClientEventAlt[4].on = Internal("verify_timeout")
        /\ ClientEventAlt[4].emits = << >>
    BY ZenonT(60) DEF ClientEventAlt, Row, Emit, Plain
  <2>2. CmdsOf(ClientEventAlt[4]) = {}
    BY ONLY <2>1 DEF CmdsOf
  <2> QED
    BY ONLY <2>1, <2>2 DEF ClientOff, ClientStates, Recv, Internal
<1>5. ClientStays(ClientEventAlt[5])
  <2>1. /\ ClientEventAlt[5].from = "AltActive"
        /\ ClientEventAlt[5].to = "AltActive"
        /\ ClientEventAlt[5].upd = NoUpd
        /\ ClientEventAlt[5].emits = <<"send_path_pong">>
    BY ZenonT(60) DEF ClientEventAlt, Row, Emit, Plain
  <2>2. CmdsOf(ClientEventAlt[5]) = {"send_path_pong"}
    BY ONLY <2>1 DEF CmdsOf
  <2>3. DOMAIN ClientEventAlt[5].upd = {}
    BY ONLY <2>1 DEF NoUpd
  <2> QED
    BY ONLY <2>1, <2>2, <2>3 DEF ClientStays, ClientStates
<1>6. ClientLeaves(ClientEventAlt[6])
  <2>1. /\ ClientEventAlt[6].from = "AltActive"
        /\ ClientEventAlt[6].to = "RelayFallback"
        /\ ClientEventAlt[6].on = Internal("alt_error")
        /\ ClientEventAlt[6].emits = <<"stop_alt_stream_reader", "stop_alt_dg_reader", "close_alt_path", "reset_alt_ready">>
    BY ZenonT(60) DEF ClientEventAlt, Row, Emit, Plain, ClientTeardown
  <2>2. CmdsOf(ClientEventAlt[6]) = {"stop_alt_stream_reader", "stop_alt_dg_reader", "close_alt_path", "reset_alt_ready"}
    BY ONLY <2>1 DEF CmdsOf
  <2> QED
    BY ONLY <2>1, <2>2 DEF ClientLeaves, ClientStates, Recv, Internal
<1>7. ClientLeaves(ClientEventAlt[7])
  <2>1. /\ ClientEventAlt[7].from = "AltActive"
        /\ ClientEventAlt[7].to = "RelayFallback"
        /\ ClientEventAlt[7].on = Internal("alt_stream_error")
        /\ ClientEventAlt[7].emits = <<"stop_alt_stream_reader", "stop_alt_dg_reader", "close_alt_path", "reset_alt_ready">>
    BY ZenonT(60) DEF ClientEventAlt, Row, Emit, Plain, ClientTeardown
  <2>2. CmdsOf(ClientEventAlt[7]) = {"stop_alt_stream_reader", "stop_alt_dg_reader", "close_alt_path", "reset_alt_ready"}
    BY ONLY <2>1 DEF CmdsOf
  <2> QED
    BY ONLY <2>1, <2>2 DEF ClientLeaves, ClientStates, Recv, Internal
<1>8. ClientOff(ClientEventAlt[8])
  <2>1. /\ ClientEventAlt[8].from = "RelayFallback"
        /\ ClientEventAlt[8].to = "RelayConnected"
        /\ ClientEventAlt[8].on = Internal("relay_ok")
        /\ ClientEventAlt[8].emits = << >>
    BY ZenonT(60) DEF ClientEventAlt, Row, Emit, Plain
  <2>2. CmdsOf(ClientEventAlt[8]) = {}
    BY ONLY <2>1 DEF CmdsOf
  <2> QED
    BY ONLY <2>1, <2>2 DEF ClientOff, ClientStates, Recv, Internal
<1>9. ClientLeaves(ClientEventAlt[9])
  <2>1. /\ ClientEventAlt[9].from = "AltActive"
        /\ ClientEventAlt[9].to = "PairDialing"
        /\ ClientEventAlt[9].on = Recv("candidates")
        /\ ClientEventAlt[9].emits = <<"stop_alt_stream_reader", "stop_alt_dg_reader", "close_alt_path", "dial_candidate">>
    BY DEF ClientEventAlt, Row, Emit, Plain
  <2>2. CmdsOf(ClientEventAlt[9]) = {"stop_alt_stream_reader", "stop_alt_dg_reader", "close_alt_path", "dial_candidate"}
    BY ONLY <2>1 DEF CmdsOf
  <2> QED
    BY ONLY <2>1, <2>2 DEF ClientLeaves, ClientStates, Recv, Internal
<1>10. ClientOff(ClientEventAlt[10])
  <2>1. /\ ClientEventAlt[10].from = "PairDialing"
        /\ ClientEventAlt[10].to = "RelayConnected"
        /\ ClientEventAlt[10].on = Internal("app_force_fallback")
        /\ ClientEventAlt[10].emits = << >>
    BY ZenonT(60) DEF ClientEventAlt, Row, Emit, Plain
  <2>2. CmdsOf(ClientEventAlt[10]) = {}
    BY ONLY <2>1 DEF CmdsOf
  <2> QED
    BY ONLY <2>1, <2>2 DEF ClientOff, ClientStates, Recv, Internal
<1>11. ClientOff(ClientEventAlt[11])
  <2>1. /\ ClientEventAlt[11].from = "PairChecking"
        /\ ClientEventAlt[11].to = "RelayConnected"
        /\ ClientEventAlt[11].on = Internal("app_force_fallback")
        /\ ClientEventAlt[11].emits = <<"stop_alt_stream_reader", "stop_alt_dg_reader", "close_alt_path">>
    BY ZenonT(60) DEF ClientEventAlt, Row, Emit, Plain
  <2>2. CmdsOf(ClientEventAlt[11]) = {"stop_alt_stream_reader", "stop_alt_dg_reader", "close_alt_path"}
    BY ONLY <2>1 DEF CmdsOf
  <2> QED
    BY ONLY <2>1, <2>2 DEF ClientOff, ClientStates, Recv, Internal
<1>12. ClientLeaves(ClientEventAlt[12])
  <2>1. /\ ClientEventAlt[12].from = "AltActive"
        /\ ClientEventAlt[12].to = "RelayConnected"
        /\ ClientEventAlt[12].on = Internal("app_force_fallback")
        /\ ClientEventAlt[12].emits = <<"stop_alt_stream_reader", "stop_alt_dg_reader", "close_alt_path", "reset_alt_ready">>
    BY ZenonT(60) DEF ClientEventAlt, Row, Emit, Plain, ClientTeardown
  <2>2. CmdsOf(ClientEventAlt[12]) = {"stop_alt_stream_reader", "stop_alt_dg_reader", "close_alt_path", "reset_alt_ready"}
    BY ONLY <2>1 DEF CmdsOf
  <2> QED
    BY ONLY <2>1, <2>2 DEF ClientLeaves, ClientStates, Recv, Internal
<1>13. ClientOff(ClientEventAlt[13])
  <2>1. /\ ClientEventAlt[13].from = "RelayConnected"
        /\ ClientEventAlt[13].to = "Paired"
        /\ ClientEventAlt[13].on = Internal("disconnect")
        /\ ClientEventAlt[13].emits = << >>
    BY ZenonT(60) DEF ClientEventAlt, Row, Emit, Plain
  <2>2. CmdsOf(ClientEventAlt[13]) = {}
    BY ONLY <2>1 DEF CmdsOf
  <2> QED
    BY ONLY <2>1, <2>2 DEF ClientOff, ClientStates, Recv, Internal
<1>14. DOMAIN ClientEventAlt = 1 .. 13
  BY DEF ClientEventAlt
<1>15. QED
  BY SMTT(60), Z3T(60), <1>14, <1>1, <1>2, <1>3, <1>4, <1>5, <1>6, <1>7, <1>8, <1>9, <1>10, <1>11, <1>12, <1>13 DEF ClientKind

\* The data that a superstate's leaves forward.
LEMMA ClientForwardRows ==
  LET a == Loops(ClientConnected,
                 <<<<"app_send", <<"write_active_stream">>>>, <<"relay_stream_data", <<"deliver_recv">>>>,
                   <<"relay_stream_error", <<"deliver_recv_error">>>>,
                   <<"app_send_datagram", <<"send_active_datagram">>>>,
                   <<"relay_datagram", <<"deliver_recv_datagram">>>>>>)
      b == Loops(<<"AltActive">>,
                 <<<<"alt_stream_data", <<"deliver_recv">>>>, <<"alt_datagram", <<"deliver_recv_datagram">>>>>>)
  IN  /\ \A i \in DOMAIN a : ClientKind(a[i])
      /\ \A i \in DOMAIN b : ClientKind(b[i])
<1> DEFINE evs == <<<<"app_send", <<"write_active_stream">>>>, <<"relay_stream_data", <<"deliver_recv">>>>,
                   <<"relay_stream_error", <<"deliver_recv_error">>>>,
                   <<"app_send_datagram", <<"send_active_datagram">>>>,
                   <<"relay_datagram", <<"deliver_recv_datagram">>>>>>
           alt == <<<<"alt_stream_data", <<"deliver_recv">>>>, <<"alt_datagram", <<"deliver_recv_datagram">>>>>>
           a == Loops(ClientConnected, evs)
           leaf == <<"AltActive">>
           b == Loops(leaf, alt)
           Data == {"write_active_stream", "deliver_recv", "deliver_recv_error", "send_active_datagram",
                    "deliver_recv_datagram"}
<1>1. Len(ClientConnected) = 5 /\ Len(leaf) = 1 /\ Len(evs) = 5 /\ Len(alt) = 2
  BY DEF ClientConnected
<1>2. \A q \in 1 .. 5 : \E c \in Data : evs[q][2] = <<c>>
  OBVIOUS
<1>3. \A q \in 1 .. 2 : \E c \in Data : alt[q][2] = <<c>>
  OBVIOUS
<1>4. /\ \A p \in 1 .. 5 : ClientConnected[p] \in ClientStates
      /\ \A p \in 1 .. 1 : leaf[p] \in ClientStates
  BY DEF ClientConnected, ClientStates
<1>5. ASSUME NEW s \in ClientStates, NEW on, NEW c \in Data
      PROVE  ClientKind(Emit(s, on, <<c>>, s))
  <2>1. PICK t : t = Emit(s, on, <<c>>, s)
    OBVIOUS
  <2>2. t.from = s /\ t.to = s /\ t.upd = NoUpd /\ t.emits = <<c>>
    BY ZenonT(60), <2>1 DEF Emit, Row
  <2>3. CmdsOf(t) = {c}
    BY ONLY <2>2 DEF CmdsOf
  <2>4. DOMAIN t.upd = {}
    BY ONLY <2>2 DEF NoUpd
  <2>5. CASE s = "AltActive"
    <3>1. ClientStays(t)
      BY ONLY <2>2, <2>3, <2>4, <2>5, c \in Data DEF ClientStays
    <3>2. QED
      BY <2>1, <3>1 DEF ClientKind
  <2>6. CASE s # "AltActive"
    <3>1. ClientOff(t)
      BY ONLY <2>2, <2>3, <2>6, s \in ClientStates, c \in Data DEF ClientOff
    <3>2. QED
      BY <2>1, <3>1 DEF ClientKind
  <2>7. QED
    BY <2>5, <2>6
<1> HIDE DEF evs, alt, leaf
<1>6. /\ Len(ClientConnected) \in Nat \ {0} /\ Len(leaf) \in Nat \ {0}
      /\ Len(evs) \in Nat \ {0} /\ Len(alt) \in Nat \ {0}
  BY <1>1
<1>7. \A i \in DOMAIN a : ClientKind(a[i])
  <2>1. SUFFICES ASSUME NEW i \in DOMAIN a PROVE ClientKind(a[i])
    OBVIOUS
  <2>2. PICK p \in 1 .. Len(ClientConnected), q \in 1 .. Len(evs) :
          a[i] = Emit(ClientConnected[p], Internal(evs[q][1]), evs[q][2], ClientConnected[p])
    BY Zenon, <1>6, LoopsEntries
  <2>3. QED
    BY <1>1, <1>2, <1>4, <1>5, <2>2
<1>8. \A i \in DOMAIN b : ClientKind(b[i])
  <2>1. SUFFICES ASSUME NEW i \in DOMAIN b PROVE ClientKind(b[i])
    OBVIOUS
  <2>2. PICK p \in 1 .. Len(leaf), q \in 1 .. Len(alt) :
          b[i] = Emit(leaf[p], Internal(alt[q][1]), alt[q][2], leaf[p])
    BY Zenon, <1>6, LoopsEntries
  <2>3. QED
    BY <1>1, <1>3, <1>4, <1>5, <2>2
<1> QED
  BY <1>7, <1>8 DEF evs, alt, leaf

\* Every case of the client's HandleEvent is of one of the four kinds.
LEMMA ClientRows ==
  /\ DOMAIN ClientHandleEvent \subseteq Nat
  /\ \A i \in DOMAIN ClientHandleEvent : ClientKind(ClientHandleEvent[i])
<1> DEFINE evs == <<<<"app_send", <<"write_active_stream">>>>, <<"relay_stream_data", <<"deliver_recv">>>>,
                   <<"relay_stream_error", <<"deliver_recv_error">>>>,
                   <<"app_send_datagram", <<"send_active_datagram">>>>,
                   <<"relay_datagram", <<"deliver_recv_datagram">>>>>>
           alt == <<<<"alt_stream_data", <<"deliver_recv">>>>, <<"alt_datagram", <<"deliver_recv_datagram">>>>>>
           a == Loops(ClientConnected, evs)
           leaf == <<"AltActive">>
           b == Loops(leaf, alt)
           S == {ClientEventPairing[i] : i \in DOMAIN ClientEventPairing}
                  \union {ClientEventAlt[i] : i \in DOMAIN ClientEventAlt}
                  \union {a[i] : i \in DOMAIN a} \union {b[i] : i \in DOMAIN b}
           K == {t \in S : ClientKind(t)}
<1>1. ClientEventPairing = [i \in 1 .. 14 |-> ClientEventPairing[i]]
  BY DEF ClientEventPairing
<1>2. ClientEventAlt = [i \in 1 .. 13 |-> ClientEventAlt[i]]
  BY DEF ClientEventAlt
<1>3. PICK n \in Nat, k \in Nat : n = Len(ClientConnected) * Len(evs) /\ k = Len(leaf) * Len(alt)
  BY DEF ClientConnected
<1>4. ClientHandleEvent = ClientEventPairing \o ClientEventAlt \o (a \o b)
  BY Zenon DEF ClientHandleEvent, ClientEventForward
<1>5. (\A i \in DOMAIN a : ClientKind(a[i])) /\ (\A i \in DOMAIN b : ClientKind(b[i]))
  BY Zenon, ClientForwardRows
<1> HIDE DEF evs, alt, leaf
<1>6. DOMAIN a = 1 .. n /\ a = [i \in 1 .. n |-> a[i]] /\ DOMAIN b = 1 .. k /\ b = [i \in 1 .. k |-> b[i]]
  BY Zenon, <1>3 DEF Loops
<1> HIDE DEF a, b
<1>7. a \in Seq(K) /\ b \in Seq(K)
  <2>1. (\A i \in 1 .. n : a[i] \in K) /\ (\A i \in 1 .. k : b[i] \in K)
    BY <1>5, <1>6
  <2>2. QED
    BY Zenon, <1>6, <2>1, SeqOf
<1>8. ClientEventPairing \in Seq(K)
  <2>1. \A i \in 1 .. 14 : ClientEventPairing[i] \in K
    BY <1>1, ClientEventPairingRows
  <2>2. QED
    BY <1>1, <2>1, SeqOf
<1>9. ClientEventAlt \in Seq(K)
  <2>1. \A i \in 1 .. 13 : ClientEventAlt[i] \in K
    BY <1>2, ClientEventAltRows
  <2>2. QED
    BY <1>2, <2>1, SeqOf
<1>10. \A t \in K : ClientKind(t)
  OBVIOUS
<1> HIDE DEF K
<1>11. ClientHandleEvent \in Seq(K)
  BY <1>4, <1>7, <1>8, <1>9
<1>12. QED
  BY <1>10, <1>11

-----------------------------------------------------------------------------
(* What a case does to a machine, to what runs and to the pipe.            *)

\* m2 is m after the assignments of a case: what is "set by action" stays
\* where the case has no action.
Assigned(m, t, max, m2) ==
  /\ DOMAIN m2 = DOMAIN m /\ m2.State = t.to
  /\ \A x \in DOMAIN m \ {"State"} : x \notin DOMAIN t.upd => m2[x] = m[x]
  /\ \A x \in DOMAIN m \ {"State"} : \A v : x \in DOMAIN t.upd /\ t.upd[x] = Lit(v) => m2[x] = v
  /\ \A x \in DOMAIN m \ {"State"} :
       x \in DOMAIN t.upd /\ t.upd[x] = Capped =>
         m2[x] = IF t.do = "" THEN m[x] ELSE IF m[x] + 1 < max THEN m[x] + 1 ELSE max

\* The body of a case when every hook is there and no action fails.
LEMMA CaseAssigns ==
  ASSUME NEW m, NEW t, NEW G, NEW max, NEW m2, "State" \in DOMAIN m,
         m2 = writeGoTransitionBody(m, t, Hooks(G, {}, FALSE), max)
  PROVE  Assigned(m, t, max, m2)
<1> DEFINE h == Hooks(G, {}, FALSE)
<1>1. h.fails = FALSE /\ h.absent = {}
  BY DEF Hooks
<1> HIDE DEF h
<1>2. ActionRuns(t, h) <=> t.do # ""
  BY <1>1 DEF ActionRuns
<1>3. m2 = [x \in DOMAIN m |->
              IF x = "State" THEN t.to
              ELSE IF x \notin DOMAIN t.upd THEN m[x]
              ELSE IF goSimpleLiteral(t.upd[x]) \/ goSelfUpdate(t.upd[x]) \/ t.do # ""
                   THEN ExprValue(m, x, t.upd[x], max)
                   ELSE m[x]]
  BY Zenon, <1>1, <1>2 DEF writeGoTransitionBody, h
<1>4. DOMAIN m2 = DOMAIN m /\ m2.State = t.to
  BY Zenon, <1>3
<1>5. ASSUME NEW x \in DOMAIN m \ {"State"}
      PROVE  m2[x] = IF x \notin DOMAIN t.upd THEN m[x]
                     ELSE IF goSimpleLiteral(t.upd[x]) \/ goSelfUpdate(t.upd[x]) \/ t.do # ""
                          THEN ExprValue(m, x, t.upd[x], max)
                          ELSE m[x]
  BY Zenon, <1>3
<1>6. ASSUME NEW x, NEW u, NEW v, u = Lit(v)
      PROVE  goSimpleLiteral(u) /\ ExprValue(m, x, u, max) = v
  <2>1. u.k = "lit" /\ u.v = v
    BY <1>6 DEF Lit
  <2>2. QED
    BY ONLY <2>1 DEF goSimpleLiteral, ExprValue
<1>7. ASSUME NEW x, NEW u, u = Capped
      PROVE  /\ ~ goSimpleLiteral(u) /\ ~ goSelfUpdate(u)
             /\ ExprValue(m, x, u, max) = IF m[x] + 1 < max THEN m[x] + 1 ELSE max
  <2>1. u.k = "capped"
    BY <1>7 DEF Capped
  <2>2. QED
    BY ONLY <2>1 DEF goSimpleLiteral, goSelfUpdate, ExprValue
<1>8. ASSUME NEW x \in DOMAIN m \ {"State"}, x \notin DOMAIN t.upd
      PROVE  m2[x] = m[x]
  BY Zenon, <1>5, <1>8
<1>9. ASSUME NEW x \in DOMAIN m \ {"State"}, NEW v, x \in DOMAIN t.upd, t.upd[x] = Lit(v)
      PROVE  m2[x] = v
  <2>1. goSimpleLiteral(t.upd[x]) /\ ExprValue(m, x, t.upd[x], max) = v
    BY Zenon, <1>6, <1>9
  <2>2. QED
    BY Zenon, <1>5, <1>9, <2>1
<1>10. ASSUME NEW x \in DOMAIN m \ {"State"}, x \in DOMAIN t.upd, t.upd[x] = Capped
      PROVE  m2[x] = IF t.do = "" THEN m[x] ELSE IF m[x] + 1 < max THEN m[x] + 1 ELSE max
  <2>1. /\ ~ goSimpleLiteral(t.upd[x]) /\ ~ goSelfUpdate(t.upd[x])
        /\ ExprValue(m, x, t.upd[x], max) = IF m[x] + 1 < max THEN m[x] + 1 ELSE max
    BY Zenon, <1>7, <1>10
  <2>2. QED
    BY Zenon, <1>5, <1>10, <2>1
<1>11. QED
  BY Zenon, <1>4, <1>8, <1>9, <1>10 DEF Assigned

\* What runs after a turn, of what the direct path needs.
LEMMA RunsAfter ==
  ASSUME NEW runs, NEW cmds
  PROVE  /\ "stream_reader" \in Running(runs, cmds) <=>
              "start_alt_stream_reader" \in cmds \/ ("stream_reader" \in runs /\ "stop_alt_stream_reader" \notin cmds)
         /\ "dg_reader" \in Running(runs, cmds) <=>
              "start_alt_dg_reader" \in cmds \/ ("dg_reader" \in runs /\ "stop_alt_dg_reader" \notin cmds)
         /\ "monitor" \in Running(runs, cmds) <=>
              "start_monitor" \in cmds \/ ("monitor" \in runs /\ "stop_monitor" \notin cmds)
         /\ "alt_ready" \in Running(runs, cmds) <=>
              "signal_alt_ready" \in cmds \/ ("alt_ready" \in runs /\ "reset_alt_ready" \notin cmds)
         /\ "dialing" \in Running(runs, cmds) <=> "dial_candidate" \in cmds \/ "dialing" \in runs
<1>1. /\ DOMAIN Starts = {"start_alt_stream_reader", "start_alt_dg_reader", "start_monitor", "start_pong_timeout",
                          "start_backoff_timer", "signal_alt_ready", "dial_candidate"}
      /\ Starts["start_alt_stream_reader"] = "stream_reader" /\ Starts["start_alt_dg_reader"] = "dg_reader"
      /\ Starts["start_monitor"] = "monitor" /\ Starts["start_pong_timeout"] = "pong_timer"
      /\ Starts["start_backoff_timer"] = "backoff_timer" /\ Starts["signal_alt_ready"] = "alt_ready"
      /\ Starts["dial_candidate"] = "dialing"
  BY DEF Starts
<1>2. /\ DOMAIN Stops = {"stop_alt_stream_reader", "stop_alt_dg_reader", "stop_monitor", "cancel_pong_timeout",
                         "reset_alt_ready"}
      /\ Stops["stop_alt_stream_reader"] = "stream_reader" /\ Stops["stop_alt_dg_reader"] = "dg_reader"
      /\ Stops["stop_monitor"] = "monitor" /\ Stops["cancel_pong_timeout"] = "pong_timer"
      /\ Stops["reset_alt_ready"] = "alt_ready"
  BY DEF Stops
<1>3. \A r : r \in Running(runs, cmds) <=>
               \/ r \in runs /\ \A x \in DOMAIN Stops : x \in cmds => Stops[x] # r
               \/ \E x \in DOMAIN Starts : x \in cmds /\ Starts[x] = r
  BY Zenon DEF Running
<1>4. QED
  BY <1>1, <1>2, <1>3

\* What a side's loop does to the pipes.
LEMMA PipeAfter ==
  ASSUME PathTyped, NEW side \in {"b", "c"}, NEW p \in Pipes \union {0}, NEW got, NEW cmds, NEW opened \in BOOLEAN,
         OnPipe(side, p, got, cmds, opened)
  PROVE  /\ DOMAIN wire' = Pipes /\ ends' \in [Pipes -> SUBSET {"b", "c"}]
         /\ \A x \in Pipes \ {p} : wire'[x] = wire[x] /\ ends'[x] = ends[x]
         /\ p # 0 /\ "pair_check_ack" \in wire'[p] =>
              "close_alt_path" \notin cmds /\ ("pair_check_ack" \in wire[p] \/ "send_pair_check_ack" \in cmds)
         /\ p # 0 /\ "close_alt_path" \in cmds => side \notin ends'[p]
         /\ ~ opened /\ "close_alt_path" \notin cmds => ends' = ends
<1> DEFINE left == (IF opened THEN {"b", "c"} ELSE ends[p]) \ (IF "close_alt_path" \in cmds THEN {side} ELSE {})
           now == IF left = {"b", "c"} THEN (wire[p] \ got) \union Sent(cmds) ELSE {}
<1>1. CASE p = 0
  BY <1>1 DEF OnPipe, PathTyped
<1>2. CASE p # 0
  <2>1. p \in Pipes
    BY <1>2
  <2>2. ends' = [ends EXCEPT ![p] = left] /\ wire' = [wire EXCEPT ![p] = now]
    BY <1>2 DEF OnPipe
  <2>3. left \in SUBSET {"b", "c"}
    BY <2>1 DEF PathTyped
  <2>4. "close_alt_path" \in cmds => side \notin left /\ left # {"b", "c"}
    OBVIOUS
  <2>5. ~ opened /\ "close_alt_path" \notin cmds => left = ends[p]
    OBVIOUS
  <2>6. "pair_check_ack" \in Sent(cmds) => "send_pair_check_ack" \in cmds
    <3>1. /\ DOMAIN Sends = {"send_pair_check", "send_pair_check_ack", "send_path_ping", "send_path_pong"}
          /\ Sends["send_pair_check"] = "pair_check" /\ Sends["send_pair_check_ack"] = "pair_check_ack"
          /\ Sends["send_path_ping"] = "path_ping" /\ Sends["send_path_pong"] = "path_pong"
      BY DEF Sends
    <3>2. QED
      BY <3>1 DEF Sent
  <2>7. "pair_check_ack" \in now =>
          "close_alt_path" \notin cmds /\ ("pair_check_ack" \in wire[p] \/ "send_pair_check_ack" \in cmds)
    BY SMTT(60), Z3T(60), <2>4, <2>6
  <2> HIDE DEF left, now
  <2>8. QED
    BY <1>2, <2>1, <2>2, <2>3, <2>4, <2>5, <2>7 DEF PathTyped
<1>3. QED
  BY <1>1, <1>2

-----------------------------------------------------------------------------
(* A turn of the backend's event loop.                                     *)

\* The backend's fields, and what it has running, after a case of each kind.
LEMMA BackendAfter ==
  ASSUME PathInv, NEW t, NEW G, BackendKind(t), t.from = backend.State,
         backend' = writeGoTransitionBody(backend, t, Hooks(G, {}, FALSE), MaxBackoffLevel),
         NEW done, \A r \in done : r \notin AltRuns \union {"monitor"},
         bRuns' = Running(bRuns \ done, CmdsOf(t))
  PROVE  /\ DOMAIN backend' = DOMAIN NewBackend /\ backend'.State = t.to /\ t.to \in BackendStates
         /\ backend'.State \in OnDirect <=> backend'.BActivePath = "alt"
         /\ backend'.State \in OnDirect <=> backend'.BDispatcherPath = "alt"
         /\ backend'.State \in OnDirect <=> backend'.MonitorTarget = "alt"
         /\ backend'.State \in OnDirect <=> backend'.AltSignal = "ready"
         /\ \A r \in AltRuns \union {"monitor"} : backend'.State \in OnDirect <=> r \in bRuns'
         /\ backend'.BackoffLevel <= 1
         /\ backend'.State \in OnDirect => backend'.BackoffLevel = 0
<1> DEFINE F == {"BActivePath", "BDispatcherPath", "MonitorTarget", "AltSignal", "BackoffLevel"}
           on == backend.State \in OnDirect
<1>1. DOMAIN backend = DOMAIN NewBackend /\ "State" \in DOMAIN backend /\ F \subseteq DOMAIN backend
  BY DEF PathInv, PathTyped, NewBackend
<1>2. /\ DOMAIN backend' = DOMAIN backend /\ backend'.State = t.to
      /\ \A x \in F : x \notin DOMAIN t.upd => backend'[x] = backend[x]
      /\ \A x \in F : \A v : x \in DOMAIN t.upd /\ t.upd[x] = Lit(v) => backend'[x] = v
      /\ \A x \in F :
           x \in DOMAIN t.upd /\ t.upd[x] = Capped =>
             backend'[x] = IF t.do = "" THEN backend[x]
                           ELSE IF backend[x] + 1 < MaxBackoffLevel THEN backend[x] + 1 ELSE MaxBackoffLevel
  <2>1. F \subseteq DOMAIN backend \ {"State"}
    BY <1>1
  <2>2. Assigned(backend, t, MaxBackoffLevel, backend')
    BY Zenon, <1>1, CaseAssigns
  <2> HIDE DEF F
  <2>3. QED
    BY Zenon, <2>1, <2>2 DEF Assigned
<1>3. /\ on <=> backend.BActivePath = "alt"
      /\ on <=> backend.BDispatcherPath = "alt"
      /\ on <=> backend.MonitorTarget = "alt"
      /\ on <=> backend.AltSignal = "ready"
      /\ \A r \in AltRuns \union {"monitor"} : on <=> r \in bRuns
      /\ backend.BackoffLevel <= 1
      /\ on => backend.BackoffLevel = 0
  BY DEF PathInv, BackendPathHeld, OnDirect
<1>4. DOMAIN backend' = DOMAIN NewBackend /\ backend'.State = t.to
  BY ZenonT(60), <1>1, <1>2
<1>5. /\ "stream_reader" \in bRuns' <=> "start_alt_stream_reader" \in CmdsOf(t) \/
                                        ("stream_reader" \in bRuns \ done /\ "stop_alt_stream_reader" \notin CmdsOf(t))
      /\ "dg_reader" \in bRuns' <=> "start_alt_dg_reader" \in CmdsOf(t) \/
                                    ("dg_reader" \in bRuns \ done /\ "stop_alt_dg_reader" \notin CmdsOf(t))
      /\ "monitor" \in bRuns' <=> "start_monitor" \in CmdsOf(t) \/
                                  ("monitor" \in bRuns \ done /\ "stop_monitor" \notin CmdsOf(t))
      /\ "alt_ready" \in bRuns' <=> "signal_alt_ready" \in CmdsOf(t) \/
                                    ("alt_ready" \in bRuns \ done /\ "reset_alt_ready" \notin CmdsOf(t))
  BY Zenon, RunsAfter
<1>6. CASE BackendEnters(t)
  <2>1. /\ t.to = "AltActive" /\ t.upd = BackendActivated
        /\ {"start_alt_stream_reader", "start_alt_dg_reader", "start_monitor", "signal_alt_ready"} \subseteq CmdsOf(t)
    BY <1>6 DEF BackendEnters, StartCmds
  <2>2. /\ F \subseteq DOMAIN t.upd /\ t.upd["BActivePath"] = Lit("alt") /\ t.upd["BDispatcherPath"] = Lit("alt")
        /\ t.upd["MonitorTarget"] = Lit("alt") /\ t.upd["AltSignal"] = Lit("ready") /\ t.upd["BackoffLevel"] = Lit(0)
    BY <2>1 DEF BackendActivated
  <2>3. /\ backend'.BActivePath = "alt" /\ backend'.BDispatcherPath = "alt" /\ backend'.MonitorTarget = "alt"
        /\ backend'.AltSignal = "ready" /\ backend'.BackoffLevel = 0
    BY ZenonT(60), <1>2, <2>2
  <2>4. \A r \in AltRuns \union {"monitor"} : r \in bRuns'
    BY ONLY <1>5, <2>1 DEF AltRuns
  <2>5. QED
    BY ONLY <1>4, <2>1, <2>3, <2>4 DEF OnDirect, BackendStates
<1>7. CASE BackendLeaves(t)
  <2>1. /\ t.to = "RelayBackoff" /\ t.upd = BackendFellBack /\ t.do # "" /\ on
        /\ {"stop_alt_stream_reader", "stop_alt_dg_reader", "stop_monitor", "reset_alt_ready"} \subseteq CmdsOf(t)
        /\ \A c \in {"start_alt_stream_reader", "start_alt_dg_reader", "start_monitor", "signal_alt_ready"} :
             c \notin CmdsOf(t)
    BY <1>7 DEF BackendLeaves, StartCmds, StopCmds
  <2>2. /\ F \subseteq DOMAIN t.upd /\ t.upd["BActivePath"] = Lit("relay") /\ t.upd["BDispatcherPath"] = Lit("relay")
        /\ t.upd["MonitorTarget"] = Lit("none") /\ t.upd["AltSignal"] = Lit("pending")
        /\ t.upd["BackoffLevel"] = Capped
    <3>1. t.upd = BackendFellBack
      BY ZenonT(60), <2>1
    <3>2. QED
      BY ONLY <3>1 DEF BackendFellBack
  <2>3. /\ backend'.BActivePath = "relay" /\ backend'.BDispatcherPath = "relay" /\ backend'.MonitorTarget = "none"
        /\ backend'.AltSignal = "pending"
    BY ZenonT(60), <1>2, <2>2
  <2>4. backend'.BackoffLevel <= 1
    <3>1. backend'.BackoffLevel = IF backend.BackoffLevel + 1 < MaxBackoffLevel THEN backend.BackoffLevel + 1
                                  ELSE MaxBackoffLevel
      BY ZenonT(60), <1>2, <2>1, <2>2
    <3>2. backend.BackoffLevel = 0
      BY ZenonT(60), <1>3, <2>1
    <3>3. QED
      BY ONLY SMTT(60), Z3T(60), <3>1, <3>2, SessionPathAssumption
  <2>5. \A r \in AltRuns \union {"monitor"} : r \notin bRuns'
    BY ONLY ZenonT(60), <1>5, <2>1 DEF AltRuns
  <2>6. QED
    BY ONLY ZenonT(60), <1>4, <2>1, <2>3, <2>4, <2>5 DEF OnDirect, BackendStates
<1>8. CASE BackendStays(t)
  <2>1. /\ t.to \in BackendStates /\ (on <=> t.to \in OnDirect)
        /\ \A c \in {"start_alt_stream_reader", "start_alt_dg_reader", "start_monitor", "signal_alt_ready",
                     "stop_alt_stream_reader", "stop_alt_dg_reader", "stop_monitor"} : c \notin CmdsOf(t)
        /\ "reset_alt_ready" \in CmdsOf(t) => ~ on
    BY ZenonT(60), <1>8 DEF BackendStays, StartCmds, StopCmds
  <2>2. /\ \A f \in {"BActivePath", "BDispatcherPath", "MonitorTarget"} : f \notin DOMAIN t.upd
        /\ "AltSignal" \in DOMAIN t.upd => ~ on /\ t.upd["AltSignal"] = Lit("pending")
        /\ "BackoffLevel" \in DOMAIN t.upd =>
             ~ on /\ (t.upd["BackoffLevel"] = Lit(0) \/ (t.do = "" /\ t.upd["BackoffLevel"] = Capped))
    BY ZenonT(60), <1>8 DEF BackendStays, PathFields
  <2>3. /\ backend'.BActivePath = backend.BActivePath /\ backend'.BDispatcherPath = backend.BDispatcherPath
        /\ backend'.MonitorTarget = backend.MonitorTarget
    BY ZenonT(60), <1>2, <2>2
  <2>4. on <=> backend'.AltSignal = "ready"
    BY ZenonT(60), <1>2, <1>3, <2>2
  <2>5. backend'.BackoffLevel = backend.BackoffLevel \/ (~ on /\ backend'.BackoffLevel = 0)
    BY ZenonT(60), <1>2, <2>2
  <2>6. \A r \in AltRuns \union {"monitor"} : on <=> r \in bRuns'
    <3>1. \A r \in AltRuns \union {"monitor"} : on <=> r \in bRuns \ done
      BY <1>3
    <3>2. QED
      BY ONLY SMTT(60), Z3T(60), <1>5, <2>1, <3>1 DEF AltRuns
  <2>7. QED
    BY ONLY SMTT(60), Z3T(60), <1>3, <1>4, <2>1, <2>3, <2>4, <2>5, <2>6
<1>9. QED
  BY ZenonT(60), <1>6, <1>7, <1>8 DEF BackendKind

\* The case that runs is of one of the kinds, also where none matches.
LEMMA BackendCase ==
  ASSUME PathInv, NEW on, NEW h, NEW t, t = GoCase(BackendHandleEvent, backend, on, h)
  PROVE  BackendKind(t) /\ t.from = backend.State /\ t.on = on
<1>1. CASE t = Plain(backend.State, on, backend.State)
  <2>1. t.from = backend.State /\ t.to = backend.State /\ t.on = on /\ t.upd = NoUpd /\ t.emits = << >>
    BY ONLY ZenonT(60), <1>1 DEF Plain, Row
  <2>2. CmdsOf(t) = {}
    BY ONLY <2>1 DEF CmdsOf
  <2>3. DOMAIN t.upd = {}
    BY ONLY <2>1 DEF NoUpd
  <2>4. backend.State \in BackendStates
    BY DEF PathInv, PathTyped
  <2>5. BackendStays(t)
    BY ONLY <2>1, <2>2, <2>3, <2>4 DEF BackendStays
  <2>6. QED
    BY <2>1, <2>5 DEF BackendKind
<1>2. CASE \E i \in DOMAIN BackendHandleEvent : t = BackendHandleEvent[i] /\ t.from = backend.State /\ t.on = on
  BY Zenon, <1>2, BackendRows
<1>3. DOMAIN BackendHandleEvent \subseteq Nat
  BY Zenon, BackendRows
<1>4. QED
  BY <1>1, <1>2, <1>3, GoCaseMatches

\* A turn of the backend's loop keeps the invariant, whatever the event is:
\* on the connection it holds, or on any for a pair check.
LEMMA BackendTurnKeeps ==
  ASSUME PathInv, NEW on, NEW p, NEW got, NEW done, NEW q, BackendTurn(on, p, got, done, q),
         IF on = Recv("pair_check") THEN p \in Pipes ELSE p = bAlt,
         \A r \in done : r \notin AltRuns \union {"monitor"}
  PROVE  PathInv'
<1> DEFINE G == GuardsTrue(backend, q, MaxPingFailures)
           h == Hooks(G, {}, FALSE)
<1>1. PICK t : /\ t = GoCase(BackendHandleEvent, backend, on, h)
               /\ backend' = writeGoTransitionBody(backend, t, h, MaxBackoffLevel)
               /\ bRuns' = Running(bRuns \ done, CmdsOf(t))
               /\ OnPipe("b", p, got, CmdsOf(t), FALSE)
               /\ bAlt' = IF "close_alt_path" \in CmdsOf(t) THEN 0
                          ELSE IF "send_pair_check_ack" \in CmdsOf(t) THEN p ELSE bAlt
               /\ UNCHANGED <<client, cRuns, cAlt>>
  BY ZenonT(60) DEF BackendTurn, CmdsOf
<1>2. BackendKind(t) /\ t.from = backend.State /\ t.on = on
  <2>1. t = GoCase(BackendHandleEvent, backend, on, h)
    BY Zenon, <1>1
  <2> HIDE DEF h
  <2>2. QED
    BY <2>1, BackendCase
<1>3. /\ DOMAIN backend' = DOMAIN NewBackend /\ backend'.State = t.to /\ t.to \in BackendStates
      /\ backend'.State \in OnDirect <=> backend'.BActivePath = "alt"
      /\ backend'.State \in OnDirect <=> backend'.BDispatcherPath = "alt"
      /\ backend'.State \in OnDirect <=> backend'.MonitorTarget = "alt"
      /\ backend'.State \in OnDirect <=> backend'.AltSignal = "ready"
      /\ \A r \in AltRuns \union {"monitor"} : backend'.State \in OnDirect <=> r \in bRuns'
      /\ backend'.BackoffLevel <= 1
      /\ backend'.State \in OnDirect => backend'.BackoffLevel = 0
  BY Zenon, <1>1, <1>2, BackendAfter
<1>4. p \in Pipes \union {0}
  BY DEF PathInv, PathTyped
<1>5. /\ DOMAIN wire' = Pipes /\ ends' \in [Pipes -> SUBSET {"b", "c"}]
      /\ \A x \in Pipes \ {p} : wire'[x] = wire[x] /\ ends'[x] = ends[x]
      /\ p # 0 /\ "pair_check_ack" \in wire'[p] =>
           /\ "close_alt_path" \notin CmdsOf(t)
           /\ "pair_check_ack" \in wire[p] \/ "send_pair_check_ack" \in CmdsOf(t)
      /\ p # 0 /\ "close_alt_path" \in CmdsOf(t) => "b" \notin ends'[p]
      /\ "close_alt_path" \notin CmdsOf(t) => ends' = ends
  <2>1. PathTyped /\ "b" \in {"b", "c"} /\ FALSE \in BOOLEAN
    BY DEF PathInv
  <2>2. QED
    BY Zenon, <1>1, <1>4, <2>1, PipeAfter
<1>6. \/ /\ backend.State \notin OnDirect /\ t.to = "AltActive" /\ p \in Pipes
         /\ "close_alt_path" \notin CmdsOf(t) /\ bAlt' = p
      \/ /\ backend.State \in OnDirect /\ t.to = "RelayBackoff" /\ p = bAlt
         /\ "close_alt_path" \in CmdsOf(t) /\ bAlt' = 0
      \/ /\ backend.State \in OnDirect <=> t.to \in OnDirect
         /\ "close_alt_path" \notin CmdsOf(t) /\ "send_pair_check_ack" \notin CmdsOf(t) /\ bAlt' = bAlt
  <2>1. CASE BackendEnters(t)
    BY ZenonT(60), <1>1, <1>2, <2>1 DEF BackendEnters, StartCmds, OnDirect
  <2>2. CASE BackendLeaves(t)
    BY ZenonT(60), <1>1, <1>2, <2>2 DEF BackendLeaves, StopCmds
  <2>3. CASE BackendStays(t)
    BY ZenonT(60), <1>1, <1>2, <2>3 DEF BackendStays, StartCmds, StopCmds
  <2>4. QED
    BY <1>2, <2>1, <2>2, <2>3 DEF BackendKind
<1>7. 0 \notin Pipes /\ bAlt \in Pipes \union {0} /\ (backend.State \in OnDirect <=> bAlt # 0)
  BY SessionPathAssumption DEF PathInv, PathTyped, BackendPathHeld, OnDirect
<1>8. bAlt' \in Pipes \union {0} /\ (t.to \in OnDirect <=> bAlt' # 0)
  BY SMTT(60), Z3T(60), <1>6, <1>7 DEF OnDirect
<1>9. PathTyped'
  BY ZenonT(60), <1>1, <1>3, <1>5, <1>8 DEF PathInv, PathTyped
<1>10. BackendPathHeld'
  BY SMTT(60), Z3T(60), <1>3, <1>8 DEF BackendPathHeld, OnDirect
<1>11. ClientNeverAlone'
  <2>1. client.State = "AltActive" => cAlt \in Pipes /\ (bAlt = cAlt \/ ends[cAlt] # {"b", "c"})
    BY DEF PathInv, PathTyped, ClientNeverAlone, Dead
  <2>2. client.State = "AltActive" => bAlt' = cAlt \/ ends'[cAlt] # {"b", "c"}
    BY SMTT(60), Z3T(60), <1>5, <1>6, <1>7, <2>1
  <2>3. QED
    BY ZenonT(60), <1>1, <2>2 DEF PathInv, ClientNeverAlone, Dead
<1>12. \A x \in Pipes : "pair_check_ack" \in wire'[x] => bAlt' = x
  <2>1. \A x \in Pipes : "pair_check_ack" \in wire[x] => bAlt = x
    BY SMTT(60), Z3T(60) DEF PathInv
  <2>2. QED
    BY SMTT(60), Z3T(60), <1>5, <1>6, <1>7, <2>1
<1>13. QED
  BY ZenonT(60), <1>1, <1>3, <1>9, <1>10, <1>11, <1>12 DEF PathInv

-----------------------------------------------------------------------------
(* A turn of the client's event loop.                                      *)

\* The case that runs is of one of the kinds, also where none matches.
LEMMA ClientCase ==
  ASSUME PathInv, NEW on, NEW h, NEW t, t = GoCase(ClientHandleEvent, client, on, h)
  PROVE  ClientKind(t) /\ t.from = client.State /\ t.on = on
<1>1. CASE t = Plain(client.State, on, client.State)
  <2>1. t.from = client.State /\ t.to = client.State /\ t.on = on /\ t.upd = NoUpd /\ t.emits = << >>
    BY ONLY ZenonT(60), <1>1 DEF Plain, Row
  <2>2. CmdsOf(t) = {}
    BY ONLY <2>1 DEF CmdsOf
  <2>3. DOMAIN t.upd = {}
    BY ONLY <2>1 DEF NoUpd
  <2>4. client.State \in ClientStates
    BY DEF PathInv, PathTyped
  <2>5. ClientStays(t) \/ ClientOff(t)
    BY ONLY SMTT(60), Z3T(60), <2>1, <2>2, <2>3, <2>4 DEF ClientStays, ClientOff
  <2>6. QED
    BY SMTT(60), Z3T(60), <2>1, <2>5 DEF ClientKind
<1>2. CASE \E i \in DOMAIN ClientHandleEvent : t = ClientHandleEvent[i] /\ t.from = client.State /\ t.on = on
  BY Zenon, <1>2, ClientRows
<1>3. DOMAIN ClientHandleEvent \subseteq Nat
  BY Zenon, ClientRows
<1>4. QED
  BY <1>1, <1>2, <1>3, GoCaseMatches

\* A turn of the client's loop keeps the invariant, whatever the event is: on
\* the connection it holds, or on a fresh one for a dial that succeeds.
LEMMA ClientTurnKeeps ==
  ASSUME PathInv, NEW on, NEW p, NEW got, NEW done, NEW q, ClientTurn(on, p, got, done, q),
         IF on = Internal("dial_ok")
         THEN p \in Pipes \ {bAlt} /\ wire[p] = {} /\ done = {"dialing"} /\ "dialing" \in cRuns
         ELSE p = cAlt /\ done \subseteq {"dialing"},
         on = Recv("pair_check_ack") => cAlt # 0 /\ bAlt = cAlt
  PROVE  PathInv'
<1> DEFINE G == GuardsTrue(client, q, MaxPingFailures)
           h == Hooks(G, {}, FALSE)
           opened == "dialing" \in done /\ on = Internal("dial_ok")
<1>1. PICK t : /\ t = GoCase(ClientHandleEvent, client, on, h)
               /\ client' = writeGoTransitionBody(client, t, h, MaxBackoffLevel)
               /\ cRuns' = Running(cRuns \ done, CmdsOf(t))
               /\ OnPipe("c", p, got, CmdsOf(t), opened)
               /\ cAlt' = IF "close_alt_path" \in CmdsOf(t) THEN 0 ELSE p
               /\ UNCHANGED <<backend, bRuns, bAlt>>
  BY ZenonT(60) DEF ClientTurn, CmdsOf
<1>2. ClientKind(t) /\ t.from = client.State /\ t.on = on
  <2>1. t = GoCase(ClientHandleEvent, client, on, h)
    BY Zenon, <1>1
  <2> HIDE DEF h
  <2>2. QED
    BY <2>1, ClientCase
<1>3. p \in Pipes \union {0} /\ 0 \notin Pipes
  BY SessionPathAssumption DEF PathInv, PathTyped
<1>4. /\ DOMAIN wire' = Pipes /\ ends' \in [Pipes -> SUBSET {"b", "c"}]
      /\ \A x \in Pipes \ {p} : wire'[x] = wire[x] /\ ends'[x] = ends[x]
      /\ p # 0 /\ "pair_check_ack" \in wire'[p] =>
           /\ "close_alt_path" \notin CmdsOf(t)
           /\ "pair_check_ack" \in wire[p] \/ "send_pair_check_ack" \in CmdsOf(t)
      /\ p # 0 /\ "close_alt_path" \in CmdsOf(t) => "c" \notin ends'[p]
      /\ ~ opened /\ "close_alt_path" \notin CmdsOf(t) => ends' = ends
  <2>1. PathTyped /\ "c" \in {"b", "c"} /\ opened \in BOOLEAN /\ OnPipe("c", p, got, CmdsOf(t), opened)
    BY ZenonT(60), <1>1 DEF PathInv
  <2> HIDE DEF opened
  <2>2. QED
    BY SMTT(60), Z3T(60), <1>3, <2>1, PipeAfter
<1>5. /\ DOMAIN client' = DOMAIN NewClient /\ client'.State = t.to
      /\ "CDispatcherPath" \notin DOMAIN t.upd => client'.CDispatcherPath = client.CDispatcherPath
      /\ "CDispatcherPath" \in DOMAIN t.upd /\ t.upd["CDispatcherPath"] = Lit("alt") =>
           client'.CDispatcherPath = "alt"
  <2>1. DOMAIN client = DOMAIN NewClient /\ "State" \in DOMAIN client /\ "CDispatcherPath" \in DOMAIN client \ {"State"}
    BY DEF PathInv, PathTyped, NewClient
  <2>2. Assigned(client, t, MaxBackoffLevel, client')
    BY Zenon, <1>1, <2>1, CaseAssigns
  <2>3. QED
    BY Zenon, <2>1, <2>2 DEF Assigned
<1>6. /\ "stream_reader" \in cRuns' <=> "start_alt_stream_reader" \in CmdsOf(t) \/
                                        ("stream_reader" \in cRuns \ done /\ "stop_alt_stream_reader" \notin CmdsOf(t))
      /\ "dg_reader" \in cRuns' <=> "start_alt_dg_reader" \in CmdsOf(t) \/
                                    ("dg_reader" \in cRuns \ done /\ "stop_alt_dg_reader" \notin CmdsOf(t))
      /\ "dialing" \in cRuns' <=> "dial_candidate" \in CmdsOf(t) \/ "dialing" \in cRuns \ done
  BY Zenon, <1>1, RunsAfter
<1>7. /\ client.State = "AltActive" <=> "stream_reader" \in cRuns \ done
      /\ client.State = "AltActive" <=> "dg_reader" \in cRuns \ done
      /\ client.State = "AltActive" =>
           client.CDispatcherPath = "alt" /\ cAlt # 0 /\ (bAlt = cAlt \/ ends[cAlt] # {"b", "c"})
      /\ client.State \in {"PairChecking", "AltActive"} => "dialing" \notin cRuns
  <2>1. \A r \in done : r = "dialing"
    OBVIOUS
  <2>2. QED
    BY <2>1 DEF PathInv, ClientNeverAlone, Dead
<1>8. on = Internal("dial_ok") => client.State \notin {"PairChecking", "AltActive"}
  BY <1>7
<1>9. Internal("dial_ok") # Recv("pair_check_ack")
  BY SMTT(60), Z3T(60) DEF Internal, Recv
<1>10. /\ t.to \in ClientStates /\ "send_pair_check_ack" \notin CmdsOf(t)
       /\ t.to = "AltActive" <=> "stream_reader" \in cRuns'
       /\ t.to = "AltActive" <=> "dg_reader" \in cRuns'
       /\ t.to = "AltActive" =>
            client'.CDispatcherPath = "alt" /\ cAlt' # 0 /\ (bAlt' = cAlt' \/ ends'[cAlt'] # {"b", "c"})
       /\ t.to \in {"PairChecking", "AltActive"} => "dialing" \notin cRuns'
  <2>1. CASE ClientEnters(t)
    <3>1. /\ client.State = "PairChecking" /\ t.to = "AltActive" /\ on = Recv("pair_check_ack")
          /\ t.upd = ClientActivated
          /\ {"start_alt_stream_reader", "start_alt_dg_reader"} \subseteq CmdsOf(t)
          /\ \A c \in {"close_alt_path", "send_pair_check_ack", "dial_candidate"} : c \notin CmdsOf(t)
      BY SMTT(60), Z3T(60), <1>2, <2>1 DEF ClientEnters
    <3>2. "CDispatcherPath" \in DOMAIN t.upd /\ t.upd["CDispatcherPath"] = Lit("alt")
      <4>1. t.upd = ClientActivated
        BY <3>1
      <4>2. QED
        BY ONLY SMTT(60), Z3T(60), <4>1 DEF ClientActivated
    <3>3. p = cAlt /\ cAlt # 0 /\ bAlt = cAlt
      BY Zenon, <1>9, <3>1
    <3>4. cAlt' = cAlt /\ bAlt' = bAlt
      BY ZenonT(60), <1>1, <3>1, <3>3
    <3>5. QED
      BY ONLY SMTT(60), Z3T(60), <1>5, <1>6, <1>7, <3>1, <3>2, <3>3, <3>4 DEF ClientStates
  <2>2. CASE ClientLeaves(t)
    BY ONLY <1>6, <2>2 DEF ClientLeaves
  <2>3. CASE ClientStays(t)
    <3>1. p = cAlt /\ ~ opened
      BY SMTT(60), Z3T(60), <1>2, <1>8, <2>3 DEF ClientStays
    <3>2. cAlt' = cAlt /\ bAlt' = bAlt /\ ends' = ends
      BY ZenonT(60), <1>1, <1>4, <2>3, <3>1 DEF ClientStays
    <3>3. client.State = "AltActive"
      BY SMTT(60), Z3T(60), <1>2, <2>3 DEF ClientStays
    <3>4. QED
      BY ONLY SMTT(60), Z3T(60), <1>5, <1>6, <1>7, <2>3, <3>2, <3>3 DEF ClientStays, ClientStates
  <2>4. CASE ClientOff(t)
    <3>1. on = Internal("dial_ok") => "dialing" \notin cRuns \ done
      OBVIOUS
    <3>2. QED
      BY ONLY SMTT(60), Z3T(60), <1>2, <1>6, <1>7, <2>4, <3>1 DEF ClientOff
  <2>5. QED
    BY SMTT(60), Z3T(60), <1>2, <2>1, <2>2, <2>3, <2>4 DEF ClientKind
<1>11. \A x \in Pipes : "pair_check_ack" \in wire'[x] => bAlt' = x
  <2>1. \A x \in Pipes : "pair_check_ack" \in wire[x] => bAlt = x
    BY SMTT(60), Z3T(60) DEF PathInv
  <2>2. bAlt' = bAlt
    BY ZenonT(60), <1>1
  <2>3. QED
    BY ONLY SMTT(60), Z3T(60), <1>3, <1>4, <1>10, <2>1, <2>2
<1>12. cAlt' \in Pipes \union {0}
  BY ZenonT(60), <1>1, <1>3
<1>13. PathTyped'
  BY ZenonT(60), <1>1, <1>4, <1>5, <1>10, <1>12 DEF PathInv, PathTyped
<1>14. BackendPathHeld'
  BY ZenonT(60), <1>1 DEF PathInv, BackendPathHeld
<1>15. ClientNeverAlone'
  BY ZenonT(60), <1>5, <1>10 DEF ClientNeverAlone, Dead
<1>16. QED
  BY ZenonT(60), <1>1, <1>5, <1>10, <1>11, <1>13, <1>14, <1>15 DEF PathInv

-----------------------------------------------------------------------------
(* The whole system.                                                       *)

\* Both machines start on the relay, with nothing running.
LEMMA PathInit == Init => PathInv
<1> SUFFICES ASSUME Init PROVE PathInv
  OBVIOUS
<1>1. /\ DOMAIN backend = DOMAIN NewBackend /\ backend.State = "RelayConnected"
      /\ backend.BActivePath = "relay" /\ backend.BDispatcherPath = "relay" /\ backend.MonitorTarget = "none"
      /\ backend.AltSignal = "pending" /\ backend.BackoffLevel = 0
  BY ZenonT(60) DEF Init, NewBackend
<1>2. DOMAIN client = DOMAIN NewClient /\ client.State = "RelayConnected"
  BY ZenonT(60) DEF Init, NewClient
<1>3. /\ bRuns = {} /\ cRuns = {} /\ bAlt = 0 /\ cAlt = 0
      /\ wire = [p \in Pipes |-> {}] /\ ends = [p \in Pipes |-> {}]
  BY DEF Init
<1>4. PathTyped
  BY ONLY <1>1, <1>2, <1>3 DEF PathTyped, BackendStates, ClientStates
<1>5. BackendPathHeld
  BY ONLY <1>1, <1>3 DEF BackendPathHeld, AltRuns
<1>6. ClientNeverAlone
  BY ONLY <1>2, <1>3 DEF ClientNeverAlone
<1>7. QED
  BY ONLY <1>1, <1>2, <1>3, <1>4, <1>5, <1>6 DEF PathInv, OnDirect

\* The steps of the backend.
BackendMoves ==
  \/ CandidatesGathered \/ CandidatesRefreshTick \/ CandidatesTimeout \/ Timers
  \/ BackendReadError \/ PairCheckArrives \/ PathPongArrives \/ BackendApp

\* Every one of them is a turn of the loop.
LEMMA BackendKeeps == ASSUME PathInv, BackendMoves PROVE PathInv'
<1>1. \A ev : Internal(ev) # Recv("pair_check") /\ Recv("path_pong") # Recv("pair_check")
  BY DEF Internal, Recv
<1>2. ASSUME NEW on, on # Recv("pair_check"), NEW got, NEW q,
             NEW done \in {{}, {"backoff_timer"}, {"pong_timer"}}, BackendTurn(on, bAlt, got, done, q)
      PROVE  PathInv'
  <2>1. \A r \in done : r \notin AltRuns \union {"monitor"}
    BY DEF AltRuns
  <2>2. QED
    BY Zenon, <1>2, <2>1, BackendTurnKeeps
<1>3. CASE CandidatesGathered
  BY ZenonT(60), <1>1, <1>2, <1>3 DEF CandidatesGathered
<1>4. CASE CandidatesRefreshTick
  BY <1>1, <1>2, <1>4 DEF CandidatesRefreshTick
<1>5. CASE CandidatesTimeout
  BY ZenonT(60), <1>1, <1>2, <1>5 DEF CandidatesTimeout
<1>6. CASE Timers
  <2>1. CASE PingTick
    BY ZenonT(60), <1>1, <1>2, <2>1 DEF PingTick
  <2>2. CASE PongTimeout
    BY ZenonT(60), <1>1, <1>2, <2>2 DEF PongTimeout
  <2>3. CASE BackoffExpired
    BY ZenonT(60), <1>1, <1>2, <2>3 DEF BackoffExpired
  <2>4. QED
    BY <1>6, <2>1, <2>2, <2>3 DEF Timers
<1>7. CASE BackendReadError
  BY ZenonT(60), <1>1, <1>2, <1>7 DEF BackendReadError
<1>8. CASE PairCheckArrives
  <2>1. PICK p \in Pipes : BackendTurn(Recv("pair_check"), p, {"pair_check"}, {}, TRUE)
    BY ZenonT(60), <1>8 DEF PairCheckArrives
  <2>2. PICK on, done : on = Recv("pair_check") /\ done = {} /\ BackendTurn(on, p, {"pair_check"}, done, TRUE)
    BY ZenonT(60), <2>1
  <2>3. (IF on = Recv("pair_check") THEN p \in Pipes ELSE p = bAlt)
        /\ \A r \in done : r \notin AltRuns \union {"monitor"}
    BY <2>2
  <2>4. QED
    BY Zenon, <2>2, <2>3, BackendTurnKeeps
<1>9. CASE PathPongArrives
  BY ZenonT(60), <1>1, <1>2, <1>9 DEF PathPongArrives
<1>10. CASE BackendApp
  BY ZenonT(60), <1>1, <1>2, <1>10 DEF BackendApp
<1>11. QED
  BY SMTT(60), Z3T(60), <1>3, <1>4, <1>5, <1>6, <1>7, <1>8, <1>9, <1>10 DEF BackendMoves

\* The steps of the client.
ClientMoves ==
  \/ CandidatesArrive \/ DialOk \/ DialFailed \/ VerifyTimeout \/ PairCheckAckArrives
  \/ PathPingArrives \/ ClientReadError \/ RelayOk \/ ClientApp

\* Every one of them is a turn of the loop; an acknowledgement is on the wire
\* only where the backend is.
LEMMA ClientKeeps == ASSUME PathInv, ClientMoves PROVE PathInv'
<1>1. /\ \A ev : Internal(ev) # Recv("pair_check_ack")
      /\ \A msg : Recv(msg) # Internal("dial_ok")
      /\ \A ev : ev # "dial_ok" => Internal(ev) # Internal("dial_ok")
      /\ \A msg : msg # "pair_check_ack" => Recv(msg) # Recv("pair_check_ack")
  BY DEF Internal, Recv
<1>2. ASSUME NEW on, on # Internal("dial_ok"), on # Recv("pair_check_ack"), NEW got, NEW q,
             NEW done \in {{}, {"dialing"}}, ClientTurn(on, cAlt, got, done, q)
      PROVE  PathInv'
  <2>1. done \subseteq {"dialing"}
    OBVIOUS
  <2>2. QED
    BY Zenon, <1>2, <2>1, ClientTurnKeeps
<1>3. CASE CandidatesArrive
  BY <1>1, <1>2, <1>3 DEF CandidatesArrive
<1>4. CASE DialOk
  <2>1. PICK p \in Pipes \ {bAlt, cAlt} :
          "dialing" \in cRuns /\ wire[p] = {} /\ ClientTurn(Internal("dial_ok"), p, {}, {"dialing"}, TRUE)
    BY ZenonT(60), <1>4 DEF DialOk
  <2>2. p \in Pipes \ {bAlt}
    OBVIOUS
  <2>3. QED
    BY Zenon, <1>1, <2>1, <2>2, ClientTurnKeeps
<1>5. CASE DialFailed
  BY ZenonT(60), <1>1, <1>2, <1>5 DEF DialFailed
<1>6. CASE VerifyTimeout
  BY ZenonT(60), <1>1, <1>2, <1>6 DEF VerifyTimeout
<1>7. CASE PairCheckAckArrives
  <2>1. /\ cAlt # 0 /\ "pair_check_ack" \in wire[cAlt]
        /\ ClientTurn(Recv("pair_check_ack"), cAlt, {"pair_check_ack"}, {}, TRUE)
    BY ZenonT(60), <1>7 DEF PairCheckAckArrives
  <2>2. bAlt = cAlt
    BY <2>1 DEF PathInv, PathTyped
  <2>3. {} \subseteq {"dialing"}
    OBVIOUS
  <2>4. QED
    BY Zenon, <1>1, <2>1, <2>2, <2>3, ClientTurnKeeps
<1>8. CASE PathPingArrives
  BY ZenonT(60), <1>1, <1>2, <1>8 DEF PathPingArrives
<1>9. CASE ClientReadError
  <2>1. PICK r \in {<<"stream_reader", "alt_stream_error">>, <<"dg_reader", "alt_error">>} :
          ClientTurn(Internal(r[2]), cAlt, {}, {}, TRUE)
    BY Zenon, <1>9 DEF ClientReadError
  <2>2. r[2] # "dial_ok"
    OBVIOUS
  <2>3. QED
    BY ZenonT(60), <1>1, <1>2, <2>1, <2>2
<1>10. CASE RelayOk
  BY ZenonT(60), <1>1, <1>2, <1>10 DEF RelayOk
<1>11. CASE ClientApp
  BY ZenonT(60), <1>1, <1>2, <1>11 DEF ClientApp
<1>12. QED
  BY SMTT(60), Z3T(60), <1>3, <1>4, <1>5, <1>6, <1>7, <1>8, <1>9, <1>10, <1>11 DEF ClientMoves

\* A link that breaks and a datagram that is lost take acknowledgements off
\* the wire, never put one there, and leave no connection open that was not.
LEMMA LinkKeeps == ASSUME PathInv, LinkBreaks \/ DatagramLost PROVE PathInv'
<1>1. /\ UNCHANGED <<backend, client, bRuns, cRuns, bAlt, cAlt>>
      /\ DOMAIN wire' = Pipes /\ ends' \in [Pipes -> SUBSET {"b", "c"}]
      /\ \A p \in Pipes : "pair_check_ack" \in wire'[p] => "pair_check_ack" \in wire[p]
      /\ \A p \in Pipes : ends[p] # {"b", "c"} => ends'[p] # {"b", "c"}
  <2>1. CASE LinkBreaks
    BY <2>1 DEF LinkBreaks, PathInv, PathTyped
  <2>2. CASE DatagramLost
    BY <2>2 DEF DatagramLost, PathInv, PathTyped
  <2>3. QED
    BY <2>1, <2>2
<1>2. PathTyped'
  BY SMTT(60), Z3T(60), <1>1 DEF PathInv, PathTyped
<1>3. BackendPathHeld'
  BY SMTT(60), Z3T(60), <1>1 DEF PathInv, BackendPathHeld
<1>4. ClientNeverAlone'
  BY <1>1 DEF PathInv, PathTyped, ClientNeverAlone, Dead
<1>5. QED
  BY SMTT(60), Z3T(60), <1>1, <1>2, <1>3, <1>4 DEF PathInv

\* PathInv is inductive: whatever the events, their order and the faults, for
\* any number of direct connections and any limits of the health checks.
THEOREM PathInvariant == Spec => []PathInv
<1>1. PathInv /\ [Next]_vars => PathInv'
  <2> SUFFICES ASSUME PathInv, [Next]_vars PROVE PathInv'
    BY SMTT(60), Z3T(60)
  <2>1. CASE UNCHANGED vars
    BY ZenonT(60), <2>1 DEF vars, PathInv, PathTyped, BackendPathHeld, ClientNeverAlone, Dead
  <2>2. CASE Next
    <3>1. BackendMoves \/ ClientMoves \/ LinkBreaks \/ DatagramLost
      BY Zenon, <2>2 DEF Next, BackendMoves, ClientMoves
    <3>2. QED
      BY Zenon, <3>1, BackendKeeps, ClientKeeps, LinkKeeps
  <2>3. QED
    BY <2>1, <2>2
<1>2. QED
  BY PathInit, <1>1, PTL DEF Spec

\* The backend's machine and its event loop agree on the direct path: the
\* commands of every transition into and out of AltActive and AltDegraded
\* leave nothing running and nothing missing.
THEOREM BackendPathAlwaysHeld == Spec => []BackendPathHeld
<1>1. PathInv => BackendPathHeld
  BY DEF PathInv
<1>2. QED
  BY PathInvariant, <1>1, PTL

\* The client is on a direct connection only while the backend is on it too,
\* or has closed it: the pair check's acknowledgement is evidence enough.
THEOREM ClientIsNeverAlone == Spec => []ClientNeverAlone
<1>1. PathInv => ClientNeverAlone
  BY DEF PathInv
<1>2. QED
  BY PathInvariant, <1>1, PTL
=============================================================================
