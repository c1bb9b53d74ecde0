------------------------- MODULE ProtocolMachine -------------------------
(* The state machine framework of the package protocol: what a transition *)
(* is (protocol.go), what the table interpreter does with one (machine.go) *)
(* and what the code that ExportGo writes for one does (gogen.go).  A      *)
(* machine's transitions are a sequence: the order decides which of two    *)
(* transitions on the same trigger is tried first.                         *)
EXTENDS Naturals, Sequences, FiniteSets, FiniteSetsExt, Functions, TLC

(* The two kinds of trigger. *)
Recv(msg) == <<"recv", msg>>
Internal(desc) == <<"internal", desc>>

(* The right-hand side of an update: a literal, the variable plus one, or  *)
(* an expression that the generator does not translate.  Of the latter,    *)
(* Capped is Min(v + 1, max), Add/AddVar/DelVar change a set, and Calc is  *)
(* any other (its value is named, not computed).                           *)
Lit(v)    == [k |-> "lit", v |-> v]
Inc       == [k |-> "inc"]
Capped    == [k |-> "capped"]
Add(v)    == [k |-> "add", v |-> v]
AddVar(x) == [k |-> "addvar", x |-> x]
DelVar(x) == [k |-> "delvar", x |-> x]
Calc(v)   == [k |-> "calc", v |-> v]
NoUpd     == << >>

(* A transition: guard and do are "" when it has none; emits is the        *)
(* messages the table sends, or the commands that HandleEvent returns.     *)
Row(from, on, guard, do, upd, emits, to) ==
  [from |-> from, on |-> on, guard |-> guard, do |-> do, upd |-> upd, emits |-> emits, to |-> to]

Plain(from, on, to) == Row(from, on, "", "", NoUpd, << >>, to)

Emit(from, on, emits, to) == Row(from, on, "", "", NoUpd, emits, to)

(* What FlattenedTransitions makes of the transitions of a superstate: a   *)
(* self-loop of each leaf.  evs is a sequence of <<event, emits>>.         *)
Loops(leaves, evs) ==
  [i \in 1..(Len(leaves) * Len(evs)) |->
     LET leaf == leaves[((i - 1) % Len(leaves)) + 1]
         ev   == evs[((i - 1) \div Len(leaves)) + 1]
     IN  Emit(leaf, Internal(ev[1]), ev[2], leaf)]

(* The transitions of each state, in order (@@ makes TLC evaluate it once). *)
ByState(rows, states) == [s \in states |-> SelectSeq(rows, LAMBDA t : t.from = s)] @@ << >>

---------------------------------------------------------------------------
(* The hooks an embedder registers, as they are for one call: the guards   *)
(* that evaluate to true, the guards and actions nobody registered, and    *)
(* whether the action, if one runs, returns an error.                      *)
Hooks(true, missing, fails) == [true |-> true, absent |-> missing, fails |-> fails]

(* Mutant: an increment is left to the action, too. *)
goSelfUpdate_Left(u) == FALSE

(* goSimpleLiteral and goSelfUpdate: the updates written as assignments;   *)
(* the others become the comment "(set by action)".                        *)
goSimpleLiteral(u) == u.k = "lit"

goSelfUpdate(u) == u.k = "inc"

(* The value the table's expression has; max_backoff_level is a variable   *)
(* no transition updates, and the generated machine has no field for it.   *)
ExprValue(m, x, u, MaxBackoffLevel) ==
  CASE u.k \in {"lit", "calc"} -> u.v
    [] u.k = "inc"    -> m[x] + 1
    [] u.k = "capped" -> IF m[x] + 1 < MaxBackoffLevel THEN m[x] + 1 ELSE MaxBackoffLevel
    [] u.k = "add"    -> m[x] \union {u.v}
    [] u.k = "addvar" -> m[x] \union {m[u.x]}
    [] u.k = "delvar" -> m[x] \ {m[u.x]}

ActionRuns(t, h) == t.do # "" /\ t.do \notin h.absent

(* Mutant: the state is assigned before the action may veto. *)
writeGoTransitionBody_StateFirst(m, t, h, max) ==
  [x \in DOMAIN m |->
     IF x = "State" THEN t.to
     ELSE IF x \notin DOMAIN t.upd \/ (ActionRuns(t, h) /\ h.fails) THEN m[x]
     ELSE IF goSimpleLiteral(t.upd[x]) \/ goSelfUpdate(t.upd[x]) \/ ActionRuns(t, h)
          THEN ExprValue(m, x, t.upd[x], max)
          ELSE m[x]]

(* The body of a generated case: the action runs first and may veto; the   *)
(* assignments follow; what is "set by action" changes only if an action   *)
(* runs (the callback is the embedder's: it sets what the comment names).  *)
writeGoTransitionBody(m, t, h, max) ==
  IF ActionRuns(t, h) /\ h.fails
  THEN m
  ELSE [x \in DOMAIN m |->
          IF x = "State" THEN t.to
          ELSE IF x \notin DOMAIN t.upd THEN m[x]
          ELSE IF goSimpleLiteral(t.upd[x]) \/ goSelfUpdate(t.upd[x]) \/ ActionRuns(t, h)
               THEN ExprValue(m, x, t.upd[x], max)
               ELSE m[x]]

(* A generated switch: the first case whose state, trigger and guard match *)
(* (a guard that is not registered is false).                              *)
Matching(rows, m, on, h) ==
  {i \in DOMAIN rows : /\ rows[i].from = m.State
                       /\ rows[i].on = on
                       /\ rows[i].guard = "" \/ rows[i].guard \in h.true \ h.absent}

(* The case that runs; where none matches, the switch falls through.       *)
GoCase(rows, m, on, h) ==
  LET hit == Matching(rows, m, on, h)
  IN  IF hit = {} THEN Plain(m.State, on, m.State) ELSE rows[Min(hit)]

GoDispatch(rows, m, on, h, max) == writeGoTransitionBody(m, GoCase(rows, m, on, h), h, max)

(* The commands HandleEvent returns with it: none if no case matches or    *)
(* the action fails.                                                       *)
GoCommands(rows, m, on, h) ==
  LET t == GoCase(rows, m, on, h)
  IN  IF ActionRuns(t, h) /\ h.fails THEN << >> ELSE t.emits

---------------------------------------------------------------------------
(* machine.go.  tryTransitions on the transitions ix (indices of rows, in  *)
(* order): it stops at the first without a guard, with a guard that holds, *)
(* or with a guard nobody registered; a missing hook or a failed action is *)
(* an error, and leaves the state as it was.                               *)
tryTransitions(rows, ix, s, h) ==
  LET stop == {i \in ix : rows[i].guard = "" \/ rows[i].guard \in h.true \union h.absent}
      t    == rows[Min(stop)]
  IN  IF \/ stop = {}
         \/ t.guard \in h.absent
         \/ t.do # "" /\ (t.do \in h.absent \/ h.fails)
      THEN s
      ELSE t.to

(* HandleMessage, and Step with an event.                                  *)
MachineDispatch(rows, s, on, h) ==
  tryTransitions(rows, {i \in DOMAIN rows : rows[i].from = s /\ rows[i].on = on}, s, h)

(* Step(""): the internal transitions of the state, event by event, in the *)
(* order in which Go ranges over the index, that is in any order.  Which   *)
(* events it can stop at, and the state it then leaves the machine in.     *)
MachineStepAny(rows, s, h) ==
  LET ix == {i \in DOMAIN rows : rows[i].from = s /\ rows[i].on[1] = "internal"}
      Stops(on) == \E i \in ix : /\ rows[i].on = on
                                 /\ rows[i].guard = "" \/ rows[i].guard \in h.true \union h.absent
  IN  {<<on, MachineDispatch(rows, s, on, h)>> : on \in {e \in {rows[i].on : i \in ix} : Stops(e)}}

(* The hooks a machine names.                                              *)
HookNames(rows) ==
  ({rows[i].guard : i \in DOMAIN rows} \union {rows[i].do : i \in DOMAIN rows}) \ {""}

---------------------------------------------------------------------------
(* A machine and everything that can run it: the table, the generated      *)
(* HandleMessage and Step, the generated HandleEvent, each indexed by      *)
(* state as NewMachine does, and the record the constructor returns.  on   *)
(* is what a caller may pass in: the whole declared alphabet, also where   *)
(* this machine never reacts to it; guarded and acting are the triggers at *)
(* which some executor asks a guard or calls an action.                    *)
Machine(table, msg, step, event, states, new, msgs, events) ==
  LET all == Range(table \o msg \o step \o event) IN
  [guarded |-> {t.on : t \in {r \in all : r.guard # ""}},
   acting |-> {t.on : t \in {r \in all : r.do # ""}},
   table |-> ByState(table, states), cases |-> ByState(msg \o step, states),
   event |-> ByState(event, states), new |-> new, hooks |-> HookNames(table),
   on |-> {Recv(x) : x \in msgs} \union {Internal(e) : e \in events}]
=============================================================================
