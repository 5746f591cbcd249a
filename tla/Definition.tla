----------------------------- MODULE Definition -----------------------------
(***************************************************************************)
(* Device definitions (bm-devicedef): what a definition of an instrument   *)
(* holds, how it is merged over its base and reduced to one link, and the  *)
(* validator's errors.  Texts are reduced to what is asked of them: a      *)
(* template to its placeholders, an expression to the variables it reads,  *)
(* a regular expression to nothing (one that does not compile is not       *)
(* modelled).  A value that may be absent is a set of at most one element. *)
(***************************************************************************)
EXTENDS Integers, FiniteSets, Sequences

CONSTANTS
  Names,      \* command names
  Keys,       \* parameter names
  Shadow,     \* state variables
  Ops,        \* operations of a class
  Statuses,   \* status keys of a class
  Removed     \* a YAML null: removes what the base has

ASSUME NamesFinite == IsFiniteSet(Names) /\ IsFiniteSet(Keys)
ASSUME RemovedAssumption == Removed \notin Names \cup Keys \cup Shadow \cup Ops \cup Statuses

IsMaybe(m, S) == m \subseteq S /\ \A x, y \in m : x = y
Given(m) == m # {}
It(m) == CHOOSE x \in m : TRUE
IsPartial(f, S, T) == DOMAIN f \subseteq S /\ \A k \in DOMAIN f : f[k] \in T
Items(s) == {s[i] : i \in DOMAIN s}

(***************************************************************************)
(* The document.                                                           *)
(***************************************************************************)
Links == {"serial", "usbtmc", "tcpip", "vxi11"}
RxModes == {"terminator", "fixed", "idle", "message"}
Replies == {"line", "none", "bytes", "block"}
Safeties == {"query", "configure", "energize"}
\* number stands for integer too, classonly for si, bytes and list
Kinds == {"number", "bool", "enum", "string", "classonly"}
Formats == {"%d", "%03d", "%g", "%.2f", "%f", "%5d", "%s"}
Shapes == {"number", "word", "any"}       \* what a parse pipeline lets through
Variables == Names \cup {"ch", "state"}

Framing ==
  [mode: RxModes, terminator: BOOLEAN, idle: BOOLEAN, timeout: BOOLEAN,
   drain: BOOLEAN, modbus: BOOLEAN]

\* values: what an enum writes for its values, numbers or words
IsParam(p) ==
  /\ p.kind \in Kinds /\ p.values \subseteq {"number", "word"}
  /\ IsMaybe(p.format, Formats) /\ IsMaybe(p.from, SUBSET Variables)

\* args: which parameters a step passes; bound: those that hold {value}; only: the step
\* is for some values.  A plain name passes nothing of its own.
Step ==
  {s \in [call: BOOLEAN, cmd: Names, args: SUBSET Keys, bound: SUBSET Keys, only: BOOLEAN] :
     s.bound \subseteq s.args /\ (s.call \/ (s.args = {} /\ ~s.only))}

ModbusOp == [read: BOOLEAN, value: SUBSET Keys, single: BOOLEAN, words: 1..2]

IsCommand(c) ==
  /\ c.holes \subseteq Keys \cup Shadow \cup {"ch"}
  /\ IsMaybe(c.modbus, ModbusOp)
  /\ DOMAIN c.params \subseteq Keys /\ \A p \in DOMAIN c.params : IsParam(c.params[p])
  /\ c.reply \in Replies /\ c.safety \in Safeties /\ c.shape \in Shapes
  /\ {c.parses, c.cached, c.nullOnEmpty, c.settles} \subseteq BOOLEAN
  /\ c.invalidates \subseteq Names /\ c.effects \subseteq Shadow
  /\ c.before \in Seq(Step)
  /\ IsMaybe(c.requires, SUBSET Variables)

\* expr: the variables a status expression reads; repr: how it is represented
StatusField == [expr: SUBSET Variables, repr: {"raw", "si", "bytes"}]
Operation == [get: Seq(Step), set: Seq(Step), repr: {"raw", "si", "bytes"}]

IsBinding(b) ==
  /\ b.channels \in Nat
  /\ b.poll \in Seq([every: BOOLEAN, read: Seq(Names)])
  /\ IsPartial(b.status, Statuses, StatusField)
  /\ IsPartial(b.operations, Ops, Operation)

\* The definition of one class: `models` says whether some model matches the identification
IsDevice(d) ==
  /\ DOMAIN d = {"models", "identify", "links", "framing", "connect", "disconnect", "state",
                 "commands", "class"}
  /\ d.models \in BOOLEAN
  /\ d.identify \in Names
  /\ DOMAIN d.links \subseteq Links /\ \A l \in DOMAIN d.links : IsMaybe(d.links[l], Framing)
  /\ d.framing \in Framing
  /\ {d.connect, d.disconnect} \subseteq Seq(Step)
  /\ d.state \subseteq Shadow
  /\ DOMAIN d.commands \subseteq Names /\ \A n \in DOMAIN d.commands : IsCommand(d.commands[n])
  /\ IsBinding(d.class)

(***************************************************************************)
(* Links and bases.                                                        *)
(***************************************************************************)
\* Links::choose: the transport asked for, or the only link, or the local one.
Choose(d, transport) ==
  LET offered == DOMAIN d.links
  IN CASE Given(transport) -> transport \cap offered
       [] ~Given(transport) /\ Cardinality(offered) = 1 -> offered
       [] OTHER -> IF "serial" \in offered THEN {"serial"} ELSE {"usbtmc"} \cap offered

\* The definition as one instrument uses it: one link, and that link's framing if it has one.
ForTransport(d, transport) ==
  LET link == It(Choose(d, transport))
      own == d.links[link]
  IN [d EXCEPT !.links = [l \in {link} |-> own],
               !.framing = IF Given(own) THEN It(own) ELSE @]

\* merge_yaml, one level: what the definition gives wins, Removed takes away.
Merge(base, over) ==
  [k \in {k \in DOMAIN base \cup DOMAIN over : k \in DOMAIN over => over[k] # Removed}
     |-> IF k \in DOMAIN over THEN over[k] ELSE base[k]]

\* A definition that extends a base: its commands are merged name by name.
Extends(base, commands) == [base EXCEPT !.commands = Merge(@, commands)]

(***************************************************************************)
(* The validator.  XOk says that validate.rs reports no error there.       *)
(***************************************************************************)
\* Parameters the caller must give.
Free(c) == {p \in DOMAIN c.params : ~Given(c.params[p].from)}

QueryVars(d) ==
  {"ch", "state"} \cup
  {n \in DOMAIN d.commands : /\ d.commands[n].reply # "none"
                             /\ d.commands[n].safety = "query"
                             /\ Free(d.commands[n]) = {}}

FormatOk(f) == f # "%s"

FramingOk(d, f) ==
  /\ f.mode = "terminator" => f.terminator
  /\ f.mode = "idle" => f.idle
  /\ f.mode = "fixed" => \A n \in DOMAIN d.commands : d.commands[n].reply # "line"
  /\ f.timeout

LinksOk(d) ==
  /\ DOMAIN d.links # {}
  /\ FramingOk(d, d.framing)
  /\ \A l \in DOMAIN d.links : Given(d.links[l]) => FramingOk(d, It(d.links[l]))

ModbusOk(d, c) ==
  IF ~Given(c.modbus) THEN TRUE ELSE
  LET op == It(c.modbus)
  IN /\ c.holes = {}
     /\ d.framing.modbus
     /\ op.read <=> ~Given(op.value)
     /\ Given(op.value) => op.value \subseteq DOMAIN c.params
     /\ op.single => op.words = 1

HolesOk(d, c) ==
  /\ c.holes \subseteq DOMAIN c.params \cup d.state \cup {"ch"}
  /\ Free(c) \subseteq c.holes \cup (IF Given(c.modbus) THEN It(c.modbus).value ELSE {})

ParamOk(d, p) ==
  /\ p.kind # "classonly"
  /\ p.kind = "enum" => p.values # {}
  /\ Given(p.from) => It(p.from) \subseteq QueryVars(d)
  /\ Given(p.format) => p.kind = "number" /\ FormatOk(It(p.format))

\* Slip: a step that names no command of the definition.
StepOkUnknown(d, step, valueOk) ==
  step.cmd \in DOMAIN d.commands => step.args \subseteq Free(d.commands[step.cmd])

\* valueOk: the step may bind the operation's {value}.
StepOk(d, step, valueOk) ==
  /\ step.cmd \in DOMAIN d.commands
  /\ LET c == d.commands[step.cmd]
         missing == Free(c) \ step.args
     IN /\ step.args \subseteq Free(c)
        /\ step.bound # {} => valueOk
        /\ Cardinality(missing) <= (IF valueOk THEN 1 ELSE 0)

CommandOk(d, n) ==
  LET c == d.commands[n]
  IN /\ ModbusOk(d, c)
     /\ HolesOk(d, c)
     /\ \A p \in DOMAIN c.params : ParamOk(d, c.params[p])
     /\ c.reply = "none" => ~c.parses /\ ~c.cached /\ ~c.nullOnEmpty
     /\ Given(c.requires) => It(c.requires) \subseteq QueryVars(d) \ {n}
     /\ c.invalidates \subseteq DOMAIN d.commands
     /\ c.effects \subseteq d.state
     /\ \A s \in Items(c.before) : s.cmd # n /\ StepOk(d, s, TRUE)

PollOk(d, n) ==
  /\ n \in DOMAIN d.commands
  /\ d.commands[n].reply # "none" /\ d.commands[n].safety = "query" /\ Free(d.commands[n]) = {}

\* The contract of the class: its status keys and those it requires, which operations may be
\* got and set, which must be, and how values are represented.
IsContract(k) ==
  /\ k.required \subseteq k.status /\ k.status \subseteq Statuses /\ k.si \subseteq k.status
  /\ k.gets \cup k.sets \subseteq Ops /\ k.must \subseteq Ops \X {"get", "set"}
  /\ IsPartial(k.repr, Ops, {"raw", "si", "bytes"})

StatusOk(b, contract) ==
  LET vars == {"ch", "state"} \cup UNION {Items(g.read) : g \in Items(b.poll)}
  IN /\ contract.required \subseteq DOMAIN b.status
     /\ \A k \in DOMAIN b.status :
          /\ b.status[k].expr \subseteq vars
          /\ k \in contract.status => b.status[k].repr = IF k \in contract.si THEN "si" ELSE "raw"

Does(b, how) ==
  {op \in DOMAIN b.operations :
     (IF how = "get" THEN b.operations[op].get ELSE b.operations[op].set) # <<>>}

OperationOk(d, op, contract) ==
  LET o == d.class.operations[op]
  IN /\ o.get # <<>> \/ o.set # <<>>
     /\ \A s \in Items(o.get) : StepOk(d, s, FALSE)
     /\ \A s \in Items(o.set) : StepOk(d, s, TRUE)
     /\ o.get # <<>> => d.commands[o.get[Len(o.get)].cmd].reply # "none"
     /\ op \in DOMAIN contract.repr =>
          /\ o.get # <<>> => op \in contract.gets /\ o.repr = contract.repr[op]
          /\ o.set # <<>> => op \in contract.sets

BindingOk(d, contract) ==
  LET b == d.class
  IN /\ b.channels >= 1 /\ b.poll # <<>>
     /\ \A g \in Items(b.poll) : g.every /\ \A n \in Items(g.read) : PollOk(d, n)
     /\ StatusOk(b, contract)
     /\ \A op \in DOMAIN b.operations : OperationOk(d, op, contract)
     /\ \A m \in contract.must : m[1] \in Does(b, m[2])

Accepted(d, contract) ==
  /\ d.models /\ LinksOk(d)
  /\ d.identify \in DOMAIN d.commands /\ d.commands[d.identify].reply # "none"
  /\ \A n \in DOMAIN d.commands : CommandOk(d, n)
  /\ \A s \in Items(d.connect) \cup Items(d.disconnect) : StepOk(d, s, FALSE)
  /\ BindingOk(d, contract)
=============================================================================
