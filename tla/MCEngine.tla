------------------------------ MODULE MCEngine ------------------------------
(* Definitions for TLC: a small supply, and changes to it one at a time. *)
EXTENDS Engine

F(mode, drain, modbus) ==
  [mode |-> mode, terminator |-> TRUE, idle |-> TRUE, timeout |-> TRUE, drain |-> drain, modbus |-> modbus]
Q(holes, shape) ==
  [holes |-> holes, modbus |-> {}, params |-> <<>>, reply |-> "line", safety |-> "query",
   shape |-> shape, parses |-> TRUE, cached |-> FALSE, nullOnEmpty |-> FALSE, settles |-> FALSE,
   invalidates |-> {}, effects |-> {}, before |-> <<>>, requires |-> {}]
P(kind, format, from) == [kind |-> kind, values |-> {"number"}, format |-> format, from |-> from]
Words == [P("enum", {}, {}) EXCEPT !.values = {"number", "word"}]
W(p) ==
  [Q({"v"}, "any") EXCEPT !.reply = "none", !.safety = "configure", !.parses = FALSE,
     !.params = [k \in {"v"} |-> p]]
Number == P("number", {"%.2f"}, {})
With(n) == [call |-> TRUE, cmd |-> n, args |-> {"v"}, bound |-> {"v"}, only |-> FALSE]

Base(mode, drain) ==
  [models |-> TRUE, identify |-> "idn", links |-> [l \in {"serial"} |-> {}],
   framing |-> F(mode, drain, FALSE),
   connect |-> <<Plain("idn")>>, disconnect |-> <<Plain("idn")>>, state |-> {"mode_"},
   commands |-> [n \in {"idn", "volt", "mode", "vset"} |->
     CASE n = "idn" -> Q({}, "word") [] n = "volt" -> Q({"ch"}, "number")
       [] n = "mode" -> [Q({}, "any") EXCEPT !.cached = TRUE]
       [] n = "vset" -> [W(Number) EXCEPT !.invalidates = {"mode"}, !.effects = {"mode_"},
                           !.settles = TRUE, !.requires = {{"mode"}}]],
   class |-> [channels |-> 2,
              poll |-> <<[every |-> TRUE, read |-> <<"volt", "mode">>]>>,
              status |-> [k \in {"VOUT"} |-> [expr |-> {"volt"}, repr |-> "si"]],
              operations |-> [o \in {"voltage"} |->
                 [get |-> <<Plain("mode")>>, set |-> <<[With("vset") EXCEPT !.only = TRUE]>>, repr |-> "si"]]]]
Two == [Base("terminator", TRUE) EXCEPT !.commands["mode"].cached = FALSE, !.disconnect = <<>>,
                                        !.class.poll[1].read = <<"volt">>]
One == [Base("terminator", TRUE) EXCEPT !.class.channels = 1]
Change(d, n, c) == Extends(d, [k \in {n} |-> c])
Reg(op) == [Q({}, "number") EXCEPT !.modbus = {op}]
ReadOp == [read |-> TRUE, value |-> {}, single |-> FALSE, words |-> 1]
WriteOp == [read |-> FALSE, value |-> {"v"}, single |-> TRUE, words |-> 1]
Modbus(d) ==
  Change(Change([d EXCEPT !.framing.modbus = TRUE], "volt", Reg(ReadOp)), "vset",
    [W(Number) EXCEPT !.holes = {}, !.modbus = {WriteOp}])

WriteBy(p) == Change(Modbus(One), "vset", [W(p) EXCEPT !.holes = {}, !.modbus = {WriteOp}])

\* What the engine carries out.
Good ==
  { Two, One,
    [One EXCEPT !.links = [l \in {"serial", "tcpip"} |-> IF l = "tcpip" THEN {F("fixed", TRUE, FALSE)} ELSE {}],
                   !.commands = [n \in DOMAIN @ |-> IF @[n].reply = "line" THEN [@[n] EXCEPT !.reply = "bytes"] ELSE @[n]]],
    Modbus(One),
    Change(One, "volt", [Q({"v"}, "number") EXCEPT !.params = [k \in {"v"} |-> P("enum", {}, {{"mode", "ch"}})]]) }
\* What reads silence as "no value" (devices/hantek_pps.yaml).
Silent == Change([One EXCEPT !.framing = F("idle", TRUE, FALSE)], "vset",
                 [W(Number) EXCEPT !.reply = "line", !.nullOnEmpty = TRUE])
\* What the validator accepts and the engine cannot carry out.
Gaps ==
  { Change(One, "vset", W(P("number", {"%f"}, {}))),
    [Modbus(One) EXCEPT !.links = [l \in {"tcpip"} |-> {F("terminator", TRUE, FALSE)}]],
    WriteBy(Words),
    [WriteBy(P("number", {}, {{"mode"}})) EXCEPT !.class.operations["voltage"].set = <<Plain("vset")>>],
    Change([One EXCEPT !.connect = <<>>, !.disconnect = <<>>], "idn",
           [Q({"v"}, "word") EXCEPT !.params = [k \in {"v"} |-> Number]]),
    Change(Change(Change([One EXCEPT !.class.operations["voltage"].set = <<With("ch")>>],
                         "vset", Removed),
                  "ch", W(Number)),
           "mode", [Q({}, "any") EXCEPT !.requires = {{"ch"}}]),
    [One EXCEPT !.class.operations["voltage"].set = <<[With("vset") EXCEPT !.args = {}, !.bound = {}]>>],
    Change(One, "mode", [Q({}, "any") EXCEPT !.before = <<Plain("vset")>>]),
    Change(Change(One, "volt", [Q({}, "number") EXCEPT !.before = <<Plain("mode")>>]), "mode",
           [Q({}, "any") EXCEPT !.before = <<Plain("volt")>>]),
    Change(One, "mode", [Q({}, "any") EXCEPT !.before = <<With("vset")>>]) }
\* What the validator refuses.
Bad ==
  { Change(One, "mode", [Q({}, "any") EXCEPT !.before = <<Plain("gone")>>]),
    Change(One, "vset", Removed),
    [One EXCEPT !.class.poll[1].read = <<"vset">>],
    [One EXCEPT !.identify = "vset"],
    Change(One, "volt", [Q({}, "number") EXCEPT !.modbus = {ReadOp}]),
    Change(One, "volt", [Q({}, "number") EXCEPT !.before = <<Plain("volt")>>]),
    Change(One, "vset", [W(P("number", {"%s"}, {})) EXCEPT !.effects = {"mode_"}]) }

AllDefinitions == Good \cup {Silent} \cup Gaps \cup Bad
OnlySilent == {Silent}
AnyTransport == {{}, {"tcpip"}}
Contract1 ==
  [status |-> {"VOUT"}, required |-> {"VOUT"}, si |-> {"VOUT"}, gets |-> {"voltage"}, sets |-> {"voltage"},
   must |-> {"voltage"} \X {"get", "set"}, repr |-> [o \in {"voltage"} |-> "si"]]
=============================================================================
