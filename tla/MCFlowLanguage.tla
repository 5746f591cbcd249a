--------------------------- MODULE MCFlowLanguage ---------------------------
(* Flows of a few steps over a supply and a meter for TLC. *)
EXTENDS FlowLanguage

Op(get, set, type) == [get |-> get, set |-> set, type |-> type]
TheBench ==
  [at \in {"psu", "dmm"} |->
     IF at = "dmm" THEN [ops |-> <<>>, fields |-> [f \in {"MEAS", "MODE"} |-> f = "MEAS"]]
     ELSE [ops |-> [o \in {"output", "track", "probe", "level"} |->
                      CASE o = "output" -> Op(<<"query">>, <<"energize">>, "enum")
                        [] o = "track" -> Op(<<>>, <<"configure", "energize">>, "bool")
                        [] o = "probe" -> Op(<<"energize">>, <<"energize">>, "bool")
                        [] OTHER -> Op(<<"query">>, <<"configure">>, "number")],
           fields |-> [f \in {"VOUT"} |-> TRUE]]]

Blank(do, given) ==
  [do |-> do, given |-> given, at |-> "psu", op |-> "output", value |-> "OFF", field |-> "VOUT", var |-> "v",
   uses |-> {}, times |-> 2, max |-> 2, range |-> [from |-> 0, to |-> 2, step |-> 1], points |-> 0,
   starts |-> FALSE, series |-> {}, interval |-> 1, seconds |-> 1, fail |-> "stop", nested |-> {}, body |-> <<>>, otherwise |-> <<>>]

On == [Blank("set", {"at", "op", "value"}) EXCEPT !.value = "ON"]
Off == Blank("set", {"at", "op", "value"})
Level(uses) == [Blank("set", {"at", "op", "expr"}) EXCEPT !.op = "level", !.uses = uses]
Output(uses) == [Blank("set", {"at", "op", "expr"}) EXCEPT !.uses = uses]
Track == [Blank("set", {"at", "op", "value"}) EXCEPT !.op = "track", !.value = "ON"]
ReadV == [Blank("read", {"at", "field", "into"}) EXCEPT !.at = "dmm", !.field = "MEAS"]
AskV == [Blank("read", {"at", "op", "into"}) EXCEPT !.op = "level"]
Probe == [Blank("read", {"at", "op", "into"}) EXCEPT !.op = "probe"]
ProbeOff == [Off EXCEPT !.op = "probe"]
LetW(uses) == [Blank("let", {"var", "expr"}) EXCEPT !.var = "w", !.uses = uses]
CheckOf(uses) == [Blank("check", {"condition"}) EXCEPT !.uses = uses]
Waits == Blank("wait", {"seconds"})
Warns == [Blank("check", {"condition", "fail"}) EXCEPT !.fail = "warn"]
Record == [Blank("record", {"action", "series"}) EXCEPT !.starts = TRUE, !.series = {<<"dmm", "MEAS">>}]
Ends == Blank("stop", {})

Simple == {On, Off, Track, ReadV, AskV, Probe, ProbeOff, Waits, Warns, Ends, Record} \cup
          {c : c \in UNION {{Output(u), Level(u), LetW(u), CheckOf(u)} : u \in {{}, {"v"}}}} \cup
          {LetW({"iteration"}), CheckOf({"p", "w"})}
Broken == {[On EXCEPT !.given = @ \cup {"expr"}], [On EXCEPT !.value = "five"], [On EXCEPT !.at = "gone"],
           [Waits EXCEPT !.seconds = -1], [Warns EXCEPT !.fail = "go"], [Record EXCEPT !.interval = 0],
           [ReadV EXCEPT !.field = "VOUT"], [ReadV EXCEPT !.var = "elapsed"], [Record EXCEPT !.series = {<<"dmm", "MODE">>}],
           [Off EXCEPT !.body = <<On>>, !.nested = {"steps"}], Blank("sweep", {"var", "from", "to"}),
           [Blank("sweep", {"var", "from", "to", "step"}) EXCEPT !.range.step = -1]}

Branch(t, e, uses) == [Blank("if", {"condition"}) EXCEPT !.body = t, !.otherwise = e, !.uses = uses, !.nested = {"then", "else"}]
Loop(how, body, uses) == [Blank("repeat", {how, "max_iterations"}) EXCEPT !.body = body, !.uses = uses, !.nested = {"steps"}]
Sweep(body) == [Blank("sweep", {"var", "from", "to", "step"}) EXCEPT !.body = body, !.nested = {"steps"}]
Composite(body) ==
  {Branch(body, <<>>, {}), Branch(body, <<ReadV>>, {}), Loop("times", body, {}), Loop("while", body, {"iteration"}),
   Loop("while", body, {"iteration", "v"}), Loop("until", body, {"v"}), [Loop("times", body, {}) EXCEPT !.times = 0], Sweep(body)}
Some == {<<ReadV>>, <<LetW({"iteration"})>>, <<On>>, <<Level({"v"})>>, <<Ends>>}
Deep == {Loop("times", <<Loop("while", <<ReadV>>, {}), LetW({"iteration"})>>, {}), Loop("until", <<Sweep(<<CheckOf({"v"})>>)>>, {"v"})}
Steps1 == Simple \cup Broken \cup UNION {Composite(b) : b \in Some} \cup Deep

\* The steps of a list and those they hold, in document order.
RECURSIVE Walk(_)
Walk(steps) ==
  IF steps = <<>> THEN <<>>
  ELSE LET s == Head(steps)
           body == Walk(s.body)
           otherwise == Walk(s.otherwise)
       IN <<[s EXCEPT !.body = Len(body), !.otherwise = Len(otherwise)]>> \o body \o otherwise \o Walk(Tail(steps))
Doc(setup, steps, cleanup) ==
  [walk |-> Walk(setup \o steps \o cleanup), main |-> Len(Walk(setup \o steps)),
   params |-> [p \in {"p"} |-> [value |-> 1, min |-> 0, max |-> 2]]]
SmallDocuments ==
  {Doc(<<>>, <<s>>, <<c>>) : s \in Steps1, c \in {Off, Level({"v"}), LetW({"w"}), LetW({"iteration"})}} \cup
  {Doc(<<s>>, <<t>>, <<>>) : s \in Steps1, t \in Steps1} \cup
  {Doc(<<>>, <<>>, <<Off>>), Doc(<<>>, <<ReadV>>, <<Level({"v"}), Loop("times", <<Off>>, {}), Off>>)}
SomeOverrides == {<<>>, [p \in {"p"} |-> 2], [p \in {"p"} |-> 3], [p \in {"q"} |-> 1]}
=============================================================================
