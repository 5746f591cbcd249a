----------------------------- MODULE MCServices -----------------------------
(***************************************************************************)
(* The services of the server that share no state with the instruments'    *)
(* model, for TLC: all of them are there, and in one behaviour one of      *)
(* them, `service`, takes steps; the others stay as one of their initial   *)
(* states.  Their properties are stated in their own modules.              *)
(***************************************************************************)
EXTENDS Updates, Ports, ScpiSession, Autostart, FlowFiles, Assistant, Mcp, SeriesRange, Framing, TLC

CONSTANTS
  i1, i2, i3, p1, p2, l1, l2, e1, e2,  \* instruments, ports, locations, entries
  a1, a2, d1, d2, d3,                  \* requests; flow documents
  keyA, keyC, url, model               \* what is typed for the assistant

VARIABLE service

-----------------------------------------------------------------------------
(* The constants of the services. *)

AllKinds == {"appimage", "app", "nsis", "deb", "source"}

\* Three equal interfaces: the first instrument tells its serial number, the second does not,
\* the interface of the third has a serial number.
OwnersOfTwo == {e1 :> i1 @@ e2 :> i2, e1 :> i2 @@ e2 :> i3}
\* The second entry knows its port only, where the first instrument is the first entry's.
NoneOrSecond == {{}, {e2}}
OneChip == [i \in {i1, i2, i3} |-> "CH340"]
OneSerial == i1 :> Nothing @@ i2 :> Nothing @@ i3 :> "s"
EqualModels == [i \in {i1, i2, i3} |-> {i1, i2, i3}]
TwoProbes == <<"modbus", "idn">>
ProbesOf == i1 :> {"modbus", "idn"} @@ i2 :> {"idn"} @@ i3 :> {}
ProbesKnown == i1 :> {"modbus"} @@ i2 :> {"idn"} @@ i3 :> {}

Op(get, set) == [get |-> get, set |-> set]
Kind(channels, fields, operations) == [channels |-> channels, fields |-> fields, operations |-> operations]
OneClass == "PSU" :> Kind(2, {"VOUT"}, "VOLT" :> Op(TRUE, TRUE) @@ "OUT" :> Op(FALSE, TRUE))
TwoClasses == "PSU" :> Kind(1, {"VOUT"}, "VOLT" :> Op(TRUE, TRUE)) @@
              "DMM" :> Kind(3, {"VOLT"}, "VOLT" :> Op(TRUE, FALSE) @@ "RANG" :> Op(TRUE, TRUE))
TwoDevices == {OneClass, TwoClasses}
OneUnit(header, query, arg) == [header |-> header, query |-> query, arg |-> arg, error |-> 0]
EightUnits ==
  {OneUnit(<<"VOLT">>, TRUE, FALSE), OneUnit(<<"PSU", "CH2", "VOLT">>, TRUE, FALSE),
   OneUnit(<<"OUT">>, FALSE, TRUE), OneUnit(<<"FETC", "VOUT">>, TRUE, FALSE),
   OneUnit(<<"SYST", "ERR">>, TRUE, FALSE), OneUnit(<<"*CLS">>, FALSE, FALSE),
   OneUnit(<<"RANG">>, FALSE, FALSE), [OneUnit(<<>>, TRUE, FALSE) EXCEPT !.error = 102]}

OneName == [d \in {d1, d2, d3} |-> "hold"]

Body(p, m, u, k) == [provider |-> p, model |-> m, url |-> u, key |-> k]
SevenBodies ==
  {Body("anthropic", None, None, None), Body("custom", None, None, None),
   Body("anthropic", None, None, keyA), Body("custom", None, None, keyC),
   Body("custom", None, None, Empty), Body(None, None, url, None),
   Body("custom", model, None, None)}
TypedFor == keyA :> "anthropic" @@ keyC :> "custom" @@ url :> "custom"

SixBatches ==
  {<<"run_flow">>, <<"continue_run", "run_status">>, <<"abort_run">>,
   <<"start_recording", "stop_recording">>, <<"save_flow", "set_instrument">>,
   <<"set_instrument", "set_instrument">>}

\* One sample at time 0 and up to four after it.
Later == {times \in UNION {[1..n -> 1..6] : n \in 0..4} : \A i, j \in DOMAIN times : i < j => times[i] < times[j]}
UpToFive ==
  UNION {{[i \in 1..(Len(times) + 1) |-> [t |-> (<<0>> \o times)[i], v |-> values[i]]] :
            values \in [1..(Len(times) + 1) -> 1..3]} : times \in Later}
OneSample == <<[t |-> 0, v |-> 1]>>

Characters == {"a", " ", "\t", "\"", "\\", "%", "&"}
SomeArguments ==
  UNION {[1..n -> Characters] : n \in 0..2}
    \cup {<<"\\", "\\", "\"">>, <<"\\", "a", "\\", "\"">>, <<" ", "\\", "\\">>}

LF == 10
CR == 13
Rx(answer, n, by, terminator, skip, strip) ==
  [reply |-> answer, n |-> n, mode |-> by, terminator |-> terminator, skip |-> skip, strip |-> strip]
Unframed == Rx("none", 0, "idle", <<>>, {}, {})
EightFramings ==
  {Rx("bytes", 2, "idle", <<>>, {LF}, {LF}), Rx("block", 0, "message", <<>>, {LF}, {LF}),
   Rx("line", 0, "terminator", <<CR, LF>>, {LF}, {CR}),
   Rx("line", 0, "terminator", <<LF>>, {CR, LF}, {CR}),
   Rx("line", 0, "message", <<>>, {}, {LF}), Rx("line", 0, "idle", <<>>, {LF}, {LF}),
   Rx("line", 0, "fixed", <<>>, {}, {}), Unframed}
ShortStreams == UNION {[1..n -> {1, LF, CR, Hash}] : n \in 0..5} \cup UNION {[1..n -> {0, 1, Hash}] : n \in 5..6}

-----------------------------------------------------------------------------
vars == <<service, updatesVars, portsVars, scpiVars, autostartVars, flowFileVars, assistantVars, mcpVars,
          framingVars, seriesVars>>

Init ==
  /\ service \in {"updates", "ports", "scpi", "autostart", "flowFiles", "assistant", "mcp",
                  "framing", "series"}
  /\ IF service = "series" THEN SeriesInit
     ELSE rows = OneSample /\ most = 2 /\ next = 1 /\ bucket = <<>> /\ points = <<>>
  /\ service # "updates" => kind = "source" /\ released = 0
  /\ service # "ports" => owner = e1 :> i1 @@ e2 :> i2 /\ at = p1 :> i1 @@ p2 :> i2
                          /\ location = p1 :> l1 @@ p2 :> l2
  /\ service # "scpi" => dev = OneClass /\ connected = FALSE /\ scpiAccess = "off"
  /\ service # "autostart" => system = "other" /\ mode = "desktop" /\ launch = <<<<"b">>>>
  /\ service # "flowFiles" => files = [id \in Ids |-> NoFlow]
  /\ UpdatesInit /\ PortsInit
  /\ (\E e \in Entries : ~Identified(e)) <=> (service = "ports" /\ owner[e1] = i1)
  /\ ScpiInit /\ AutostartInit /\ FlowFilesInit /\ AssistantInit
  /\ McpInit
  /\ service # "framing" => rx = Unframed /\ stream = <<>>
  /\ FramingInit

Next ==
  /\ UNCHANGED service
  /\ IF service = "updates" THEN UpdatesNext ELSE UNCHANGED updatesVars
  /\ IF service = "ports" THEN PortsNext ELSE UNCHANGED portsVars
  /\ IF service = "scpi" THEN ScpiNext ELSE UNCHANGED scpiVars
  /\ IF service = "autostart" THEN AutostartNext ELSE UNCHANGED autostartVars
  /\ IF service = "flowFiles" THEN FlowFilesNext ELSE UNCHANGED flowFileVars
  /\ IF service = "assistant" THEN AssistantNext ELSE UNCHANGED assistantVars
  /\ IF service = "mcp" THEN McpNext ELSE UNCHANGED mcpVars
  /\ IF service = "framing" THEN FramingNext ELSE UNCHANGED framingVars
  /\ IF service = "series" THEN SeriesNext ELSE UNCHANGED seriesVars

Spec == Init /\ [][Next]_vars

Symmetry == Permutations({p1, p2}) \cup Permutations({l1, l2})

=============================================================================
