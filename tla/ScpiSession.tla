---------------------------- MODULE ScpiSession ----------------------------
(***************************************************************************)
(* A SCPI client connected to the port of one instrument: the dialect, and *)
(* the session that runs its program messages (bm-server scpi/dialect.rs,  *)
(* scpi/session.rs, the accept loop of scpi/mod.rs).                       *)
(*                                                                         *)
(* A command is its header's words, in upper case, whether it is a query   *)
(* and whether it has an argument; a command that does not parse keeps     *)
(* only its error, and errors are their codes.  What the replies say is    *)
(* left out.                                                               *)
(***************************************************************************)
EXTENDS Naturals, Sequences, FiniteSets, SequencesExt

CONSTANTS
  Devices,        \* vocabularies: [classes -> [channels, fields, operations -> [get, set]]]
  Units,          \* the commands a client may send
  Failures,       \* the ways a driver call fails, of those DriverError names
  MaxErrors,      \* MAX_ERRORS
  MaxUnits,       \* bound: commands in a program message
  MaxConnections  \* MAX_CONNECTIONS

ASSUME ScpiAssumption ==
  /\ MaxErrors \in Nat \ {0}
  \* a class has a code of three capital letters, and a channel at least (validate.rs:84, 129, 479)
  /\ \A d \in Devices :
       /\ DOMAIN d \cap {"*IDN", "*CLS", "*OPC", "*WAI", "*RST", "SYST"} = {}
       /\ \A c \in DOMAIN d : d[c].channels \in Nat \ {0}

VARIABLES
  dev,      \* the instrument's vocabulary
  present,  \* it is configured
  connected,\* its thread answers
  fresh,    \* its last status is fresh
  scpiAccess, \* Scpi::access: off, read or control
  inFlow,   \* the running flow uses the instrument
  clients,  \* connections to its port
  errors,   \* Session.errors: codes
  message,  \* what is left of the program message, and whether the device is there
  lost      \* history: an error did not fit and the client has not been told

scpiVars == <<dev, present, connected, fresh, scpiAccess, inFlow, clients, errors, message, lost>>
instrument == <<dev, present, connected, fresh, scpiAccess, inFlow, clients>>

Overflow == 350
Classes(d) == DOMAIN d
Operations(d, c) == DOMAIN d[c].operations

Command(header, query, arg) == [header |-> header, query |-> query, arg |-> arg, error |-> 0]
Malformed(code, query) == [header |-> <<>>, query |-> query, arg |-> FALSE, error |-> code]

-----------------------------------------------------------------------------
(* The dialect. *)

Target(kind) == [kind |-> kind, class |-> "", channel |-> 1, name |-> ""]
On(kind, c, ch, name) == [kind |-> kind, class |-> c, channel |-> ch, name |-> name]
Fail(code) == [Target("error") EXCEPT !.channel = code]

Channels == {"CH1", "CH2", "CH3"}
ChannelOf(word) == CASE word = "CH1" -> 1 [] word = "CH2" -> 2 [] word = "CH3" -> 3

Common(h, query) ==
  CASE h = <<"*IDN">> /\ query             -> Target("idn")
    [] h = <<"*CLS">> /\ ~query            -> Target("clear")
    [] h = <<"*OPC">>                      -> Target(IF query THEN "opc" ELSE "none")
    [] h = <<"*WAI">> /\ ~query            -> Target("none")
    [] OTHER                               -> Fail(113)

System(h, query) ==
  CASE h \in {<<"SYST", "ERR">>, <<"SYST", "ERR", "NEXT">>} /\ query -> Target("next error")
    [] h = <<"SYST", "VERS">> /\ query                             -> Target("version")
    [] h = <<"SYST", "HELP", "HEAD">> /\ query                     -> Target("headers")
    [] OTHER                                                       -> Fail(113)

\* The words of a header that are there: [class][channel][FETCh], then the rest.
Skip(h, words) == IF h # <<>> /\ Head(h) \in words THEN Tail(h) ELSE h

\* The class: given, the only one, or the only class that knows the name.
Knowing(d, fetch, name) ==
  IF Cardinality(Classes(d)) = 1 THEN Classes(d)
  ELSE {c \in Classes(d) : name \in IF fetch THEN d[c].fields ELSE Operations(d, c)}

Operation(d, cmd, c, ch, name) ==
  IF name \notin Operations(d, c) THEN Fail(113)
  ELSE LET op == d[c].operations[name] IN
       CASE cmd.query /\ op.get                -> On("query", c, ch, name)
         [] ~cmd.query /\ op.set /\ cmd.arg    -> On("set", c, ch, name)
         [] ~cmd.query /\ op.set /\ ~cmd.arg   -> Fail(109)
         [] OTHER                              -> Fail(113)

Field(d, cmd, c, ch, name) ==
  IF cmd.query /\ name \in d[c].fields THEN On("fetch", c, ch, name) ELSE Fail(113)

Resolve(d, cmd) ==
  LET h == cmd.header
      afterClass == Skip(h, Classes(d))
      afterChannel == Skip(afterClass, Channels)
      rest == Skip(afterChannel, {"FETC"})
      fetch == rest # afterChannel
      channel == IF afterChannel # afterClass THEN ChannelOf(Head(afterClass)) ELSE 1
      classes == IF afterClass # h THEN {Head(h)} ELSE Knowing(d, fetch, rest[1])
  IN
  IF h[1] \in {"*IDN", "*CLS", "*OPC", "*WAI", "*RST"} THEN Common(h, cmd.query)
  ELSE IF h[1] = "SYST" THEN System(h, cmd.query)
  ELSE IF Len(rest) # 1 \/ Cardinality(classes) # 1 THEN Fail(113)
  ELSE LET c == CHOOSE k \in classes : TRUE IN
       IF channel > d[c].channels THEN Fail(114)
       ELSE IF fetch THEN Field(d, cmd, c, channel, rest[1])
       ELSE Operation(d, cmd, c, channel, rest[1])

\* Mutant: a class with one channel is listed with a suffix for a second one.
HelpChannels(d) ==
  UNION {{[header |-> <<c, ch, o>>, query |-> TRUE, arg |-> FALSE] :
            o \in {x \in Operations(d, c) : d[c].operations[x].get},
            ch \in {w \in Channels : ChannelOf(w) <= d[c].channels + 1}} : c \in Classes(d)}

\* headers(): what SYSTem:HELP:HEADers? lists for the instrument, <n> standing for a channel.
Suffix(d, c) ==
  IF d[c].channels > 1 THEN {<<w>> : w \in {x \in Channels : ChannelOf(x) <= d[c].channels}} ELSE {<<>>}
Ways(d, c, o) == {q \in BOOLEAN : IF q THEN d[c].operations[o].get ELSE d[c].operations[o].set}
AsOperation(c, ch, o, q) == [header |-> <<c>> \o ch \o <<o>>, query |-> q, arg |-> ~q]
AsField(c, ch, f) == [header |-> <<c>> \o ch \o <<"FETC", f>>, query |-> TRUE, arg |-> FALSE]
HelpAt(d, c, ch) ==
  (UNION {{AsOperation(c, ch, o, q) : q \in Ways(d, c, o)} : o \in Operations(d, c)})
    \cup {AsField(c, ch, f) : f \in d[c].fields}
Help(d) == UNION {UNION {HelpAt(d, c, ch) : ch \in Suffix(d, c)} : c \in Classes(d)}

\* driver_error: the code of each way a call of the driver fails.
DriverError(e) ==
  CASE e = "outside the range"                        -> 222
    [] e = "bad argument"                             -> 224
    [] e = "not found"                                -> 113
    [] e = "refused"                                  -> 221
    [] e \in {"io", "unknown model", "wrong instrument"} -> 241
    [] e = "timeout"                                  -> 240
    [] e \in {"framing", "parse"}                     -> 230
    [] e \in {"expr", "definition"}                   -> 200

-----------------------------------------------------------------------------
(* The session. *)

NoMessage == [units |-> <<>>, device |-> FALSE, step |-> "idle"]

ScpiInit ==
  /\ dev \in Devices /\ present = TRUE /\ connected \in BOOLEAN /\ fresh = FALSE
  /\ scpiAccess \in {"off", "read", "control"} /\ inFlow = FALSE
  /\ clients = 0 /\ errors = <<>> /\ message = NoMessage /\ lost = FALSE

\* What happens around the session.
BenchChanges ==
  /\ \/ /\ present' = ~present /\ UNCHANGED <<connected, fresh, scpiAccess, inFlow>>
     \/ /\ connected' = ~connected /\ fresh' = FALSE /\ UNCHANGED <<present, scpiAccess, inFlow>>
     \/ /\ connected /\ present /\ fresh' = ~fresh
        /\ UNCHANGED <<present, connected, scpiAccess, inFlow>>
     \/ /\ scpiAccess' \in {"off", "read", "control"} \ {scpiAccess}
        /\ UNCHANGED <<present, connected, fresh, inFlow>>
     \/ /\ inFlow' = ~inFlow /\ UNCHANGED <<present, connected, fresh, scpiAccess>>
  \* sync() aborts the connections of a port that is closed
  /\ IF scpiAccess' = "off" \/ ~present'
     THEN clients' = 0 /\ errors' = <<>> /\ message' = NoMessage /\ lost' = FALSE
     ELSE UNCHANGED <<clients, errors, message, lost>>
  /\ UNCHANGED dev

\* listen(): a connection too many is dropped.  The session modelled is the first one.
Connect ==
  /\ scpiAccess # "off" /\ present /\ clients < MaxConnections
  /\ clients' = clients + 1
  /\ UNCHANGED <<dev, present, connected, fresh, scpiAccess, inFlow, errors, message, lost>>

Disconnect ==
  /\ clients > 0 /\ message.step = "idle" /\ clients' = clients - 1
  /\ errors' = IF clients = 1 THEN <<>> ELSE errors
  /\ lost' = (lost /\ clients > 1)
  /\ UNCHANGED <<dev, present, connected, fresh, scpiAccess, inFlow, message>>

\* serve(): a whole line; a line that looks like HTTP ends the connection instead.
Receive(units) ==
  /\ clients > 0 /\ message.step = "idle" /\ scpiAccess # "off"
  /\ message' = [NoMessage EXCEPT !.units = units, !.device = present, !.step = "units"]
  /\ UNCHANGED <<instrument, errors, lost>>

\* Mutant: an error that does not fit is dropped.
PushedIfFree(e) == IF Len(errors) >= MaxErrors THEN errors ELSE Append(errors, e)

\* Session::push
Pushed(e) == IF Len(errors) >= MaxErrors THEN Append(Front(errors), Overflow) ELSE Append(errors, e)
PushError(e) == errors' = Pushed(e) /\ lost' = (lost \/ Len(errors) >= MaxErrors)

UnitAnswered == message' = [message EXCEPT !.units = Tail(@), !.step = "units"]

\* A failed unit: the error, and an empty field if it is a query.
UnitFailed(code) == PushError(code) /\ UnitAnswered

\* A unit that does not parse: the error, and no field even if it looks like a query.
NotParsed(u) ==
  /\ PushError(u.error) /\ UnitAnswered
  /\ UNCHANGED instrument

\* Commands of the session itself.
Local(u, t) ==
  /\ CASE t.kind = "clear"      -> errors' = <<>> /\ lost' = FALSE
       [] t.kind = "next error" -> /\ errors' = (IF errors = <<>> THEN <<>> ELSE Tail(errors))
                                   /\ lost' = (lost /\ ~(errors # <<>> /\ Head(errors) = Overflow))
       [] OTHER                 -> UNCHANGED <<errors, lost>>
  /\ UnitAnswered
  /\ UNCHANGED instrument

Fetch(u) ==
  /\ IF fresh THEN UnitAnswered /\ UNCHANGED <<errors, lost>> ELSE UnitFailed(230)
  /\ UNCHANGED instrument

\* The thread's answer to a get.
Query(u) ==
  /\ \/ present /\ connected /\ UnitAnswered /\ UNCHANGED <<errors, lost>>
     \/ present /\ \E e \in Failures : UnitFailed(DriverError(e))
     \/ ~present /\ UnitFailed(241)
  /\ UNCHANGED instrument

\* What a setter is refused for is looked up before it is handed to the thread.
Set(u) ==
  /\ IF scpiAccess # "control" THEN UnitFailed(203)
     ELSE IF inFlow THEN UnitFailed(221)
     ELSE IF ~present THEN UnitFailed(241)
     ELSE message' = [message EXCEPT !.step = "setting"] /\ UNCHANGED <<errors, lost>>
  /\ UNCHANGED instrument

Unit ==
  /\ message.step = "units" /\ message.units # <<>>
  /\ LET u == Head(message.units)
         t == Resolve(dev, u)
     IN IF u.error # 0 THEN NotParsed(u)
        ELSE IF ~message.device THEN UnitFailed(241) /\ UNCHANGED instrument
        ELSE CASE t.kind = "error" -> UnitFailed(t.channel) /\ UNCHANGED instrument
               [] t.kind = "fetch" -> Fetch(u)
               [] t.kind = "query" -> Query(u)
               [] t.kind = "set"   -> Set(u)
               [] OTHER            -> Local(u, t)

\* The thread carries the setter out, or answers with an error.
SetAnswered ==
  /\ message.step = "setting"
  /\ \/ connected /\ UnitAnswered /\ UNCHANGED <<errors, lost>>
     \/ \E e \in Failures : UnitFailed(DriverError(e))
  /\ UNCHANGED instrument

\* The reply line is written when the message has been run.
Reply ==
  /\ message.step = "units" /\ message.units = <<>>
  /\ message' = NoMessage
  /\ UNCHANGED <<instrument, errors, lost>>

ScpiNext ==
  \/ BenchChanges \/ Connect \/ Disconnect
  \/ \E n \in 1..MaxUnits : \E units \in [1..n -> Units] : Receive(units)
  \/ Unit \/ SetAnswered \/ Reply

ScpiSpec == ScpiInit /\ [][ScpiNext]_scpiVars

-----------------------------------------------------------------------------
\* No error is lost in silence: while an error did not fit in the queue and the client has not
\* read -350, the queue holds a -350 for it to read (session.rs Session::push).
ErrorsNotLost == lost => Overflow \in ToSet(errors)

\* SYSTem:HELP:HEADers? and the parser agree: every header listed resolves, on that instrument,
\* to an operation or a field (dialect.rs headers, resolve); and every setter, query or field a
\* client can reach is listed.
HelpIsTrue ==
  /\ \A cmd \in Help(dev) : Resolve(dev, cmd).kind \in {"query", "set", "fetch"}
  /\ \A u \in ToSet(message.units) : u.error = 0 =>
       LET t == Resolve(dev, u) IN
       t.kind \in {"query", "set", "fetch"} =>
         \E cmd \in Help(dev) : Resolve(dev, cmd) = t
=============================================================================
