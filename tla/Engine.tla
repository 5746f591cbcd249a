------------------------------- MODULE Engine -------------------------------
(***************************************************************************)
(* The protocol engine (bm-driver engine.rs): it carries out a definition  *)
(* over a link to an instrument.  One thread owns the engine, so only the  *)
(* instrument is concurrent: it answers in order, in its own time, or      *)
(* never, and an answer that misses its command's deadline is still on the *)
(* line afterwards.                                                        *)
(*                                                                         *)
(* What is left to do of the operation in progress is `todo`, a stack of   *)
(* tasks; a command puts its conditions, preparations and computed         *)
(* parameters before itself.  A reading is the command and channel whose   *)
(* answer it came from.                                                    *)
(***************************************************************************)
EXTENDS Definition, SequencesExt

CONSTANTS
  Definitions,   \* definitions of the catalog
  Transports,    \* what an instrument's entry may ask for (a set of at most one link)
  TheContract,   \* the contract of their class
  Null,          \* no reading
  MaxDepth,      \* the stack: how many commands may be in progress before it overflows
  MaxSilent,     \* bound: silent polls that are counted
  MaxLine,       \* bound: answers of the instrument not yet read
  MaxGarbled     \* bound: answers of the wrong shape

ASSUME BoundsAssumption == {MaxDepth, MaxSilent, MaxLine} \subseteq Nat \ {0} /\ MaxGarbled \in Nat
ASSUME DefinitionsAssumption == IsContract(TheContract) /\ \A d \in Definitions : IsDevice(d)
\* The stack holds a call of every command of a definition, one within the other.
ASSUME StackAssumption == \A d \in Definitions : Cardinality(DOMAIN d.commands) <= MaxDepth

VARIABLES
  def,       \* the definition of this instrument
  session,   \* "closed", "open" (identified), "ready"
  call,      \* the operation in progress: see Operations
  todo,      \* its tasks
  waiting,   \* the command written whose answer is waited for, as a set
  line,      \* answers that arrived and were not read
  flight,    \* answers the instrument has yet to send, in order
  cache,     \* readings kept, by command and channel
  latest,    \* the last polled reading, by channel and command
  result,    \* of the last step: an error, and the reading it gave
  shadow,    \* state variables that were assigned
  due,       \* poll groups that are due
  tally,     \* this poll: was a command attempted, one answered, anything heard, a reading
             \* given without hearing anything (kept)
  silent,    \* Engine.silent_polls
  quiet,     \* history: polls in a row in which nothing was heard or kept
  settling,  \* polled readings are reported as null
  garbled    \* answers of the wrong shape so far

exchangeVars == <<waiting, line, flight, garbled>>
readingVars == <<cache, latest, shadow, settling>>
pollVars == <<due, tally, silent, quiet>>
vars == <<def, session, call, todo, result, exchangeVars, readingVars, pollVars>>

Cmd(n) == def.commands[n]
Fine(v) == [error |-> "none", value |-> v]
Failure(e) == [error |-> e, value |-> Null]
\* An answer; stray: it, or one it is behind of, came too late for the drain meant for it.
Reading(n, ch, stray) == [cmd |-> n, ch |-> ch, stray |-> stray]
NoCount == [attempted |-> 0, answered |-> 0, heard |-> 0, kept |-> 0]
Channels == 1..def.class.channels
Groups == DOMAIN def.class.poll

Closed(d) ==
  /\ session' = "closed" /\ call' = "none" /\ todo' = <<>> /\ waiting' = {}
  /\ cache' = <<>> /\ latest' = [ch \in 1..d.class.channels |-> <<>>]
  /\ shadow' = {} /\ settling' = FALSE
  /\ due' = DOMAIN d.class.poll /\ tally' = NoCount /\ silent' = 0 /\ quiet' = 0

Init ==
  /\ \E d \in Definitions, t \in Transports :
       Accepted(d, TheContract) /\ Given(Choose(d, t)) /\ def = ForTransport(d, t)
  /\ session = "closed" /\ call = "none" /\ todo = <<>> /\ waiting = {}
  /\ line = <<>> /\ flight = <<>> /\ garbled = 0
  /\ cache = <<>> /\ latest = [ch \in Channels |-> <<>>] /\ result = Fine(Null)
  /\ shadow = {} /\ settling = FALSE
  /\ due = Groups /\ tally = NoCount /\ silent = 0 /\ quiet = 0

(***************************************************************************)
(* Tasks.  `value`: the operation's value is at hand.                      *)
(***************************************************************************)
Task(t, n, ch) == [t |-> t, cmd |-> n, ch |-> ch, args |-> {}]
StepTask(s, ch, value) == [t |-> "step", step |-> s, ch |-> ch, value |-> value]
StepTasks(steps, ch, value) == [i \in DOMAIN steps |-> StepTask(steps[i], ch, value)]
Queries(refs, ch) ==
  LET asked == SetToSeq(refs \cap DOMAIN def.commands)
  IN [i \in DOMAIN asked |-> Task("query", asked[i], ch)]
Plain(n) == [call |-> FALSE, cmd |-> n, args |-> {}, bound |-> {}, only |-> FALSE]

\* uses_ch: does the command's text depend on the channel, itself or through what it does
\* before?
UsesChIn(d, n) ==
  LET direct(c) == "ch" \in d.commands[c].holes
                   \/ \E p \in DOMAIN d.commands[c].params :
                        \E e \in d.commands[c].params[p].from : "ch" \in e
      go[k \in 0..8] ==
        {c \in DOMAIN d.commands :
           direct(c) \/ (k > 0 /\ \E s \in Items(d.commands[c].before) : s.cmd \in go[k - 1])}
  IN n \in go[8]
UsesCh(n) == UsesChIn(def, n)

\* The first task that takes a failure: a polled reading becomes null, the rest is skipped.
Caught == {i \in DOMAIN todo : todo[i].t \in {"store", "ignore"}}
Fail(e) ==
  /\ result' = Failure(e)
  /\ IF Caught = {} \/ e \in {"io", "overflow"}
     THEN todo' = <<>>
     ELSE LET i == CHOOSE i \in Caught : \A j \in Caught : i <= j
          IN todo' = SubSeq(todo, i, Len(todo))

Pop == todo' = Tail(todo)
Push(tasks) == todo' = tasks \o Tail(todo)
Doing(t) == todo # <<>> /\ waiting = {} /\ Head(todo).t = t

(***************************************************************************)
(* Operations: what the device thread calls.                               *)
(***************************************************************************)
Begin(name, tasks) ==
  /\ todo = <<>> /\ call' = name /\ todo' = tasks /\ result' = Fine(Null)
  /\ UNCHANGED <<def, session, exchangeVars, readingVars, pollVars>>

\* Engine::open drains the line (a banner), then identifies.
Open ==
  /\ session = "closed" /\ call = "none"
  /\ Begin("open", <<Task("drain", def.identify, 1), Task("run", def.identify, 1)>>)
StartSession == session = "open" /\ Begin("start", StepTasks(def.connect, 1, FALSE))
Get(op, ch) ==
  /\ session = "ready" /\ def.class.operations[op].get # <<>>
  /\ Begin("get", StepTasks(def.class.operations[op].get, ch, FALSE))
Set(op, ch) ==
  /\ session = "ready" /\ def.class.operations[op].set # <<>>
  /\ Begin("set", StepTasks(def.class.operations[op].set, ch, TRUE) \o <<Task("show", def.identify, 1)>>)

\* poll_due: every group that is due, on every channel.
Reads(g, ch) ==
  [i \in DOMAIN def.class.poll[g].read |-> Task("read", def.class.poll[g].read[i], ch)]
Poll ==
  /\ session = "ready" /\ due # {}
  /\ Begin("poll",
       FlattenSeq([i \in 1..Cardinality(due) |->
         FlattenSeq([ch \in Channels |-> Reads(SetToSeq(due)[i], ch)])]) \o <<Task("count", def.identify, 1)>>)

\* Engine::disconnect: each step is tried, whatever becomes of the others.
Disconnect ==
  /\ session = "ready"
  /\ Begin("disconnect",
       FlattenSeq([i \in DOMAIN def.disconnect |->
         <<StepTask(def.disconnect[i], 1, FALSE), Task("ignore", def.identify, 1)>>]))

\* The operation is over.
End ==
  /\ todo = <<>> /\ call # "none" /\ waiting = {}
  /\ IF call = "disconnect" \/ result.error \in {"io", "overflow"}
          \/ (call \in {"open", "start"} /\ result.error # "none")
     THEN Closed(def)
     ELSE /\ session' = CASE call = "open" -> "open" [] call = "start" -> "ready" [] OTHER -> session
          /\ call' = "none"
          /\ UNCHANGED <<todo, waiting, readingVars, pollVars>>
  /\ UNCHANGED <<def, result, line, flight, garbled>>

(***************************************************************************)
(* run_step and run.                                                       *)
(***************************************************************************)
\* A plain name gives its only parameter the value; a call passes what it names.
StepArgs(d, s, value) == IF s.call \/ ~value THEN s.args ELSE Free(d.commands[s.cmd])
Unbound(d, s, value) ==
  IF s.call THEN s.bound # {} /\ ~value
  ELSE /\ Free(d.commands[s.cmd]) # {}
       /\ ~value \/ Cardinality(Free(d.commands[s.cmd])) > 1

DoStep ==
  /\ Doing("step")
  /\ LET s == Head(todo).step
         v == Head(todo).value
     IN CASE s.cmd \notin DOMAIN def.commands -> Fail("definition")
          [] s.cmd \in DOMAIN def.commands /\ Unbound(def, s, v) -> Fail("arguments")
          [] OTHER ->
               \/ /\ Push(<<[Task("run", s.cmd, Head(todo).ch) EXCEPT !.args = StepArgs(def, s, v)]>>)
                  /\ UNCHANGED result
               \/ /\ s.only /\ v /\ Pop    \* not for this value
                  /\ result' = Fine(Null)
  /\ UNCHANGED <<def, session, call, exchangeVars, readingVars, pollVars>>

Kept(n, ch) == IF n \in DOMAIN def.commands /\ Cmd(n).cached /\ <<n, ch>> \in DOMAIN cache
               THEN {cache[<<n, ch>>]} ELSE {}

\* A polled reading is given although nothing was heard.
KeptForPoll ==
  tally' = [tally EXCEPT !.kept = IF Len(todo) > 1 /\ todo[2].t = "store" THEN 1 ELSE @]

\* query: from the cache, unless it has expired (it may at any time), or from the instrument.
Query ==
  /\ Doing("query")
  /\ LET n == Head(todo).cmd
         ch == Head(todo).ch
     IN \/ \E v \in Kept(n, ch) : Pop /\ result' = Fine(v) /\ KeptForPoll
        \/ Push(<<Task("run", n, ch)>>) /\ UNCHANGED <<result, tally>>
  /\ UNCHANGED <<def, session, call, exchangeVars, readingVars, due, silent, quiet>>

\* The commands in progress: each waits for what it called for.
Depth == Cardinality({i \in DOMAIN todo : todo[i].t = "send"})

\* run: the condition first, then what must run before, then computed parameters, then the
\* exchange.
Run ==
  /\ Doing("run")
  /\ LET n == Head(todo).cmd
         ch == Head(todo).ch
         c == Cmd(n)
         condition == IF Given(c.requires) THEN Queries(It(c.requires), ch) \o <<Task("require", n, ch)>> ELSE <<>>
         before == StepTasks(c.before, ch, FALSE)
         computed == Queries(UNION UNION {c.params[p].from : p \in DOMAIN c.params}, ch)
     IN IF n \notin DOMAIN def.commands THEN Fail("definition")
        ELSE IF Depth > MaxDepth THEN Fail("overflow")
        ELSE /\ Push(condition \o before \o computed \o <<[Head(todo) EXCEPT !.t = "send"]>>)
             /\ UNCHANGED result
  /\ UNCHANGED <<def, session, call, exchangeVars, readingVars, pollVars>>

Require ==
  /\ Doing("require")
  /\ (Pop /\ UNCHANGED result) \/ Fail("refused")
  /\ UNCHANGED <<def, session, call, exchangeVars, readingVars, pollVars>>

(***************************************************************************)
(* The exchange.                                                           *)
(***************************************************************************)
\* The formats wire.rs renders.
Rendered == {"%d", "%03d", "%g", "%.2f"}

\* What a parameter may be written as.
Texts(p) ==
  CASE p.kind = "enum" -> p.values [] p.kind = "string" -> {"number", "word"} [] OTHER -> {"number"}

\* render, and modbus_exchange up to the frame: why the command may not be written.  A value
\* may be refused for what it is; arguments are missing or unexpected whatever they are.
RenderErrors(n, args) ==
  LET c == Cmd(n)
      modbus == Given(c.modbus)
      used == IF modbus THEN It(c.modbus).value ELSE c.holes \cap DOMAIN c.params
      missing == (IF modbus THEN used ELSE used \cap Free(c)) \ args
      astray == missing # {} \/ (~modbus /\ ~(args \subseteq DOMAIN c.params))
      unrendered == \E p \in used : (c.params[p].format \ Rendered) # {}
      words == modbus /\ \E p \in used : "word" \in Texts(c.params[p])
      onlyWords == modbus /\ \E p \in used : "number" \notin Texts(c.params[p])
  IN IF modbus /\ ~def.framing.modbus THEN {"definition"}
     ELSE (IF astray THEN {"arguments"} ELSE {})
          \cup (IF unrendered \/ words THEN {"definition"} ELSE {})
          \cup (IF used # {} THEN {"bad argument"} ELSE {})
          \cup (IF astray \/ unrendered \/ onlyWords THEN {} ELSE {"none"})

Drains == def.framing.drain
Strayed(answers) == [i \in DOMAIN answers |-> [answers[i] EXCEPT !.stray = TRUE]]
\* Slip: only what has already arrived is thrown away.
DrainArrived == IF Drains THEN line' = <<>> /\ UNCHANGED flight ELSE UNCHANGED <<line, flight>>
\* drain: what is on the line, and what arrives before it has been idle for drain_idle_ms, is
\* thrown away.  An answer that comes later still is stray.
Drain ==
  IF Drains
  THEN /\ line' = <<>>
       /\ \E k \in 1..Len(flight) + 1 : flight' = Strayed(SubSeq(flight, k, Len(flight)))
  ELSE UNCHANGED <<line, flight>>

DrainFirst ==
  /\ Doing("drain") /\ Pop /\ Drain
  /\ UNCHANGED <<def, session, call, result, waiting, garbled, readingVars, pollVars>>

\* After success: cache, invalidate, assign, settle.
Effects(n, ch, v) ==
  LET c == Cmd(n)
      filled == IF c.cached THEN Merge(cache, [k \in {<<n, ch>>} |-> v]) ELSE cache
  IN /\ cache' = [k \in {k \in DOMAIN filled : k[1] \notin c.invalidates} |-> filled[k]]
     /\ shadow' = shadow \cup c.effects
     /\ settling' = (settling \/ c.settles)
     /\ UNCHANGED latest

Succeed(n, ch, v) == Pop /\ result' = Fine(v) /\ Effects(n, ch, v)

Answers(n) == Cmd(n).reply # "none" \/ Given(Cmd(n).modbus)

\* Write the command.  The instrument will answer it, or never.
Send ==
  /\ Doing("send")
  /\ LET n == Head(todo).cmd
         ch == Head(todo).ch
     IN \E e \in RenderErrors(n, Head(todo).args) :
          IF e # "none"
          THEN Fail(e) /\ UNCHANGED <<waiting, flight, readingVars>>
          ELSE /\ \/ UNCHANGED flight
                  \/ /\ Answers(n) /\ Len(flight) + Len(line) < MaxLine
                     /\ flight' = Append(flight, Reading(n, ch, line # <<>> \/ flight # <<>>))
               /\ IF Answers(n)
                  THEN waiting' = {n} /\ UNCHANGED <<todo, result, readingVars>>
                  ELSE Succeed(n, ch, Null) /\ UNCHANGED waiting
  /\ UNCHANGED <<def, session, call, line, garbled, pollVars>>

Arrive ==
  /\ flight # <<>>
  /\ line' = Append(line, Head(flight)) /\ flight' = Tail(flight)
  /\ UNCHANGED <<def, session, call, todo, result, waiting, garbled, readingVars, pollVars>>

Heard == tally' = [tally EXCEPT !.heard = IF call = "poll" THEN 1 ELSE @]

\* A complete reply.  What follows it in the same chunk is drained, and so is the line when
\* the reply is not what the command's pipeline takes.
Receive ==
  /\ waiting # {} /\ line # <<>>
  /\ LET n == It(waiting)
         r == Head(line)
         fits == Cmd(n).shape \in {"any", Cmd(r.cmd).shape}
     IN /\ \/ /\ fits /\ Succeed(n, Head(todo).ch, r) /\ UNCHANGED garbled
              /\ \/ line' = Tail(line) /\ UNCHANGED flight
                 \/ Len(line) > 1 /\ def.framing.mode # "message" /\ Drains /\ Drain
           \/ /\ ~fits /\ Fail("parse") /\ UNCHANGED <<readingVars, garbled>>
              /\ IF Drains THEN Drain ELSE line' = Tail(line) /\ UNCHANGED flight
           \/ /\ garbled < MaxGarbled /\ garbled' = garbled + 1
              /\ Fail("framing") /\ UNCHANGED readingVars
              /\ IF Drains THEN Drain ELSE line' = Tail(line) /\ UNCHANGED flight
  /\ waiting' = {} /\ Heard
  /\ UNCHANGED <<def, session, call, due, silent, quiet>>

\* A Modbus exception answers the command and leaves the line in step.
Exception ==
  /\ waiting # {} /\ line # <<>> /\ Given(Cmd(It(waiting)).modbus)
  /\ Fail("refused") /\ line' = Tail(line) /\ waiting' = {} /\ Heard
  /\ UNCHANGED <<def, session, call, flight, garbled, readingVars, due, silent, quiet>>

\* A line that ends by silence: nothing at all is an empty reply (Framer::finish).
EndsBySilence(n) ==
  Cmd(n).reply = "line" /\ def.framing.mode \in {"idle", "message"} /\ ~Given(Cmd(n).modbus)
SilenceIsNull(n) == EndsBySilence(n) /\ Cmd(n).nullOnEmpty

\* The deadline.
TimeOut ==
  /\ waiting # {} /\ line = <<>>
  /\ LET n == It(waiting)
     IN IF SilenceIsNull(n)
        THEN Succeed(n, Head(todo).ch, Null) /\ KeptForPoll /\ UNCHANGED <<line, flight>>
        ELSE /\ Fail(IF EndsBySilence(n) THEN "parse" ELSE "timeout") /\ Drain
             /\ UNCHANGED <<readingVars, tally>>
  /\ waiting' = {}
  /\ UNCHANGED <<def, session, call, garbled, due, silent, quiet>>

\* A read or a write fails.
LinkLost ==
  /\ waiting # {} \/ Doing("drain") \/ Doing("send")
  /\ Fail("io") /\ waiting' = {}
  /\ UNCHANGED <<def, session, call, line, flight, garbled, readingVars, pollVars>>

(***************************************************************************)
(* Polled readings.                                                        *)
(***************************************************************************)
Store(n, ch, v) ==
  latest' = [latest EXCEPT ![ch] = Merge(@, [k \in {n} |-> IF settling THEN Null ELSE v])]

\* A command without a channel is read once and shown on every channel.
Read ==
  /\ Doing("read")
  /\ LET n == Head(todo).cmd
         ch == Head(todo).ch
     IN IF ch > 1 /\ ~UsesCh(n)
        THEN /\ Pop /\ Store(n, ch, IF n \in DOMAIN latest[1] THEN latest[1][n] ELSE Null)
             /\ UNCHANGED tally
        ELSE /\ Push(<<Task("query", n, ch), Task("store", n, ch)>>)
             /\ tally' = [tally EXCEPT !.attempted = 1] /\ UNCHANGED latest
  /\ UNCHANGED <<def, session, call, result, exchangeVars, cache, shadow, settling,
                 due, silent, quiet>>

\* Slip: every stored reading counts as an answer.
StoreReadingAnswered ==
  /\ Doing("store") /\ Pop /\ Store(Head(todo).cmd, Head(todo).ch, result.value)
  /\ tally' = [tally EXCEPT !.answered = 1]
  /\ UNCHANGED <<def, session, call, result, exchangeVars, cache, shadow, settling,
                 due, silent, quiet>>
StoreReading ==
  /\ Doing("store") /\ Pop /\ Store(Head(todo).cmd, Head(todo).ch, result.value)
  /\ tally' = [tally EXCEPT !.answered = IF result.error = "none" THEN 1 ELSE @]
  /\ UNCHANGED <<def, session, call, result, exchangeVars, cache, shadow, settling,
                 due, silent, quiet>>

\* Another poll in a row, unless nothing was attempted.
Counted(n, another) ==
  CASE tally.attempted = 0 -> n
    [] tally.attempted # 0 /\ another -> IF n < MaxSilent THEN n + 1 ELSE n
    [] OTHER -> 0

Count ==
  /\ Doing("count") /\ Pop /\ due' = {} /\ tally' = NoCount
  /\ silent' = Counted(silent, tally.answered = 0)
  /\ quiet' = Counted(quiet, tally.heard = 0 /\ tally.kept = 0)
  /\ UNCHANGED <<def, session, call, result, exchangeVars, readingVars>>

\* A set shows its effect on the next poll; a failed disconnect step is passed over.
Show ==
  /\ Doing("show") /\ Pop /\ due' = Groups
  /\ UNCHANGED <<def, session, call, result, exchangeVars, readingVars, tally, silent, quiet>>
Ignore ==
  /\ Doing("ignore") /\ Pop /\ result' = Fine(Null)
  /\ UNCHANGED <<def, session, call, exchangeVars, readingVars, pollVars>>

\* Time: a poll group falls due, readings settle.
Due ==
  /\ session = "ready" /\ call = "none" /\ due # Groups
  /\ \E g \in Groups \ due : due' = due \cup {g}
  /\ UNCHANGED <<def, session, call, todo, result, exchangeVars, readingVars, tally, silent, quiet>>
Settle ==
  /\ settling /\ settling' = FALSE
  /\ UNCHANGED <<def, session, call, todo, result, exchangeVars, cache, latest, shadow, pollVars>>

\* The thread gives an instrument up that was silent for too long.
Lose ==
  /\ call = "none" /\ session # "closed" /\ silent >= MaxSilent /\ Closed(def)
  /\ UNCHANGED <<def, result, line, flight, garbled>>

Work == DoStep \/ Query \/ Run \/ Require \/ Send \/ DrainFirst \/ Read \/ StoreReading \/ Count
        \/ Show \/ Ignore \/ End
Instrument == Arrive \/ Receive \/ Exception \/ TimeOut \/ LinkLost \/ Due \/ Settle
Calls ==
  /\ call = "none" /\ silent < MaxSilent
  /\ \/ Open \/ StartSession \/ Poll \/ Disconnect
     \/ \E op \in DOMAIN def.class.operations, ch \in Channels : Get(op, ch) \/ Set(op, ch)
Next == Work \/ Instrument \/ Calls \/ Lose
Spec == Init /\ [][Next]_vars

(***************************************************************************)
(* Properties.                                                             *)
(***************************************************************************)
\* Which commands a command calls for: before it, or by an expression.
CallsFor(n) ==
  LET c == Cmd(n)
  IN DOMAIN def.commands \cap
       ({s.cmd : s \in Items(c.before)} \cup (UNION c.requires)
        \cup (UNION UNION {c.params[p].from : p \in DOMAIN c.params}))
\* Some commands each call for one of them.
Circular == \E S \in SUBSET DOMAIN def.commands : S # {} /\ \A n \in S : CallsFor(n) \cap S # {}

\* A step that does not pass what its command asks of its caller.
Lacks(d, s, value) ==
  /\ s.cmd \in DOMAIN d.commands
  /\ Unbound(d, s, value) \/ ~(Free(d.commands[s.cmd]) \subseteq StepArgs(d, s, value))
Lacking(d) ==
  \/ \E n \in {d.identify, "ch", "state"} \cap DOMAIN d.commands : Free(d.commands[n]) # {}
  \/ \E n \in DOMAIN d.commands : \E s \in Items(d.commands[n].before) : Lacks(d, s, FALSE)
  \/ \E op \in DOMAIN d.class.operations :
       \E s \in Items(d.class.operations[op].set) : Lacks(d, s, TRUE)

\* A Modbus value that no caller passes, or that may not be a number.
ValueGap(c) ==
  \E p \in It(c.modbus).value : Given(c.params[p].from) \/ "word" \in Texts(c.params[p])

\* What the validator lets through and the engine cannot carry out: a format wire.rs does not
\* render; a Modbus command on a link whose own framing has no Modbus, or with such a value;
\* an identification, or a command with the name of a variable, that needs an argument; a
\* preparation or a step of a set that is not passed all of its arguments; commands that
\* call for each other.
KnownGap ==
  \/ \E n \in DOMAIN def.commands, p \in Keys :
       p \in DOMAIN Cmd(n).params /\ (Cmd(n).params[p].format \ Rendered) # {}
  \/ \E n \in DOMAIN def.commands :
       Given(Cmd(n).modbus) /\ (~def.framing.modbus \/ ValueGap(Cmd(n)))
  \/ Lacking(def) \/ Circular

\* A definition the validator accepts never fails in the engine for being inconsistent
\* (Error::Definition, or an argument missing or unexpected whatever the caller passes), and
\* never calls itself without end, except through the gaps above: every cross reference the
\* engine follows was checked.
DefinitionErrorsKnown ==
  result.error \in {"definition", "arguments", "overflow"} => KnownGap

\* Every reading kept came from an answer to its own command and channel, whatever answers
\* were late, lost or of the wrong shape, unless an answer outlived a drain: one that comes
\* while the line is watched is thrown away before the next command is written.  It takes
\* drain_idle_ms, and no command that reads silence as "no value" (then a missed answer is
\* not noticed, and nothing is drained).
Own(n, ch, r) == r # Null /\ ~r.stray => r.cmd = n /\ (UsesCh(n) => r.ch = ch)
ReadingsOwn ==
  /\ \A k \in DOMAIN cache : Own(k[1], k[2], cache[k])
  /\ \A ch \in Channels : \A n \in DOMAIN latest[ch] : Own(n, ch, latest[ch][n])
OwnReadings == Drains /\ (\A n \in DOMAIN def.commands : ~SilenceIsNull(n)) => ReadingsOwn

\* A late reply never lands on the next command of a definition that drains
\* (DEVICE_DSL.md:79): it does after a command that reads silence as "no value".
LateReplyDiscarded == Drains => ReadingsOwn

\* The engine counts at least as many silent polls as there were in a row in which it heard
\* nothing (and no reading was one it kept, or a silence that means "no value"): an
\* instrument that is gone is given up.
SilenceCounted == quiet <= silent
=============================================================================
