---------------------------- MODULE EngineProofs ----------------------------
(***************************************************************************)
(* Proofs about Engine: what the engine follows in an accepted definition  *)
(* is there, silence is counted, and readings are their own command's.     *)
(*                                                                         *)
(* TaskInv says what the stack may hold: tasks for commands the definition *)
(* has, reading and storing only in a poll, and before every reading to be *)
(* stored the task that gives it.  The others rest on it: FitInv (a task   *)
(* passes its command what the caller must give), GapInv (what makes a     *)
(* definition fail), DepthInv (a command in progress waits for what is     *)
(* above it, so a stack deeper than there are commands holds one of them   *)
(* twice, and the commands between call for each other), SilentInv (an     *)
(* answer counted was heard or kept, and so is a good reading about to be  *)
(* stored), LineInv with ReadInv (what is on the line is stray, unless the *)
(* engine waits for it).  What is pushed for a poll is a FlattenSeq, whose *)
(* value is found by induction over numbers.                               *)
(***************************************************************************)
EXTENDS Engine, FiniteSetTheorems, WellFoundedInduction, TLAPS

-----------------------------------------------------------------------------
(* Numbers. *)

\* A set of numbers has a least one, if any.
LEMMA Least ==
  ASSUME NEW T \in SUBSET Nat, T # {}
  PROVE  \E m \in T : \A x \in T : m <= x
<1>1. PICK m \in T : \A x \in T : <<x, m>> \notin OpToRel(<, Nat)
  BY NatLessThanWellFounded, WFMin
<1>2. \A x \in T : ~(x < m)
  BY <1>1, Zenon DEF OpToRel
<1>. QED
  BY <1>2

\* A set that has 0, and with every number the next one, has them all.
LEMMA Induction ==
  ASSUME NEW S, 0 \in S, \A n \in Nat : n \in S => n + 1 \in S
  PROVE  \A n \in Nat : n \in S
<1>1. ASSUME Nat \ S # {} PROVE FALSE
  <2>1. PICK m \in Nat \ S : \A x \in Nat \ S : m <= x
    BY <1>1, Least
  <2>. QED
    BY <2>1
<1>. QED
  BY <1>1

(***************************************************************************)
(* What the engine uses of an accepted definition.                         *)
(***************************************************************************)
Steps(d) == {s \in Step : s.cmd \in DOMAIN d.commands}
Polled(d) ==
  {n \in DOMAIN d.commands : d.commands[n].reply # "none" /\ Free(d.commands[n]) = {}}
ChannelsOf(d) == 1..d.class.channels

\* A step that passes what its command asks of its caller, and no more.
Fit(d, s, value) == s.args \subseteq Free(d.commands[s.cmd]) /\ ~Lacks(d, s, value)
Asked(d, n) ==
  DOMAIN d.commands \cap
    ((UNION d.commands[n].requires)
     \cup UNION UNION {d.commands[n].params[p].from : p \in DOMAIN d.commands[n].params})
FitSound(d) ==
  ~Lacking(d) =>
    /\ Free(d.commands[d.identify]) = {}
    /\ \A s \in Items(d.connect) \cup Items(d.disconnect) : Fit(d, s, FALSE)
    /\ \A op \in DOMAIN d.class.operations :
         /\ \A s \in Items(d.class.operations[op].get) : Fit(d, s, FALSE)
         /\ \A s \in Items(d.class.operations[op].set) : Fit(d, s, TRUE)
    /\ \A n \in DOMAIN d.commands :
         /\ \A s \in Items(d.commands[n].before) : Fit(d, s, FALSE)
         /\ \A m \in Asked(d, n) : Free(d.commands[m]) = {}

Sound(d) ==
  /\ FitSound(d)
  /\ DOMAIN d.commands \subseteq Names
  /\ d.identify \in DOMAIN d.commands
  /\ d.class.channels \in Nat \ {0}
  /\ d.connect \in Seq(Steps(d)) /\ d.disconnect \in Seq(Steps(d))
  /\ d.class.poll \in Seq([every: BOOLEAN, read: Seq(Polled(d))])
  /\ \A op \in DOMAIN d.class.operations :
       d.class.operations[op].get \in Seq(Steps(d)) /\ d.class.operations[op].set \in Seq(Steps(d))
  /\ \A n \in DOMAIN d.commands :
       LET c == d.commands[n]
       IN /\ DOMAIN c.params \subseteq Keys
          /\ c.before \in Seq(Steps(d))
          /\ Given(c.modbus) => It(c.modbus).value \subseteq DOMAIN c.params

(***************************************************************************)
(* The tasks.                                                              *)
(***************************************************************************)
CommandTasks(d) ==
  [t: {"query", "run", "send", "require", "count", "show", "ignore", "drain"},
   cmd: DOMAIN d.commands, ch: ChannelsOf(d), args: SUBSET Keys]
PollTasks(d) == [t: {"read", "store"}, cmd: Polled(d), ch: ChannelsOf(d), args: SUBSET Keys]
StepTasksOf(d) == [t: {"step"}, step: Steps(d), ch: ChannelsOf(d), value: BOOLEAN]
Tasks(d) == CommandTasks(d) \cup PollTasks(d) \cup StepTasksOf(d)
FirstTasks(d) == {x \in CommandTasks(d) : x.t \notin {"send", "query", "run"}}

\* A task that passes its command what the caller must give.
Fits(d, x) ==
  /\ x.t \in {"run", "send"} => x.args = Free(d.commands[x.cmd])
  /\ x.t = "query" => Free(d.commands[x.cmd]) = {}
  /\ x.t = "step" => Fit(d, x.step, x.value)
Fitting(d, q) == \A i \in 1..Len(q) : Fits(d, q[i])

\* b leaves the reading that the task s after it stores.
Feeds(b, s) == b.t \in {"query", "run", "send"} /\ b.cmd = s.cmd /\ b.ch = s.ch
Fed(q) == \A i \in 2..Len(q) : q[i].t = "store" => Feeds(q[i - 1], q[i])

\* Only a poll reads and stores.
OnlyPolls(q, c) == \A i \in 1..Len(q) : q[i].t \in {"read", "store"} => c = "poll"
Stack(d, q, c) == q \in Seq(Tasks(d)) /\ Fed(q) /\ OnlyPolls(q, c)
\* A stack with no reading to store yet.
Begun(d, q, c) == Stack(d, q, c) /\ (q = <<>> \/ Head(q).t # "store")
\* A stack with no command in progress.
Unsent(q) == \A i \in 1..Len(q) : q[i].t # "send"
Fresh(d, q, c) == Begun(d, q, c) /\ Unsent(q) /\ (~Lacking(d) => Fitting(d, q))

(***************************************************************************)
(* The invariants.                                                         *)
(***************************************************************************)
Tallies == [attempted: 0..1, answered: 0..1, heard: 0..1, kept: 0..1]
TaskInv ==
  /\ Sound(def)
  /\ Stack(def, todo, call)
  /\ due \subseteq Groups
  /\ tally \in Tallies
  /\ DOMAIN latest = Channels
  /\ call = "none" => todo = <<>> /\ waiting = {}
  /\ waiting # {} => todo # <<>> /\ Head(todo).t = "send" /\ waiting = {Head(todo).cmd}
  /\ result.error # "none" => result.value = Null

FitInv == ~Lacking(def) => Fitting(def, todo)

GapSeen ==
  \/ Lacking(def)
  \/ \E n \in DOMAIN def.commands :
       \/ \E p \in Keys :
            p \in DOMAIN Cmd(n).params /\ (Cmd(n).params[p].format \ Rendered) # {}
       \/ Given(Cmd(n).modbus) /\ (~def.framing.modbus \/ ValueGap(Cmd(n)))
GapInv == result.error \in {"definition", "arguments"} => GapSeen

\* What a command calls for, what a task calls, and whether a command waits for a task.
CallsIn(d, n) ==
  LET c == d.commands[n]
  IN DOMAIN d.commands \cap
       ({x.cmd : x \in Items(c.before)} \cup (UNION c.requires)
        \cup (UNION UNION {c.params[p].from : p \in DOMAIN c.params}))
Called(x) == IF x.t = "step" THEN x.step.cmd ELSE x.cmd
Serves(d, x, n) ==
  x.t = "require" \/ (x.t \in {"step", "query", "run", "send"} /\ Called(x) \in CallsIn(d, n))

\* A command in progress waits for what is above it, down from the next one in progress.
Nested(d, q) ==
  \A k \in 1..Len(q) : \A i \in 1..k - 1 :
    q[k].t = "send" /\ (\A j \in i + 1..k - 1 : q[j].t # "send") => Serves(d, q[i], q[k].cmd)
DepthInv ==
  /\ Cardinality(DOMAIN def.commands) <= MaxDepth
  /\ Nested(def, todo)
  /\ result.error = "overflow" => Circular

\* A store at the head of the stack.
Storing == todo # <<>> /\ waiting = {} /\ Head(todo).t = "store"

Noticed(t) == t.heard = 1 \/ t.kept = 1
SilentInv ==
  /\ tally.answered = 1 => Noticed(tally)
  /\ Storing /\ result.error = "none" => Noticed(tally)
CountInv == silent \in Nat /\ quiet \in Nat /\ quiet <= silent

Strict == Drains /\ \A n \in DOMAIN def.commands : ~SilenceIsNull(n)
AnswerSet == [cmd: Names, ch: Nat, stray: BOOLEAN]
AllStray(q) == \A i \in 1..Len(q) : q[i].stray
Quiet == AllStray(line) /\ AllStray(flight)
LineType == line \in Seq(AnswerSet) /\ flight \in Seq(AnswerSet)
LineIs(answer) ==
  /\ waiting = {} => \/ Quiet
                     \/ session = "closed" /\ call = "none"
                     \/ todo # <<>> /\ Head(todo).t = "drain"
                     \/ call # "none" /\ todo = <<>> /\ result.error = "io"
  /\ waiting # {} => \/ Quiet
                     \/ line = <<>> /\ flight = <<answer>>
                     \/ flight = <<>> /\ line = <<answer>>
LineInv == Strict => LineIs(Reading(Head(todo).cmd, Head(todo).ch, FALSE))
ReadInv ==
  Strict => /\ ReadingsOwn
            /\ Storing => Own(Head(todo).cmd, Head(todo).ch, result.value)

(***************************************************************************)
(* Sequences.                                                              *)
(***************************************************************************)
\* A finite set as a sequence of its elements.
LEMMA SetAsSequence ==
  ASSUME NEW S, IsFiniteSet(S)
  PROVE  SetToSeq(S) \in [1..Cardinality(S) -> S] /\ SetToSeq(S) \in Seq(S) /\ Len(SetToSeq(S)) = Cardinality(S)
<1>1. Cardinality(S) \in Nat /\ ExistsBijection(1..Cardinality(S), S)
  BY FS_CardinalityType
<1>2. PICK f \in Bijection(1..Cardinality(S), S) : TRUE
  BY <1>1 DEF ExistsBijection
<1>3. f \in [1..Cardinality(S) -> S] /\ IsInjective(f)
  BY <1>2 DEF Bijection, Injection, IsInjective
<1>. QED
  BY <1>1, <1>3 DEF SetToSeq

\* Sequences one after the other make a sequence.
LEMMA Flattened ==
  ASSUME NEW S, NEW q \in Seq(Seq(S))
  PROVE  FlattenSeq(q) \in Seq(S)
<1> DEFINE N == Len(q)
           Is(f, m) == f = [i \in 1..m |-> IF i = 1 THEN q[i] ELSE f[i - 1] \o q[i]]
           P == {m \in Nat : m <= N => \E f : Is(f, m)}
<1>1. N \in Nat /\ \A i \in 1..N : q[i] \in Seq(S)
  OBVIOUS
<1>2. 0 \in P
  <2> DEFINE e == [i \in 1..0 |-> <<>>]
  <2>1. e = [i \in 1..0 |-> IF i = 1 THEN q[i] ELSE e[i - 1] \o q[i]]
    OBVIOUS
  <2> HIDE DEF e
  <2>2. Is(e, 0)
    BY <2>1
  <2> HIDE DEF Is
  <2>. QED BY <2>2
<1>3. ASSUME NEW m \in Nat, m \in P PROVE m + 1 \in P
  <2> SUFFICES ASSUME m + 1 <= N PROVE \E f : Is(f, m + 1)
    <3> HIDE DEF Is
    <3>. QED OBVIOUS
  <2>1. \E f : Is(f, m)
    <3> HIDE DEF Is
    <3>1. m <= N
      BY <1>1
    <3>. QED BY <1>3, <3>1
  <2>2. PICK f : Is(f, m)
    BY <2>1
  <2> DEFINE g == [i \in 1..m + 1 |-> IF i = 1 THEN q[i] ELSE f[i - 1] \o q[i]]
  <2>3. \A i \in 1..m : f[i] = IF i = 1 THEN q[i] ELSE f[i - 1] \o q[i]
    BY <2>2
  <2>4. \A i \in 1..m + 1 : g[i] = IF i = 1 THEN q[i] ELSE f[i - 1] \o q[i]
    OBVIOUS
  <2>5. \A i \in 1..m + 1 : i # 1 => i - 1 \in 1..m /\ i - 1 \in 1..m + 1
    OBVIOUS
  <2>6. DOMAIN g = 1..m + 1 /\ g = [i \in 1..m + 1 |-> g[i]]
    OBVIOUS
  <2> HIDE DEF g, N
  <2>7. \A i \in 1..m : g[i] = f[i]
    <3> TAKE i \in 1..m
    <3>1. i \in 1..m + 1
      OBVIOUS
    <3>. QED BY <3>1, <2>3, <2>4
  <2>8. \A i \in 1..m + 1 : g[i] = IF i = 1 THEN q[i] ELSE g[i - 1] \o q[i]
    BY <2>4, <2>5, <2>7
  <2>9. Is(g, m + 1)
    BY <2>6, <2>8
  <2> HIDE DEF Is
  <2>. QED BY <2>9
<1>4. N \in P
  <2> HIDE DEF P
  <2>. QED BY <1>2, <1>3, <1>1, Induction
<1>5. \E f : Is(f, N)
  <2> HIDE DEF Is
  <2>1. N <= N
    BY <1>1
  <2>. QED BY <1>4, <2>1
<1> DEFINE h == CHOOSE f : Is(f, N)
<1>6. Is(h, N)
  BY <1>5
<1> HIDE DEF h
<1> DEFINE T == {m \in Nat : m \in 1..N => h[m] \in Seq(S)}
<1>7. \A m \in Nat : m \in T => m + 1 \in T
  <2> SUFFICES ASSUME NEW m \in Nat, m \in T, m + 1 \in 1..N PROVE h[m + 1] \in Seq(S)
    BY <1>1
  <2>1. h[m + 1] = IF m + 1 = 1 THEN q[m + 1] ELSE h[(m + 1) - 1] \o q[m + 1]
    BY <1>6
  <2>2. q[m + 1] \in Seq(S)
    BY <1>1
  <2>3. CASE m = 0
    BY <2>1, <2>2, <2>3
  <2>4. CASE m # 0
    <3>1. h[m] \in Seq(S)
      BY <2>4, <1>1
    <3>2. h[m + 1] = h[m] \o q[m + 1]
      <4>1. m + 1 # 1 /\ (m + 1) - 1 = m
        BY <2>4
      <4>. QED BY <2>1, <4>1
    <3>. QED BY <3>1, <3>2, <2>2
  <2>. QED BY <2>3, <2>4
<1>8. 0 \in T
  OBVIOUS
<1>9. \A m \in Nat : m \in T
  <2> HIDE DEF T
  <2>. QED BY <1>7, <1>8, Induction
<1>10. N # 0 => h[N] \in Seq(S)
  BY <1>9, <1>1
<1>11. N = 0 => FlattenSeq(q) = <<>> /\ <<>> \in Seq(S)
  BY DEF FlattenSeq
<1>12. N # 0 => FlattenSeq(q) = h[N]
  BY DEF FlattenSeq, h
<1>. QED
  BY <1>10, <1>11, <1>12

(***************************************************************************)
(* An accepted definition is sound, as one link has it.                    *)
(***************************************************************************)
LEMMA StepsOfIn ==
  ASSUME NEW d, NEW q \in Seq(Step), \A s \in Items(q) : s.cmd \in DOMAIN d.commands
  PROVE  q \in Seq(Steps(d))
BY DEF Items, Steps

\* A step the validator passed gives its command no more than it asks, and what it asks if it
\* may not have the value.
LEMMA CheckedFits ==
  ASSUME NEW d, IsDevice(d), NEW s \in Step, NEW ok \in BOOLEAN, StepOk(d, s, ok)
  PROVE  s.args \subseteq Free(d.commands[s.cmd]) /\ (~ok => Fit(d, s, FALSE))
<1> DEFINE F == Free(d.commands[s.cmd])
           M == F \ s.args
<1>1. /\ s.cmd \in DOMAIN d.commands /\ s.args \subseteq F
      /\ s.bound # {} => ok
      /\ ~ok => Cardinality(M) <= 0
  BY DEF StepOk
<1>2. F \subseteq Keys
  BY <1>1 DEF Free, IsDevice, IsCommand
<1>3. s.call \/ s.args = {}
  BY DEF Step
<1> SUFFICES ASSUME ~ok PROVE Fit(d, s, FALSE)
  BY <1>1
<1>4. M = {}
  <2>1. IsFiniteSet(M)
    BY <1>2, NamesFinite, FS_Subset
  <2>2. Cardinality(M) \in Nat /\ Cardinality(M) <= 0
    BY <1>1, <2>1, FS_CardinalityType
  <2>3. Cardinality(M) = 0
    BY <2>2
  <2>. QED
    BY <2>1, <2>3, FS_EmptySet
<1>5. F = s.args
  BY <1>1, <1>4
<1>6. ~Unbound(d, s, FALSE) /\ StepArgs(d, s, FALSE) = s.args
  BY <1>1, <1>3, <1>5 DEF Unbound, StepArgs
<1>. QED
  BY <1>5, <1>6 DEF Fit, Lacks

\* What an expression asks for asks for nothing itself.
LEMMA AskedFree ==
  ASSUME NEW d, IsDevice(d), NEW n \in DOMAIN d.commands, CommandOk(d, n), ~Lacking(d),
         NEW m \in Asked(d, n)
  PROVE  Free(d.commands[m]) = {}
<1> DEFINE c == d.commands[n]
<1>1. IsCommand(c) /\ m \in DOMAIN d.commands
  BY DEF IsDevice, Asked
<1>2. ASSUME m \in QueryVars(d) PROVE Free(d.commands[m]) = {}
  BY <1>1, <1>2 DEF QueryVars, Lacking
<1>3. ASSUME NEW r \in c.requires, m \in r PROVE m \in QueryVars(d)
  <2>1. r = It(c.requires)
    BY <1>1, <1>3 DEF IsCommand, IsMaybe, It
  <2>. QED
    BY <1>3, <2>1 DEF CommandOk, Given
<1>4. ASSUME NEW p \in DOMAIN c.params, NEW e \in c.params[p].from, m \in e
      PROVE  m \in QueryVars(d)
  <2>1. IsParam(c.params[p]) /\ ParamOk(d, c.params[p])
    BY <1>1 DEF IsCommand, CommandOk
  <2>2. e = It(c.params[p].from)
    BY <1>4, <2>1 DEF IsParam, IsMaybe, It
  <2>. QED
    BY <1>4, <2>1, <2>2 DEF ParamOk, Given
<1>5. CASE m \in UNION c.requires
  BY <1>2, <1>3, <1>5
<1>6. CASE m \in UNION UNION {c.params[p].from : p \in DOMAIN c.params}
  <2>1. PICK p \in DOMAIN c.params : \E e \in c.params[p].from : m \in e
    BY <1>6
  <2>. QED
    BY <1>2, <1>4, <2>1
<1>. QED
  BY <1>5, <1>6 DEF Asked

LEMMA AcceptedFits ==
  ASSUME NEW d, IsDevice(d), Accepted(d, TheContract)
  PROVE  FitSound(d)
<1> SUFFICES ASSUME ~Lacking(d)
    PROVE  /\ Free(d.commands[d.identify]) = {}
           /\ \A s \in Items(d.connect) \cup Items(d.disconnect) : Fit(d, s, FALSE)
           /\ \A op \in DOMAIN d.class.operations :
                /\ \A s \in Items(d.class.operations[op].get) : Fit(d, s, FALSE)
                /\ \A s \in Items(d.class.operations[op].set) : Fit(d, s, TRUE)
           /\ \A n \in DOMAIN d.commands :
                /\ \A s \in Items(d.commands[n].before) : Fit(d, s, FALSE)
                /\ \A m \in Asked(d, n) : Free(d.commands[m]) = {}
  BY DEF FitSound
<1>1. Free(d.commands[d.identify]) = {}
  BY DEF Accepted, Lacking
<1>2. \A q : q \in Seq(Step) => \A s \in Items(q) : s \in Step
  BY DEF Items
<1>3. ASSUME NEW s \in Items(d.connect) \cup Items(d.disconnect) PROVE Fit(d, s, FALSE)
  <2>1. s \in Step /\ StepOk(d, s, FALSE)
    BY <1>2 DEF IsDevice, Accepted
  <2>. QED
    BY <2>1, CheckedFits
<1>4. ASSUME NEW op \in DOMAIN d.class.operations
      PROVE  /\ \A s \in Items(d.class.operations[op].get) : Fit(d, s, FALSE)
             /\ \A s \in Items(d.class.operations[op].set) : Fit(d, s, TRUE)
  <2> DEFINE o == d.class.operations[op]
  <2>1. o \in Operation
    BY DEF IsDevice, IsBinding, IsPartial
  <2>2. o.get \in Seq(Step) /\ o.set \in Seq(Step)
    BY <2>1 DEF Operation
  <2>3. OperationOk(d, op, TheContract)
    BY DEF Accepted, BindingOk
  <2>4. ASSUME NEW s \in Items(o.get) PROVE Fit(d, s, FALSE)
    <3>1. s \in Step /\ StepOk(d, s, FALSE)
      BY <1>2, <2>2, <2>3 DEF OperationOk
    <3>. QED
      BY <3>1, CheckedFits
  <2>5. ASSUME NEW s \in Items(o.set) PROVE Fit(d, s, TRUE)
    <3>1. s \in Step /\ StepOk(d, s, TRUE)
      BY <1>2, <2>2, <2>3 DEF OperationOk
    <3>2. s.args \subseteq Free(d.commands[s.cmd])
      BY <3>1, CheckedFits
    <3>. QED
      BY <3>2 DEF Fit, Lacking
  <2>. QED
    BY <2>4, <2>5
<1>5. ASSUME NEW n \in DOMAIN d.commands
      PROVE  /\ \A s \in Items(d.commands[n].before) : Fit(d, s, FALSE)
             /\ \A m \in Asked(d, n) : Free(d.commands[m]) = {}
  <2>1. IsCommand(d.commands[n]) /\ CommandOk(d, n)
    BY DEF IsDevice, Accepted
  <2>2. ASSUME NEW s \in Items(d.commands[n].before) PROVE Fit(d, s, FALSE)
    <3>1. s \in Step /\ StepOk(d, s, TRUE)
      BY <1>2, <2>1 DEF IsCommand, CommandOk
    <3>2. s.args \subseteq Free(d.commands[s.cmd])
      BY <3>1, CheckedFits
    <3>. QED
      BY <3>2 DEF Fit, Lacking
  <2>. QED
    BY <2>1, <2>2, AskedFree
<1>. QED
  BY <1>1, <1>3, <1>4, <1>5

LEMMA AcceptedIsSound ==
  ASSUME NEW d, IsDevice(d), Accepted(d, TheContract)
  PROVE  Sound(d)
<1>1. DOMAIN d.commands \subseteq Names /\ d.identify \in DOMAIN d.commands
  BY DEF IsDevice, Accepted
<1>2. IsBinding(d.class) /\ BindingOk(d, TheContract)
  BY DEF IsDevice, Accepted
<1>3. d.class.channels \in Nat \ {0}
  BY <1>2 DEF IsBinding, BindingOk
<1>4. d.connect \in Seq(Steps(d)) /\ d.disconnect \in Seq(Steps(d))
  <2>1. d.connect \in Seq(Step) /\ d.disconnect \in Seq(Step)
    BY DEF IsDevice
  <2>2. \A s \in Items(d.connect) \cup Items(d.disconnect) : s.cmd \in DOMAIN d.commands
    BY DEF Accepted, StepOk
  <2>. QED
    BY <2>1, <2>2, StepsOfIn
<1>5. d.class.poll \in Seq([every: BOOLEAN, read: Seq(Polled(d))])
  <2> DEFINE p == d.class.poll
             R == [every: BOOLEAN, read: Seq(Names)]
             Q == [every: BOOLEAN, read: Seq(Polled(d))]
  <2>1. p \in Seq(R)
    BY <1>2 DEF IsBinding
  <2>2. \A g \in Items(p) : \A n \in Items(g.read) : n \in Polled(d)
    BY <1>2 DEF BindingOk, PollOk, Polled
  <2> HIDE DEF p
  <2>3. \A i \in 1..Len(p) : p[i] \in Q
    <3> TAKE i \in 1..Len(p)
    <3>1. p[i] \in Items(p) /\ p[i] \in R
      <4> HIDE DEF R
      <4>. QED
        BY <2>1 DEF Items
    <3>2. \A j \in 1..Len(p[i].read) : p[i].read[j] \in Polled(d)
      BY <3>1, <2>2 DEF Items
    <3>3. p[i].read \in Seq(Polled(d))
      BY <3>1, <3>2
    <3>. QED
      BY <3>1, <3>3
  <2>4. p \in Seq(Q)
    <3> HIDE DEF R, Q
    <3>. QED
      BY <2>1, <2>3
  <2>. QED
    BY <2>4 DEF p
<1>6. ASSUME NEW op \in DOMAIN d.class.operations
      PROVE  /\ d.class.operations[op].get \in Seq(Steps(d))
             /\ d.class.operations[op].set \in Seq(Steps(d))
  <2> DEFINE o == d.class.operations[op]
  <2>1. o \in Operation
    BY <1>2 DEF IsBinding, IsPartial
  <2>2. o.get \in Seq(Step) /\ o.set \in Seq(Step)
    BY <2>1 DEF Operation
  <2>3. OperationOk(d, op, TheContract)
    BY <1>2 DEF BindingOk
  <2>4. \A s \in Items(o.get) \cup Items(o.set) : s.cmd \in DOMAIN d.commands
    BY <2>3 DEF OperationOk, StepOk
  <2>. QED
    BY <2>2, <2>4, StepsOfIn
<1>7. ASSUME NEW n \in DOMAIN d.commands
      PROVE  /\ DOMAIN d.commands[n].params \subseteq Keys
             /\ d.commands[n].before \in Seq(Steps(d))
             /\ Given(d.commands[n].modbus) =>
                  It(d.commands[n].modbus).value \subseteq DOMAIN d.commands[n].params
  <2> DEFINE c == d.commands[n]
  <2>1. IsCommand(c) /\ CommandOk(d, n)
    BY DEF IsDevice, Accepted
  <2>2. DOMAIN c.params \subseteq Keys /\ c.before \in Seq(Step)
    BY <2>1 DEF IsCommand
  <2>3. \A s \in Items(c.before) : s.cmd \in DOMAIN d.commands
    BY <2>1 DEF CommandOk, StepOk
  <2>4. c.before \in Seq(Steps(d))
    BY <2>2, <2>3, StepsOfIn
  <2>5. Given(c.modbus) => It(c.modbus).value \subseteq DOMAIN c.params
    <3>1. ModbusOk(d, c)
      BY <2>1 DEF CommandOk
    <3>2. SUFFICES ASSUME Given(c.modbus) PROVE It(c.modbus).value \subseteq DOMAIN c.params
      OBVIOUS
    <3>3. It(c.modbus) \in ModbusOp
      BY <2>1, <3>2 DEF IsCommand, IsMaybe, Given, It
    <3>4. ~Given(It(c.modbus).value) => It(c.modbus).value = {}
      BY <3>3 DEF ModbusOp, Given
    <3>5. Given(It(c.modbus).value) => It(c.modbus).value \subseteq DOMAIN c.params
      BY <3>1, <3>2 DEF ModbusOk
    <3>. QED
      BY <3>4, <3>5
  <2>. QED
    BY <2>2, <2>4, <2>5
<1>. QED
  BY <1>1, <1>3, <1>4, <1>5, <1>6, <1>7, AcceptedFits DEF Sound

LEMMA LinkedIsSound ==
  ASSUME NEW d, NEW t, IsDevice(d), Sound(d)
  PROVE  Sound(ForTransport(d, t))
<1> DEFINE e == ForTransport(d, t)
<1>1. e.commands = d.commands /\ e.identify = d.identify /\ e.class = d.class
      /\ e.connect = d.connect /\ e.disconnect = d.disconnect
  BY DEF ForTransport, IsDevice
<1> HIDE DEF e
<1>2. Steps(e) = Steps(d) /\ Polled(e) = Polled(d)
  BY <1>1 DEF Steps, Polled
<1>3. Lacking(e) = Lacking(d) /\ \A s, v : Fit(e, s, v) = Fit(d, s, v)
  BY <1>1 DEF Lacking, Fit, Lacks, Unbound, StepArgs
<1>4. \A n : Asked(e, n) = Asked(d, n)
  BY <1>1 DEF Asked
<1>5. FitSound(e)
  <2>1. FitSound(d)
    BY DEF Sound
  <2>. QED
    BY <1>1, <1>3, <1>4, <2>1 DEF FitSound
<1>6. Sound(e)
  BY <1>1, <1>2, <1>5 DEF Sound
<1>. QED
  BY <1>6 DEF e

(***************************************************************************)
(* The stack.                                                              *)
(***************************************************************************)

LEMMA TailStack ==
  ASSUME NEW d, NEW c, NEW q, q # <<>>, Stack(d, q, c)
  PROVE  /\ Stack(d, Tail(q), c)
         /\ Tail(q) # <<>> /\ Head(Tail(q)).t = "store" => Feeds(Head(q), Head(Tail(q)))
<1>1. q \in Seq(Tasks(d)) /\ Len(q) \in Nat /\ Len(q) > 0
  BY DEF Stack
<1>2. Tail(q) \in Seq(Tasks(d)) /\ Len(Tail(q)) = Len(q) - 1
      /\ \A i \in 1..Len(Tail(q)) : Tail(q)[i] = q[i + 1] /\ i + 1 \in 2..Len(q)
  BY <1>1
<1> DEFINE r == Tail(q)
<1> HIDE DEF r
<1>3. Fed(r)
  <2> SUFFICES ASSUME NEW i \in 2..Len(r), r[i].t = "store" PROVE Feeds(r[i - 1], r[i])
    BY DEF Fed
  <2>1. i \in 1..Len(r) /\ i - 1 \in 1..Len(r)
    BY <1>1, <1>2 DEF r
  <2>2. r[i] = q[i + 1] /\ r[i - 1] = q[(i - 1) + 1] /\ i + 1 \in 2..Len(q) /\ (i + 1) - 1 = i /\ (i - 1) + 1 = i
    BY <2>1, <1>2 DEF r
  <2>3. Feeds(q[(i + 1) - 1], q[i + 1])
    BY <2>2 DEF Fed, Stack
  <2>. QED
    BY <2>2, <2>3
<1>4. OnlyPolls(r, c)
  <2> SUFFICES ASSUME NEW i \in 1..Len(r), r[i].t \in {"read", "store"} PROVE c = "poll"
    BY DEF OnlyPolls
  <2>1. r[i] = q[i + 1] /\ i + 1 \in 1..Len(q)
    BY <1>1, <1>2 DEF r
  <2>. QED
    BY <2>1 DEF Stack, OnlyPolls
<1>5. r # <<>> /\ Head(r).t = "store" => Feeds(Head(q), Head(r))
  <2> SUFFICES ASSUME r # <<>>, Head(r).t = "store" PROVE Feeds(Head(q), Head(r))
    OBVIOUS
  <2>1. r \in Seq(Tasks(d))
    BY <1>2 DEF r
  <2>2. Len(r) # 0 /\ Len(r) \in Nat
    BY <2>1
  <2>3. 1 \in 1..Len(r)
    BY <2>2
  <2>4. r[1] = q[2] /\ 2 \in 2..Len(q)
    BY <2>3, <1>2 DEF r
  <2>5. Head(r) = r[1] /\ Head(q) = q[1]
    BY <1>1, <2>1
  <2>6. Feeds(q[2 - 1], q[2])
    BY <2>4, <2>5 DEF Fed, Stack
  <2>. QED
    BY <2>4, <2>5, <2>6
<1>. QED
  BY <1>2, <1>3, <1>4, <1>5 DEF Stack, r

\* New tasks on top: the last of them feeds what the head did.
LEMMA PushStack ==
  ASSUME NEW d, NEW c, NEW q, q # <<>>, Stack(d, q, c), NEW new, new # <<>>, Stack(d, new, c),
         \A s : Feeds(Head(q), s) => Feeds(new[Len(new)], s)
  PROVE  /\ Stack(d, new \o Tail(q), c)
         /\ new \o Tail(q) # <<>> /\ Head(new \o Tail(q)) = Head(new)
<1>1. q \in Seq(Tasks(d)) /\ Len(q) \in Nat /\ Len(q) > 0 /\ new \in Seq(Tasks(d)) /\ Len(new) \in Nat
  BY DEF Stack
<1> DEFINE r == Tail(q)
           w == new \o r
<1>2. /\ Stack(d, r, c)
      /\ r # <<>> /\ Head(r).t = "store" => Feeds(Head(q), Head(r))
  BY TailStack
<1>3. r \in Seq(Tasks(d)) /\ Len(r) \in Nat
  BY <1>2 DEF Stack
<1> HIDE DEF r
<1>4. /\ w \in Seq(Tasks(d)) /\ Len(w) = Len(new) + Len(r)
      /\ \A i \in 1..Len(w) : w[i] = IF i <= Len(new) THEN new[i] ELSE r[i - Len(new)]
  BY <1>1, <1>3
<1> HIDE DEF w
<1>5. Fed(w)
  <2> SUFFICES ASSUME NEW i \in 2..Len(w), w[i].t = "store" PROVE Feeds(w[i - 1], w[i])
    BY DEF Fed
  <2>0. i \in 1..Len(w) /\ i - 1 \in 1..Len(w) /\ i \in Int
    BY <1>4, <1>1, <1>3
  <2>1. CASE i <= Len(new)
    <3>1. w[i] = new[i] /\ w[i - 1] = new[i - 1] /\ i \in 2..Len(new)
      BY <2>0, <2>1, <1>4, <1>1
    <3>. QED
      BY <3>1 DEF Stack, Fed
  <2>2. CASE i > Len(new) + 1
    <3>1. /\ w[i] = r[i - Len(new)] /\ w[i - 1] = r[(i - 1) - Len(new)]
          /\ i - Len(new) \in 2..Len(r) /\ (i - Len(new)) - 1 = (i - 1) - Len(new)
      <4>1. ~(i <= Len(new)) /\ ~(i - 1 <= Len(new))
        BY <2>0, <2>2, <1>1
      <4>2. w[i] = r[i - Len(new)] /\ w[i - 1] = r[(i - 1) - Len(new)]
        BY <2>0, <4>1, <1>4
      <4>3. Len(w) = Len(new) + Len(r)
        BY <1>4
      <4>4. i - Len(new) \in 2..Len(r) /\ (i - Len(new)) - 1 = (i - 1) - Len(new)
        BY <2>0, <2>2, <4>3, <1>1, <1>3
      <4>. QED
        BY <4>2, <4>4
    <3>2. Fed(r)
      BY <1>2 DEF Stack
    <3> DEFINE j == i - Len(new)
    <3>3. j \in 2..Len(r) /\ r[j].t = "store" /\ w[i] = r[j] /\ w[i - 1] = r[j - 1]
      BY <3>1
    <3> HIDE DEF j
    <3>. QED
      BY <3>2, <3>3 DEF Fed
  <2>3. CASE i = Len(new) + 1
    <3>1. new # <<>> /\ Len(new) > 0
      BY <2>0, <2>3, <1>1
    <3>2. w[i] = r[1] /\ w[i - 1] = new[Len(new)] /\ r # <<>>
      <4>1. i - Len(new) = 1 /\ i - 1 = Len(new) /\ Len(r) > 0
        BY <2>0, <2>3, <1>1, <1>4, <1>3
      <4>2. w[i] = r[i - Len(new)] /\ w[i - 1] = new[i - 1]
        BY <2>0, <2>3, <1>4, <1>1
      <4>. QED
        BY <4>1, <4>2
    <3>3. Feeds(Head(q), Head(r)) /\ Head(r) = w[i]
      BY <3>2, <1>2, <1>3
    <3>. QED
      BY <3>2, <3>3
  <2>. QED
    BY <2>0, <2>1, <2>2, <2>3, <1>1
<1>6. OnlyPolls(w, c)
  <2> SUFFICES ASSUME NEW i \in 1..Len(w), w[i].t \in {"read", "store"} PROVE c = "poll"
    BY DEF OnlyPolls
  <2>1. CASE i <= Len(new)
    <3>1. w[i] = new[i] /\ i \in 1..Len(new)
      BY <2>1, <1>4, <1>1
    <3>. QED
      BY <3>1 DEF Stack, OnlyPolls
  <2>2. CASE ~(i <= Len(new))
    <3> DEFINE j == i - Len(new)
    <3>1. w[i] = r[j] /\ j \in 1..Len(r)
      BY <2>2, <1>4, <1>1, <1>3
    <3> HIDE DEF j
    <3>. QED
      BY <3>1, <1>2 DEF Stack, OnlyPolls
  <2>. QED
    BY <2>1, <2>2
<1>7. w # <<>> /\ Head(w) = Head(new)
  <2>1. Len(new) > 0 /\ Len(w) > 0 /\ 1 \in 1..Len(w) /\ 1 <= Len(new)
    BY <1>1, <1>3, <1>4
  <2>2. w[1] = new[1]
    BY <2>1, <1>4
  <2>. QED
    BY <2>1, <2>2, <1>1, <1>4
<1>. QED
  BY <1>4, <1>5, <1>6, <1>7 DEF Stack, w, r

\* What is left after a failure was caught.
LEMMA CutStack ==
  ASSUME NEW d, NEW c, NEW q, Stack(d, q, c), NEW k \in 1..Len(q)
  PROVE  /\ Stack(d, SubSeq(q, k, Len(q)), c)
         /\ SubSeq(q, k, Len(q)) # <<>> /\ Head(SubSeq(q, k, Len(q))) = q[k]
<1>1. q \in Seq(Tasks(d)) /\ Len(q) \in Nat
  BY DEF Stack
<1> DEFINE r == SubSeq(q, k, Len(q))
<1>2. r \in Seq(Tasks(d)) /\ Len(r) = Len(q) - k + 1 /\ Len(r) \in Nat \ {0}
      /\ \A i \in 1..Len(r) : r[i] = q[k + i - 1] /\ k + i - 1 \in k..Len(q)
  BY <1>1
<1> HIDE DEF r
<1>3. Fed(r)
  <2> SUFFICES ASSUME NEW i \in 2..Len(r), r[i].t = "store" PROVE Feeds(r[i - 1], r[i])
    BY DEF Fed
  <2>1. i \in 1..Len(r) /\ i - 1 \in 1..Len(r)
    BY <1>2
  <2> DEFINE j == k + i - 1
  <2>2. r[i] = q[j] /\ r[i - 1] = q[j - 1] /\ j \in 2..Len(q)
    <3>1. k + (i - 1) - 1 = j - 1 /\ j >= 2
      OBVIOUS
    <3>2. r[i] = q[j] /\ r[i - 1] = q[k + (i - 1) - 1] /\ j \in k..Len(q)
      BY <2>1, <1>2
    <3>. QED
      BY <3>1, <3>2
  <2> HIDE DEF j
  <2>. QED
    BY <2>2 DEF Stack, Fed
<1>4. OnlyPolls(r, c)
  <2> SUFFICES ASSUME NEW i \in 1..Len(r), r[i].t \in {"read", "store"} PROVE c = "poll"
    BY DEF OnlyPolls
  <2> DEFINE j == k + i - 1
  <2>1. r[i] = q[j] /\ j \in 1..Len(q)
    BY <1>2
  <2> HIDE DEF j
  <2>. QED
    BY <2>1 DEF Stack, OnlyPolls
<1>5. r # <<>> /\ Head(r) = q[k]
  <2>1. r # <<>> /\ Head(r) = r[1] /\ 1 \in 1..Len(r)
    BY <1>2
  <2>2. r[1] = q[k + 1 - 1] /\ k + 1 - 1 = k
    BY <2>1, <1>2
  <2>. QED
    BY <2>1, <2>2
<1>. QED
  BY <1>2, <1>3, <1>4, <1>5 DEF Stack, r

\* The tasks of an operation that has just begun are a stack: nothing is stored yet.
LEMMA FreshStack ==
  ASSUME NEW d, NEW c, NEW T, NEW q \in Seq(T),
         \A x \in T : x \in Tasks(d) /\ x.t # "store" /\ (x.t = "read" => c = "poll")
  PROVE  Begun(d, q, c)
<1>1. q \in Seq(Tasks(d)) /\ \A i \in 1..Len(q) : q[i] \in T
  OBVIOUS
<1>2. Len(q) \in Nat /\ \A i \in 2..Len(q) : i \in 1..Len(q)
  OBVIOUS
<1>3. Fed(q)
  BY <1>1, <1>2 DEF Fed
<1>4. OnlyPolls(q, c)
  BY <1>1 DEF OnlyPolls
<1>. QED
  BY <1>1, <1>3, <1>4 DEF Stack, Begun

LEMMA FirstStack ==
  ASSUME NEW d, NEW c, NEW T, NEW q \in Seq(T),
         \A x \in T : x \in Tasks(d) /\ x.t \notin {"store", "send"} /\ (x.t = "read" => c = "poll"),
         ~Lacking(d) => \A x \in T : Fits(d, x)
  PROVE  Fresh(d, q, c)
<1>1. Begun(d, q, c)
  BY FreshStack
<1>2. \A i \in 1..Len(q) : q[i] \in T
  OBVIOUS
<1>3. Unsent(q)
  BY <1>2 DEF Unsent
<1>4. ~Lacking(d) => Fitting(d, q)
  BY <1>2, Zenon DEF Fitting
<1>. QED
  BY <1>1, <1>3, <1>4 DEF Fresh

(***************************************************************************)
(* Tasks put on the stack.                                                 *)
(***************************************************************************)
LEMMA StepTasksIn ==
  ASSUME NEW d, NEW q \in Seq(Steps(d)), NEW ch \in ChannelsOf(d), NEW v \in BOOLEAN
  PROVE  StepTasks(q, ch, v) \in Seq(StepTasksOf(d))
<1>1. \A i \in 1..Len(q) : StepTask(q[i], ch, v) \in StepTasksOf(d)
  BY DEF StepTask, StepTasksOf
<1>2. StepTasks(q, ch, v) = [i \in 1..Len(q) |-> StepTask(q[i], ch, v)]
  BY DEF StepTasks
<1>. QED
  BY <1>1, <1>2

LEMMA QueriesIn ==
  ASSUME DOMAIN def.commands \subseteq Names, NEW refs, NEW ch \in ChannelsOf(def)
  PROVE  Queries(refs, ch) \in Seq(CommandTasks(def))
<1> DEFINE S == refs \cap DOMAIN def.commands
<1>1. IsFiniteSet(S)
  BY NamesFinite, FS_Subset
<1>2. SetToSeq(S) \in Seq(S)
  BY <1>1, SetAsSequence
<1> DEFINE q == SetToSeq(S)
<1>3. Queries(refs, ch) = [i \in DOMAIN q |-> Task("query", q[i], ch)]
  BY DEF Queries
<1> HIDE DEF q
<1>4. \A i \in 1..Len(q) : q[i] \in DOMAIN def.commands
  BY <1>2 DEF q
<1>5. DOMAIN q = 1..Len(q) /\ Len(q) \in Nat
  BY <1>2 DEF q
<1>6. \A i \in 1..Len(q) : Task("query", q[i], ch) \in CommandTasks(def)
  BY <1>4 DEF Task, CommandTasks
<1>. QED
  BY <1>3, <1>5, <1>6

\* Operations begin with a stack.
LEMMA OpenStack ==
  ASSUME Sound(def)
  PROVE  Fresh(def, <<Task("drain", def.identify, 1), Task("run", def.identify, 1)>>, "open")
<1> DEFINE a == Task("drain", def.identify, 1)
           b == Task("run", def.identify, 1)
           T == {a, b}
<1>1. a \in CommandTasks(def) /\ b \in CommandTasks(def)
  BY DEF Sound, Task, CommandTasks, ChannelsOf
<1>2. a.t = "drain" /\ b.t = "run" /\ b.args = {} /\ b.cmd = def.identify
  BY DEF Task
<1>3. ~Lacking(def) => Free(def.commands[def.identify]) = {}
  BY DEF Sound, FitSound
<1> HIDE DEF a, b
<1>4. <<a, b>> \in Seq(T)
  OBVIOUS
<1>5. \A x \in T : x \in Tasks(def) /\ x.t \notin {"store", "send"} /\ x.t # "read"
  BY <1>1, <1>2 DEF Tasks
<1>6. ~Lacking(def) => Fits(def, a) /\ Fits(def, b)
  BY <1>2, <1>3 DEF Fits
<1> HIDE DEF T
<1>7. ~Lacking(def) => \A x \in T : Fits(def, x)
  BY <1>6 DEF T
<1>8. Fresh(def, <<a, b>>, "open")
  BY <1>4, <1>5, <1>7, FirstStack
<1>. QED
  BY <1>8 DEF a, b

\* Steps that fit, as tasks.
FitStepTasks(d) == {x \in StepTasksOf(d) : ~Lacking(d) => Fits(d, x)}

LEMMA FitStepTasksIn ==
  ASSUME NEW d, NEW q \in Seq(Steps(d)), NEW ch \in ChannelsOf(d), NEW v \in BOOLEAN,
         ~Lacking(d) => \A s \in Items(q) : Fit(d, s, v)
  PROVE  StepTasks(q, ch, v) \in Seq(FitStepTasks(d))
<1>1. ASSUME NEW i \in 1..Len(q) PROVE StepTask(q[i], ch, v) \in FitStepTasks(d)
  <2> DEFINE x == StepTask(q[i], ch, v)
  <2>1. x \in StepTasksOf(d) /\ x.t = "step" /\ x.step = q[i] /\ x.value = v
    BY DEF StepTask, StepTasksOf
  <2>2. ~Lacking(d) => Fit(d, q[i], v)
    BY DEF Items
  <2> HIDE DEF x
  <2>3. x \in FitStepTasks(d)
    BY <2>1, <2>2 DEF FitStepTasks, Fits
  <2>. QED
    BY <2>3 DEF x
<1>2. StepTasks(q, ch, v) = [i \in 1..Len(q) |-> StepTask(q[i], ch, v)]
  BY DEF StepTasks
<1>. QED
  BY <1>1, <1>2

LEMMA FirstFits ==
  ASSUME NEW d
  PROVE  \A x \in FirstTasks(d) : Fits(d, x)
BY DEF FirstTasks, CommandTasks, Fits

LEMMA StepsStack ==
  ASSUME NEW d, NEW q \in Seq(Steps(d)), NEW ch \in ChannelsOf(d), NEW v \in BOOLEAN,
         ~Lacking(d) => \A s \in Items(q) : Fit(d, s, v),
         NEW name, NEW rest \in Seq(FirstTasks(d))
  PROVE  Fresh(d, StepTasks(q, ch, v), name) /\ Fresh(d, StepTasks(q, ch, v) \o rest, name)
<1> DEFINE T == FitStepTasks(d) \cup FirstTasks(d)
<1>1. \A x \in T : x \in Tasks(d) /\ x.t \notin {"store", "send"} /\ x.t # "read"
  BY DEF FirstTasks, CommandTasks, FitStepTasks, StepTasksOf, Tasks
<1>2. ~Lacking(d) => \A x \in T : Fits(d, x)
  BY FirstFits DEF FitStepTasks
<1>3. StepTasks(q, ch, v) \in Seq(T)
  BY FitStepTasksIn
<1>4. rest \in Seq(T)
  OBVIOUS
<1> HIDE DEF T
<1>5. StepTasks(q, ch, v) \o rest \in Seq(T)
  BY <1>3, <1>4
<1>. QED
  BY <1>1, <1>2, <1>3, <1>5, FirstStack

\* Every group that is due, on every channel.
PollReads ==
  FlattenSeq([i \in 1..Cardinality(due) |->
    FlattenSeq([ch \in Channels |-> Reads(SetToSeq(due)[i], ch)])])
ReadTasks(d) == [t: {"read"}, cmd: Polled(d), ch: ChannelsOf(d), args: SUBSET Keys]

LEMMA PollStack ==
  ASSUME Sound(def), due \subseteq Groups
  PROVE  Fresh(def, PollReads \o <<Task("count", def.identify, 1)>>, "poll")
<1> DEFINE P == def.class.poll
           C == def.class.channels
           D == SetToSeq(due)
           N == Cardinality(due)
           T == ReadTasks(def)
           A(i) == FlattenSeq([ch \in 1..C |-> Reads(D[i], ch)])
           Q == [i \in 1..N |-> A(i)]
<1>1. P \in Seq([every: BOOLEAN, read: Seq(Polled(def))]) /\ C \in Nat /\ Groups = 1..Len(P)
  BY DEF Sound, Groups
<1>2. IsFiniteSet(due) /\ N \in Nat
  <2> HIDE DEF P
  <2>1. Len(P) \in Nat
    BY <1>1
  <2>2. IsFiniteSet(1..Len(P))
    BY <2>1, FS_Interval
  <2>3. IsFiniteSet(due)
    BY <1>1, <2>2, FS_Subset
  <2>. QED
    BY <2>3, FS_CardinalityType
<1>3. D \in [1..N -> due]
  BY <1>2, SetAsSequence
<1>4. ASSUME NEW i \in 1..N, NEW ch \in 1..C PROVE Reads(D[i], ch) \in Seq(T)
  <2> DEFINE g == D[i]
  <2>1. g \in 1..Len(P)
    BY <1>1, <1>3
  <2> HIDE DEF g
  <2> DEFINE r == P[g].read
  <2>2. r \in Seq(Polled(def))
    <3> DEFINE R == [every: BOOLEAN, read: Seq(Polled(def))]
    <3>1. P \in Seq(R)
      BY <1>1
    <3>2. P[g] \in R
      <4> HIDE DEF R, P
      <4>. QED
        BY <2>1, <3>1
    <3>. QED
      BY <3>2
  <2> HIDE DEF r
  <2>3. \A k \in 1..Len(r) : Task("read", r[k], ch) \in T
    BY <2>2 DEF Task, ReadTasks, ChannelsOf
  <2>4. Reads(g, ch) = [k \in 1..Len(r) |-> Task("read", r[k], ch)]
    BY <2>2 DEF Reads, r
  <2>5. Reads(g, ch) \in Seq(T)
    BY <2>2, <2>3, <2>4
  <2>. QED
    BY <2>5 DEF g
<1> HIDE DEF D
<1>5. ASSUME NEW i \in 1..N PROVE A(i) \in Seq(T)
  <2> DEFINE q == [ch \in 1..C |-> Reads(D[i], ch)]
  <2>1. q \in Seq(Seq(T))
    BY <1>4, <1>1
  <2>. QED
    BY <2>1, Flattened
<1>6. FlattenSeq(Q) \in Seq(T)
  <2> HIDE DEF A
  <2>1. Q \in Seq(Seq(T))
    BY <1>5, <1>2
  <2> HIDE DEF Q
  <2>. QED
    BY <2>1, Flattened
<1>7. PollReads = FlattenSeq(Q)
  BY DEF PollReads, Channels, D
<1> DEFINE x == Task("count", def.identify, 1)
           U == T \cup FirstTasks(def)
<1>8. x \in U
  BY DEF Sound, Task, FirstTasks, CommandTasks, ChannelsOf
<1>9. \A y \in U : y \in Tasks(def) /\ y.t \notin {"store", "send"}
  BY DEF FirstTasks, CommandTasks, ReadTasks, PollTasks, Tasks
<1>f. \A y \in U : Fits(def, y)
  BY FirstFits DEF ReadTasks, Fits
<1> HIDE DEF x, T, Q
<1>10. PollReads \o <<x>> \in Seq(U)
  BY <1>6, <1>7, <1>8
<1> HIDE DEF U
<1>11. Fresh(def, PollReads \o <<x>>, "poll")
  BY <1>9, <1>f, <1>10, FirstStack
<1>. QED
  BY <1>11 DEF x

Disconnecting ==
  FlattenSeq([i \in DOMAIN def.disconnect |->
    <<StepTask(def.disconnect[i], 1, FALSE), Task("ignore", def.identify, 1)>>])

LEMMA DisconnectStack ==
  ASSUME Sound(def)
  PROVE  Fresh(def, Disconnecting, "disconnect")
<1> DEFINE q == def.disconnect
           T == FitStepTasks(def) \cup FirstTasks(def)
           x == Task("ignore", def.identify, 1)
           Q == [i \in DOMAIN q |-> <<StepTask(q[i], 1, FALSE), x>>]
<1>1. q \in Seq(Steps(def))
  BY DEF Sound
<1>2. x \in T
  BY DEF Sound, Task, FirstTasks, CommandTasks, ChannelsOf
<1>3. \A i \in 1..Len(q) : StepTask(q[i], 1, FALSE) \in T
  <2>1. 1 \in ChannelsOf(def) /\ FitSound(def)
    BY DEF Sound, ChannelsOf
  <2>2. ~Lacking(def) => \A s \in Items(q) : Fit(def, s, FALSE)
    BY <2>1, Zenon DEF FitSound
  <2> DEFINE w == StepTasks(q, 1, FALSE)
  <2>3. w \in Seq(FitStepTasks(def))
    BY <1>1, <2>1, <2>2, FitStepTasksIn
  <2> HIDE DEF q
  <2>4. w = [i \in 1..Len(q) |-> StepTask(q[i], 1, FALSE)] /\ Len(q) \in Nat
    BY <1>1 DEF StepTasks
  <2> HIDE DEF w
  <2>a. \A i \in 1..Len(q) : w[i] = StepTask(q[i], 1, FALSE)
    BY <2>4
  <2>b. DOMAIN w = 1..Len(q) /\ Len(w) = Len(q)
    BY <2>3, <2>4
  <2> DEFINE S == FitStepTasks(def)
  <2>c. w \in Seq(S)
    BY <2>3
  <2> HIDE DEF S
  <2>d. \A i \in 1..Len(q) : w[i] \in S
    BY <2>b, <2>c
  <2>5. \A i \in 1..Len(q) : w[i] = StepTask(q[i], 1, FALSE) /\ w[i] \in FitStepTasks(def)
    BY <2>a, <2>d DEF S
  <2>. QED
    BY <2>5
<1>4. \A y \in T : y \in Tasks(def) /\ y.t \notin {"store", "send"} /\ y.t # "read"
  BY DEF FirstTasks, CommandTasks, FitStepTasks, StepTasksOf, Tasks
<1>f. ~Lacking(def) => \A y \in T : Fits(def, y)
  BY FirstFits DEF FitStepTasks
<1> HIDE DEF x, T, q
<1>5. \A i \in 1..Len(q) : <<StepTask(q[i], 1, FALSE), x>> \in Seq(T)
  <2> TAKE i \in 1..Len(q)
  <2> DEFINE y == StepTask(q[i], 1, FALSE)
  <2>1. y \in T
    BY <1>3
  <2> HIDE DEF y
  <2>2. <<y, x>> \in Seq(T)
    BY <1>2, <2>1
  <2>. QED
    BY <2>2 DEF y
<1>6. Q \in Seq(Seq(T))
  <2> DEFINE A(i) == <<StepTask(q[i], 1, FALSE), x>>
  <2>1. DOMAIN q = 1..Len(q) /\ Len(q) \in Nat
    BY <1>1
  <2>2. \A i \in 1..Len(q) : A(i) \in Seq(T)
    BY <1>5
  <2>3. Q = [i \in 1..Len(q) |-> A(i)]
    BY <2>1
  <2> HIDE DEF A, Q
  <2>. QED
    BY <2>1, <2>2, <2>3
<1> HIDE DEF Q
<1>7. FlattenSeq(Q) \in Seq(T)
  BY <1>6, Flattened
<1>8. Disconnecting = FlattenSeq(Q)
  BY DEF Disconnecting, Q, q, x
<1>. QED
  BY <1>4, <1>f, <1>7, <1>8, FirstStack

LEMMA HeadIsTask ==
  ASSUME NEW d, NEW c, NEW q, Stack(d, q, c), q # <<>>
  PROVE  /\ Head(q) \in Tasks(d)
         /\ Head(q).t \in {"read", "store"} => c = "poll"
         /\ Head(q).t \in {"read", "store"} => Head(q) \in PollTasks(d)
         /\ Head(q).t = "step" => Head(q) \in StepTasksOf(d)
         /\ Head(q).t \notin {"read", "store", "step"} => Head(q) \in CommandTasks(d)
<1>1. q \in Seq(Tasks(d)) /\ Head(q) = q[1] /\ 1 \in 1..Len(q)
  BY DEF Stack
<1>2. q[1] \in Tasks(d)
  BY <1>1
<1>3. q[1].t \in {"read", "store"} => c = "poll"
  BY <1>1 DEF Stack, OnlyPolls
<1>. QED
  BY <1>1, <1>2, <1>3 DEF Tasks, CommandTasks, PollTasks, StepTasksOf

LEMMA PopStack ==
  ASSUME TaskInv, todo # <<>>, Pop
  PROVE  /\ Stack(def, todo', call)
         /\ todo' # <<>> /\ Head(todo').t = "store" => Feeds(Head(todo), Head(todo'))
BY TailStack DEF TaskInv, Pop

LEMMA FailStack ==
  ASSUME TaskInv, NEW e, Fail(e)
  PROVE  /\ Stack(def, todo', call) /\ result'.error = e /\ result'.value = Null
         /\ e = "io" => todo' = <<>>
<1>1. result'.error = e /\ result'.value = Null
  BY DEF Fail, Failure
<1>2. CASE Caught = {} \/ e \in {"io", "overflow"}
  <2>1. todo' = <<>>
    BY <1>2 DEF Fail
  <2>2. Stack(def, <<>>, call)
    BY DEF Stack, Fed, OnlyPolls
  <2>. QED
    BY <1>1, <2>1, <2>2
<1>3. CASE ~(Caught = {} \/ e \in {"io", "overflow"})
  <2> DEFINE least == CHOOSE i \in Caught : \A j \in Caught : i <= j
  <2>1. Caught \subseteq 1..Len(todo) /\ Caught \subseteq Nat
    BY DEF Caught, TaskInv, Stack
  <2>2. \E i \in Caught : \A j \in Caught : i <= j
    BY <1>3, <2>1, Least
  <2>3. least \in 1..Len(todo)
    BY <2>1, <2>2
  <2>4. todo' = SubSeq(todo, least, Len(todo))
    BY <1>3 DEF Fail
  <2> HIDE DEF least
  <2>. QED
    BY <1>1, <1>3, <2>3, <2>4, CutStack DEF TaskInv
<1>. QED
  BY <1>2, <1>3

LEMMA StepStack ==
  ASSUME TaskInv, DoStep
  PROVE  Stack(def, todo', call)
<1> DEFINE s == Head(todo).step
           v == Head(todo).value
           ch == Head(todo).ch
<1>1. todo # <<>> /\ Head(todo) \in StepTasksOf(def) /\ Head(todo).t = "step" /\ Stack(def, todo, call)
  BY HeadIsTask DEF TaskInv, DoStep, Doing
<1>2. s \in Step /\ s.cmd \in DOMAIN def.commands /\ ch \in ChannelsOf(def)
  BY <1>1 DEF StepTasksOf, Steps
<1>3. CASE Pop
  BY <1>1, <1>3, PopStack
<1>4. ASSUME NEW e, Fail(e) PROVE Stack(def, todo', call)
  BY <1>4, FailStack
<1> DEFINE k == Task("run", s.cmd, ch)
           r == [k EXCEPT !.args = StepArgs(def, s, v)]
<1>5. CASE Push(<<r>>)
  <2>1. k \in CommandTasks(def)
    BY <1>2 DEF Task, CommandTasks
  <2>2. StepArgs(def, s, v) \subseteq Keys
    <3>1. s.args \subseteq Keys
      BY <1>2 DEF Step
    <3>2. Free(Cmd(s.cmd)) \subseteq Keys
      BY <1>2 DEF Free, Cmd, TaskInv, Sound
    <3>. QED
      BY <3>1, <3>2 DEF StepArgs, Cmd
  <2> HIDE DEF k
  <2>3. r \in CommandTasks(def) /\ r.t = k.t
    BY <2>1, <2>2 DEF CommandTasks
  <2>4. todo' = <<r>> \o Tail(todo)
    BY <1>5 DEF Push
  <2> HIDE DEF r
  <2>5. Stack(def, <<r>>, call)
    <3>1. <<r>> \in Seq(CommandTasks(def))
      BY <2>3
    <3>2. \A x \in CommandTasks(def) : x \in Tasks(def) /\ x.t # "store" /\ x.t # "read"
      BY DEF CommandTasks, Tasks
    <3>. QED
      BY <3>1, <3>2, FreshStack DEF Begun
  <2>6. \A t : ~Feeds(Head(todo), t)
    BY <1>1 DEF Feeds
  <2>. QED
    BY <1>1, <2>4, <2>5, <2>6, PushStack
<1>6. DoStep => \/ \E e : Fail(e)
                \/ Pop \/ Push(<<r>>)
  BY DEF DoStep
<1>. QED
  BY <1>3, <1>4, <1>5, <1>6

LEMMA QueryStack ==
  ASSUME TaskInv, Query
  PROVE  Stack(def, todo', call)
<1> DEFINE n == Head(todo).cmd
           ch == Head(todo).ch
           r == Task("run", n, ch)
<1>1. todo # <<>> /\ Head(todo) \in CommandTasks(def) /\ Head(todo).t = "query" /\ Stack(def, todo, call)
  BY HeadIsTask DEF TaskInv, Query, Doing
<1>2. CASE Pop
  BY <1>1, <1>2, PopStack
<1>3. CASE Fail("overflow")
  BY <1>3, FailStack
<1>4. CASE Push(<<r>>)
  <2>1. r \in CommandTasks(def) /\ \A s : Feeds(Head(todo), s) => Feeds(r, s)
    BY <1>1 DEF Task, CommandTasks, Feeds
  <2>2. todo' = <<r>> \o Tail(todo)
    BY <1>4 DEF Push
  <2> HIDE DEF r
  <2>3. Stack(def, <<r>>, call)
    <3>1. <<r>> \in Seq(CommandTasks(def))
      BY <2>1
    <3>2. \A x \in CommandTasks(def) : x \in Tasks(def) /\ x.t # "store" /\ x.t # "read"
      BY DEF CommandTasks, Tasks
    <3>. QED
      BY <3>1, <3>2, FreshStack DEF Begun
  <2>4. <<r>>[Len(<<r>>)] = r /\ <<r>> # <<>>
    OBVIOUS
  <2>. QED
    BY <1>1, <2>1, <2>2, <2>3, <2>4, PushStack
<1>. QED
  BY <1>2, <1>3, <1>4 DEF Query

LEMMA RunStack ==
  ASSUME TaskInv, Run
  PROVE  Stack(def, todo', call) /\ ((\E e : e # "none" /\ Fail(e)) \/ Begun(def, todo', call))
<1> DEFINE n == Head(todo).cmd
           ch == Head(todo).ch
           c == Cmd(n)
           condition == IF Given(c.requires) THEN Queries(It(c.requires), ch) \o <<Task("require", n, ch)>> ELSE <<>>
           before == StepTasks(c.before, ch, FALSE)
           computed == Queries(UNION UNION {c.params[p].from : p \in DOMAIN c.params}, ch)
           x == [Head(todo) EXCEPT !.t = "send"]
           T == StepTasksOf(def) \cup CommandTasks(def)
<1>1. todo # <<>> /\ Head(todo) \in CommandTasks(def) /\ Head(todo).t = "run" /\ Stack(def, todo, call)
  BY HeadIsTask DEF TaskInv, Run, Doing
<1>2. n \in DOMAIN def.commands /\ ch \in ChannelsOf(def) /\ DOMAIN def.commands \subseteq Names
  BY <1>1 DEF CommandTasks, TaskInv, Sound
<1>3. ASSUME NEW e, e # "none", Fail(e)
      PROVE  Stack(def, todo', call)
  BY <1>3, FailStack
<1>4. CASE Push(condition \o before \o computed \o <<x>>)
  <2>1. x \in T /\ \A s : Feeds(Head(todo), s) => Feeds(x, s)
    BY <1>1 DEF CommandTasks, Feeds
  <2>2. before \in Seq(T)
    <3>1. c.before \in Seq(Steps(def))
      BY <1>2 DEF TaskInv, Sound, Cmd
    <3>2. before \in Seq(StepTasksOf(def)) /\ StepTasksOf(def) \subseteq T
      BY <3>1, <1>2, StepTasksIn
    <3> HIDE DEF T, before
    <3>. QED
      BY <3>2
  <2>3. computed \in Seq(T)
    <3> DEFINE refs == UNION UNION {c.params[p].from : p \in DOMAIN c.params}
    <3> HIDE DEF refs
    <3>1. Queries(refs, ch) \in Seq(CommandTasks(def))
      BY <1>2, QueriesIn
    <3>. QED
      BY <3>1 DEF refs
  <2>4. condition \in Seq(T)
    <3> DEFINE refs == It(c.requires)
               y == Task("require", n, ch)
    <3>1. y \in T
      BY <1>2 DEF Task, CommandTasks
    <3> HIDE DEF refs, y
    <3>2. Queries(refs, ch) \in Seq(CommandTasks(def))
      BY <1>2, QueriesIn
    <3>3. Queries(refs, ch) \in Seq(T)
      BY <3>2
    <3> DEFINE q == Queries(refs, ch)
    <3> HIDE DEF q, T
    <3>4. q \o <<y>> \in Seq(T) /\ <<>> \in Seq(T)
      BY <3>1, <3>3 DEF q
    <3>5. condition = IF Given(c.requires) THEN q \o <<y>> ELSE <<>>
      BY DEF q, refs, y
    <3>. QED
      BY <3>4, <3>5
  <2>5. \A y \in T : y \in Tasks(def) /\ y.t # "store" /\ y.t # "read"
    BY DEF CommandTasks, StepTasksOf, Tasks
  <2> DEFINE new == condition \o before \o computed \o <<x>>
  <2>6. todo' = new \o Tail(todo)
    BY <1>4 DEF Push
  <2> HIDE DEF condition, before, computed, x, T
  <2>7. new \in Seq(T) /\ new # <<>> /\ new[Len(new)] = x
    <3> DEFINE f == condition \o before \o computed
    <3>1. f \in Seq(T)
      BY <2>2, <2>3, <2>4
    <3>2. new = f \o <<x>>
      OBVIOUS
    <3> HIDE DEF f, new
    <3>. QED
      BY <3>1, <3>2, <2>1
  <2> HIDE DEF new
  <2>8. Begun(def, new, call)
    BY <2>5, <2>7, FreshStack
  <2>9. Stack(def, todo', call) /\ Head(todo') = Head(new)
    BY <1>1, <2>1, <2>6, <2>7, <2>8, PushStack DEF Begun
  <2>. QED
    BY <2>7, <2>8, <2>9 DEF Begun
<1>5. (\E e : e # "none" /\ Fail(e)) \/ Push(condition \o before \o computed \o <<x>>)
  BY DEF Run
<1>. QED
  BY <1>3, <1>4, <1>5

LEMMA ReadStack ==
  ASSUME TaskInv, Read
  PROVE  Stack(def, todo', call) /\ (todo' # <<>> => Head(todo').t # "store")
<1> DEFINE n == Head(todo).cmd
           ch == Head(todo).ch
           a == Task("query", n, ch)
           b == Task("store", n, ch)
<1>1. todo # <<>> /\ Head(todo) \in PollTasks(def) /\ Head(todo).t = "read" /\ call = "poll" /\ Stack(def, todo, call)
  BY HeadIsTask DEF TaskInv, Read, Doing
<1>2. \A s : ~Feeds(Head(todo), s)
  BY <1>1 DEF Feeds
<1>3. CASE Pop
  BY <1>1, <1>2, <1>3, PopStack
<1>4. CASE Push(<<a, b>>)
  <2>1. a \in CommandTasks(def) /\ b \in PollTasks(def) /\ a.t = "query" /\ b.t = "store" /\ Feeds(a, b)
    BY <1>1 DEF Task, CommandTasks, PollTasks, Polled, Feeds
  <2>2. todo' = <<a, b>> \o Tail(todo)
    BY <1>4 DEF Push
  <2> HIDE DEF a, b
  <2> DEFINE new == <<a, b>>
  <2>3. new \in Seq(Tasks(def)) /\ Len(new) = 2 /\ new[1] = a /\ new[2] = b /\ new # <<>> /\ Head(new) = a
    BY <2>1 DEF Tasks
  <2> HIDE DEF new
  <2>4. Fed(new) /\ OnlyPolls(new, call)
    <3>1. \A i \in 2..Len(new) : i = 2
      BY <2>3
    <3>2. Fed(new)
      BY <3>1, <2>1, <2>3 DEF Fed
    <3>3. OnlyPolls(new, call)
      BY <1>1 DEF OnlyPolls
    <3>. QED
      BY <3>2, <3>3
  <2>5. Stack(def, new, call)
    BY <2>3, <2>4 DEF Stack
  <2>6. Stack(def, new \o Tail(todo), call) /\ Head(new \o Tail(todo)) = Head(new)
    BY <1>1, <1>2, <2>3, <2>5, PushStack
  <2>. QED
    BY <2>1, <2>2, <2>3, <2>6 DEF new
<1>. QED
  BY <1>3, <1>4 DEF Read

(***************************************************************************)
(* TaskInv holds.                                                          *)
(***************************************************************************)
LEMMA EmptyStack ==
  ASSUME NEW d, NEW c
  PROVE  Stack(d, <<>>, c)
BY DEF Stack, Fed, OnlyPolls

LEMMA TaskInit ==
  ASSUME Init
  PROVE  TaskInv
<1>1. Sound(def)
  <2>1. PICK d \in Definitions, t \in Transports : Accepted(d, TheContract) /\ def = ForTransport(d, t)
    BY DEF Init
  <2>2. IsDevice(d)
    BY <2>1, DefinitionsAssumption
  <2>. QED
    BY <2>1, <2>2, AcceptedIsSound, LinkedIsSound
<1>2. Stack(def, todo, call)
  BY EmptyStack DEF Init
<1>. QED
  BY <1>1, <1>2 DEF Init, TaskInv, NoCount, Fine, Tallies

LEMMA DefinitionKept ==
  ASSUME [Next]_vars
  PROVE  def' = def
BY DEF Next, vars, Work, DoStep, Query, Run, Require, Send, DrainFirst, Read, StoreReading, Count, Show, Ignore,
  End, Instrument, Arrive, Receive, Exception, TimeOut, LinkLost, Due, Settle, Calls, Open, StartSession,
  Poll, Disconnect, Get, Set, Begin, Lose

\* Every call begins with a stack; on a closed session it begins with draining the line.
LEMMA CallsBegin ==
  ASSUME TaskInv, Calls
  PROVE  /\ todo = <<>> /\ waiting = {} /\ call = "none" /\ call' # "none"
         /\ Fresh(def, todo', call') /\ result' = Fine(Null)
         /\ session # "closed" \/ (todo' # <<>> /\ Head(todo').t = "drain")
         /\ UNCHANGED <<def, session, exchangeVars, readingVars, pollVars>>
<1> DEFINE Good(name, tasks) ==
      /\ name # "none" /\ Begin(name, tasks) /\ Fresh(def, tasks, name)
      /\ session # "closed" \/ (tasks # <<>> /\ Head(tasks).t = "drain")
<1>1. call = "none" /\ todo = <<>> /\ waiting = {} /\ Sound(def) /\ due \subseteq Groups
  BY DEF TaskInv, Calls
<1>2. SUFFICES \E name, tasks : Good(name, tasks)
  <2>1. PICK name, tasks : Good(name, tasks)
    BY <1>2
  <2>. QED
    BY <1>1, <2>1 DEF Begin
<1>3. CASE Open
  <2> DEFINE q == <<Task("drain", def.identify, 1), Task("run", def.identify, 1)>>
  <2>1. Begin("open", q) /\ Fresh(def, q, "open")
    BY <1>1, <1>3, OpenStack DEF Open
  <2>2. q # <<>> /\ Head(q).t = "drain"
    BY DEF Task
  <2> HIDE DEF q
  <2>3. Good("open", q)
    BY <2>1, <2>2
  <2>. QED
    BY <2>3
<1>4. CASE StartSession
  <2> DEFINE q == StepTasks(def.connect, 1, FALSE)
  <2>1. def.connect \in Seq(Steps(def)) /\ 1 \in ChannelsOf(def) /\ <<>> \in Seq(FirstTasks(def))
    BY <1>1 DEF Sound, ChannelsOf
  <2>f. ~Lacking(def) => \A s \in Items(def.connect) : Fit(def, s, FALSE)
    BY <1>1 DEF Sound, FitSound
  <2>2. Fresh(def, q, "start")
    BY <2>1, <2>f, StepsStack
  <2>3. Good("start", q)
    BY <1>4, <2>2 DEF StartSession
  <2> HIDE DEF Good
  <2>. QED
    BY <2>3
<1>5. CASE Poll
  <2>1. Begin("poll", PollReads \o <<Task("count", def.identify, 1)>>) /\ session = "ready"
    BY <1>5 DEF Poll, PollReads
  <2>2. Fresh(def, PollReads \o <<Task("count", def.identify, 1)>>, "poll")
    BY <1>1, PollStack
  <2>. QED
    BY <2>1, <2>2
<1>6. CASE Disconnect
  <2>1. Begin("disconnect", Disconnecting) /\ session = "ready"
    BY <1>6 DEF Disconnect, Disconnecting
  <2>2. Fresh(def, Disconnecting, "disconnect")
    BY <1>1, DisconnectStack
  <2>. QED
    BY <2>1, <2>2
<1>7. ASSUME NEW op \in DOMAIN def.class.operations, NEW ch \in Channels, Get(op, ch)
      PROVE  \E name, tasks : Good(name, tasks)
  <2> DEFINE q == StepTasks(def.class.operations[op].get, ch, FALSE)
  <2>1. def.class.operations[op].get \in Seq(Steps(def)) /\ ch \in ChannelsOf(def) /\ <<>> \in Seq(FirstTasks(def))
    BY <1>1, <1>7 DEF Sound, ChannelsOf, Channels
  <2>f. ~Lacking(def) => \A s \in Items(def.class.operations[op].get) : Fit(def, s, FALSE)
    BY <1>1 DEF Sound, FitSound
  <2>2. Fresh(def, q, "get")
    BY <2>1, <2>f, StepsStack
  <2>3. Good("get", q)
    BY <1>7, <2>2 DEF Get
  <2> HIDE DEF Good
  <2>. QED
    BY <2>3
<1>8. ASSUME NEW op \in DOMAIN def.class.operations, NEW ch \in Channels, Set(op, ch)
      PROVE  \E name, tasks : Good(name, tasks)
  <2> DEFINE r == <<Task("show", def.identify, 1)>>
             q == StepTasks(def.class.operations[op].set, ch, TRUE) \o r
  <2>1. def.class.operations[op].set \in Seq(Steps(def)) /\ ch \in ChannelsOf(def)
    BY <1>1, <1>8 DEF Sound, ChannelsOf, Channels
  <2>2. r \in Seq(FirstTasks(def))
    <3>1. Task("show", def.identify, 1) \in FirstTasks(def)
      BY <1>1 DEF Sound, Task, FirstTasks, CommandTasks, ChannelsOf
    <3>. QED
      BY <3>1
  <2>3. Begin("set", q) /\ session = "ready"
    BY <1>8 DEF Set
  <2>f. ~Lacking(def) => \A s \in Items(def.class.operations[op].set) : Fit(def, s, TRUE)
    BY <1>1 DEF Sound, FitSound
  <2> HIDE DEF r
  <2>4. Fresh(def, q, "set")
    BY <2>1, <2>2, <2>f, StepsStack
  <2>5. Good("set", q)
    BY <2>3, <2>4
  <2> HIDE DEF Good
  <2>. QED
    BY <2>5
<1>. QED
  BY <1>3, <1>4, <1>5, <1>6, <1>7, <1>8 DEF Calls

\* A step within an operation.
LEMMA Carried ==
  ASSUME TaskInv, todo # <<>>, Stack(def, todo', call), waiting' = {}, due' \subseteq Groups,
         tally' \in Tallies, DOMAIN latest' = Channels, result'.error # "none" => result'.value = Null,
         UNCHANGED <<def, call>>
  PROVE  TaskInv'
BY DEF TaskInv, Groups, Channels

LEMMA TaskStep ==
  ASSUME TaskInv, [Next]_vars
  PROVE  TaskInv'
<1> USE DEF exchangeVars, readingVars, pollVars
<1>0. Sound(def) /\ due \subseteq Groups /\ tally \in Tallies /\ DOMAIN latest = Channels
      /\ (result.error # "none" => result.value = Null)
  BY DEF TaskInv
<1>1. CASE DoStep
  <2>1. Stack(def, todo', call) /\ todo # <<>> /\ waiting = {}
    BY <1>1, StepStack DEF DoStep, Doing
  <2>2. result'.error # "none" => result'.value = Null
    <3>1. UNCHANGED result \/ result' = Fine(Null) \/ \E e : Fail(e)
      BY <1>1 DEF DoStep
    <3>. QED
      BY <1>0, <3>1, FailStack DEF Fine
  <2>3. UNCHANGED <<def, call, waiting, due, tally, latest>>
    BY <1>1 DEF DoStep
  <2>. QED
    BY <1>0, <2>1, <2>2, <2>3, Carried
<1>2. CASE Query
  <2>1. Stack(def, todo', call) /\ todo # <<>> /\ waiting = {}
    BY <1>2, QueryStack DEF Query, Doing
  <2>2. result'.error # "none" => result'.value = Null
    BY <1>0, <1>2 DEF Query, Fail, Failure, Fine
  <2>3. UNCHANGED <<def, call, waiting, due, latest>>
    BY <1>2 DEF Query
  <2>4. tally' \in Tallies
    BY <1>0, <1>2 DEF Query, KeptForPoll, Tallies
  <2>. QED
    BY <1>0, <2>1, <2>2, <2>3, <2>4, Carried
<1>3. CASE Run
  <2>1. Stack(def, todo', call) /\ todo # <<>> /\ waiting = {}
    BY <1>3, RunStack DEF Run, Doing
  <2>2. result'.error # "none" => result'.value = Null
    <3>1. UNCHANGED result \/ \E e : Fail(e)
      BY <1>3 DEF Run
    <3>. QED
      BY <1>0, <3>1, FailStack
  <2>3. UNCHANGED <<def, call, waiting, due, tally, latest>>
    BY <1>3 DEF Run
  <2>. QED
    BY <1>0, <2>1, <2>2, <2>3, Carried
<1>4. CASE Require
  <2>1. todo # <<>> /\ waiting = {} /\ UNCHANGED <<def, call, waiting, due, tally, latest>>
    BY <1>4 DEF Require, Doing
  <2>2. CASE Pop /\ UNCHANGED result
    BY <1>0, <2>1, <2>2, PopStack, Carried
  <2>3. CASE Fail("refused")
    BY <1>0, <2>1, <2>3, FailStack, Carried
  <2>. QED
    BY <1>4, <2>2, <2>3 DEF Require
<1>5. CASE Send
  <2> DEFINE n == Head(todo).cmd
             ch == Head(todo).ch
  <2>1. todo # <<>> /\ waiting = {} /\ Head(todo).t = "send" /\ UNCHANGED <<def, call, due, tally, latest>>
    BY <1>5 DEF Send, Doing, Succeed, Effects
  <2>2. ASSUME NEW e, Fail(e), UNCHANGED waiting PROVE TaskInv'
    BY <1>0, <2>1, <2>2, FailStack, Carried
  <2>3. CASE waiting' = {n} /\ UNCHANGED <<todo, result>>
    BY <1>0, <2>1, <2>3 DEF TaskInv, Groups, Channels
  <2>4. CASE Succeed(n, ch, Null) /\ UNCHANGED waiting
    <3>1. Pop /\ result' = Fine(Null)
      BY <2>4 DEF Succeed
    <3>. QED
      BY <1>0, <2>1, <2>4, <3>1, PopStack, Carried DEF Fine
  <2>. QED
    BY <1>5, <2>2, <2>3, <2>4 DEF Send
<1>6. CASE DrainFirst
  <2>1. todo # <<>> /\ waiting = {} /\ Pop /\ UNCHANGED <<def, call, result, waiting, due, tally, latest>>
    BY <1>6 DEF DrainFirst, Doing
  <2>. QED
    BY <1>0, <2>1, PopStack, Carried
<1>7. CASE Read
  <2>1. todo # <<>> /\ waiting = {} /\ UNCHANGED <<def, call, result, waiting, due>>
    BY <1>7 DEF Read, Doing
  <2>2. DOMAIN latest' = Channels
    BY <1>0, <1>7 DEF Read, Store
  <2>3. tally' \in Tallies
    BY <1>0, <1>7 DEF Read, Tallies
  <2>. QED
    BY <1>0, <1>7, <2>1, <2>2, <2>3, ReadStack, Carried
<1>8. CASE StoreReading
  <2>1. todo # <<>> /\ waiting = {} /\ Pop /\ UNCHANGED <<def, call, result, waiting, due>>
    BY <1>8 DEF StoreReading, Doing
  <2>2. DOMAIN latest' = Channels
    BY <1>0, <1>8 DEF StoreReading, Store
  <2>3. tally' \in Tallies
    BY <1>0, <1>8 DEF StoreReading, Tallies
  <2>. QED
    BY <1>0, <2>1, <2>2, <2>3, PopStack, Carried
<1>9. CASE Count
  <2>1. todo # <<>> /\ waiting = {} /\ Pop /\ due' = {} /\ tally' = NoCount
        /\ UNCHANGED <<def, call, result, waiting, latest>>
    BY <1>9 DEF Count, Doing
  <2>2. tally' \in Tallies
    BY <2>1 DEF NoCount, Tallies
  <2>. QED
    BY <1>0, <2>1, <2>2, PopStack, Carried
<1>10. CASE Show
  <2>1. todo # <<>> /\ waiting = {} /\ Pop /\ due' = Groups
        /\ UNCHANGED <<def, call, result, waiting, latest, tally>>
    BY <1>10 DEF Show, Doing
  <2>. QED
    BY <1>0, <2>1, PopStack, Carried
<1>11. CASE Ignore
  <2>1. todo # <<>> /\ waiting = {} /\ Pop /\ result' = Fine(Null)
        /\ UNCHANGED <<def, call, waiting, latest, tally, due>>
    BY <1>11 DEF Ignore, Doing
  <2>. QED
    BY <1>0, <2>1, PopStack, Carried DEF Fine
<1>c. ASSUME Closed(def), UNCHANGED <<def, result>> PROVE TaskInv'
  <2>1. todo' = <<>> /\ call' = "none" /\ waiting' = {} /\ due' \subseteq Groups
        /\ DOMAIN latest' = Channels /\ tally' \in Tallies
    BY <1>c DEF Closed, Groups, Channels, NoCount, Tallies
  <2>2. Stack(def, todo', call')
    BY <2>1, EmptyStack
  <2>. QED
    BY <1>0, <1>c, <2>1, <2>2 DEF TaskInv, Groups, Channels
<1>12. CASE End
  <2>1. CASE Closed(def)
    BY <1>12, <1>c, <2>1 DEF End
  <2>2. CASE call' = "none" /\ UNCHANGED <<todo, waiting, readingVars, pollVars>>
    <3>1. todo' = <<>> /\ waiting' = {} /\ UNCHANGED <<def, result, due, tally, latest>>
      BY <1>12, <2>2 DEF End
    <3>2. Stack(def, todo', call')
      BY <3>1, EmptyStack
    <3>. QED
      BY <1>0, <2>2, <3>1, <3>2 DEF TaskInv, Groups, Channels
  <2>. QED
    BY <1>12, <2>1, <2>2 DEF End
<1>13. CASE Arrive
  BY <1>13 DEF Arrive, TaskInv, Groups, Channels
<1>w. waiting # {} => todo # <<>>
  BY DEF TaskInv
<1>h. ASSUME Heard PROVE tally' \in Tallies
  BY <1>0, <1>h DEF Heard, Tallies
<1>14. CASE Receive
  <2> DEFINE n == It(waiting)
             r == Head(line)
             ch == Head(todo).ch
  <2>1. waiting # {} /\ waiting' = {} /\ Heard /\ UNCHANGED <<def, call, due>>
    BY <1>14 DEF Receive
  <2>2. UNCHANGED latest
    BY <1>14 DEF Receive, Succeed, Effects
  <2>3. Succeed(n, ch, r) \/ \E e : Fail(e)
    BY <1>14 DEF Receive
  <2>4. CASE Succeed(n, ch, r)
    <3>1. Pop /\ result'.error = "none"
      BY <2>4 DEF Succeed, Fine
    <3>. QED
      BY <1>0, <1>w, <1>h, <2>1, <2>2, <3>1, PopStack, Carried
  <2>5. ASSUME NEW e, Fail(e) PROVE TaskInv'
    BY <1>0, <1>w, <1>h, <2>1, <2>2, <2>5, FailStack, Carried
  <2>. QED
    BY <2>3, <2>4, <2>5
<1>15. CASE Exception
  <2>1. waiting # {} /\ waiting' = {} /\ Heard /\ Fail("refused") /\ UNCHANGED <<def, call, due, latest>>
    BY <1>15 DEF Exception
  <2>. QED
    BY <1>0, <1>w, <1>h, <2>1, FailStack, Carried
<1>16. CASE TimeOut
  <2> DEFINE n == It(waiting)
             ch == Head(todo).ch
  <2>1. waiting # {} /\ waiting' = {} /\ UNCHANGED <<def, call, due>>
    BY <1>16 DEF TimeOut
  <2>t. tally' \in Tallies
    BY <1>0, <1>16 DEF TimeOut, KeptForPoll, Tallies
  <2>2. UNCHANGED latest
    BY <1>16 DEF TimeOut, Succeed, Effects
  <2>3. Succeed(n, ch, Null) \/ \E e : Fail(e)
    BY <1>16 DEF TimeOut
  <2>4. CASE Succeed(n, ch, Null)
    <3>1. Pop /\ result'.error = "none"
      BY <2>4 DEF Succeed, Fine
    <3>. QED
      BY <1>0, <1>w, <2>1, <2>2, <2>t, <3>1, PopStack, Carried
  <2>5. ASSUME NEW e, Fail(e) PROVE TaskInv'
    BY <1>0, <1>w, <2>1, <2>2, <2>t, <2>5, FailStack, Carried
  <2>. QED
    BY <2>3, <2>4, <2>5
<1>17. CASE LinkLost
  <2>1. todo # <<>> /\ waiting' = {} /\ Fail("io") /\ UNCHANGED <<def, call, due, tally, latest>>
    BY <1>w, <1>17 DEF LinkLost, Doing
  <2>. QED
    BY <1>0, <2>1, FailStack, Carried
<1>18. CASE Due
  BY <1>0, <1>18 DEF Due, TaskInv, Groups, Channels
<1>19. CASE Settle
  BY <1>0, <1>19 DEF Settle, TaskInv, Groups, Channels
<1>20. CASE Calls
  <2>1. Stack(def, todo', call') /\ call' # "none" /\ waiting' = {} /\ result' = Fine(Null)
        /\ UNCHANGED <<def, due, tally, latest>>
    BY <1>20, CallsBegin DEF Fresh, Begun
  <2>. QED
    BY <1>0, <2>1 DEF TaskInv, Groups, Channels, Fine
<1>21. CASE Lose
  BY <1>21, <1>c DEF Lose
<1>22. CASE UNCHANGED vars
  BY <1>22 DEF vars, TaskInv, Groups, Channels
<1>. QED
  BY <1>1, <1>2, <1>3, <1>4, <1>5, <1>6, <1>7, <1>8, <1>9, <1>10, <1>11, <1>12, <1>13, <1>14, <1>15, <1>16,
     <1>17, <1>18, <1>19, <1>20, <1>21, <1>22 DEF Next, Work, Instrument

(***************************************************************************)
(* Every command is passed what its caller must give.                      *)
(***************************************************************************)
LEMMA PushFit ==
  ASSUME NEW d, NEW T, NEW q \in Seq(T), q # <<>>, NEW new \in Seq(T), Fitting(d, q), Fitting(d, new)
  PROVE  Fitting(d, new \o Tail(q))
<1> DEFINE r == Tail(q)
           w == new \o r
<1>1. Len(new) \in Nat /\ Len(r) \in Nat /\ Len(w) = Len(new) + Len(r)
      /\ \A i \in 1..Len(w) : w[i] = IF i <= Len(new) THEN new[i] ELSE r[i - Len(new)]
  OBVIOUS
<1>2. \A i \in 1..Len(r) : r[i] = q[i + 1] /\ i + 1 \in 1..Len(q)
  OBVIOUS
<1> HIDE DEF r, w
<1>3. ASSUME NEW i \in 1..Len(w) PROVE Fits(d, w[i])
  <2>1. CASE i <= Len(new)
    <3>1. w[i] = new[i] /\ i \in 1..Len(new)
      BY <1>1, <2>1
    <3>. QED
      BY <3>1 DEF Fitting
  <2>2. CASE ~(i <= Len(new))
    <3> DEFINE j == i - Len(new)
    <3>1. w[i] = r[j] /\ j \in 1..Len(r)
      BY <1>1, <2>2
    <3> HIDE DEF j
    <3>. QED
      BY <1>2, <3>1 DEF Fitting
  <2>. QED
    BY <2>1, <2>2
<1>4. Fitting(d, w)
  BY <1>3 DEF Fitting
<1>. QED
  BY <1>4 DEF w, r

LEMMA PopFit ==
  ASSUME TaskInv, Fitting(def, todo), todo # <<>>, Pop
  PROVE  Fitting(def, todo')
<1>1. todo \in Seq(Tasks(def)) /\ todo' = Tail(todo)
  BY DEF TaskInv, Stack, Pop
<1>2. Len(todo') = Len(todo) - 1 /\ Len(todo) \in Nat /\ \A i \in 1..Len(todo') : todo'[i] = todo[i + 1]
  BY <1>1
<1>. QED
  BY <1>2 DEF Fitting

LEMMA FailFit ==
  ASSUME TaskInv, Fitting(def, todo), NEW e, Fail(e)
  PROVE  Fitting(def, todo')
<1>1. CASE Caught = {} \/ e \in {"io", "overflow"}
  <2>1. todo' = <<>>
    BY <1>1 DEF Fail
  <2>. QED
    BY <2>1 DEF Fitting
<1>2. CASE ~(Caught = {} \/ e \in {"io", "overflow"})
  <2> DEFINE least == CHOOSE i \in Caught : \A j \in Caught : i <= j
  <2>1. Caught \subseteq 1..Len(todo) /\ Caught \subseteq Nat /\ todo \in Seq(Tasks(def))
    BY DEF Caught, TaskInv, Stack
  <2>2. \E i \in Caught : \A j \in Caught : i <= j
    BY <1>2, <2>1, Least
  <2>3. least \in 1..Len(todo)
    BY <2>1, <2>2
  <2>4. todo' = SubSeq(todo, least, Len(todo))
    BY <1>2 DEF Fail
  <2> HIDE DEF least
  <2>5. /\ Len(todo') = Len(todo) - least + 1 /\ Len(todo) \in Nat
        /\ \A i \in 1..Len(todo') : todo'[i] = todo[least + i - 1] /\ least + i - 1 \in 1..Len(todo)
    BY <2>1, <2>3, <2>4
  <2>. QED
    BY <2>5 DEF Fitting
<1>. QED
  BY <1>1, <1>2

\* New tasks on top.
LEMMA PushedFit ==
  ASSUME TaskInv, Fitting(def, todo), todo # <<>>, NEW T, NEW new \in Seq(T), Push(new),
         \A x \in T : Fits(def, x)
  PROVE  Fitting(def, todo')
<1> DEFINE U == T \cup Tasks(def)
<1>1. todo \in Seq(U) /\ new \in Seq(U)
  BY DEF TaskInv, Stack
<1>2. \A i \in 1..Len(new) : new[i] \in T
  OBVIOUS
<1>3. Fitting(def, new)
  BY <1>2 DEF Fitting
<1> HIDE DEF U
<1>4. Fitting(def, new \o Tail(todo))
  BY <1>1, <1>3, PushFit
<1>. QED
  BY <1>4 DEF Push

\* What fits passes exactly what its command asks of its caller.
LEMMA FitPasses ==
  ASSUME NEW d, NEW s, NEW v \in BOOLEAN, s.cmd \in DOMAIN d.commands, Fit(d, s, v)
  PROVE  StepArgs(d, s, v) = Free(d.commands[s.cmd]) /\ ~Unbound(d, s, v)
BY DEF Fit, Lacks, StepArgs

LEMMA HeadFits ==
  ASSUME TaskInv, Fitting(def, todo), todo # <<>>
  PROVE  Fits(def, Head(todo))
<1>1. todo \in Seq(Tasks(def))
  BY DEF TaskInv, Stack
<1>2. Head(todo) = todo[1] /\ 1 \in 1..Len(todo)
  BY <1>1
<1>. QED
  BY <1>2 DEF Fitting

LEMMA StepFit ==
  ASSUME TaskInv, ~Lacking(def), Fitting(def, todo), DoStep
  PROVE  Fitting(def, todo') /\ (UNCHANGED result \/ result' = Fine(Null))
<1> DEFINE s == Head(todo).step
           v == Head(todo).value
           k == Task("run", s.cmd, Head(todo).ch)
           x == [k EXCEPT !.args = StepArgs(def, s, v)]
<1>1. todo # <<>> /\ Head(todo) \in StepTasksOf(def) /\ Head(todo).t = "step"
  BY HeadIsTask DEF TaskInv, DoStep, Doing
<1>2. s.cmd \in DOMAIN def.commands /\ v \in BOOLEAN
  BY <1>1 DEF StepTasksOf, Steps
<1>3. Fit(def, s, v)
  BY <1>1, HeadFits DEF Fits
<1>4. StepArgs(def, s, v) = Free(def.commands[s.cmd]) /\ ~Unbound(def, s, v)
  BY <1>2, <1>3, FitPasses
<1>5. (Push(<<x>>) /\ UNCHANGED result) \/ (Pop /\ result' = Fine(Null))
  BY <1>2, <1>4 DEF DoStep
<1>6. k.t = "run" /\ k.cmd = s.cmd /\ k \in [t: {"run"}, cmd: {s.cmd}, ch: {Head(todo).ch}, args: {{}}]
  BY DEF Task
<1> HIDE DEF k
<1>7. x.t = "run" /\ x.cmd = s.cmd /\ x.args = StepArgs(def, s, v)
  BY <1>6
<1> HIDE DEF x
<1>8. Fits(def, x)
  BY <1>4, <1>7 DEF Fits
<1> DEFINE T == {x}
<1>9. <<x>> \in Seq(T) /\ \A y \in T : Fits(def, y)
  BY <1>8
<1> HIDE DEF T
<1>. QED
  BY <1>1, <1>5, <1>9, PushedFit, PopFit

LEMMA QueryFit ==
  ASSUME TaskInv, Fitting(def, todo), Query
  PROVE  Fitting(def, todo')
<1> DEFINE x == Task("run", Head(todo).cmd, Head(todo).ch)
           T == {x}
<1>1. todo # <<>> /\ Head(todo).t = "query"
  BY DEF Query, Doing
<1>2. Free(def.commands[Head(todo).cmd]) = {}
  BY <1>1, HeadFits DEF Fits
<1>3. Fits(def, x)
  BY <1>2 DEF Task, Fits
<1>4. Pop \/ Push(<<x>>)
  BY DEF Query
<1> HIDE DEF x
<1>5. <<x>> \in Seq(T) /\ \A y \in T : Fits(def, y)
  BY <1>3
<1> HIDE DEF T
<1>. QED
  BY <1>1, <1>4, <1>5, PushedFit, PopFit

LEMMA ReadFit ==
  ASSUME TaskInv, Fitting(def, todo), Read
  PROVE  Fitting(def, todo')
<1> DEFINE n == Head(todo).cmd
           a == Task("query", n, Head(todo).ch)
           b == Task("store", n, Head(todo).ch)
           T == {a, b}
<1>1. todo # <<>> /\ Head(todo) \in PollTasks(def)
  BY HeadIsTask DEF TaskInv, Read, Doing
<1>2. Free(def.commands[n]) = {}
  BY <1>1 DEF PollTasks, Polled
<1>3. Fits(def, a) /\ Fits(def, b)
  BY <1>2 DEF Task, Fits
<1>4. Pop \/ Push(<<a, b>>)
  BY DEF Read
<1> HIDE DEF a, b
<1>5. <<a, b>> \in Seq(T) /\ \A y \in T : Fits(def, y)
  BY <1>3
<1> HIDE DEF T
<1>. QED
  BY <1>1, <1>4, <1>5, PushedFit, PopFit

\* The commands an expression reads have no parameters to give.
LEMMA QueriesFit ==
  ASSUME DOMAIN def.commands \subseteq Names, NEW refs, NEW ch \in ChannelsOf(def),
         \A m \in refs \cap DOMAIN def.commands : Free(def.commands[m]) = {}
  PROVE  Queries(refs, ch) \in Seq({x \in CommandTasks(def) : Fits(def, x)})
<1> DEFINE S == refs \cap DOMAIN def.commands
           q == SetToSeq(S)
           F == {x \in CommandTasks(def) : Fits(def, x)}
<1>1. IsFiniteSet(S)
  BY NamesFinite, FS_Subset
<1>2. q \in Seq(S)
  BY <1>1, SetAsSequence
<1>3. Queries(refs, ch) = [i \in DOMAIN q |-> Task("query", q[i], ch)]
  BY DEF Queries
<1> HIDE DEF q
<1>4. DOMAIN q = 1..Len(q) /\ Len(q) \in Nat /\ \A i \in 1..Len(q) : q[i] \in S
  BY <1>2
<1>5. \A i \in 1..Len(q) : Task("query", q[i], ch) \in F
  BY <1>4 DEF Task, CommandTasks, Fits
<1> HIDE DEF F
<1>. QED
  BY <1>3, <1>4, <1>5 DEF F

LEMMA RunFit ==
  ASSUME TaskInv, ~Lacking(def), Fitting(def, todo), Run
  PROVE  Fitting(def, todo') /\ (UNCHANGED result \/ Fail("overflow"))
<1> DEFINE n == Head(todo).cmd
           ch == Head(todo).ch
           c == Cmd(n)
           refs1 == It(c.requires)
           refs2 == UNION UNION {c.params[p].from : p \in DOMAIN c.params}
           y == Task("require", n, ch)
           condition == IF Given(c.requires) THEN Queries(refs1, ch) \o <<y>> ELSE <<>>
           before == StepTasks(c.before, ch, FALSE)
           computed == Queries(refs2, ch)
           x == [Head(todo) EXCEPT !.t = "send"]
           F == {z \in CommandTasks(def) : Fits(def, z)}
           T == F \cup FitStepTasks(def)
<1>1. todo # <<>> /\ Head(todo) \in CommandTasks(def) /\ Head(todo).t = "run" /\ Sound(def)
  BY HeadIsTask DEF TaskInv, Run, Doing
<1>2. n \in DOMAIN def.commands /\ ch \in ChannelsOf(def) /\ DOMAIN def.commands \subseteq Names
  BY <1>1 DEF CommandTasks, Sound
<1>3. /\ \A s \in Items(c.before) : Fit(def, s, FALSE)
      /\ \A m \in Asked(def, n) : Free(def.commands[m]) = {}
  BY <1>1, <1>2 DEF Sound, FitSound, Cmd
<1>4. x \in T
  <2>1. Fits(def, Head(todo))
    BY <1>1, HeadFits
  <2>2. x \in CommandTasks(def) /\ x.t = "send" /\ x.cmd = n /\ x.args = Head(todo).args
    BY <1>1 DEF CommandTasks
  <2>3. Head(todo).args = Free(def.commands[n])
    BY <1>1, <2>1 DEF Fits
  <2> HIDE DEF x
  <2>4. Fits(def, x)
    BY <2>2, <2>3 DEF Fits
  <2>. QED
    BY <2>2, <2>4
<1>5. before \in Seq(T)
  <2>1. c.before \in Seq(Steps(def))
    BY <1>1, <1>2 DEF Sound, Cmd
  <2>2. StepTasks(c.before, ch, FALSE) \in Seq(FitStepTasks(def))
    BY <1>2, <1>3, <2>1, FitStepTasksIn
  <2> DEFINE S == FitStepTasks(def)
  <2>3. before \in Seq(S) /\ S \subseteq T
    BY <2>2
  <2> HIDE DEF before, S, T
  <2>. QED
    BY <2>3
<1>6. computed \in Seq(T)
  <2>1. \A m \in refs2 \cap DOMAIN def.commands : Free(def.commands[m]) = {}
    BY <1>3 DEF Asked, Cmd
  <2> HIDE DEF refs2
  <2>2. Queries(refs2, ch) \in Seq(F)
    BY <1>2, <2>1, QueriesFit
  <2> HIDE DEF F, computed
  <2>. QED
    BY <2>2 DEF computed
<1>7. condition \in Seq(T)
  <2>1. CASE Given(c.requires)
    <3>1. refs1 \subseteq UNION c.requires
      BY <2>1 DEF Given, It
    <3>2. \A m \in refs1 \cap DOMAIN def.commands : Free(def.commands[m]) = {}
      BY <1>3, <3>1 DEF Asked, Cmd
    <3> HIDE DEF refs1
    <3>3. Queries(refs1, ch) \in Seq(F)
      BY <1>2, <3>2, QueriesFit
    <3>4. y \in F
      BY <1>2 DEF Task, CommandTasks, Fits
    <3> HIDE DEF F, y
    <3>5. Queries(refs1, ch) \o <<y>> \in Seq(F)
      BY <3>3, <3>4
    <3>6. condition = Queries(refs1, ch) \o <<y>>
      BY <2>1
    <3> HIDE DEF condition
    <3>. QED
      BY <3>5, <3>6
  <2>2. CASE ~Given(c.requires)
    <3>1. condition = <<>>
      BY <2>2
    <3> HIDE DEF condition, T
    <3>. QED
      BY <3>1
  <2>. QED
    BY <2>1, <2>2
<1>8. \A z \in T : Fits(def, z)
  BY DEF FitStepTasks
<1> DEFINE new == condition \o before \o computed \o <<x>>
<1>9. (Push(new) /\ UNCHANGED result) \/ Fail("overflow")
  BY <1>2 DEF Run
<1>10. new \in Seq(T)
  <2> HIDE DEF condition, before, computed, x, T
  <2>. QED
    BY <1>4, <1>5, <1>6, <1>7
<1>11. CASE Fail("overflow")
  BY <1>11, FailFit
<1>12. CASE Push(new) /\ UNCHANGED result
  <2> HIDE DEF new, T
  <2>. QED
    BY <1>1, <1>8, <1>10, <1>12, PushedFit
<1>. QED
  BY <1>9, <1>11, <1>12

LEMMA FitStep ==
  ASSUME TaskInv, FitInv, [Next]_vars
  PROVE  FitInv'
<1> USE DEF exchangeVars, readingVars, pollVars
<1>0. def' = def
  BY DefinitionKept
<1> SUFFICES ASSUME ~Lacking(def) PROVE Fitting(def, todo')
  BY <1>0 DEF FitInv
<1>1. Fitting(def, todo)
  BY DEF FitInv
<1>2. ASSUME todo' = todo PROVE Fitting(def, todo')
  BY <1>1, <1>2
<1>3. ASSUME NEW e, Fail(e) PROVE Fitting(def, todo')
  BY <1>1, <1>3, FailFit
<1>4. ASSUME todo # <<>>, Pop PROVE Fitting(def, todo')
  BY <1>1, <1>4, PopFit
<1>5. ASSUME todo' = <<>> PROVE Fitting(def, todo')
  BY <1>5 DEF Fitting
<1>w. waiting # {} => todo # <<>>
  BY DEF TaskInv
<1>6. CASE DoStep
  BY <1>1, <1>6, StepFit
<1>7. CASE Query
  BY <1>1, <1>7, QueryFit
<1>8. CASE Run
  BY <1>1, <1>8, RunFit
<1>9. CASE Read
  BY <1>1, <1>9, ReadFit
<1>10. CASE Require
  BY <1>3, <1>4, <1>10 DEF Require, Doing
<1>11. CASE Send
  BY <1>2, <1>3, <1>4, <1>11 DEF Send, Doing, Succeed
<1>12. CASE DrainFirst \/ StoreReading \/ Count \/ Show \/ Ignore
  BY <1>4, <1>12 DEF DrainFirst, StoreReading, Count, Show, Ignore, Doing
<1>13. CASE End
  BY <1>2, <1>5, <1>13 DEF End, Closed
<1>14. CASE Receive
  <2>1. todo # <<>> /\ (Pop \/ \E e : Fail(e))
    BY <1>w, <1>14 DEF Receive, Succeed
  <2>. QED
    BY <1>3, <1>4, <2>1
<1>15. CASE Exception \/ LinkLost
  BY <1>3, <1>15 DEF Exception, LinkLost
<1>16. CASE TimeOut
  <2>1. todo # <<>> /\ (Pop \/ \E e : Fail(e))
    BY <1>w, <1>16 DEF TimeOut, Succeed
  <2>. QED
    BY <1>3, <1>4, <2>1
<1>17. CASE Arrive \/ Due \/ Settle \/ UNCHANGED vars
  BY <1>2, <1>17 DEF Arrive, Due, Settle, vars
<1>18. CASE Calls
  BY <1>18, CallsBegin DEF Fresh
<1>19. CASE Lose
  BY <1>5, <1>19 DEF Lose, Closed
<1>. QED
  BY <1>6, <1>7, <1>8, <1>9, <1>10, <1>11, <1>12, <1>13, <1>14, <1>15, <1>16, <1>17, <1>18, <1>19
  DEF Next, Work, Instrument

(***************************************************************************)
(* An error of the definition is one of the known gaps.                    *)
(***************************************************************************)
LEMMA GapStep ==
  ASSUME TaskInv, FitInv, GapInv, [Next]_vars
  PROVE  GapInv'
<1> SUFFICES ASSUME result'.error \in {"definition", "arguments"} PROVE GapSeen'
  BY DEF GapInv
<1>1. SUFFICES ASSUME ~Lacking(def) PROVE GapSeen
  BY DefinitionKept DEF GapSeen, Cmd
<1>f. Fitting(def, todo)
  BY <1>1 DEF FitInv
<1>2. CASE UNCHANGED result
  BY <1>2 DEF GapInv
<1>3. ASSUME NEW v, result' = Fine(v) PROVE FALSE
  BY <1>3 DEF Fine
<1>4. ASSUME NEW e, Fail(e) PROVE e \in {"definition", "arguments"}
  BY <1>4, FailStack
<1>5. CASE DoStep
  BY <1>1, <1>2, <1>3, <1>5, <1>f, StepFit
<1>6. CASE Run
  BY <1>1, <1>2, <1>4, <1>6, <1>f, RunFit
<1>7. CASE Send
  <2> DEFINE n == Head(todo).cmd
             args == Head(todo).args
             c == Cmd(n)
             modbus == Given(c.modbus)
             used == IF modbus THEN It(c.modbus).value ELSE c.holes \cap DOMAIN c.params
  <2>1. todo # <<>> /\ Head(todo).t = "send" /\ Head(todo) \in CommandTasks(def)
    BY <1>7, HeadIsTask DEF TaskInv, Send, Doing
  <2>2. n \in DOMAIN def.commands
    BY <2>1 DEF CommandTasks
  <2>3. args = Free(c)
    BY <1>f, <2>1, HeadFits DEF Fits, Cmd
  <2>4. UNCHANGED result \/ result' = Fine(Null) \/ \E e \in RenderErrors(n, args) : Fail(e)
    BY <1>7 DEF Send, Succeed
  <2>5. SUFFICES ASSUME NEW e \in RenderErrors(n, args), e \in {"definition", "arguments"} PROVE GapSeen
    BY <1>2, <1>3, <1>4, <2>4
  <2>6. DOMAIN c.params \subseteq Keys /\ (modbus => It(c.modbus).value \subseteq DOMAIN c.params)
    BY <2>2 DEF TaskInv, Sound, Cmd
  <2>7. Free(c) \subseteq DOMAIN c.params /\ \A p \in DOMAIN c.params \ Free(c) : Given(c.params[p].from)
    BY DEF Free
  <2>8. used \subseteq DOMAIN c.params
    BY <2>6
  <2>9. \/ modbus /\ ~def.framing.modbus
        \/ \E p \in used : (c.params[p].format \ Rendered) # {}
        \/ modbus /\ \E p \in used : "word" \in Texts(c.params[p])
        \/ modbus /\ used \ args # {}
        \/ ~modbus /\ (((used \cap Free(c)) \ args) # {} \/ ~(args \subseteq DOMAIN c.params))
    BY <2>5 DEF RenderErrors
  <2>10. CASE \E p \in used : (c.params[p].format \ Rendered) # {}
    BY <2>2, <2>6, <2>8, <2>10 DEF GapSeen
  <2>11. CASE modbus /\ (\E p \in used : "word" \in Texts(c.params[p]) \/ Given(c.params[p].from))
    <3>1. ValueGap(c)
      BY <2>11 DEF ValueGap
    <3>. QED
      BY <2>2, <2>11, <3>1 DEF GapSeen
  <2>12. CASE modbus /\ ~def.framing.modbus
    BY <2>2, <2>12 DEF GapSeen
  <2>13. CASE modbus /\ used \ args # {}
    BY <2>3, <2>7, <2>8, <2>11, <2>13
  <2>. QED
    BY <2>3, <2>7, <2>9, <2>10, <2>11, <2>12, <2>13
<1>8. CASE Query
  BY <1>2, <1>3, <1>4, <1>8 DEF Query
<1>9. CASE Require
  BY <1>2, <1>4, <1>9 DEF Require
<1>10. CASE DrainFirst \/ Read \/ StoreReading \/ Count \/ Show \/ End
  BY <1>2, <1>10 DEF DrainFirst, Read, StoreReading, Count, Show, End
<1>11. CASE Ignore
  BY <1>3, <1>11 DEF Ignore
<1>12. CASE Receive
  BY <1>3, <1>4, <1>12 DEF Receive, Succeed
<1>13. CASE Exception \/ LinkLost
  BY <1>4, <1>13 DEF Exception, LinkLost
<1>14. CASE TimeOut
  BY <1>3, <1>4, <1>14 DEF TimeOut, Succeed
<1>15. CASE Arrive \/ Due \/ Settle \/ Lose
  BY <1>2, <1>15 DEF Arrive, Due, Settle, Lose
<1>16. CASE Calls
  BY <1>3, <1>16, CallsBegin
<1>17. CASE UNCHANGED vars
  BY <1>2, <1>17 DEF vars
<1>. QED
  BY <1>5, <1>6, <1>7, <1>8, <1>9, <1>10, <1>11, <1>12, <1>13, <1>14, <1>15, <1>16, <1>17
  DEF Next, Work, Instrument

(***************************************************************************)
(* So is a stack that overflows: a command in progress waits for the next  *)
(* one in progress above it, and of more than there are commands two are   *)
(* the same.                                                               *)
(***************************************************************************)
\* What is left of a stack below its first n tasks.
LEMMA NestRest ==
  ASSUME NEW d, NEW q, NEW r, NEW n \in Nat, Nested(d, q), Len(q) \in Nat, Len(r) \in Nat,
         n + Len(r) = Len(q), \A i \in 1..Len(r) : r[i] = q[i + n]
  PROVE  Nested(d, r)
<1> SUFFICES ASSUME NEW k \in 1..Len(r), NEW i \in 1..k - 1, r[k].t = "send",
                    \A j \in i + 1..k - 1 : r[j].t # "send"
             PROVE  Serves(d, r[i], r[k].cmd)
  BY DEF Nested
<1>1. k + n \in 1..Len(q) /\ i + n \in 1..(k + n) - 1 /\ r[k] = q[k + n] /\ r[i] = q[i + n]
  OBVIOUS
<1>2. ASSUME NEW j \in (i + n) + 1..(k + n) - 1 PROVE q[j].t # "send"
  <2>1. j - n \in i + 1..k - 1 /\ j - n \in 1..Len(r) /\ (j - n) + n = j
    OBVIOUS
  <2>. QED
    BY <2>1
<1>. QED
  BY <1>1, <1>2 DEF Nested

LEMMA NestTail ==
  ASSUME NEW d, NEW T, NEW q \in Seq(T), q # <<>>, Nested(d, q)
  PROVE  Nested(d, Tail(q))
<1>1. /\ 1 + Len(Tail(q)) = Len(q) /\ Len(q) \in Nat /\ Len(Tail(q)) \in Nat
      /\ \A i \in 1..Len(Tail(q)) : Tail(q)[i] = q[i + 1]
  OBVIOUS
<1>. QED
  BY <1>1, NestRest

LEMMA NestCut ==
  ASSUME NEW d, NEW T, NEW q \in Seq(T), NEW k \in 1..Len(q), Nested(d, q)
  PROVE  Nested(d, SubSeq(q, k, Len(q)))
<1> DEFINE r == SubSeq(q, k, Len(q))
           n == k - 1
<1>1. /\ Len(r) = Len(q) - k + 1 /\ Len(r) \in Nat /\ Len(q) \in Nat
      /\ \A i \in 1..Len(r) : r[i] = q[k + i - 1]
  OBVIOUS
<1>2. n \in Nat /\ n + Len(r) = Len(q) /\ \A i \in 1..Len(r) : k + i - 1 = i + n
  BY <1>1
<1>3. \A i \in 1..Len(r) : r[i] = q[i + n]
  BY <1>1, <1>2
<1> HIDE DEF r, n
<1>4. Nested(d, r)
  BY <1>1, <1>2, <1>3, NestRest
<1>. QED
  BY <1>4 DEF r

\* New tasks for the first one: what is not above a command of their own serves whom it served.
LEMMA NestPush ==
  ASSUME NEW d, NEW T, NEW q \in Seq(T), q # <<>>, NEW new \in Seq(T), Nested(d, q), Nested(d, new),
         \A i \in 1..Len(new) : \A m :
           (\A j \in i + 1..Len(new) : new[j].t # "send") /\ Serves(d, Head(q), m) => Serves(d, new[i], m)
  PROVE  Nested(d, new \o Tail(q))
<1> DEFINE r == Tail(q)
           w == new \o r
           l == Len(new)
<1>1. /\ Len(q) \in Nat /\ l \in Nat /\ Len(r) \in Nat /\ 1 + Len(r) = Len(q) /\ Head(q) = q[1]
      /\ \A i \in 1..Len(r) : r[i] = q[i + 1]
  OBVIOUS
<1>2. /\ Len(w) = l + Len(r)
      /\ \A i \in 1..Len(w) : w[i] = IF i <= l THEN new[i] ELSE r[i - l]
  OBVIOUS
<1> HIDE DEF r, w, l
<1>3. \A i \in 1..Len(w) : i <= l => w[i] = new[i]
  BY <1>2
<1>4. ASSUME NEW i \in 1..Len(w), i > l
      PROVE  w[i] = q[(i - l) + 1] /\ (i - l) + 1 \in 2..Len(q)
  <2>1. ~(i <= l) /\ i - l \in 1..Len(r)
    BY <1>1, <1>2, <1>4
  <2>2. w[i] = r[i - l] /\ r[i - l] = q[(i - l) + 1]
    BY <1>1, <1>2, <2>1
  <2>. QED
    BY <1>1, <2>1, <2>2
<1>5. SUFFICES ASSUME NEW k \in 1..Len(w), NEW i \in 1..k - 1, w[k].t = "send",
                      \A j \in i + 1..k - 1 : w[j].t # "send"
               PROVE  Serves(d, w[i], w[k].cmd)
  BY DEF Nested, w, r
<1>6. i \in 1..Len(w) /\ i \in Int /\ k \in Int /\ i < k /\ Len(w) \in Nat
  BY <1>1, <1>2
<1>7. CASE k <= l
  <2>1. k \in 1..Len(new) /\ w[k] = new[k] /\ w[i] = new[i]
    BY <1>3, <1>6, <1>7, <1>1 DEF l
  <2>2. \A j \in i + 1..k - 1 : new[j].t # "send"
    <3> TAKE j \in i + 1..k - 1
    <3>1. j \in 1..Len(w) /\ j <= l
      BY <1>1, <1>6, <1>7
    <3>. QED
      BY <1>3, <1>5, <3>1
  <2>. QED
    BY <1>5, <2>1, <2>2 DEF Nested
<1>8. CASE i > l
  <2> DEFINE a == (i - l) + 1
             b == (k - l) + 1
  <2>1. w[k] = q[b] /\ w[i] = q[a] /\ b \in 1..Len(q) /\ a \in 1..b - 1
    <3>1. k > l
      BY <1>1, <1>6, <1>8
    <3>2. w[k] = q[b] /\ b \in 2..Len(q)
      BY <1>4, <3>1
    <3>3. w[i] = q[a] /\ a \in 2..Len(q)
      BY <1>4, <1>6, <1>8
    <3>4. a < b
      BY <1>1, <1>6
    <3> HIDE DEF a, b
    <3>. QED
      BY <3>2, <3>3, <3>4, <1>1
  <2>2. \A j \in a + 1..b - 1 : q[j].t # "send"
    <3> TAKE j \in a + 1..b - 1
    <3> DEFINE x == (j - 1) + l
    <3>0. l \in Int /\ j \in Int /\ a < j /\ j < b
      BY <1>1, <1>6
    <3>1. x \in Int /\ (x - l) + 1 = j /\ i < x /\ x < k
      BY <3>0, <1>6
    <3>2. x \in i + 1..k - 1
      BY <3>1, <1>6
    <3>3. x \in 1..Len(w) /\ x > l
      BY <3>0, <3>1, <1>6, <1>8
    <3> HIDE DEF x
    <3>. QED
      BY <1>4, <1>5, <3>1, <3>2, <3>3
  <2> HIDE DEF a, b
  <2>. QED
    BY <1>5, <2>1, <2>2 DEF Nested
<1>9. CASE i <= l /\ k > l
  <2> DEFINE b == (k - l) + 1
  <2>1. w[k] = q[b] /\ b \in 1..Len(q) /\ 1 \in 1..b - 1 /\ w[i] = new[i] /\ i \in 1..Len(new)
    BY <1>3, <1>4, <1>6, <1>9, <1>1 DEF l
  <2>2. \A j \in 1 + 1..b - 1 : q[j].t # "send"
    <3> TAKE j \in 1 + 1..b - 1
    <3> DEFINE x == (j - 1) + l
    <3>1. x \in i + 1..k - 1 /\ x \in 1..Len(w) /\ x > l /\ (x - l) + 1 = j
      BY <1>1, <1>6, <1>9
    <3> HIDE DEF x
    <3>. QED
      BY <1>4, <1>5, <3>1
  <2>3. \A j \in i + 1..Len(new) : new[j].t # "send"
    <3> TAKE j \in i + 1..Len(new)
    <3>1. j \in i + 1..k - 1 /\ j \in 1..Len(w) /\ j <= l
      BY <1>1, <1>6, <1>9 DEF l
    <3>. QED
      BY <1>3, <1>5, <3>1
  <2> HIDE DEF b
  <2>4. Serves(d, Head(q), q[b].cmd)
    BY <1>1, <1>5, <2>1, <2>2 DEF Nested
  <2>. QED
    BY <2>1, <2>3, <2>4
<1>. QED
  BY <1>1, <1>6, <1>7, <1>8, <1>9

\* Two commands in progress are the same: those between them call for each other.
LEMMA DeepIsCircular ==
  ASSUME TaskInv, DepthInv, Depth > MaxDepth
  PROVE  Circular
<1> DEFINE Going == {i \in DOMAIN todo : todo[i].t = "send"}
           f == [i \in Going |-> todo[i].cmd]
<1>1. todo \in Seq(Tasks(def)) /\ Len(todo) \in Nat /\ DOMAIN todo = 1..Len(todo)
  BY DEF TaskInv, Stack
<1>2. \A i \in Going : todo[i].cmd \in DOMAIN def.commands
  <2> TAKE i \in Going
  <2>1. todo[i] \in Tasks(def)
    BY <1>1
  <2>. QED
    BY <2>1 DEF Tasks, CommandTasks, PollTasks, StepTasksOf
<1>3. IsFiniteSet(Going) /\ IsFiniteSet(DOMAIN def.commands)
  <2>1. DOMAIN def.commands \subseteq Names
    BY DEF TaskInv, Sound
  <2>2. IsFiniteSet(DOMAIN def.commands)
    BY <2>1, NamesFinite, FS_Subset
  <2>3. IsFiniteSet(1..Len(todo)) /\ Going \subseteq 1..Len(todo)
    BY <1>1, FS_Interval
  <2>4. IsFiniteSet(Going)
    BY <2>3, FS_Subset
  <2>. QED
    BY <2>2, <2>4
<1>4. Cardinality(DOMAIN def.commands) < Cardinality(Going)
  <2>1. Cardinality(DOMAIN def.commands) \in Nat /\ Cardinality(Going) \in Nat /\ MaxDepth \in Nat
    BY <1>3, FS_CardinalityType, BoundsAssumption
  <2>2. Cardinality(Going) > MaxDepth /\ Cardinality(DOMAIN def.commands) <= MaxDepth
    BY DEF Depth, DepthInv
  <2>. QED
    BY <2>1, <2>2
<1>5. f \in [Going -> DOMAIN def.commands]
  BY <1>2
<1>6. \E i, j \in Going : i # j /\ f[i] = f[j]
  <2> HIDE DEF f, Going
  <2>. QED
    BY <1>3, <1>4, <1>5, FS_PigeonHole
<1>7. PICK i, j \in Going : i < j /\ todo[i].cmd = todo[j].cmd
  <2>1. PICK x, y \in Going : x # y /\ todo[x].cmd = todo[y].cmd
    BY <1>6
  <2>2. x < y \/ y < x
    BY <1>1, <2>1
  <2>. QED
    BY <2>1, <2>2
<1> DEFINE Between == {k \in Going : i < k /\ k <= j}
           S == {todo[k].cmd : k \in Between}
<1>8. S \subseteq DOMAIN def.commands /\ todo[j].cmd \in S
  <2>1. j \in Between
    BY <1>1, <1>7
  <2>. QED
    BY <1>2, <2>1
<1>9. ASSUME NEW k \in Between PROVE CallsIn(def, todo[k].cmd) \cap S # {}
  <2> DEFINE Above == {k - x : x \in {x \in Going : x < k}}
  <2>1. Above \in SUBSET Nat /\ k - i \in Above
    BY <1>1, <1>7, <1>9
  <2>2. PICK m \in Above : \A x \in Above : m <= x
    BY <2>1, Least
  <2>3. PICK x \in Going : x < k /\ m = k - x
    BY <2>2
  <2>4. ASSUME NEW y \in x + 1..k - 1 PROVE todo[y].t # "send"
    <3> SUFFICES ASSUME todo[y].t = "send" PROVE FALSE
      OBVIOUS
    <3>1. y \in 1..Len(todo) /\ x \in Int /\ k \in Int
      BY <1>1, <1>9, <2>3
    <3>2. y \in Going /\ y < k
      BY <1>1, <3>1
    <3>3. k - y \in Above
      BY <3>2
    <3>4. k - x <= k - y
      BY <2>2, <2>3, <3>3
    <3>. QED
      BY <3>1, <3>4
  <2>5. k \in 1..Len(todo) /\ x \in 1..k - 1 /\ todo[k].t = "send" /\ todo[x].t = "send"
    BY <1>1, <1>9, <2>3
  <2>6. Serves(def, todo[x], todo[k].cmd)
    BY <2>4, <2>5 DEF DepthInv, Nested
  <2>7. todo[x].cmd \in CallsIn(def, todo[k].cmd)
    BY <2>5, <2>6 DEF Serves, Called
  <2>8. i <= x
    <3>1. k - x <= k - i
      BY <2>1, <2>2, <2>3
    <3>. QED
      BY <1>1, <1>7, <2>5, <3>1
  <2>9. todo[x].cmd \in S
    <3>1. CASE x = i
      BY <1>7, <1>8, <3>1
    <3>2. CASE x # i
      <4>1. x \in Between
        BY <1>1, <1>7, <1>9, <2>3, <2>5, <2>8, <3>2
      <4>. QED
        BY <4>1
    <3>. QED
      BY <3>1, <3>2
  <2>. QED
    BY <2>7, <2>9
<1> HIDE DEF Between
<1>10. \A n \in S : CallsIn(def, n) \cap S # {}
  BY <1>9
<1> HIDE DEF S
<1>11. \A n : CallsFor(n) = CallsIn(def, n)
  BY DEF CallsFor, CallsIn, Cmd
<1>. QED
  BY <1>8, <1>10, <1>11 DEF Circular

LEMMA DepthInit ==
  ASSUME Init
  PROVE  DepthInv
<1>1. PICK d \in Definitions, t \in Transports : def = ForTransport(d, t)
  BY DEF Init
<1>2. IsDevice(d)
  BY DefinitionsAssumption
<1>3. def.commands = d.commands
  BY <1>1, <1>2 DEF ForTransport, IsDevice
<1>. QED
  BY <1>3, StackAssumption DEF Init, DepthInv, Nested, Fine

LEMMA EmptyNest ==
  ASSUME NEW d
  PROVE  Nested(d, <<>>)
BY DEF Nested

LEMMA PopNest ==
  ASSUME TaskInv, DepthInv, todo # <<>>, Pop
  PROVE  Nested(def, todo')
BY NestTail DEF TaskInv, Stack, DepthInv, Pop

LEMMA FailNest ==
  ASSUME TaskInv, DepthInv, NEW e, Fail(e)
  PROVE  Nested(def, todo')
<1>1. CASE Caught = {} \/ e \in {"io", "overflow"}
  BY <1>1, EmptyNest DEF Fail
<1>2. CASE ~(Caught = {} \/ e \in {"io", "overflow"})
  <2> DEFINE least == CHOOSE i \in Caught : \A j \in Caught : i <= j
  <2>1. Caught \subseteq 1..Len(todo) /\ Caught \subseteq Nat /\ todo \in Seq(Tasks(def))
    BY DEF Caught, TaskInv, Stack
  <2>2. \E i \in Caught : \A j \in Caught : i <= j
    BY <1>2, <2>1, Least
  <2>3. least \in 1..Len(todo)
    BY <2>1, <2>2
  <2>4. todo' = SubSeq(todo, least, Len(todo))
    BY <1>2 DEF Fail
  <2> HIDE DEF least
  <2>. QED
    BY <2>1, <2>3, <2>4, NestCut DEF DepthInv
<1>. QED
  BY <1>1, <1>2

\* One task that calls what the first one did.
LEMMA ReplaceNest ==
  ASSUME TaskInv, DepthInv, todo # <<>>, NEW x \in Tasks(def), x.t \in {"step", "query", "run"},
         Head(todo).t \in {"step", "query", "run"}, Called(x) = Called(Head(todo)),
         todo' = <<x>> \o Tail(todo)
  PROVE  Nested(def, todo')
<1>1. todo \in Seq(Tasks(def)) /\ <<x>> \in Seq(Tasks(def)) /\ Nested(def, todo)
  BY DEF TaskInv, Stack, DepthInv
<1>2. Len(<<x>>) = 1 /\ <<x>>[1] = x
  OBVIOUS
<1>3. Nested(def, <<x>>)
  BY <1>2 DEF Nested
<1>4. \A m : Serves(def, Head(todo), m) => Serves(def, x, m)
  BY DEF Serves
<1> DEFINE new == <<x>>
<1>5. new \in Seq(Tasks(def)) /\ Nested(def, new) /\ Len(new) = 1 /\ new[1] = x
  BY <1>1, <1>2, <1>3
<1> HIDE DEF new
<1>6. Nested(def, new \o Tail(todo))
  BY <1>1, <1>4, <1>5, NestPush
<1>. QED
  BY <1>6 DEF new

LEMMA StepNest ==
  ASSUME TaskInv, DepthInv, DoStep
  PROVE  Nested(def, todo')
<1> DEFINE s == Head(todo).step
           v == Head(todo).value
           k == Task("run", s.cmd, Head(todo).ch)
           x == [k EXCEPT !.args = StepArgs(def, s, v)]
<1>1. todo # <<>> /\ Head(todo) \in StepTasksOf(def) /\ Head(todo).t = "step"
  BY HeadIsTask DEF TaskInv, DoStep, Doing
<1>2. s \in Step /\ s.cmd \in DOMAIN def.commands /\ Head(todo).ch \in ChannelsOf(def)
  BY <1>1 DEF StepTasksOf, Steps
<1>3. CASE Push(<<x>>)
  <2>1. k \in CommandTasks(def) /\ k.t = "run" /\ k.cmd = s.cmd
    BY <1>2 DEF Task, CommandTasks
  <2>2. StepArgs(def, s, v) \subseteq Keys
    <3>1. s.args \subseteq Keys
      BY <1>2 DEF Step
    <3>2. Free(Cmd(s.cmd)) \subseteq Keys
      BY <1>2 DEF Free, Cmd, TaskInv, Sound
    <3>. QED
      BY <3>1, <3>2 DEF StepArgs, Cmd
  <2> HIDE DEF k
  <2>3. x \in CommandTasks(def) /\ x.t = "run" /\ x.cmd = s.cmd
    BY <2>1, <2>2 DEF CommandTasks
  <2>4. todo' = <<x>> \o Tail(todo)
    BY <1>3 DEF Push
  <2> HIDE DEF x
  <2>5. x \in Tasks(def) /\ Called(x) = Called(Head(todo))
    BY <1>1, <2>3 DEF Called, Tasks
  <2>. QED
    BY <1>1, <2>3, <2>4, <2>5, ReplaceNest
<1>4. (\E e : Fail(e)) \/ Pop \/ Push(<<x>>)
  BY DEF DoStep
<1>. QED
  BY <1>1, <1>3, <1>4, FailNest, PopNest

LEMMA QueryNest ==
  ASSUME TaskInv, DepthInv, Query
  PROVE  Nested(def, todo')
<1> DEFINE x == Task("run", Head(todo).cmd, Head(todo).ch)
<1>1. todo # <<>> /\ Head(todo) \in CommandTasks(def) /\ Head(todo).t = "query"
  BY HeadIsTask DEF TaskInv, Query, Doing
<1>2. CASE Push(<<x>>)
  <2>1. x \in CommandTasks(def) /\ x.t = "run" /\ x.cmd = Head(todo).cmd
    BY <1>1 DEF Task, CommandTasks
  <2>2. todo' = <<x>> \o Tail(todo)
    BY <1>2 DEF Push
  <2> HIDE DEF x
  <2>3. x \in Tasks(def) /\ Called(x) = Called(Head(todo))
    BY <1>1, <2>1 DEF Called, Tasks
  <2>. QED
    BY <1>1, <2>1, <2>2, <2>3, ReplaceNest
<1>3. Pop \/ Push(<<x>>)
  BY DEF Query
<1>. QED
  BY <1>1, <1>2, <1>3, PopNest

\* A reading serves no command.
LEMMA ReadNest ==
  ASSUME TaskInv, DepthInv, Read
  PROVE  Nested(def, todo')
<1> DEFINE a == Task("query", Head(todo).cmd, Head(todo).ch)
           b == Task("store", Head(todo).cmd, Head(todo).ch)
<1>1. todo # <<>> /\ Head(todo) \in PollTasks(def) /\ Head(todo).t = "read"
  BY HeadIsTask DEF TaskInv, Read, Doing
<1>2. CASE Push(<<a, b>>)
  <2>1. a \in CommandTasks(def) /\ b \in PollTasks(def) /\ a.t = "query" /\ b.t = "store"
    BY <1>1 DEF Task, CommandTasks, PollTasks, Polled
  <2>2. todo' = <<a, b>> \o Tail(todo)
    BY <1>2 DEF Push
  <2> HIDE DEF a, b
  <2> DEFINE new == <<a, b>>
  <2>3. new \in Seq(Tasks(def)) /\ Len(new) = 2 /\ new[1] = a /\ new[2] = b
    BY <2>1 DEF Tasks
  <2> HIDE DEF new
  <2>4. Nested(def, new)
    <3>1. \A k \in 1..Len(new) : new[k].t # "send"
      BY <2>1, <2>3
    <3>. QED
      BY <3>1 DEF Nested
  <2>5. \A m : ~Serves(def, Head(todo), m)
    BY <1>1 DEF Serves
  <2>6. todo \in Seq(Tasks(def)) /\ Nested(def, todo)
    BY DEF TaskInv, Stack, DepthInv
  <2>7. Nested(def, new \o Tail(todo))
    BY <1>1, <2>3, <2>4, <2>5, <2>6, NestPush
  <2>. QED
    BY <2>2, <2>7 DEF new
<1>3. Pop \/ Push(<<a, b>>)
  BY DEF Read
<1>. QED
  BY <1>1, <1>2, <1>3, PopNest

\* What a command puts before itself serves it.
Served(n) == {y \in Tasks(def) : Serves(def, y, n) /\ y.t # "send"}

LEMMA QueriesServe ==
  ASSUME DOMAIN def.commands \subseteq Names, NEW refs, NEW ch \in ChannelsOf(def), NEW n,
         refs \cap DOMAIN def.commands \subseteq CallsIn(def, n)
  PROVE  Queries(refs, ch) \in Seq(Served(n))
<1> DEFINE S == refs \cap DOMAIN def.commands
           q == SetToSeq(S)
<1>1. IsFiniteSet(S)
  BY NamesFinite, FS_Subset
<1>2. q \in Seq(S)
  BY <1>1, SetAsSequence
<1>3. Queries(refs, ch) = [i \in DOMAIN q |-> Task("query", q[i], ch)]
  BY DEF Queries
<1> HIDE DEF q
<1>4. \A i \in 1..Len(q) : q[i] \in CallsIn(def, n) /\ q[i] \in DOMAIN def.commands
  BY <1>2
<1>5. DOMAIN q = 1..Len(q) /\ Len(q) \in Nat
  BY <1>2
<1>6. ASSUME NEW i \in 1..Len(q) PROVE Task("query", q[i], ch) \in Served(n)
  <2>1. Task("query", q[i], ch) \in Tasks(def)
    BY <1>4 DEF Task, Tasks, CommandTasks
  <2>. QED
    BY <1>4, <2>1 DEF Task, Served, Serves, Called
<1>. QED
  BY <1>3, <1>5, <1>6

LEMMA StepsServe ==
  ASSUME NEW q \in Seq(Steps(def)), NEW ch \in ChannelsOf(def), NEW v \in BOOLEAN, NEW n,
         \A s \in Items(q) : s.cmd \in DOMAIN def.commands => s.cmd \in CallsIn(def, n)
  PROVE  StepTasks(q, ch, v) \in Seq(Served(n))
<1>1. ASSUME NEW i \in 1..Len(q) PROVE StepTask(q[i], ch, v) \in Served(n)
  <2>1. q[i] \in Steps(def) /\ q[i] \in Items(q)
    BY DEF Items
  <2>2. q[i].cmd \in CallsIn(def, n)
    BY <2>1 DEF Steps
  <2>3. StepTask(q[i], ch, v) \in Tasks(def)
    BY <2>1 DEF StepTask, StepTasksOf, Tasks
  <2>. QED
    BY <2>2, <2>3 DEF StepTask, Served, Serves, Called
<1>2. StepTasks(q, ch, v) = [i \in 1..Len(q) |-> StepTask(q[i], ch, v)]
  BY DEF StepTasks
<1>. QED
  BY <1>1, <1>2

LEMMA RunNest ==
  ASSUME TaskInv, DepthInv, Run
  PROVE  Nested(def, todo')
<1> DEFINE n == Head(todo).cmd
           ch == Head(todo).ch
           c == Cmd(n)
           condition == IF Given(c.requires) THEN Queries(It(c.requires), ch) \o <<Task("require", n, ch)>> ELSE <<>>
           before == StepTasks(c.before, ch, FALSE)
           computed == Queries(UNION UNION {c.params[p].from : p \in DOMAIN c.params}, ch)
           x == [Head(todo) EXCEPT !.t = "send"]
           S == Served(n)
<1>1. todo # <<>> /\ Head(todo) \in CommandTasks(def) /\ Head(todo).t = "run"
  BY HeadIsTask DEF TaskInv, Run, Doing
<1>2. n \in DOMAIN def.commands /\ ch \in ChannelsOf(def) /\ DOMAIN def.commands \subseteq Names
  BY <1>1 DEF CommandTasks, TaskInv, Sound
<1>3. CASE Push(condition \o before \o computed \o <<x>>)
  <2>1. x \in Tasks(def) /\ x.t = "send" /\ x.cmd = n
    BY <1>1 DEF CommandTasks, Tasks
  <2>2. before \in Seq(S)
    <3>1. c.before \in Seq(Steps(def))
      BY <1>2 DEF TaskInv, Sound, Cmd
    <3>2. \A s \in Items(c.before) : s.cmd \in DOMAIN def.commands => s.cmd \in CallsIn(def, n)
      BY DEF CallsIn, Cmd
    <3>. QED
      BY <1>2, <3>1, <3>2, StepsServe
  <2>3. computed \in Seq(S)
    <3> DEFINE refs == UNION UNION {c.params[p].from : p \in DOMAIN c.params}
    <3>1. refs \cap DOMAIN def.commands \subseteq CallsIn(def, n)
      BY DEF CallsIn, Cmd
    <3> HIDE DEF refs
    <3>2. Queries(refs, ch) \in Seq(S)
      BY <1>2, <3>1, QueriesServe
    <3>. QED
      BY <3>2 DEF refs
  <2>4. condition \in Seq(S)
    <3> DEFINE refs == It(c.requires)
               y == Task("require", n, ch)
    <3>1. y \in S
      <4>1. y \in Tasks(def)
        BY <1>2 DEF Task, CommandTasks, Tasks
      <4>. QED
        BY <4>1 DEF Task, Served, Serves
    <3>2. ASSUME Given(c.requires) PROVE refs \cap DOMAIN def.commands \subseteq CallsIn(def, n)
      <4>1. refs \in c.requires
        BY <3>2 DEF Given, It
      <4>. QED
        BY <4>1 DEF CallsIn, Cmd
    <3> HIDE DEF refs, y
    <3>3. ASSUME Given(c.requires) PROVE Queries(refs, ch) \in Seq(S)
      BY <1>2, <3>2, <3>3, QueriesServe
    <3> DEFINE q == Queries(refs, ch)
    <3> HIDE DEF q, S
    <3>4. (Given(c.requires) => q \o <<y>> \in Seq(S)) /\ <<>> \in Seq(S)
      BY <3>1, <3>3 DEF q
    <3>5. condition = IF Given(c.requires) THEN q \o <<y>> ELSE <<>>
      BY DEF q, refs, y
    <3>. QED
      BY <3>4, <3>5
  <2> DEFINE f == condition \o before \o computed
             new == f \o <<x>>
  <2>5. todo' = new \o Tail(todo)
    BY <1>3 DEF Push
  <2> HIDE DEF condition, before, computed, x
  <2>6. f \in Seq(S)
    <3> HIDE DEF S
    <3>. QED
      BY <2>2, <2>3, <2>4
  <2>7. /\ Len(f) \in Nat /\ f \in Seq(Tasks(def))
        /\ \A i \in 1..Len(f) : Serves(def, f[i], n) /\ f[i].t # "send"
    <3>1. \A i \in 1..Len(f) : f[i] \in S
      BY <2>6
    <3>2. \A i \in 1..Len(f) : f[i] \in Tasks(def)
      BY <3>1 DEF Served
    <3> HIDE DEF f
    <3>. QED
      BY <2>6, <3>1, <3>2 DEF Served
  <2> HIDE DEF f
  <2>8. /\ new \in Seq(Tasks(def)) /\ Len(new) = Len(f) + 1 /\ new[Len(new)] = x
        /\ \A i \in 1..Len(f) : new[i] = f[i]
    BY <2>1, <2>7
  <2> HIDE DEF new
  <2>9. Nested(def, new)
    <3> SUFFICES ASSUME NEW k \in 1..Len(new), NEW i \in 1..k - 1, new[k].t = "send"
                 PROVE  Serves(def, new[i], new[k].cmd)
      BY DEF Nested
    <3>1. k = Len(new) /\ i \in 1..Len(f)
      BY <2>7, <2>8
    <3>. QED
      BY <2>1, <2>7, <2>8, <3>1
  <2>10. ASSUME NEW i \in 1..Len(new), NEW m, \A j \in i + 1..Len(new) : new[j].t # "send",
                Serves(def, Head(todo), m)
         PROVE  Serves(def, new[i], m)
    <3>1. i = Len(new)
      BY <2>1, <2>7, <2>8, <2>10
    <3>. QED
      BY <1>1, <2>1, <2>8, <2>10, <3>1 DEF Serves, Called
  <2>11. todo \in Seq(Tasks(def)) /\ Nested(def, todo)
    BY DEF TaskInv, Stack, DepthInv
  <2>. QED
    BY <1>1, <2>5, <2>8, <2>9, <2>10, <2>11, NestPush
<1>4. (\E e : Fail(e)) \/ Push(condition \o before \o computed \o <<x>>)
  BY DEF Run
<1>. QED
  BY <1>3, <1>4, FailNest

LEMMA NestStep ==
  ASSUME TaskInv, DepthInv, [Next]_vars
  PROVE  Nested(def, todo')
<1>1. ASSUME todo' = <<>> PROVE Nested(def, todo')
  BY <1>1, EmptyNest
<1>2. CASE UNCHANGED todo
  BY <1>2 DEF DepthInv
<1>3. ASSUME waiting # {} PROVE todo # <<>>
  BY <1>3 DEF TaskInv
<1>4. CASE DoStep \/ Query \/ Run \/ Read
  BY <1>4, StepNest, QueryNest, RunNest, ReadNest
<1>5. CASE Require
  <2>1. todo # <<>> /\ (Pop \/ \E e : Fail(e))
    BY <1>5 DEF Require, Doing
  <2>. QED
    BY <2>1, PopNest, FailNest
<1>6. CASE Send
  <2>1. todo # <<>> /\ (Pop \/ UNCHANGED todo \/ \E e : Fail(e))
    BY <1>6 DEF Send, Doing, Succeed
  <2>. QED
    BY <1>2, <2>1, PopNest, FailNest
<1>7. CASE DrainFirst \/ StoreReading \/ Count \/ Show \/ Ignore
  <2>1. todo # <<>> /\ Pop
    BY <1>7 DEF DrainFirst, StoreReading, Count, Show, Ignore, Doing
  <2>. QED
    BY <2>1, PopNest
<1>8. CASE End \/ Lose
  BY <1>1, <1>2, <1>8 DEF End, Lose, Closed
<1>9. CASE Receive
  <2>1. todo # <<>> /\ (Pop \/ \E e : Fail(e))
    BY <1>3, <1>9 DEF Receive, Succeed
  <2>. QED
    BY <2>1, PopNest, FailNest
<1>10. CASE Exception \/ LinkLost
  <2>1. \E e : Fail(e)
    BY <1>10 DEF Exception, LinkLost
  <2>. QED
    BY <2>1, FailNest
<1>11. CASE TimeOut
  <2>1. todo # <<>> /\ (Pop \/ \E e : Fail(e))
    BY <1>3, <1>11 DEF TimeOut, Succeed
  <2>. QED
    BY <2>1, PopNest, FailNest
<1>12. CASE Arrive \/ Due \/ Settle \/ UNCHANGED vars
  BY <1>2, <1>12 DEF Arrive, Due, Settle, vars
<1>13. CASE Calls
  <2>1. Unsent(todo')
    BY <1>13, CallsBegin DEF Fresh
  <2>. QED
    BY <2>1 DEF Unsent, Nested
<1>. QED
  BY <1>4, <1>5, <1>6, <1>7, <1>8, <1>9, <1>10, <1>11, <1>12, <1>13 DEF Next, Work, Instrument

LEMMA DepthStep ==
  ASSUME TaskInv, DepthInv, [Next]_vars
  PROVE  DepthInv'
<1>1. def' = def
  BY DefinitionKept
<1>2. Nested(def, todo')
  BY NestStep
<1>3. result'.error = "overflow" => Circular
  <2>1. SUFFICES ASSUME result'.error = "overflow" PROVE Circular
    OBVIOUS
  <2>2. CASE UNCHANGED result
    BY <2>1, <2>2 DEF DepthInv
  <2>3. ASSUME NEW v, result' = Fine(v) PROVE FALSE
    BY <2>1, <2>3 DEF Fine
  <2>4. ASSUME NEW e, Fail(e) PROVE e = "overflow"
    BY <2>1, <2>4, FailStack
  <2>5. CASE Run
    <3>1. UNCHANGED result \/ Fail("definition") \/ Depth > MaxDepth
      BY <2>5 DEF Run
    <3>. QED
      BY <2>2, <2>4, <3>1, DeepIsCircular
  <2>6. CASE Send
    <3> DEFINE n == Head(todo).cmd
               args == Head(todo).args
    <3>1. UNCHANGED result \/ result' = Fine(Null) \/ \E e \in RenderErrors(n, args) : Fail(e)
      BY <2>6 DEF Send, Succeed
    <3>2. RenderErrors(n, args) \subseteq {"none", "definition", "arguments", "bad argument"}
      BY DEF RenderErrors
    <3>. QED
      BY <2>2, <2>3, <2>4, <3>1, <3>2
  <2>7. CASE DoStep
    BY <2>2, <2>3, <2>4, <2>7 DEF DoStep
  <2>8. CASE Query
    BY <2>2, <2>3, <2>8 DEF Query
  <2>9. CASE Require
    BY <2>2, <2>4, <2>9 DEF Require
  <2>10. CASE DrainFirst \/ Read \/ StoreReading \/ Count \/ Show \/ End
    BY <2>2, <2>10 DEF DrainFirst, Read, StoreReading, Count, Show, End
  <2>11. CASE Ignore
    BY <2>3, <2>11 DEF Ignore
  <2>12. CASE Receive
    BY <2>3, <2>4, <2>12 DEF Receive, Succeed
  <2>13. CASE Exception \/ LinkLost
    BY <2>4, <2>13 DEF Exception, LinkLost
  <2>14. CASE TimeOut
    BY <2>3, <2>4, <2>14 DEF TimeOut, Succeed
  <2>15. CASE Arrive \/ Due \/ Settle \/ Lose \/ UNCHANGED vars
    BY <2>2, <2>15 DEF Arrive, Due, Settle, Lose, vars
  <2>16. CASE Calls
    BY <2>3, <2>16, CallsBegin
  <2>. QED
    BY <2>5, <2>6, <2>7, <2>8, <2>9, <2>10, <2>11, <2>12, <2>13, <2>14, <2>15, <2>16 DEF Next, Work, Instrument
<1>4. Circular' = Circular
  BY <1>1 DEF Circular, CallsFor, Cmd
<1>. QED
  BY <1>1, <1>2, <1>3, <1>4 DEF DepthInv

(***************************************************************************)
(* What was heard is counted.                                              *)
(***************************************************************************)
LEMMA StoringFed ==
  ASSUME TaskInv, todo # <<>>, Pop, UNCHANGED def, Storing'
  PROVE  Head(todo).t \in {"query", "run", "send"} /\ Head(todo') \in PollTasks(def) /\ call = "poll"
         /\ Head(todo).cmd = Head(todo').cmd /\ Head(todo).ch = Head(todo').ch
         /\ Head(todo).cmd \in Polled(def)
<1>1. Stack(def, todo', call) /\ Feeds(Head(todo), Head(todo')) /\ Head(todo').t = "store" /\ todo' # <<>>
  BY PopStack DEF Storing
<1>2. Head(todo') \in PollTasks(def) /\ call = "poll"
  <2> DEFINE q == todo'
  <2>1. Stack(def, q, call) /\ q # <<>> /\ Head(q).t = "store"
    BY <1>1
  <2> HIDE DEF q
  <2>2. Head(q) \in PollTasks(def) /\ call = "poll"
    BY <2>1, HeadIsTask
  <2>. QED
    BY <2>2 DEF q
<1>. QED
  BY <1>1, <1>2 DEF Feeds, PollTasks

\* A reading popped without being heard is kept for the poll that stores it.
LEMMA KeptStored ==
  ASSUME TaskInv, todo # <<>>, Pop, KeptForPoll, Storing'
  PROVE  tally'.kept = 1
<1>1. todo \in Seq(Tasks(def)) /\ todo' = Tail(todo) /\ todo' # <<>> /\ Head(todo').t = "store"
      /\ tally \in Tallies
  BY DEF TaskInv, Stack, Pop, Storing
<1>2. Len(todo) > 1 /\ Head(Tail(todo)) = todo[2]
  BY <1>1
<1>. QED
  BY <1>1, <1>2 DEF KeptForPoll, Tallies

LEMMA SilentStep ==
  ASSUME TaskInv, SilentInv, [Next]_vars
  PROVE  SilentInv'
<1> USE DEF pollVars
<1>0. def' = def
  BY DefinitionKept
<1>1. /\ tally.answered = 1 => Noticed(tally)
      /\ Storing /\ result.error = "none" => Noticed(tally)
      /\ tally \in Tallies
  BY DEF SilentInv, TaskInv
<1> DEFINE Heeded == tally'.answered = 1 => Noticed(tally')
           Given1 == Storing' /\ result'.error = "none" => Noticed(tally')
<1> SUFFICES Heeded /\ Given1
  BY DEF SilentInv
<1>2. ASSUME NEW e, e # "none", Fail(e) PROVE Given1
  BY <1>2, FailStack
<1>3. ASSUME todo # <<>>, Pop, Head(todo).t \notin {"query", "run", "send"} PROVE Given1
  BY <1>0, <1>3, StoringFed
<1>4. ASSUME todo' # <<>> => Head(todo').t # "store" PROVE Given1
  BY <1>4 DEF Storing
<1>5. ASSUME NEW x, x.t # "store", Push(<<x>>) PROVE Given1
  <2>1. Head(todo') = x
    BY <1>5 DEF Push, TaskInv, Stack
  <2>. QED
    BY <1>4, <1>5, <2>1
<1>6. CASE DoStep
  <2> DEFINE k == Task("run", Head(todo).step.cmd, Head(todo).ch)
             r == [k EXCEPT !.args = StepArgs(def, Head(todo).step, Head(todo).value)]
  <2>1. UNCHANGED tally /\ todo # <<>> /\ Head(todo).t = "step"
    BY <1>6 DEF DoStep, Doing
  <2>2. (\E e : e # "none" /\ Fail(e)) \/ Pop \/ Push(<<r>>)
    BY <1>6 DEF DoStep
  <2>3. r.t = "run"
    BY DEF Task
  <2> HIDE DEF r
  <2>. QED
    BY <1>1, <1>2, <1>3, <1>5, <2>1, <2>2, <2>3
<1>k. ASSUME KeptForPoll PROVE Heeded
  BY <1>1, <1>k DEF KeptForPoll, Tallies, Noticed
<1>7. CASE Query
  <2> DEFINE n == Head(todo).cmd
             ch == Head(todo).ch
             r == Task("run", n, ch)
  <2>1. todo # <<>> /\ ((Pop /\ KeptForPoll) \/ (Push(<<r>>) /\ UNCHANGED tally))
    BY <1>7 DEF Query, Doing
  <2>2. r.t = "run"
    BY DEF Task
  <2>3. CASE Pop /\ KeptForPoll
    BY <1>k, <2>1, <2>3, KeptStored DEF Noticed
  <2> HIDE DEF r
  <2>4. CASE Push(<<r>>) /\ UNCHANGED tally
    BY <1>1, <1>5, <2>2, <2>4
  <2>. QED
    BY <2>1, <2>3, <2>4
<1>8. CASE Run
  <2>1. UNCHANGED tally
    BY <1>8 DEF Run
  <2>. QED
    BY <1>1, <1>2, <1>4, <1>8, <2>1, RunStack DEF Begun
<1>9. CASE Require
  <2>1. UNCHANGED tally /\ todo # <<>> /\ Head(todo).t = "require" /\ (Pop \/ Fail("refused"))
    BY <1>9 DEF Require, Doing
  <2>. QED
    BY <1>1, <1>2, <1>3, <2>1
<1>10. CASE Send
  <2> DEFINE n == Head(todo).cmd
             ch == Head(todo).ch
  <2>1. UNCHANGED <<def, tally>> /\ todo # <<>> /\ Head(todo).t = "send" /\ waiting = {}
    BY <1>10 DEF Send, Doing, Succeed, Effects
  <2>2. ASSUME NEW e, e # "none", Fail(e) PROVE Heeded /\ Given1
    BY <1>1, <1>2, <2>1, <2>2
  <2>3. CASE waiting' = {n}
    BY <1>1, <2>1, <2>3 DEF Storing
  <2>4. CASE ~Answers(n) /\ Succeed(n, ch, Null)
    <3>1. ~Storing'
      BY <2>1, <2>4, StoringFed DEF Succeed, Answers, Polled, Cmd
    <3>. QED
      BY <1>1, <2>1, <3>1
  <2>. QED
    BY <1>10, <2>2, <2>3, <2>4 DEF Send
<1>11. CASE DrainFirst \/ Show
  <2>1. UNCHANGED tally /\ todo # <<>> /\ Head(todo).t \in {"drain", "show"} /\ Pop
    BY <1>11 DEF DrainFirst, Show, Doing
  <2>. QED
    BY <1>1, <1>3, <2>1
<1>12. CASE Read
  <2>1. tally'.answered = tally.answered /\ (Noticed(tally) => Noticed(tally'))
    BY <1>1, <1>12 DEF Read, Tallies, Noticed
  <2>. QED
    BY <1>1, <1>4, <1>12, <2>1, ReadStack
<1>13. CASE StoreReading
  <2>1. todo # <<>> /\ Head(todo).t = "store" /\ Pop /\ waiting = {} /\ Storing
    BY <1>13 DEF StoreReading, Doing, Storing
  <2>2. tally' = [tally EXCEPT !.answered = IF result.error = "none" THEN 1 ELSE @]
    BY <1>13 DEF StoreReading
  <2>3. (Noticed(tally) => Noticed(tally')) /\ (result.error # "none" => tally'.answered = tally.answered)
    BY <1>1, <2>2 DEF Tallies, Noticed
  <2>. QED
    BY <1>1, <1>3, <2>1, <2>3
<1>14. CASE Count
  <2>1. tally' = NoCount /\ todo # <<>> /\ Head(todo).t = "count" /\ Pop
    BY <1>14 DEF Count, Doing
  <2>. QED
    BY <1>3, <2>1 DEF NoCount
<1>15. CASE Ignore
  <2>1. UNCHANGED tally /\ todo # <<>> /\ Head(todo).t = "ignore" /\ Pop
    BY <1>15 DEF Ignore, Doing
  <2>. QED
    BY <1>1, <1>3, <2>1
<1>c. ASSUME Closed(def) PROVE Heeded /\ Given1
  BY <1>4, <1>c DEF Closed, NoCount
<1>16. CASE End
  <2>1. todo = <<>> /\ (Closed(def) \/ UNCHANGED <<todo, tally>>)
    BY <1>16 DEF End
  <2>. QED
    BY <1>1, <1>4, <1>c, <2>1
<1>17. CASE Arrive \/ Due \/ Settle
  <2>1. todo' = todo /\ waiting' = waiting /\ result' = result /\ tally' = tally
    BY <1>17 DEF Arrive, Due, Settle, exchangeVars
  <2>. QED
    BY <1>1, <2>1 DEF Storing
<1>18. CASE Receive
  <2> DEFINE n == It(waiting)
             r == Head(line)
             ch == Head(todo).ch
  <2>1. waiting # {} /\ todo # <<>> /\ Heard /\ UNCHANGED def
    BY <1>18 DEF Receive, TaskInv
  <2>2. tally'.answered = tally.answered /\ (call = "poll" => Noticed(tally')) /\ (Noticed(tally) => Noticed(tally'))
    BY <1>1, <2>1 DEF Heard, Tallies, Noticed
  <2>3. Succeed(n, ch, r) \/ \E e : e # "none" /\ Fail(e)
    BY <1>18 DEF Receive
  <2>4. CASE Succeed(n, ch, r)
    BY <1>1, <2>1, <2>2, <2>4, StoringFed DEF Succeed
  <2>. QED
    BY <1>1, <1>2, <2>2, <2>3, <2>4
<1>19. CASE Exception
  <2>1. Heard /\ Fail("refused")
    BY <1>19 DEF Exception
  <2>2. tally'.answered = tally.answered /\ (Noticed(tally) => Noticed(tally'))
    BY <1>1, <2>1 DEF Heard, Tallies, Noticed
  <2>. QED
    BY <1>1, <1>2, <2>1, <2>2
<1>20. CASE TimeOut
  <2>1. todo # <<>> /\ ((Pop /\ KeptForPoll) \/ (UNCHANGED tally /\ \E e : e # "none" /\ Fail(e)))
    BY <1>20 DEF TimeOut, Succeed, TaskInv
  <2>2. CASE Pop /\ KeptForPoll
    BY <1>k, <2>1, <2>2, KeptStored DEF Noticed
  <2>. QED
    BY <1>1, <1>2, <2>1, <2>2
<1>21. CASE LinkLost
  <2>1. UNCHANGED tally /\ Fail("io")
    BY <1>21 DEF LinkLost
  <2>. QED
    BY <1>1, <1>2, <2>1
<1>22. CASE Calls
  <2>1. UNCHANGED tally /\ Fresh(def, todo', call')
    BY <1>22, CallsBegin
  <2>. QED
    BY <1>1, <1>4, <2>1 DEF Fresh, Begun
<1>23. CASE Lose
  BY <1>23, <1>c DEF Lose
<1>24. CASE UNCHANGED vars
  BY <1>1, <1>24 DEF vars, Storing, exchangeVars
<1>. QED
  BY <1>6, <1>7, <1>8, <1>9, <1>10, <1>11, <1>12, <1>13, <1>14, <1>15, <1>16, <1>17, <1>18, <1>19, <1>20,
     <1>21, <1>22, <1>23, <1>24 DEF Next, Work, Instrument

\* The polls in a row in which nothing was heard were all counted.
LEMMA CountStep ==
  ASSUME TaskInv, SilentInv, CountInv, [Next]_vars
  PROVE  CountInv'
<1> USE DEF pollVars
<1>1. silent \in Nat /\ quiet \in Nat /\ quiet <= silent /\ tally \in Tallies /\ MaxSilent \in Nat
  BY BoundsAssumption DEF CountInv, TaskInv
<1>2. CASE UNCHANGED <<silent, quiet>>
  BY <1>1, <1>2 DEF CountInv
<1>3. ASSUME Closed(def) PROVE CountInv'
  BY <1>3 DEF Closed, CountInv
<1>4. CASE Count
  <2> DEFINE unanswered == tally.answered = 0
             unheard == tally.heard = 0 /\ tally.kept = 0
  <2>1. unheard => unanswered
    BY <1>1 DEF SilentInv, Noticed, Tallies
  <2>2. silent' = Counted(silent, unanswered) /\ quiet' = Counted(quiet, unheard)
    BY <1>4 DEF Count
  <2> HIDE DEF unanswered, unheard
  <2>3. CASE tally.attempted = 0
    BY <1>1, <2>2, <2>3 DEF Counted, CountInv
  <2>4. CASE tally.attempted # 0 /\ unheard
    BY <1>1, <2>1, <2>2, <2>4 DEF Counted, CountInv
  <2>5. CASE tally.attempted # 0 /\ ~unheard
    <3>1. quiet' = 0
      BY <2>2, <2>5 DEF Counted
    <3>2. silent' \in Nat
      BY <1>1, <2>2, <2>5 DEF Counted
    <3>. QED
      BY <3>1, <3>2 DEF CountInv
  <2>. QED
    BY <2>3, <2>4, <2>5
<1>5. CASE End
  BY <1>2, <1>3, <1>5 DEF End
<1>6. CASE Calls
  BY <1>2, <1>6, CallsBegin
<1>7. CASE Lose
  BY <1>3, <1>7 DEF Lose
<1>8. CASE DoStep \/ Query \/ Run \/ Require \/ Send \/ DrainFirst \/ Read \/ StoreReading \/ Show \/ Ignore
  BY <1>2, <1>8 DEF DoStep, Query, Run, Require, Send, DrainFirst, Read, StoreReading, Show, Ignore
<1>9. CASE Instrument
  BY <1>2, <1>9 DEF Instrument, Arrive, Receive, Exception, TimeOut, LinkLost, Due, Settle
<1>10. CASE UNCHANGED vars
  BY <1>2, <1>10 DEF vars
<1>. QED
  BY <1>4, <1>5, <1>6, <1>7, <1>8, <1>9, <1>10 DEF Next, Work

(***************************************************************************)
(* The line.                                                               *)
(***************************************************************************)
LEMMA StrictKept ==
  ASSUME def' = def
  PROVE  Strict' = Strict
BY DEF Strict, Drains, SilenceIsNull, EndsBySilence, Cmd

\* What outlives a drain is stray.
LEMMA DrainLeaves ==
  ASSUME LineType, Drain
  PROVE  LineType' /\ (Drains => line' = <<>> /\ AllStray(line') /\ AllStray(flight'))
<1>1. line \in Seq(AnswerSet) /\ flight \in Seq(AnswerSet)
  BY DEF LineType
<1>2. CASE ~Drains
  BY <1>1, <1>2 DEF Drain, LineType
<1>3. CASE Drains
  <2>1. PICK k \in 1..Len(flight) + 1 : flight' = Strayed(SubSeq(flight, k, Len(flight)))
    BY <1>3 DEF Drain
  <2> DEFINE q == SubSeq(flight, k, Len(flight))
  <2>2. q \in Seq(AnswerSet)
    BY <1>1
  <2> HIDE DEF q
  <2>s. \A a \in AnswerSet : [a EXCEPT !.stray = TRUE] \in AnswerSet /\ [a EXCEPT !.stray = TRUE].stray
    BY DEF AnswerSet
  <2>3. \A i \in 1..Len(q) : [q[i] EXCEPT !.stray = TRUE] \in AnswerSet
                             /\ [q[i] EXCEPT !.stray = TRUE].stray
    BY <2>2, <2>s
  <2>q. flight' = Strayed(q)
    BY <2>1 DEF q
  <2>4. flight' = [i \in 1..Len(q) |-> [q[i] EXCEPT !.stray = TRUE]]
    BY <2>2, <2>q DEF Strayed
  <2>5. flight' \in Seq(AnswerSet) /\ Len(flight') = Len(q)
    BY <2>2, <2>3, <2>4
  <2>6. AllStray(flight')
    BY <2>3, <2>4, <2>5 DEF AllStray
  <2>7. line' = <<>> /\ <<>> \in Seq(AnswerSet) /\ AllStray(<<>>)
    BY <1>3 DEF Drain, AllStray
  <2>. QED
    BY <2>5, <2>6, <2>7 DEF LineType
<1>. QED
  BY <1>2, <1>3

\* Answers that come, are read or are waited for.
LEMMA StrayAdded ==
  ASSUME NEW q \in Seq(AnswerSet), NEW x \in AnswerSet, AllStray(q), x.stray
  PROVE  AllStray(Append(q, x))
BY DEF AllStray

LEMMA Strays ==
  ASSUME NEW q \in Seq(AnswerSet), q # <<>>
  PROVE  /\ Head(q) \in AnswerSet /\ Tail(q) \in Seq(AnswerSet)
         /\ AllStray(q) => Head(q).stray /\ AllStray(Tail(q))
<1>1. Head(q) = q[1] /\ 1 \in 1..Len(q)
  OBVIOUS
<1>2. Tail(q) \in Seq(AnswerSet) /\ Len(Tail(q)) = Len(q) - 1
      /\ \A i \in 1..Len(Tail(q)) : Tail(q)[i] = q[i + 1] /\ i + 1 \in 1..Len(q)
  OBVIOUS
<1>3. Head(q) \in AnswerSet
  BY <1>1
<1>4. AllStray(q) => Head(q).stray /\ AllStray(Tail(q))
  BY <1>1, <1>2 DEF AllStray
<1>. QED
  BY <1>2, <1>3, <1>4

LEMMA ReadingIn ==
  ASSUME TaskInv, todo # <<>>, Head(todo).t = "send", NEW s \in BOOLEAN
  PROVE  Reading(Head(todo).cmd, Head(todo).ch, s) \in AnswerSet
<1>1. Head(todo) \in CommandTasks(def)
  BY HeadIsTask DEF TaskInv
<1>2. Head(todo).cmd \in Names /\ Head(todo).ch \in Nat
  BY <1>1 DEF CommandTasks, ChannelsOf, TaskInv, Sound
<1>. QED
  BY <1>2 DEF Reading, AnswerSet

LEMMA LineTypeStep ==
  ASSUME TaskInv, LineType, [Next]_vars
  PROVE  LineType'
<1> USE DEF exchangeVars
<1>1. line \in Seq(AnswerSet) /\ flight \in Seq(AnswerSet)
  BY DEF LineType
<1>2. CASE UNCHANGED <<line, flight>>
  BY <1>1, <1>2 DEF LineType
<1>3. ASSUME line # <<>>, line' = Tail(line), UNCHANGED flight PROVE LineType'
  BY <1>1, <1>3, Strays DEF LineType
<1>4. CASE Send
  <2>1. todo # <<>> /\ Head(todo).t = "send" /\ UNCHANGED line
    BY <1>4 DEF Send, Doing
  <2>2. UNCHANGED flight
        \/ flight' = Append(flight, Reading(Head(todo).cmd, Head(todo).ch, line # <<>> \/ flight # <<>>))
    BY <1>4 DEF Send
  <2>3. Reading(Head(todo).cmd, Head(todo).ch, line # <<>> \/ flight # <<>>) \in AnswerSet
    BY <2>1, ReadingIn
  <2>. QED
    BY <1>1, <2>1, <2>2, <2>3 DEF LineType
<1>5. CASE Arrive
  <2>1. flight # <<>> /\ line' = Append(line, Head(flight)) /\ flight' = Tail(flight)
    BY <1>5 DEF Arrive
  <2>. QED
    BY <1>1, <2>1, Strays DEF LineType
<1>6. CASE DrainFirst
  BY <1>6, DrainLeaves DEF DrainFirst
<1>7. CASE Receive
  BY <1>2, <1>3, <1>7, DrainLeaves DEF Receive
<1>8. CASE Exception
  BY <1>3, <1>8 DEF Exception
<1>9. CASE TimeOut
  BY <1>2, <1>9, DrainLeaves DEF TimeOut
<1>10. CASE DoStep \/ Query \/ Run \/ Require \/ Read \/ StoreReading \/ Count \/ Show \/ Ignore \/ End
  BY <1>2, <1>10 DEF DoStep, Query, Run, Require, Read, StoreReading, Count, Show, Ignore, End
<1>11. CASE LinkLost \/ Due \/ Settle \/ Lose \/ UNCHANGED vars
  BY <1>2, <1>11 DEF LinkLost, Due, Settle, Lose, vars
<1>12. CASE Calls
  BY <1>2, <1>12, CallsBegin
<1>. QED
  BY <1>4, <1>5, <1>6, <1>7, <1>8, <1>9, <1>10, <1>11, <1>12 DEF Next, Work, Instrument

LEMMA LineStep ==
  ASSUME TaskInv, LineType, LineInv, [Next]_vars
  PROVE  LineInv'
<1> USE DEF exchangeVars
<1> DEFINE R == Reading(Head(todo).cmd, Head(todo).ch, FALSE)
           Said == LineIs(R)
<1>0. Strict' = Strict
  BY DefinitionKept, StrictKept
<1> SUFFICES ASSUME Strict PROVE Said'
  BY <1>0 DEF LineInv
<1>1. waiting = {} => \/ Quiet
                      \/ session = "closed" /\ call = "none"
                      \/ todo # <<>> /\ Head(todo).t = "drain"
                      \/ call # "none" /\ todo = <<>> /\ result.error = "io"
  BY DEF LineInv, LineIs
<1>2. waiting # {} => \/ Quiet
                      \/ line = <<>> /\ flight = <<R>>
                      \/ flight = <<>> /\ line = <<R>>
  BY DEF LineInv, LineIs
<1>3. Drains
  BY DEF Strict
<1>4. /\ call = "none" => todo = <<>> /\ waiting = {}
      /\ waiting # {} => todo # <<>> /\ Head(todo).t = "send" /\ waiting = {Head(todo).cmd}
  BY DEF TaskInv
<1>l. line \in Seq(AnswerSet) /\ flight \in Seq(AnswerSet)
  BY DEF LineType
<1>e. AllStray(<<>>)
  BY DEF AllStray
<1>h. ASSUME Quiet' PROVE Said'
  BY <1>h DEF LineIs
<1>q. ASSUME todo # <<>>, waiting = {}, Head(todo).t # "drain" PROVE Quiet
  BY <1>1, <1>4, <1>q
<1>u. ASSUME Quiet, UNCHANGED <<line, flight>> PROVE Said'
  BY <1>h, <1>u DEF Quiet
<1>d. ASSUME Drain PROVE Said'
  BY <1>3, <1>d, <1>h, DrainLeaves DEF Quiet
\* What was read is off the line.
<1>t. ASSUME waiting # {}, line # <<>>, line' = Tail(line), UNCHANGED flight PROVE Said'
  <2>1. CASE Quiet
    <3>1. AllStray(Tail(line)) /\ AllStray(flight)
      BY <1>l, <1>t, <2>1, Strays DEF Quiet
    <3>. QED
      BY <1>h, <1>t, <3>1 DEF Quiet
  <2>2. CASE flight = <<>> /\ line = <<R>>
    <3>1. Tail(line) = <<>>
      BY <2>2
    <3>. QED
      BY <1>e, <1>h, <1>t, <2>2, <3>1 DEF Quiet
  <2>. QED
    BY <1>2, <1>t, <2>1, <2>2
<1>5. CASE DoStep \/ Query \/ Run \/ Require \/ Read \/ StoreReading \/ Count \/ Show \/ Ignore
  <2>1. todo # <<>> /\ waiting = {} /\ Head(todo).t # "drain" /\ UNCHANGED <<line, flight>>
    BY <1>5 DEF DoStep, Query, Run, Require, Read, StoreReading, Count, Show, Ignore, Doing
  <2>. QED
    BY <1>q, <1>u, <2>1
<1>6. CASE Send
  <2> DEFINE S == Reading(Head(todo).cmd, Head(todo).ch, line # <<>> \/ flight # <<>>)
  <2>1. todo # <<>> /\ waiting = {} /\ Head(todo).t = "send" /\ UNCHANGED line
    BY <1>6 DEF Send, Doing
  <2>2. Quiet
    BY <1>q, <2>1
  <2>3. UNCHANGED flight \/ (Answers(Head(todo).cmd) /\ flight' = Append(flight, S))
    BY <1>6 DEF Send
  <2>4. CASE UNCHANGED flight
    BY <1>u, <2>1, <2>2, <2>4
  <2>5. CASE ~(UNCHANGED flight) /\ (line # <<>> \/ flight # <<>>)
    <3>1. S.stray /\ S \in AnswerSet
      BY <2>1, <2>5, ReadingIn DEF Reading
    <3>2. flight' = Append(flight, S) /\ AllStray(flight) /\ AllStray(line)
      BY <2>2, <2>3, <2>5 DEF Quiet
    <3> HIDE DEF S
    <3>3. AllStray(Append(flight, S))
      BY <1>l, <3>1, <3>2, StrayAdded
    <3>. QED
      BY <1>h, <2>1, <3>2, <3>3 DEF Quiet
  <2>6. CASE ~(UNCHANGED flight) /\ line = <<>> /\ flight = <<>>
    <3>1. S = R
      BY <2>6 DEF Reading
    <3>a. Answers(Head(todo).cmd) /\ flight' = Append(<<>>, R) /\ line' = <<>>
      BY <2>1, <2>3, <2>6, <3>1
    <3>b. \A x : Append(<<>>, x) = <<x>>
      OBVIOUS
    <3>2. Answers(Head(todo).cmd) /\ flight' = <<R>> /\ line' = <<>>
      BY <3>a, <3>b, Zenon
    <3>3. waiting' = {Head(todo).cmd} /\ UNCHANGED todo
      BY <1>6, <2>6, <3>2 DEF Send
    <3>4. R' = R
      BY <3>3 DEF Reading
    <3> HIDE DEF R, S
    <3>. QED
      BY <3>2, <3>3, <3>4 DEF LineIs
  <2>. QED
    BY <2>4, <2>5, <2>6
<1>7. CASE DrainFirst
  BY <1>7, <1>d DEF DrainFirst
<1>8. CASE End
  <2>1. todo = <<>> /\ call # "none" /\ waiting = {} /\ UNCHANGED <<line, flight>>
    BY <1>8 DEF End
  <2>2. CASE Closed(def)
    BY <2>2 DEF Closed, LineIs
  <2>3. CASE ~Closed(def)
    <3>1. result.error # "io"
      BY <1>8, <2>3 DEF End
    <3>. QED
      BY <1>1, <1>u, <2>1, <3>1
  <2>. QED
    BY <2>2, <2>3
<1>9. CASE Arrive
  <2>1. flight # <<>> /\ line' = Append(line, Head(flight)) /\ flight' = Tail(flight)
        /\ UNCHANGED <<session, call, todo, result, waiting>>
    BY <1>9 DEF Arrive
  <2>2. CASE Quiet
    <3>1. Head(flight) \in AnswerSet /\ Head(flight).stray /\ AllStray(Tail(flight))
      BY <1>l, <2>1, <2>2, Strays DEF Quiet
    <3>2. AllStray(Append(line, Head(flight)))
      BY <1>l, <2>2, <3>1, StrayAdded DEF Quiet
    <3>. QED
      BY <1>h, <2>1, <3>1, <3>2 DEF Quiet
  <2>3. CASE waiting = {} /\ ~Quiet
    BY <1>1, <2>1, <2>3 DEF LineIs
  <2>4. CASE waiting # {} /\ ~Quiet
    <3>1. line = <<>> /\ flight = <<R>>
      BY <1>2, <2>1, <2>4
    <3> HIDE DEF R
    <3>2. flight' = <<>> /\ line' = <<R>>
      BY <2>1, <3>1
    <3>3. R' = R
      BY <2>1 DEF R, Reading
    <3>. QED
      BY <2>1, <2>4, <3>2, <3>3 DEF LineIs
  <2>. QED
    BY <2>2, <2>3, <2>4
<1>10. CASE Receive
  <2>1. waiting # {} /\ line # <<>>
    BY <1>10 DEF Receive
  <2>2. Drain \/ (line' = Tail(line) /\ UNCHANGED flight)
    BY <1>10 DEF Receive
  <2>. QED
    BY <1>d, <1>t, <2>1, <2>2
<1>11. CASE Exception
  BY <1>11, <1>t DEF Exception
<1>12. CASE TimeOut
  <2>1. waiting # {}
    BY <1>12 DEF TimeOut
  <2>2. It(waiting) \in DOMAIN def.commands
    <3>1. waiting = {Head(todo).cmd} /\ Head(todo) \in CommandTasks(def)
      BY <1>4, <2>1, HeadIsTask DEF TaskInv
    <3>. QED
      BY <3>1 DEF It, CommandTasks
  <2>3. ~SilenceIsNull(It(waiting))
    BY <2>2 DEF Strict
  <2>4. Drain
    BY <1>12, <2>3 DEF TimeOut
  <2>. QED
    BY <1>d, <2>4
<1>13. CASE LinkLost
  <2>1. todo # <<>> /\ Fail("io") /\ waiting' = {} /\ UNCHANGED call
    BY <1>4, <1>13 DEF LinkLost, Doing
  <2>2. todo' = <<>> /\ result'.error = "io" /\ call' # "none"
    BY <1>4, <2>1, FailStack
  <2>. QED
    BY <2>1, <2>2 DEF LineIs
<1>14. CASE Due \/ Settle \/ UNCHANGED vars
  <2>1. todo' = todo /\ waiting' = waiting /\ result' = result /\ line' = line /\ flight' = flight
        /\ session' = session /\ call' = call
    BY <1>14 DEF Due, Settle, vars
  <2>2. R' = R
    BY <2>1 DEF Reading
  <2>3. Quiet' = Quiet
    BY <2>1 DEF Quiet
  <2> HIDE DEF R
  <2>. QED
    BY <1>1, <1>2, <2>1, <2>2, <2>3 DEF LineIs
<1>15. CASE Calls
  <2>1. todo = <<>> /\ waiting = {} /\ call = "none" /\ UNCHANGED <<session, line, flight, waiting>>
        /\ (session # "closed" \/ (todo' # <<>> /\ Head(todo').t = "drain"))
    BY <1>15, CallsBegin
  <2>2. CASE Quiet
    BY <1>u, <2>1, <2>2
  <2>3. CASE ~Quiet
    BY <1>1, <2>1, <2>3 DEF LineIs
  <2>. QED
    BY <2>2, <2>3
<1>16. CASE Lose
  BY <1>16 DEF Lose, Closed, LineIs
<1>. QED
  BY <1>5, <1>6, <1>7, <1>8, <1>9, <1>10, <1>11, <1>12, <1>13, <1>14, <1>15, <1>16
  DEF Next, Work, Instrument

(***************************************************************************)
(* The readings.                                                           *)
(***************************************************************************)
\* ReadingsOwn, said of a definition and the readings.
OwnIn(d, n, ch, r) == r # Null /\ ~r.stray => r.cmd = n /\ (UsesChIn(d, n) => r.ch = ch)
CacheOwn(d, f) == \A k \in DOMAIN f : OwnIn(d, k[1], k[2], f[k])
ShownOwn(d, f) == \A ch \in ChannelsOf(d) : \A n \in DOMAIN f[ch] : OwnIn(d, n, ch, f[ch][n])

LEMMA OwnSaid ==
  /\ ReadingsOwn <=> CacheOwn(def, cache) /\ ShownOwn(def, latest)
  /\ (ReadingsOwn <=> CacheOwn(def, cache) /\ ShownOwn(def, latest))'
BY DEF ReadingsOwn, CacheOwn, ShownOwn, Own, OwnIn, UsesCh, Channels, ChannelsOf

\* A reading put in place of what was there: every other one was there before.
LEMMA MergedOne ==
  ASSUME NEW base, NEW k, NEW over, DOMAIN over = {k}, NEW x \in DOMAIN Merge(base, over)
  PROVE  \/ x = k /\ Merge(base, over)[x] = over[k]
         \/ x \in DOMAIN base /\ Merge(base, over)[x] = base[x]
BY DEF Merge

\* After success the readings kept are own ones, if the new one is.
LEMMA EffectsOwn ==
  ASSUME CacheOwn(def, cache), NEW n, NEW ch, NEW v, OwnIn(def, n, ch, v), Effects(n, ch, v)
  PROVE  CacheOwn(def, cache')
<1> DEFINE c == Cmd(n)
           k == <<n, ch>>
           over == [j \in {k} |-> v]
           m == Merge(cache, over)
           filled == IF c.cached THEN m ELSE cache
<1>1. cache' = [x \in {x \in DOMAIN filled : x[1] \notin c.invalidates} |-> filled[x]]
  BY DEF Effects
<1>2. DOMAIN over = {k} /\ over[k] = v /\ k[1] = n /\ k[2] = ch
  OBVIOUS
<1> SUFFICES ASSUME NEW x \in DOMAIN cache' PROVE OwnIn(def, x[1], x[2], cache'[x])
  BY DEF CacheOwn
<1>3. x \in DOMAIN filled /\ cache'[x] = filled[x]
  BY <1>1
<1>4. CASE c.cached
  <2>1. x \in DOMAIN m /\ cache'[x] = m[x]
    BY <1>3, <1>4
  <2> HIDE DEF over, k
  <2>2. (x = k /\ m[x] = v) \/ (x \in DOMAIN cache /\ m[x] = cache[x])
    BY <1>2, <2>1, MergedOne
  <2> HIDE DEF m
  <2>. QED
    BY <1>2, <2>1, <2>2 DEF CacheOwn
<1>5. CASE ~c.cached
  BY <1>3, <1>5 DEF CacheOwn
<1>. QED
  BY <1>4, <1>5

\* So are the readings shown.
LEMMA StoreOwn ==
  ASSUME ShownOwn(def, latest), DOMAIN latest = Channels, NEW n, NEW ch \in Channels, NEW v,
         OwnIn(def, n, ch, v), Store(n, ch, v)
  PROVE  ShownOwn(def, latest')
<1> DEFINE over == [k \in {n} |-> IF settling THEN Null ELSE v]
           m == Merge(latest[ch], over)
<1>1. latest' = [latest EXCEPT ![ch] = m]
  BY DEF Store
<1>2. DOMAIN over = {n} /\ (over[n] = Null \/ over[n] = v)
  OBVIOUS
<1> HIDE DEF over
<1> SUFFICES ASSUME NEW x \in ChannelsOf(def), NEW y \in DOMAIN latest'[x]
             PROVE  OwnIn(def, y, x, latest'[x][y])
  BY DEF ShownOwn
<1>3. x \in DOMAIN latest
  BY DEF Channels, ChannelsOf
<1>4. CASE x # ch
  <2>1. latest'[x] = latest[x]
    BY <1>1, <1>3, <1>4
  <2>. QED
    BY <2>1 DEF ShownOwn
<1>5. CASE x = ch
  <2>1. latest'[x] = m
    BY <1>1, <1>3, <1>5
  <2>2. (y = n /\ m[y] = over[n]) \/ (y \in DOMAIN latest[ch] /\ m[y] = latest[ch][y])
    <3> DEFINE base == latest[ch]
    <3>1. y \in DOMAIN Merge(base, over) /\ m = Merge(base, over)
      BY <2>1
    <3> HIDE DEF base, m
    <3>2. DOMAIN over = {n}
      BY <1>2
    <3>3. (y = n /\ Merge(base, over)[y] = over[n]) \/ (y \in DOMAIN base /\ Merge(base, over)[y] = base[y])
      BY <3>1, <3>2, MergedOne
    <3>. QED
      BY <3>1, <3>3 DEF base
  <2> HIDE DEF m
  <2>3. CASE y = n /\ m[y] = over[n]
    BY <1>2, <1>5, <2>1, <2>3 DEF OwnIn
  <2>4. CASE y \in DOMAIN latest[ch] /\ m[y] = latest[ch][y]
    BY <1>5, <2>1, <2>4 DEF ShownOwn
  <2>. QED
    BY <2>2, <2>3, <2>4
<1>. QED
  BY <1>4, <1>5

LEMMA ReadStep ==
  ASSUME TaskInv, LineType, LineInv, ReadInv, [Next]_vars
  PROVE  ReadInv'
<1> USE DEF exchangeVars, readingVars
<1>0. def' = def
  BY DefinitionKept
<1> SUFFICES ASSUME Strict PROVE ReadInv'
  BY <1>0, StrictKept DEF ReadInv
<1>1. CacheOwn(def, cache) /\ ShownOwn(def, latest) /\ DOMAIN latest = Channels
      /\ (Storing => OwnIn(def, Head(todo).cmd, Head(todo).ch, result.value))
  BY OwnSaid DEF ReadInv, Own, OwnIn, UsesCh, TaskInv
<1> DEFINE Kept1 == CacheOwn(def, cache') /\ ShownOwn(def, latest')
           Stored1 == Storing' => OwnIn(def, Head(todo').cmd, Head(todo').ch, result'.value)
<1> SUFFICES Kept1 /\ Stored1
  <2>1. ReadingsOwn'
    BY <1>0, OwnSaid
  <2>2. Storing' => Own(Head(todo).cmd, Head(todo).ch, result.value)'
    BY <1>0 DEF Own, OwnIn, UsesCh
  <2>. QED
    BY <2>1, <2>2 DEF ReadInv
<1>n. \A n, ch : OwnIn(def, n, ch, Null)
  BY DEF OwnIn
<1>e. CacheOwn(def, <<>>) /\ ShownOwn(def, [ch \in 1..def.class.channels |-> <<>>])
  BY DEF CacheOwn, ShownOwn, ChannelsOf
<1>2. ASSUME NEW e, Fail(e) PROVE Stored1
  BY <1>2, <1>n, FailStack
<1>3. ASSUME todo # <<>>, Pop, Head(todo).t \notin {"query", "run", "send"} PROVE Stored1
  BY <1>0, <1>3, StoringFed
<1>4. ASSUME todo' # <<>> => Head(todo').t # "store" PROVE Stored1
  BY <1>4 DEF Storing
<1>5. ASSUME NEW x, x.t # "store", Push(<<x>>) PROVE Stored1
  <2>1. Head(todo') = x
    BY <1>5 DEF Push, TaskInv, Stack
  <2>. QED
    BY <1>4, <1>5, <2>1
\* The reading popped with its command is the one that is stored.
<1>p. ASSUME todo # <<>>, Pop, NEW v, result' = Fine(v), OwnIn(def, Head(todo).cmd, Head(todo).ch, v)
      PROVE  Stored1
  <2> SUFFICES ASSUME Storing' PROVE OwnIn(def, Head(todo').cmd, Head(todo').ch, v)
    BY <1>p DEF Fine
  <2>1. Head(todo).cmd = Head(todo').cmd /\ Head(todo).ch = Head(todo').ch
    BY <1>0, <1>p, StoringFed
  <2>. QED
    BY <1>p, <2>1
<1>s. ASSUME todo # <<>>, NEW v, Succeed(Head(todo).cmd, Head(todo).ch, v), OwnIn(def, Head(todo).cmd, Head(todo).ch, v)
      PROVE  Kept1 /\ Stored1
  <2> DEFINE n == Head(todo).cmd
             ch == Head(todo).ch
  <2>1. Pop /\ result' = Fine(v) /\ Effects(n, ch, v) /\ latest' = latest
    BY <1>s DEF Succeed, Effects
  <2>2. CacheOwn(def, cache')
    <3> HIDE DEF n, ch
    <3>1. OwnIn(def, n, ch, v)
      BY <1>s DEF n, ch
    <3>. QED
      BY <1>1, <2>1, <3>1, EffectsOwn
  <2>. QED
    BY <1>1, <1>p, <1>s, <2>1, <2>2
<1>6. CASE DoStep
  <2> DEFINE k == Task("run", Head(todo).step.cmd, Head(todo).ch)
             r == [k EXCEPT !.args = StepArgs(def, Head(todo).step, Head(todo).value)]
  <2>1. UNCHANGED <<cache, latest>> /\ todo # <<>> /\ Head(todo).t = "step"
    BY <1>6 DEF DoStep, Doing
  <2>2. (\E e : e # "none" /\ Fail(e)) \/ Pop \/ Push(<<r>>)
    BY <1>6 DEF DoStep
  <2>3. r.t = "run"
    BY DEF Task
  <2> HIDE DEF r
  <2>. QED
    BY <1>1, <1>2, <1>3, <1>5, <2>1, <2>2, <2>3
<1>7. CASE Query
  <2> DEFINE n == Head(todo).cmd
             ch == Head(todo).ch
             r == Task("run", n, ch)
  <2>1. UNCHANGED <<cache, latest>> /\ todo # <<>>
    BY <1>7 DEF Query, Doing
  <2>2. (\E v \in Kept(n, ch) : Pop /\ result' = Fine(v)) \/ Push(<<r>>)
    BY <1>7 DEF Query
  <2>3. r.t = "run"
    BY DEF Task
  <2>4. ASSUME NEW v \in Kept(n, ch), Pop, result' = Fine(v) PROVE Stored1
    <3> DEFINE k == <<n, ch>>
    <3>1. k \in DOMAIN cache /\ v = cache[k] /\ k[1] = n /\ k[2] = ch
      BY <2>4 DEF Kept
    <3> HIDE DEF k
    <3>2. OwnIn(def, n, ch, v)
      BY <1>1, <3>1 DEF CacheOwn
    <3>. QED
      BY <1>p, <2>1, <2>4, <3>2
  <2> HIDE DEF r
  <2>. QED
    BY <1>1, <1>2, <1>5, <2>1, <2>2, <2>3, <2>4
<1>8. CASE Run
  <2>1. UNCHANGED <<cache, latest>>
    BY <1>8 DEF Run
  <2>. QED
    BY <1>1, <1>2, <1>4, <1>8, <2>1, RunStack DEF Begun
<1>9. CASE Require
  <2>1. UNCHANGED <<cache, latest>> /\ todo # <<>> /\ Head(todo).t = "require" /\ (Pop \/ Fail("refused"))
    BY <1>9 DEF Require, Doing
  <2>. QED
    BY <1>1, <1>2, <1>3, <2>1
<1>10. CASE Send
  <2> DEFINE n == Head(todo).cmd
             ch == Head(todo).ch
  <2>1. todo # <<>> /\ Head(todo).t = "send" /\ waiting = {}
    BY <1>10 DEF Send, Doing
  <2>2. ASSUME NEW e, Fail(e), UNCHANGED <<cache, latest>> PROVE Kept1 /\ Stored1
    BY <1>1, <1>2, <2>2
  <2>3. CASE waiting' = {n} /\ UNCHANGED <<cache, latest>>
    BY <1>1, <2>3 DEF Storing
  <2>4. CASE Succeed(n, ch, Null)
    BY <1>n, <1>s, <2>1, <2>4
  <2>. QED
    BY <1>10, <2>2, <2>3, <2>4 DEF Send
<1>11. CASE DrainFirst \/ Show \/ Ignore \/ Count
  <2>1. UNCHANGED <<cache, latest>> /\ todo # <<>> /\ Head(todo).t \in {"drain", "show", "ignore", "count"} /\ Pop
    BY <1>11 DEF DrainFirst, Show, Ignore, Count, Doing
  <2>. QED
    BY <1>1, <1>3, <2>1
<1>12. CASE Read
  <2> DEFINE n == Head(todo).cmd
             ch == Head(todo).ch
             v == IF n \in DOMAIN latest[1] THEN latest[1][n] ELSE Null
  <2>1. UNCHANGED cache /\ todo # <<>> /\ Head(todo).t = "read" /\ waiting = {}
    BY <1>12 DEF Read, Doing
  <2>2. ch \in Channels /\ 1 \in ChannelsOf(def)
    <3>1. Head(todo) \in PollTasks(def)
      BY <2>1, HeadIsTask DEF TaskInv
    <3>. QED
      BY <3>1 DEF PollTasks, ChannelsOf, Channels, TaskInv, Sound
  <2>3. CASE ~UsesCh(n) /\ Store(n, ch, v)
    <3>1. OwnIn(def, n, 1, v)
      BY <1>1, <1>n, <2>2 DEF ShownOwn
    <3>2. OwnIn(def, n, ch, v)
      BY <2>3, <3>1 DEF OwnIn, UsesCh
    <3>3. ShownOwn(def, latest')
      <4> HIDE DEF n, ch, v
      <4>. QED
        BY <1>1, <2>2, <2>3, <3>2, StoreOwn
    <3>. QED
      BY <1>1, <1>4, <1>12, <2>1, <3>3, ReadStack
  <2>4. CASE UNCHANGED latest
    BY <1>1, <1>4, <1>12, <2>1, <2>4, ReadStack
  <2>. QED
    BY <1>12, <2>3, <2>4 DEF Read
<1>13. CASE StoreReading
  <2> DEFINE n == Head(todo).cmd
             ch == Head(todo).ch
             v == result.value
  <2>1. UNCHANGED cache /\ todo # <<>> /\ Head(todo).t = "store" /\ waiting = {} /\ Pop /\ Store(n, ch, v)
    BY <1>13 DEF StoreReading, Doing
  <2>2. ch \in Channels
    <3>1. Head(todo) \in PollTasks(def)
      BY <2>1, HeadIsTask DEF TaskInv
    <3>. QED
      BY <3>1 DEF PollTasks, ChannelsOf, Channels
  <2>3. OwnIn(def, n, ch, v)
    BY <1>1, <2>1 DEF Storing
  <2>4. ShownOwn(def, latest')
    <3> HIDE DEF n, ch, v
    <3>. QED
      BY <1>1, <2>1, <2>2, <2>3, StoreOwn
  <2>. QED
    BY <1>1, <1>3, <2>1, <2>4
<1>c. ASSUME Closed(def) PROVE Kept1 /\ Stored1
  BY <1>4, <1>c, <1>e DEF Closed
<1>14. CASE End
  <2>1. CASE Closed(def)
    BY <1>c, <2>1
  <2>2. CASE UNCHANGED <<todo, cache, latest>> /\ todo = <<>>
    BY <1>1, <1>4, <2>2
  <2>. QED
    BY <1>14, <2>1, <2>2 DEF End
<1>15. CASE Arrive \/ Due \/ Settle
  <2>1. todo' = todo /\ waiting' = waiting /\ result' = result /\ cache' = cache /\ latest' = latest
    BY <1>15 DEF Arrive, Due, Settle
  <2>. QED
    BY <1>1, <2>1 DEF Storing
<1>16. CASE Receive
  <2> DEFINE n == It(waiting)
             r == Head(line)
             ch == Head(todo).ch
  <2>1. waiting # {} /\ line # <<>> /\ todo # <<>> /\ n = Head(todo).cmd
    BY <1>16 DEF Receive, TaskInv, It
  <2>2. r.stray \/ r = Reading(n, ch, FALSE)
    <3>1. CASE Quiet
      <4>1. line \in Seq(AnswerSet) /\ AllStray(line)
        BY <3>1 DEF Quiet, LineType
      <4>2. Head(line).stray
        BY <2>1, <4>1, Strays
      <4>. QED
        BY <4>2
    <3>2. CASE ~Quiet
      <4> DEFINE R == Reading(Head(todo).cmd, ch, FALSE)
      <4>1. line = <<R>>
        BY <2>1, <3>2 DEF LineInv, LineIs
      <4> HIDE DEF R
      <4>2. Head(line) = R
        BY <4>1
      <4>3. r = Reading(n, ch, FALSE)
        BY <2>1, <4>2 DEF R
      <4>. QED
        BY <4>3
    <3>. QED
      BY <3>1, <3>2
  <2>3. OwnIn(def, n, ch, r)
    BY <2>2 DEF Reading, OwnIn
  <2>4. Succeed(n, ch, r) \/ (UNCHANGED <<cache, latest>> /\ \E e : Fail(e))
    BY <1>16 DEF Receive
  <2>5. CASE Succeed(n, ch, r)
    BY <1>s, <2>1, <2>3, <2>5
  <2>. QED
    BY <1>1, <1>2, <2>4, <2>5
<1>17. CASE Exception \/ LinkLost
  <2>1. cache' = cache /\ latest' = latest /\ \E e : Fail(e)
    BY <1>17 DEF Exception, LinkLost
  <2>. QED
    BY <1>1, <1>2, <2>1
<1>18. CASE TimeOut
  <2>1. waiting # {} /\ todo # <<>> /\ It(waiting) = Head(todo).cmd
    BY <1>18 DEF TimeOut, TaskInv, It
  <2>2. Succeed(It(waiting), Head(todo).ch, Null) \/ (UNCHANGED <<cache, latest>> /\ \E e : Fail(e))
    BY <1>18 DEF TimeOut
  <2>. QED
    BY <1>1, <1>2, <1>n, <1>s, <2>1, <2>2
<1>19. CASE Calls
  <2>1. UNCHANGED <<cache, latest>> /\ Fresh(def, todo', call')
    BY <1>19, CallsBegin
  <2>. QED
    BY <1>1, <1>4, <2>1 DEF Fresh, Begun
<1>20. CASE Lose
  BY <1>20, <1>c DEF Lose
<1>21. CASE UNCHANGED vars
  BY <1>1, <1>21 DEF vars, Storing
<1>. QED
  BY <1>6, <1>7, <1>8, <1>9, <1>10, <1>11, <1>12, <1>13, <1>14, <1>15, <1>16, <1>17, <1>18, <1>19, <1>20,
     <1>21 DEF Next, Work, Instrument

(***************************************************************************)
(* The theorems.                                                           *)
(***************************************************************************)
EngineInv ==
  /\ TaskInv /\ FitInv /\ GapInv /\ DepthInv
  /\ SilentInv /\ CountInv
  /\ LineType /\ LineInv /\ ReadInv

LEMMA EngineInvariant == Spec => []EngineInv
<1>1. Init => EngineInv
  <2> SUFFICES ASSUME Init PROVE EngineInv
    OBVIOUS
  <2>1. TaskInv
    BY TaskInit
  <2>2. GapInv /\ SilentInv /\ CountInv /\ FitInv
    BY DEF Init, GapInv, SilentInv, CountInv, FitInv, Fitting, Storing, NoCount, Fine
  <2>3. LineType /\ LineInv
    BY DEF Init, LineType, LineInv, LineIs, Quiet, AllStray
  <2>4. ReadInv
    BY DEF Init, ReadInv, ReadingsOwn, Storing
  <2>. QED
    BY <2>1, <2>2, <2>3, <2>4, DepthInit DEF EngineInv
<1>2. EngineInv /\ [Next]_vars => EngineInv'
  BY TaskStep, FitStep, GapStep, DepthStep, SilentStep, CountStep, LineTypeStep, LineStep, ReadStep
  DEF EngineInv
<1>. QED
  BY <1>1, <1>2, PTL DEF Spec

\* A definition the validator accepts never fails in the engine for being inconsistent
\* (Error::Definition, or arguments missing or unexpected whatever the caller passes), nor by
\* calls without end, except through the gaps KnownGap names: every cross reference
\* Engine::run follows was checked by validate.rs, a step passes what its command asks, and
\* what nests deeper than there are commands calls itself.
THEOREM OnlyKnownGapsFail == Spec => []DefinitionErrorsKnown
<1>1. EngineInv => DefinitionErrorsKnown
  BY DEF EngineInv, GapInv, GapSeen, DepthInv, DefinitionErrorsKnown, KnownGap
<1>. QED
  BY <1>1, EngineInvariant, PTL

\* Every reading Engine::poll_due reports and every one the cache keeps came from an answer
\* to its own command and channel, for a definition that drains the line, unless an answer
\* came too late for the drain after its own failure.
THEOREM ReadingsAreOwn == Spec => []OwnReadings
<1>1. EngineInv => OwnReadings
  BY DEF EngineInv, ReadInv, Strict, OwnReadings
<1>. QED
  BY <1>1, EngineInvariant, PTL

\* poll_due counts at least as many silent polls in a row as there were in which nothing was
\* heard or kept, so the thread gives up an instrument that is gone.
THEOREM SilenceIsCounted == Spec => []SilenceCounted
<1>1. EngineInv => SilenceCounted
  BY DEF EngineInv, CountInv, SilenceCounted
<1>. QED
  BY <1>1, EngineInvariant, PTL
=============================================================================
