---------------------------- MODULE FlowLanguage ----------------------------
(***************************************************************************)
(* The flow language (bm-server automation/flow.rs and exec.rs): what the  *)
(* parser and the validator accept, and what the executor then does with   *)
(* it.  Concurrency (abort, timeout, prompts, recordings) is in FlowRun;   *)
(* here one run is executed step by step and the question is whether what  *)
(* was checked before the run is enough.                                   *)
(*                                                                         *)
(* A document is the list of its steps in document order (Flow::walk): a   *)
(* step says how many of the steps after it are in its body and how many   *)
(* in its else branch, the steps these hold included.  A step has the      *)
(* fields its author gave it, and an expression is the set of variables it *)
(* reads.  What an expression gives is left open, so is whether it has the *)
(* type its step needs.                                                    *)
(***************************************************************************)
EXTENDS Integers, Sequences

CONSTANTS
  Documents,    \* flows that are started
  Overrides,    \* parameter values given with the start
  Bench,        \* by instrument channel: [ops, fields], see Vocabulary
  MaxPoints     \* MAX_SWEEP_POINTS

(***************************************************************************)
(* Vocabulary: an operation is the safety of the commands of its getter    *)
(* and its setter, and the value that leaves it off; a field is numeric or *)
(* not.                                                                    *)
(***************************************************************************)
Items(s) == {s[i] : i \in DOMAIN s}
IsOperation(o) ==
  /\ Items(o.get) \cup Items(o.set) \subseteq {"query", "configure", "energize"}
  /\ o.type \in {"enum", "bool", "number"}

ASSUME BenchAssumption ==
  \A at \in DOMAIN Bench :
    /\ \A op \in DOMAIN Bench[at].ops : IsOperation(Bench[at].ops[op])
    /\ \A f \in DOMAIN Bench[at].fields : Bench[at].fields[f] \in BOOLEAN
ASSUME MaxPointsAssumption == MaxPoints \in Nat \ {0}

\* opspec::setter: an operation energises if the first command of its setter does.
Energizes(o) == o.set # <<>> /\ Head(o.set) = "energize"

\* Op::safe_value: the value that leaves an energising setter off.
SafeValue(o) == CASE o.type = "bool" -> "false" [] o.type = "enum" -> "OFF" [] OTHER -> "none"

\* Literals: a word, false, the number zero, another number.
Values == {"ON", "OFF", "false", "zero", "five"}

\* is_safe_literal.
Safe(v, o) ==
  CASE SafeValue(o) = "OFF" -> v = "OFF"
    [] SafeValue(o) = "false" -> v \in {"OFF", "false", "zero"}
    [] OTHER -> FALSE

\* literal_matches_spec; for an evaluated value it is the driver that refuses it.
Matches(v, o) ==
  CASE o.type = "enum" -> v \in {"ON", "OFF"}
    [] o.type = "bool" -> v \in {"ON", "OFF", "false", "zero"}
    [] OTHER -> v \in {"zero", "five"}

(***************************************************************************)
(* Documents.                                                              *)
(***************************************************************************)
Reserved == {"iteration", "elapsed", "true", "for"}

HasExpr(s) == s.given \cap {"expr", "condition", "while", "until"} # {}

\* The step after step i and what it holds.
After(d, i) == i + d.walk[i].body + d.walk[i].otherwise + 1

\* Setup and steps are the first `main` of the list, the cleanup is the rest; a step is in one
\* place.
IsDocument(d) ==
  /\ d.walk \in Seq(Items(d.walk)) /\ d.main \in 0..Len(d.walk)
  /\ \A i \in DOMAIN d.walk :
       LET s == d.walk[i]
       IN /\ s.body \in Nat /\ s.otherwise \in Nat
          /\ After(d, i) <= (IF i <= d.main THEN d.main ELSE Len(d.walk)) + 1
          /\ \A j \in i + 1..i + s.body : After(d, j) <= i + s.body + 1
          /\ \A j \in i + s.body + 1..After(d, i) - 1 : After(d, j) <= After(d, i)
          /\ (s.body > 0 => s.nested \cap {"then", "steps"} # {}) /\ (s.otherwise > 0 => "else" \in s.nested)
          /\ s.uses # {} => HasExpr(s)
ASSUME DocumentsAssumption == \A d \in Documents : IsDocument(d)

\* The fields of each kind of step: those it needs, those it may have, and the groups of
\* which it needs exactly one.
Fields(must, may, oneOf) == [must |-> must, may |-> may, oneOf |-> oneOf]
Takes ==
  [do \in {"set", "read", "wait", "let", "if", "repeat", "sweep", "check", "log", "prompt", "record", "stop"} |->
     CASE do = "set" -> Fields({"at", "op"}, {}, {{"value"}, {"expr"}})
       [] do = "read" -> Fields({"at", "into"}, {}, {{"field"}, {"op"}})
       [] do = "wait" -> Fields({}, {}, {{"seconds"}, {"expr"}})
       [] do = "let" -> Fields({"var", "expr"}, {}, {})
       [] do = "if" -> Fields({"condition"}, {}, {})
       [] do = "repeat" -> Fields({}, {"max_iterations"}, {{"times"}, {"while"}, {"until"}})
       [] do = "sweep" -> Fields({"var"}, {}, {{"values"}, {"from", "to", "step"}})
       [] do = "check" -> Fields({"condition"}, {"message", "fail"}, {})
       [] do \in {"log", "prompt"} -> Fields({"message"}, {}, {})
       [] do = "record" -> Fields({"action"}, {"name", "interval_s", "series"}, {})
       [] OTHER -> Fields({}, {"message"}, {})]

Nests(do) == CASE do = "if" -> {"then", "else"} [] do \in {"repeat", "sweep"} -> {"steps"} [] OTHER -> {}

\* sweep_values: the points of a sweep, or why there are none.
Distance(w) == IF w.step > 0 THEN w.to - w.from ELSE w.from - w.to
Points(w) == Distance(w) \div (IF w.step > 0 THEN w.step ELSE -w.step) + 1
SweepOk(w) == w.step # 0 /\ Distance(w) >= 0 /\ Points(w) <= MaxPoints

Intervals == 1..3600

\* parse_step: no problem in this step.
ParseOk(s) ==
  /\ s.do \in DOMAIN Takes
  /\ LET takes == Takes[s.do]
         chosen == s.given \ (takes.must \cup takes.may)
     IN takes.must \subseteq s.given /\ chosen \in (IF takes.oneOf = {} THEN {{}} ELSE takes.oneOf)
  /\ s.do \in {"read", "let", "sweep"} => s.var \notin Reserved
  /\ "from" \in s.given => SweepOk(s.range)
  /\ "values" \in s.given => s.points > 0
  /\ "seconds" \in s.given => s.seconds >= 0
  /\ "fail" \in s.given => s.fail \in {"stop", "warn"}
  /\ s.do = "record" /\ s.starts => s.series # {} /\ s.interval \in Intervals
  /\ s.nested \subseteq Nests(s.do)

Parsed(d) ==
  /\ d.main > 0 /\ DOMAIN d.params \cap Reserved = {}
  /\ \A i \in DOMAIN d.walk : ParseOk(d.walk[i])

\* param_values: the parameters with what the start gives instead.
ParamsOk(d, over) ==
  /\ DOMAIN over \subseteq DOMAIN d.params
  /\ \A p \in DOMAIN d.params :
       LET x == IF p \in DOMAIN over THEN over[p] ELSE d.params[p].value
       IN d.params[p].min <= x /\ x <= d.params[p].max

(***************************************************************************)
(* The validator.  It goes through the document once, from top to bottom,  *)
(* with the variables known so far.                                        *)
(***************************************************************************)
KnowsOp(s) == s.at \in DOMAIN Bench /\ s.op \in DOMAIN Bench[s.at].ops
OpOf(s) == Bench[s.at].ops[s.op]

\* check_steps, one step of each kind: the address, what is set, read or recorded there.
SetOk(s) ==
  /\ KnowsOp(s) /\ OpOf(s).set # <<>>
  /\ "value" \in s.given => Matches(s.value, OpOf(s))
ReadOk(s) ==
  IF "field" \in s.given
  THEN s.at \in DOMAIN Bench /\ s.field \in DOMAIN Bench[s.at].fields
  ELSE KnowsOp(s) /\ OpOf(s).get # <<>>
SeriesOk(s) ==
  \A x \in s.series : /\ x[1] \in DOMAIN Bench /\ x[2] \in DOMAIN Bench[x[1]].fields
                      /\ Bench[x[1]].fields[x[2]]
StepOk(s) ==
  CASE s.do = "set" -> SetOk(s) [] s.do = "read" -> ReadOk(s) [] s.do = "record" -> SeriesOk(s) [] OTHER -> TRUE

\* Slip: a computed value is taken for harmless.
CanEnergizeLiteral(s) ==
  s.do = "set" /\ SetOk(s) /\ Energizes(OpOf(s)) /\ "value" \in s.given /\ ~Safe(s.value, OpOf(s))
CanEnergize(s) ==
  s.do = "set" /\ SetOk(s) /\ Energizes(OpOf(s)) /\ ("value" \in s.given => ~Safe(s.value, OpOf(s)))

\* The variables that one of the first n steps assigns.
Assigns(s) == s.do \in {"read", "let", "sweep"}
Assigned(d, n) == {d.walk[j].var : j \in {j \in 1..n : Assigns(d.walk[j])}}

\* Slip: `iteration` stays known after a loop.
InOrAfterLoop(d, i) == \E r \in 1..i - 1 : d.walk[r].do = "repeat"
InLoop(d, i) == \E r \in 1..i - 1 : d.walk[r].do = "repeat" /\ i < After(d, r)

\* What is known where step i begins; a loop knows `iteration`, and its `until` what its
\* steps assign.
Begun(d) == DOMAIN d.params \cup {"elapsed"}
KnownAt(d, i) == Begun(d) \cup Assigned(d, i - 1) \cup (IF InLoop(d, i) THEN {"iteration"} ELSE {})
KnownTo(d, i) ==
  IF d.walk[i].do = "repeat"
  THEN KnownAt(d, i) \cup {"iteration"} \cup (IF "until" \in d.walk[i].given THEN Assigned(d, i + d.walk[i].body) ELSE {})
  ELSE KnownAt(d, i)

\* validate: no error, and the steps that can switch something on.
Valid(d) == \A i \in DOMAIN d.walk : d.walk[i].uses \subseteq KnownTo(d, i) /\ StepOk(d.walk[i])
Energizing(d) == {i \in DOMAIN d.walk : CanEnergize(d.walk[i])}

(***************************************************************************)
(* The executor.                                                           *)
(***************************************************************************)
VARIABLES
  doc,      \* the flow that was started
  phase,    \* "idle", "main", "cleanup", "done"
  armed,    \* started with arm
  todo,     \* what is left of the part (in the cleanup: of one of its steps)
  later,    \* the cleanup step after that one
  defined,  \* variables that have a value
  error,    \* the last step that failed: why, which, and the variables it missed
  on        \* instruments and operations that left something switched on

vars == <<doc, phase, armed, todo, later, defined, error, on>>

NoError == [why |-> "none", at |-> 0, missing |-> {}]
Init ==
  /\ doc \in Documents /\ armed \in BOOLEAN
  /\ phase = "idle" /\ todo = <<>> /\ later = doc.main + 1 /\ defined = {} /\ error = NoError /\ on = {}

\* A task: the steps from `at` to `to`, or the loop `at`: its next pass, its `until`, the next
\* point of a sweep.  `outer`: `iteration` had a value before the loop.
Steps(from, to) ==
  IF from <= to THEN <<[t |-> "steps", at |-> from, to |-> to, n |-> 0, outer |-> FALSE]>> ELSE <<>>

\* Runner::start: nothing with errors, nothing that can energise unless it was armed.
Start ==
  /\ phase = "idle" /\ Parsed(doc) /\ Valid(doc)
  /\ armed \/ Energizing(doc) = {}
  /\ \E over \in Overrides : ParamsOk(doc, over)
  /\ phase' = "main" /\ todo' = Steps(1, doc.main)
  /\ defined' = Begun(doc)
  /\ UNCHANGED <<doc, armed, later, error, on>>

Task == Head(todo)
At == Task.at
Now == doc.walk[At]
Doing(t) == phase \in {"main", "cleanup"} /\ todo # <<>> /\ Task.t = t

\* run_steps: these first, then the step after this one.
Rest ==
  (IF Task.t = "steps" /\ After(doc, At) <= Task.to THEN <<[Task EXCEPT !.at = After(doc, At)]>> ELSE <<>>)
  \o Tail(todo)
Go(tasks) == todo' = tasks \o Rest
Body == Steps(At + 1, At + Now.body)
Otherwise == Steps(At + Now.body + 1, After(doc, At) - 1)

\* A loop that is left gives `iteration` back what it was before.
Restored(have, outer) == IF outer THEN have \cup {"iteration"} ELSE have \ {"iteration"}

\* A step fails (or stops) where these have a value: the loops around it are left, the main
\* part is over; in the cleanup the next of its steps goes on.  The loop whose own condition
\* failed has not restored `iteration`.
Fail(why, have) ==
  LET around == {k \in 2..Len(todo) : todo[k].t \in {"pass", "until"}}
  IN /\ todo' = <<>>
     /\ error' = [why |-> why, at |-> At, missing |-> Now.uses \ have]
     /\ defined' = IF around = {} THEN have
                   ELSE Restored(have, todo[CHOOSE k \in around : \A j \in around : j <= k].outer)

\* An expression reads what is undefined, or does not give what its step needs.
Misread(have) ==
  IF Now.uses \ have # {} THEN Fail("undefined", have) ELSE HasExpr(Now) /\ Fail("failed", have)
Reads(A) == Misread(defined) \/ (Now.uses \subseteq defined /\ A)

Operated == <<Now.at, Now.op>>

\* What is on once the setter was sent; a getter that energises switches something on too.
Applied(v) ==
  IF "energize" \in Items(OpOf(Now).set) /\ ~Safe(v, OpOf(Now)) THEN on \cup {Operated}
  ELSE IF Safe(v, OpOf(Now)) THEN on \ {Operated} ELSE on
Asked == IF "energize" \in Items(OpOf(Now).get) THEN {Operated} ELSE {}

\* do_set: a set that fails may have reached the instrument; one that went well is confirmed
\* by the operation's getter, if it has one.
Set ==
  /\ Doing("steps") /\ Now.do = "set"
  /\ IF ~KnowsOp(Now) THEN Fail("no setter", defined) /\ UNCHANGED on
     ELSE \/ Misread(defined) /\ UNCHANGED on
          \/ /\ Now.uses \subseteq defined
             /\ \E v \in IF "value" \in Now.given THEN {Now.value} ELSE Values :
                  IF Matches(v, OpOf(Now))
                  THEN \/ on' \in {on, Applied(v)} /\ Fail("failed", defined)
                       \/ /\ on' = Applied(v) \cup Asked
                          /\ (Go(<<>>) /\ UNCHANGED <<defined, error>>) \/ Fail("failed", defined)
                  ELSE Fail("failed", defined) /\ UNCHANGED on
  /\ UNCHANGED <<doc, phase, armed, later>>

\* do_read
Read ==
  /\ Doing("steps") /\ Now.do = "read"
  /\ on' = IF "op" \in Now.given THEN on \cup Asked ELSE on
  /\ \/ Go(<<>>) /\ defined' = defined \cup {Now.var} /\ UNCHANGED error
     \/ Fail("failed", defined)
  /\ UNCHANGED <<doc, phase, armed, later>>

Let ==
  /\ Doing("steps") /\ Now.do = "let"
  /\ Reads(Go(<<>>) /\ defined' = defined \cup {Now.var} /\ UNCHANGED error)
  /\ UNCHANGED <<doc, phase, armed, later, on>>

If ==
  /\ Doing("steps") /\ Now.do = "if"
  /\ Reads((Go(Body) \/ Go(Otherwise)) /\ UNCHANGED <<defined, error>>)
  /\ UNCHANGED <<doc, phase, armed, later, on>>

\* Wait, check, log, prompt, record; a check that does not hold stops the flow, or warns.
MayFail(s) == s.do # "log" /\ ~(s.do = "check" /\ "fail" \in s.given /\ s.fail = "warn")
Other ==
  /\ Doing("steps") /\ Now.do \in {"wait", "check", "log", "prompt", "record"}
  /\ Reads((Go(<<>>) /\ UNCHANGED <<defined, error>>) \/ (MayFail(Now) /\ Fail("failed", defined)))
  /\ UNCHANGED <<doc, phase, armed, later, on>>

Stop ==
  /\ Doing("steps") /\ Now.do = "stop" /\ Fail("none", defined)
  /\ UNCHANGED <<doc, phase, armed, later, on>>

Enter ==
  /\ Doing("steps") /\ Now.do \in {"repeat", "sweep"}
  /\ Go(<<[t |-> IF Now.do = "repeat" THEN "pass" ELSE "point", at |-> At, to |-> At, n |-> 0,
           outer |-> "iteration" \in defined]>>)
  /\ UNCHANGED <<doc, phase, armed, later, defined, error, on>>

Leave(have) == Go(<<>>) /\ defined' = Restored(have, Task.outer) /\ UNCHANGED error

\* Passes of a loop: as many as asked, and never more than max_iterations.
Limit(s) == IF "times" \in s.given /\ s.times < s.max THEN s.times ELSE s.max
NextTime == [Task EXCEPT !.n = @ + 1]

Pass ==
  /\ Doing("pass")
  /\ IF Task.n >= Limit(Now) THEN Leave(defined)
     ELSE LET have == defined \cup {"iteration"}
              pass == /\ Go(Body \o <<IF "until" \in Now.given THEN [NextTime EXCEPT !.t = "until"] ELSE NextTime>>)
                      /\ defined' = have /\ UNCHANGED error
          IN IF "while" \in Now.given
             THEN Misread(have) \/ (Now.uses \subseteq have /\ (pass \/ Leave(have)))
             ELSE pass
  /\ UNCHANGED <<doc, phase, armed, later, on>>

\* After a pass: leave, or the next one.
Until ==
  /\ Doing("until")
  /\ Reads(Leave(defined) \/ (Go(<<[Task EXCEPT !.t = "pass"]>>) /\ UNCHANGED <<defined, error>>))
  /\ UNCHANGED <<doc, phase, armed, later, on>>

SweepPoints(s) == IF "values" \in s.given THEN s.points ELSE Points(s.range)
Point ==
  /\ Doing("point")
  /\ IF Task.n >= SweepPoints(Now)
     THEN Go(<<>>) /\ UNCHANGED defined
     ELSE Go(Body \o <<NextTime>>) /\ defined' = defined \cup {Now.var}
  /\ UNCHANGED <<doc, phase, armed, later, error, on>>

\* execute: then the cleanup, each of its steps whatever becomes of the others.
PartOver ==
  /\ phase \in {"main", "cleanup"} /\ todo = <<>>
  /\ IF later > Len(doc.walk)
     THEN phase' = "done" /\ UNCHANGED <<todo, later>>
     ELSE phase' = "cleanup" /\ todo' = Steps(later, After(doc, later) - 1) /\ later' = After(doc, later)
  /\ UNCHANGED <<doc, armed, defined, error, on>>

Next ==
  \/ Start \/ Set \/ Read \/ Let \/ If \/ Other \/ Stop
  \/ Enter \/ Pass \/ Until \/ Point \/ PartOver

Spec == Init /\ [][Next]_vars

(***************************************************************************)
(* Properties.                                                             *)
(***************************************************************************)
\* Variables set by a step written before step i, or, for the `until` of a loop, inside it.
SetBefore(i) ==
  Assigned(doc, IF i \in DOMAIN doc.walk /\ "until" \in doc.walk[i].given THEN i + doc.walk[i].body ELSE i - 1)

\* A flow the validator accepted never fails for what the validator looks at: an unknown
\* instrument or operation, never; a variable without a value, only if a step written before
\* sets it that was skipped or failed (flow.rs:674: a variable assigned in a loop or a branch
\* counts from there on).  `iteration` always has a value where it is accepted.
AcceptedFlowsRun ==
  /\ error.why # "no setter"
  /\ error.why = "undefined" => error.missing \subseteq SetBefore(error.at)

\* A run that was not armed switches nothing on that the list for arming could name: only an
\* operation that energises by another command than the first of its setter (opspec.rs:11),
\* or by its getter.
Unnamed(o) == ~Energizes(o) \/ "energize" \in Items(o.get)
UnarmedStaysOff == ~armed => \A x \in on : Unnamed(Bench[x[1]].ops[x[2]])
=============================================================================
