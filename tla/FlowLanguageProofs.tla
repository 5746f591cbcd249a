------------------------- MODULE FlowLanguageProofs -------------------------
(***************************************************************************)
(* What the validator promises about a flow is kept when it is executed:   *)
(* the proofs for FlowLanguage.  The argument is about `iteration`, the    *)
(* one variable that goes away again.  The invariant says where the loops  *)
(* around the step in progress are: the tasks under a step include one of  *)
(* a loop if the step is written in a loop, every loop but the innermost   *)
(* has begun a pass, and a loop inside another one finds `iteration`       *)
(* defined, so that leaving it takes nothing away.                         *)
(***************************************************************************)
EXTENDS FlowLanguage, SequenceTheorems, TLAPS

IsLoop(x) == x.t \in {"pass", "until"}
HasLoop(s) == \E k \in DOMAIN s : IsLoop(s[k])
\* Every loop has begun a pass.
Begin(x) == IsLoop(x) => x.n > 0
Started(s) == \A k \in DOMAIN s : Begin(s[k])

\* A loop is between two of its passes, or in one.
Going(s) == \E k \in DOMAIN s : IsLoop(s[k]) /\ s[k].n > 0

\* A task of the document.
AnyTask(d) ==
  {x \in [t : {"steps", "pass", "until", "point"}, at : DOMAIN d.walk, to : DOMAIN d.walk, n : Nat, outer : BOOLEAN] :
     /\ x.t = "steps" => x.at <= x.to
     /\ IsLoop(x) => d.walk[x.at].do = "repeat"
     /\ x.t = "point" => d.walk[x.at].do = "sweep"
     /\ x.t = "until" => x.n > 0}

\* Where the loops are in a list of tasks.
Nest(d, s) ==
  /\ \A k \in DOMAIN s : k > 1 => Begin(s[k])
  /\ \A k \in DOMAIN s : InLoop(d, s[k].at) => \E j \in DOMAIN s : k < j /\ IsLoop(s[j])
  /\ \A j, k \in DOMAIN s : j < k /\ IsLoop(s[j]) /\ IsLoop(s[k]) => s[j].outer

\* A step that nothing holds.
TopLevel(d, i) == \A r \in 1..i - 1 : After(d, r) <= i

TaskInv ==
  /\ doc \in Documents /\ armed \in BOOLEAN /\ phase \in {"idle", "main", "cleanup", "done"}
  /\ todo \in Seq(AnyTask(doc)) /\ Nest(doc, todo)
  /\ later \in 1..Len(doc.walk) + 1 /\ TopLevel(doc, later)
  /\ phase = "idle" => todo = <<>>

\* What was checked before the run, and what it started with.
CheckedInv ==
  phase # "idle" =>
    /\ Parsed(doc) /\ Valid(doc) /\ (armed \/ Energizing(doc) = {})
    /\ Begun(doc) \subseteq defined

\* In a loop, `iteration` has a value.
IterationInv == Going(todo) => "iteration" \in defined

FlowInv == TaskInv /\ CheckedInv /\ IterationInv /\ AcceptedFlowsRun /\ UnarmedStaysOff

-----------------------------------------------------------------------------
(* Documents. *)

LEMMA DocumentFacts ==
  ASSUME NEW d, IsDocument(d)
  PROVE  /\ Len(d.walk) \in Nat /\ DOMAIN d.walk = 1..Len(d.walk)
         /\ d.main \in 0..Len(d.walk)
         /\ \A i \in 1..Len(d.walk) :
              /\ d.walk[i].body \in Nat /\ d.walk[i].otherwise \in Nat
              /\ After(d, i) = i + d.walk[i].body + d.walk[i].otherwise + 1
              /\ After(d, i) \in i + 1..Len(d.walk) + 1 /\ After(d, i) \in Nat
<1>1. d.walk \in Seq(Items(d.walk)) /\ d.main \in 0..Len(d.walk)
  BY DEF IsDocument
<1>2. Len(d.walk) \in Nat /\ DOMAIN d.walk = 1..Len(d.walk)
  BY <1>1
<1>3. ASSUME NEW i \in 1..Len(d.walk)
      PROVE  /\ d.walk[i].body \in Nat /\ d.walk[i].otherwise \in Nat
             /\ After(d, i) = i + d.walk[i].body + d.walk[i].otherwise + 1
             /\ After(d, i) \in i + 1..Len(d.walk) + 1 /\ After(d, i) \in Nat
  <2>1. /\ d.walk[i].body \in Nat /\ d.walk[i].otherwise \in Nat
        /\ After(d, i) <= (IF i <= d.main THEN d.main ELSE Len(d.walk)) + 1
    BY <1>2 DEF IsDocument
  <2>2. After(d, i) = i + d.walk[i].body + d.walk[i].otherwise + 1
    BY DEF After
  <2>3. After(d, i) <= Len(d.walk) + 1
    BY <1>1, <1>2, <2>1, <2>2
  <2>. QED
    BY <1>2, <2>1, <2>2, <2>3
<1>. QED
  BY <1>1, <1>2, <1>3

\* What a step holds ends with it.
LEMMA HeldWithin ==
  ASSUME NEW d, IsDocument(d), NEW i \in 1..Len(d.walk), NEW j \in i + 1..After(d, i) - 1
  PROVE  /\ j \in 1..Len(d.walk) /\ After(d, j) <= After(d, i)
         /\ j <= i + d.walk[i].body => After(d, j) <= i + d.walk[i].body + 1
<1>1. j \in 1..Len(d.walk)
  BY DocumentFacts
<1>2. CASE j <= i + d.walk[i].body
  <2>1. j \in i + 1..i + d.walk[i].body
    BY <1>2, DocumentFacts
  <2>2. After(d, j) <= i + d.walk[i].body + 1
    BY <2>1, DocumentFacts DEF IsDocument
  <2>3. i + d.walk[i].body + 1 <= After(d, i)
    <3>1. d.walk[i].body \in Nat /\ d.walk[i].otherwise \in Nat
      BY DocumentFacts
    <3>. QED
      BY <3>1 DEF After
  <2>4. After(d, j) \in Nat /\ After(d, i) \in Nat /\ i + d.walk[i].body + 1 \in Nat
    BY <1>1, DocumentFacts
  <2>. QED
    BY <1>1, <2>2, <2>3, <2>4
<1>3. CASE ~(j <= i + d.walk[i].body)
  <2>1. j \in i + d.walk[i].body + 1..After(d, i) - 1
    BY <1>3, DocumentFacts
  <2>2. After(d, j) <= After(d, i)
    BY <2>1, DocumentFacts DEF IsDocument
  <2>. QED
    BY <1>1, <1>3, <2>2
<1>. QED
  BY <1>2, <1>3

\* The step after another one is in the same loops.
LEMMA SameLoops ==
  ASSUME NEW d, IsDocument(d), NEW i \in 1..Len(d.walk), InLoop(d, After(d, i))
  PROVE  InLoop(d, i)
<1>1. PICK r \in 1..After(d, i) - 1 : d.walk[r].do = "repeat" /\ After(d, i) < After(d, r)
  BY DEF InLoop
<1>2. ~(r > i)
  <2> SUFFICES ASSUME r > i PROVE FALSE
    OBVIOUS
  <2>1. r \in i + 1..After(d, i) - 1
    BY DocumentFacts
  <2>. QED
    BY <1>1, <2>1, HeldWithin, DocumentFacts
<1>3. r # i
  BY <1>1, DocumentFacts
<1>4. r \in 1..i - 1 /\ i < After(d, r)
  BY <1>1, <1>2, <1>3, DocumentFacts
<1>. QED
  BY <1>1, <1>4 DEF InLoop

\* The first step in the body of another one is in the same loops, or in that one.
LEMMA BodyLoops ==
  ASSUME NEW d, IsDocument(d), NEW i \in 1..Len(d.walk), InLoop(d, i + 1), i + 1 \in 1..Len(d.walk)
  PROVE  InLoop(d, i) \/ d.walk[i].do = "repeat"
<1>1. PICK r \in 1..i : d.walk[r].do = "repeat" /\ i + 1 < After(d, r)
  BY DEF InLoop
<1>2. CASE r = i
  BY <1>1, <1>2
<1>3. CASE r # i
  <2>1. r \in 1..i - 1 /\ r \in 1..Len(d.walk)
    BY <1>3, DocumentFacts
  <2>2. After(d, r) \in Nat
    BY <2>1, DocumentFacts
  <2>3. i < After(d, r)
    BY <1>1, <2>2
  <2>. QED
    BY <1>1, <2>1, <2>3 DEF InLoop
<1>. QED
  BY <1>2, <1>3

\* So is the first one in its else branch.
LEMMA ElseLoops ==
  ASSUME NEW d, IsDocument(d), NEW i \in 1..Len(d.walk), d.walk[i].do # "repeat",
         NEW e, e = i + d.walk[i].body + 1, e < After(d, i), InLoop(d, e)
  PROVE  InLoop(d, i)
<1>1. PICK r \in 1..e - 1 : d.walk[r].do = "repeat" /\ e < After(d, r)
  BY DEF InLoop
<1>2. ~(r > i)
  <2> SUFFICES ASSUME r > i PROVE FALSE
    OBVIOUS
  <2>1. r \in i + 1..After(d, i) - 1 /\ r <= i + d.walk[i].body
    BY DocumentFacts
  <2>2. After(d, r) <= i + d.walk[i].body + 1
    BY <2>1, HeldWithin
  <2>3. r \in 1..Len(d.walk)
    BY <2>1, HeldWithin
  <2>4. After(d, r) \in Nat /\ d.walk[i].body \in Nat
    BY <2>3, DocumentFacts
  <2>5. e \in Nat
    BY <2>4
  <2>. QED
    BY <1>1, <2>2, <2>4, <2>5
<1>3. r # i
  BY <1>1
<1>4. r \in 1..i - 1
  BY <1>2, <1>3, DocumentFacts
<1>5. r \in 1..Len(d.walk) /\ e \in Nat /\ i < e
  <2>1. d.walk[i].body \in Nat /\ Len(d.walk) \in Nat
    BY DocumentFacts
  <2>. QED
    BY <1>4, <2>1
<1>6. i < After(d, r)
  BY <1>1, <1>5, DocumentFacts
<1>. QED
  BY <1>1, <1>4, <1>6 DEF InLoop

\* After a step that nothing holds comes another one, and no loop is around it.
LEMMA TopLevelNext ==
  ASSUME NEW d, IsDocument(d), NEW i \in 1..Len(d.walk), TopLevel(d, i)
  PROVE  TopLevel(d, After(d, i)) /\ ~InLoop(d, i)
<1>1. ASSUME NEW r \in 1..After(d, i) - 1 PROVE After(d, r) <= After(d, i)
  <2>1. CASE r < i
    BY <2>1, DocumentFacts DEF TopLevel
  <2>2. CASE r = i
    BY <2>2, DocumentFacts
  <2>3. CASE r > i
    <3>1. r \in i + 1..After(d, i) - 1
      BY <2>3, DocumentFacts
    <3>. QED
      BY <3>1, HeldWithin
  <2>. QED
    BY <2>1, <2>2, <2>3
<1>2. ASSUME InLoop(d, i) PROVE FALSE
  <2>1. PICK r \in 1..i - 1 : i < After(d, r)
    BY <1>2 DEF InLoop
  <2>2. After(d, r) <= i /\ After(d, r) \in Nat
    BY <2>1, DocumentFacts DEF TopLevel
  <2>. QED
    BY <2>1, <2>2
<1>. QED
  BY <1>1, <1>2 DEF TopLevel

\* Nothing of setup and steps reaches into the cleanup.
LEMMA CleanupTopLevel ==
  ASSUME NEW d, IsDocument(d)
  PROVE  d.main + 1 \in 1..Len(d.walk) + 1 /\ TopLevel(d, d.main + 1)
<1>1. ASSUME NEW r \in 1..d.main PROVE After(d, r) <= d.main + 1
  <2>1. r \in 1..Len(d.walk) /\ r <= d.main
    BY DocumentFacts
  <2>. QED
    BY <2>1, DocumentFacts DEF IsDocument
<1>. QED
  BY <1>1, DocumentFacts DEF TopLevel

-----------------------------------------------------------------------------
(* Lists of tasks. *)

LEMMA NoTasks ==
  ASSUME NEW d
  PROVE  <<>> \in Seq(AnyTask(d)) /\ Nest(d, <<>>) /\ Started(<<>>) /\ ~HasLoop(<<>>)
BY DEF Nest, Started, HasLoop

\* Without the first task: every loop left has begun.
LEMMA TailTasks ==
  ASSUME NEW d, NEW s \in Seq(AnyTask(d)), s # <<>>, Nest(d, s)
  PROVE  /\ Tail(s) \in Seq(AnyTask(d)) /\ Nest(d, Tail(s)) /\ Started(Tail(s))
         /\ InLoop(d, Head(s).at) => HasLoop(Tail(s))
         /\ IsLoop(Head(s)) /\ HasLoop(Tail(s)) => Head(s).outer
<1> DEFINE n == Len(s)
           r == Tail(s)
<1>1. n \in Nat \ {0} /\ DOMAIN s = 1..n /\ Head(s) = s[1]
  OBVIOUS
<1>2. r \in Seq(AnyTask(d)) /\ DOMAIN r = 1..n - 1 /\ \A k \in 1..n - 1 : r[k] = s[k + 1]
  OBVIOUS
<1> HIDE DEF n, r
<1>3. \A k \in 1..n - 1 : k + 1 \in 1..n /\ k + 1 > 1
  BY <1>1
<1>4. Started(r)
  <2>1. \A k \in 1..n - 1 : Begin(s[k + 1])
    BY <1>1, <1>3 DEF Nest
  <2>. QED
    BY <1>2, <2>1 DEF Started
<1>5. ASSUME NEW k \in 1..n, NEW j \in 1..n, k < j, IsLoop(s[j])
      PROVE  j - 1 \in DOMAIN r /\ IsLoop(r[j - 1]) /\ j - 1 > k - 1
  <2>1. j - 1 \in 1..n - 1 /\ (j - 1) + 1 = j
    BY <1>1, <1>5
  <2>2. r[j - 1] = s[j]
    BY <1>2, <2>1
  <2>. QED
    BY <1>1, <1>2, <1>5, <2>1, <2>2
<1>6. \A k \in DOMAIN r : InLoop(d, r[k].at) => \E j \in DOMAIN r : k < j /\ IsLoop(r[j])
  <2> SUFFICES ASSUME NEW k \in 1..n - 1, InLoop(d, r[k].at) PROVE \E j \in DOMAIN r : k < j /\ IsLoop(r[j])
    BY <1>2
  <2>1. InLoop(d, s[k + 1].at) /\ k + 1 \in 1..n
    BY <1>2, <1>3
  <2>2. PICK j \in 1..n : k + 1 < j /\ IsLoop(s[j])
    BY <1>1, <2>1 DEF Nest
  <2>3. j - 1 \in DOMAIN r /\ IsLoop(r[j - 1]) /\ j - 1 > (k + 1) - 1
    BY <1>5, <2>1, <2>2
  <2>. QED
    BY <2>3
<1>7. \A j, k \in DOMAIN r : j < k /\ IsLoop(r[j]) /\ IsLoop(r[k]) => r[j].outer
  <2> SUFFICES ASSUME NEW j \in 1..n - 1, NEW k \in 1..n - 1, j < k, IsLoop(s[j + 1]), IsLoop(s[k + 1])
               PROVE  s[j + 1].outer
    BY <1>2
  <2>1. j + 1 \in 1..n /\ k + 1 \in 1..n /\ j + 1 < k + 1
    BY <1>3
  <2>. QED
    BY <1>1, <2>1 DEF Nest
<1>8. Nest(d, r)
  BY <1>4, <1>6, <1>7 DEF Nest, Started
<1>9. InLoop(d, Head(s).at) => HasLoop(r)
  <2> SUFFICES ASSUME InLoop(d, s[1].at) PROVE HasLoop(r)
    BY <1>1
  <2>1. PICK j \in 1..n : 1 < j /\ IsLoop(s[j])
    BY <1>1 DEF Nest
  <2>2. 1 \in 1..n /\ j \in 1..n
    BY <1>1
  <2>3. j - 1 \in DOMAIN r /\ IsLoop(r[j - 1])
    BY <1>5, <2>1, <2>2
  <2>. QED
    BY <2>3 DEF HasLoop
<1>10. IsLoop(Head(s)) /\ HasLoop(r) => Head(s).outer
  <2> SUFFICES ASSUME IsLoop(s[1]), NEW k \in 1..n - 1, IsLoop(s[k + 1]) PROVE s[1].outer
    BY <1>1, <1>2 DEF HasLoop
  <2>1. 1 \in 1..n /\ k + 1 \in 1..n /\ 1 < k + 1
    BY <1>1
  <2>. QED
    BY <1>1, <2>1 DEF Nest
<1>. QED
  BY <1>2, <1>4, <1>8, <1>9, <1>10 DEF r

\* One more task in front.
LEMMA MoreTasks ==
  ASSUME NEW d, NEW s \in Seq(AnyTask(d)), Nest(d, s), Started(s), NEW x \in AnyTask(d),
         IsLoop(x) /\ HasLoop(s) => x.outer,
         InLoop(d, x.at) => HasLoop(s)
  PROVE  /\ <<x>> \o s \in Seq(AnyTask(d)) /\ Nest(d, <<x>> \o s)
         /\ Begin(x) => Started(<<x>> \o s)
         /\ HasLoop(<<x>> \o s) <=> IsLoop(x) \/ HasLoop(s)
         /\ Going(<<x>> \o s) => (IsLoop(x) /\ x.n > 0) \/ HasLoop(s)
<1> DEFINE n == Len(s)
           r == <<x>> \o s
<1>1. n \in Nat /\ DOMAIN s = 1..n
  OBVIOUS
<1>2. r \in Seq(AnyTask(d)) /\ DOMAIN r = 1..n + 1 /\ r[1] = x /\ \A k \in 1..n : r[k + 1] = s[k]
  OBVIOUS
<1> HIDE DEF n, r
<1>3. \A k \in 1..n + 1 : k = 1 \/ (k - 1 \in 1..n /\ r[k] = s[k - 1])
  <2> SUFFICES ASSUME NEW k \in 1..n + 1, k # 1 PROVE k - 1 \in 1..n /\ r[k] = s[k - 1]
    OBVIOUS
  <2>1. k - 1 \in 1..n /\ (k - 1) + 1 = k
    BY <1>1
  <2>. QED
    BY <1>2, <2>1
<1>4. \A k \in 1..n : k + 1 \in 1..n + 1 /\ k + 1 > 1
  BY <1>1
<1>5. \A k \in DOMAIN r : k > 1 => Begin(r[k])
  <2> SUFFICES ASSUME NEW k \in 1..n + 1, k > 1 PROVE Begin(r[k])
    BY <1>2
  <2>1. k - 1 \in 1..n /\ r[k] = s[k - 1]
    BY <1>3
  <2>. QED
    BY <1>1, <2>1 DEF Started
<1>6. HasLoop(s) => \E j \in DOMAIN r : 1 < j /\ IsLoop(r[j])
  BY <1>1, <1>2, <1>4 DEF HasLoop
<1>7. \A k \in DOMAIN r : InLoop(d, r[k].at) => \E j \in DOMAIN r : k < j /\ IsLoop(r[j])
  <2> SUFFICES ASSUME NEW k \in 1..n + 1, InLoop(d, r[k].at) PROVE \E j \in DOMAIN r : k < j /\ IsLoop(r[j])
    BY <1>2
  <2>1. CASE k = 1
    BY <1>2, <1>6, <2>1
  <2>2. CASE k # 1
    <3>1. k - 1 \in 1..n /\ InLoop(d, s[k - 1].at)
      BY <1>3, <2>2
    <3>2. PICK j \in 1..n : k - 1 < j /\ IsLoop(s[j])
      BY <1>1, <3>1 DEF Nest
    <3>3. j + 1 \in DOMAIN r /\ k < j + 1 /\ IsLoop(r[j + 1])
      BY <1>2, <1>4, <3>1, <3>2
    <3>. QED
      BY <3>3
  <2>. QED
    BY <2>1, <2>2
<1>8. \A j, k \in DOMAIN r : j < k /\ IsLoop(r[j]) /\ IsLoop(r[k]) => r[j].outer
  <2> SUFFICES ASSUME NEW j \in 1..n + 1, NEW k \in 1..n + 1, j < k, IsLoop(r[j]), IsLoop(r[k])
               PROVE  r[j].outer
    BY <1>2
  <2>1. k - 1 \in 1..n /\ IsLoop(s[k - 1])
    BY <1>1, <1>3
  <2>2. CASE j = 1
    BY <1>1, <1>2, <2>1, <2>2 DEF HasLoop
  <2>3. CASE j # 1
    <3>1. j - 1 \in 1..n /\ r[j] = s[j - 1] /\ j - 1 < k - 1
      BY <1>1, <1>3, <2>3
    <3>. QED
      BY <1>1, <2>1, <3>1 DEF Nest
  <2>. QED
    BY <2>2, <2>3
<1>9. Nest(d, r)
  BY <1>5, <1>7, <1>8 DEF Nest
<1>10. Begin(x) => Started(r)
  <2> SUFFICES ASSUME Begin(x), NEW k \in 1..n + 1 PROVE Begin(r[k])
    BY <1>2 DEF Started
  <2>1. CASE k = 1
    BY <1>2, <2>1
  <2>2. CASE k # 1
    <3>1. k > 1
      BY <2>2
    <3>. QED
      BY <1>2, <1>5, <3>1
  <2>. QED
    BY <2>1, <2>2
<1>11. HasLoop(r) <=> IsLoop(x) \/ HasLoop(s)
  <2>1. HasLoop(r) => IsLoop(x) \/ HasLoop(s)
    <3> SUFFICES ASSUME NEW k \in 1..n + 1, IsLoop(r[k]), ~IsLoop(x) PROVE HasLoop(s)
      BY <1>2 DEF HasLoop
    <3>1. k # 1
      BY <1>2
    <3>2. k - 1 \in 1..n /\ IsLoop(s[k - 1])
      BY <1>3, <3>1
    <3>. QED
      BY <1>1, <3>2 DEF HasLoop
  <2>2. IsLoop(x) => HasLoop(r)
    <3>1. 1 \in DOMAIN r
      BY <1>1, <1>2
    <3>. QED
      BY <1>2, <3>1 DEF HasLoop
  <2>3. HasLoop(s) => HasLoop(r)
    BY <1>6 DEF HasLoop
  <2>. QED
    BY <2>1, <2>2, <2>3
<1>12. Going(r) => (IsLoop(x) /\ x.n > 0) \/ HasLoop(s)
  <2> SUFFICES ASSUME NEW k \in 1..n + 1, IsLoop(r[k]), r[k].n > 0, ~HasLoop(s) PROVE IsLoop(x) /\ x.n > 0
    BY <1>2 DEF Going
  <2>1. k = 1
    BY <1>1, <1>3 DEF HasLoop
  <2>. QED
    BY <1>2, <2>1
<1>. QED
  BY <1>2, <1>9, <1>10, <1>11, <1>12 DEF r

\* Steps in front.
LEMMA MoreSteps ==
  ASSUME NEW d, IsDocument(d), NEW s \in Seq(AnyTask(d)), Nest(d, s), Started(s),
         NEW from \in Nat \ {0}, NEW to \in 0..Len(d.walk), from <= to /\ InLoop(d, from) => HasLoop(s)
  PROVE  /\ Steps(from, to) \o s \in Seq(AnyTask(d)) /\ Nest(d, Steps(from, to) \o s)
         /\ HasLoop(Steps(from, to) \o s) <=> HasLoop(s)
<1>1. Len(d.walk) \in Nat /\ DOMAIN d.walk = 1..Len(d.walk)
  BY DocumentFacts
<1>2. CASE from <= to
  <2> DEFINE x == [t |-> "steps", at |-> from, to |-> to, n |-> 0, outer |-> FALSE]
  <2>1. x \in AnyTask(d) /\ ~IsLoop(x) /\ x.at = from
    BY <1>1, <1>2 DEF AnyTask, IsLoop
  <2>2. Steps(from, to) = <<x>>
    BY <1>2 DEF Steps
  <2> HIDE DEF x
  <2>. QED
    BY <1>2, <2>1, <2>2, MoreTasks
<1>3. CASE ~(from <= to)
  <2>1. Steps(from, to) \o s = s
    BY <1>3 DEF Steps
  <2>. QED
    BY <2>1
<1>. QED
  BY <1>2, <1>3

-----------------------------------------------------------------------------
(* The task in progress. *)

LEMMA TheDocument ==
  ASSUME TaskInv
  PROVE  IsDocument(doc) /\ Len(doc.walk) \in Nat /\ DOMAIN doc.walk = 1..Len(doc.walk)
BY DocumentsAssumption, DocumentFacts DEF TaskInv

\* The task, and what is left without it.
LEMMA RestTasks ==
  ASSUME TaskInv, IterationInv, todo # <<>>
  PROVE  /\ Task \in AnyTask(doc) /\ At \in 1..Len(doc.walk)
         /\ Rest \in Seq(AnyTask(doc)) /\ Nest(doc, Rest) /\ Started(Rest)
         /\ InLoop(doc, At) => HasLoop(Rest)
         /\ IsLoop(Task) /\ HasLoop(Rest) => Task.outer
         /\ HasLoop(Rest) => "iteration" \in defined
         /\ IsLoop(Task) /\ Task.n > 0 => "iteration" \in defined
<1>1. todo \in Seq(AnyTask(doc)) /\ Nest(doc, todo) /\ Task = todo[1] /\ 1 \in DOMAIN todo
  BY DEF TaskInv, Task
<1>2. /\ IsDocument(doc) /\ Len(doc.walk) \in Nat /\ DOMAIN doc.walk = 1..Len(doc.walk)
  BY TheDocument
<1>3. Task \in AnyTask(doc)
  BY <1>1
<1>4. At \in 1..Len(doc.walk)
  BY <1>2, <1>3 DEF AnyTask, At
<1>5. /\ Tail(todo) \in Seq(AnyTask(doc)) /\ Nest(doc, Tail(todo)) /\ Started(Tail(todo))
      /\ InLoop(doc, At) => HasLoop(Tail(todo))
      /\ IsLoop(Task) /\ HasLoop(Tail(todo)) => Task.outer
  BY <1>1, TailTasks DEF Task, At
<1>6. Going(todo) => "iteration" \in defined
  BY DEF IterationInv
<1>7. HasLoop(Tail(todo)) => "iteration" \in defined
  <2> SUFFICES ASSUME NEW k \in DOMAIN Tail(todo), IsLoop(Tail(todo)[k]) PROVE Going(todo)
    BY <1>6 DEF HasLoop
  <2>1. k + 1 \in DOMAIN todo /\ todo[k + 1] = Tail(todo)[k]
    BY <1>1
  <2>2. Tail(todo)[k].n > 0
    BY <1>5 DEF Started, Begin
  <2>. QED
    BY <2>1, <2>2 DEF Going
<1>8. IsLoop(Task) /\ Task.n > 0 => "iteration" \in defined
  BY <1>1, <1>6 DEF Going
<1>9. CASE Task.t = "steps" /\ After(doc, At) <= Task.to
  <2> DEFINE x == [Task EXCEPT !.at = After(doc, At)]
  <2>1. Task.to \in 1..Len(doc.walk) /\ After(doc, At) \in At + 1..Len(doc.walk) + 1
    BY <1>2, <1>3, <1>4, DocumentFacts DEF AnyTask
  <2>2. x \in AnyTask(doc) /\ ~IsLoop(x) /\ x.at = After(doc, At)
    BY <1>2, <1>3, <1>4, <1>9, <2>1 DEF AnyTask, IsLoop
  <2>3. Rest = <<x>> \o Tail(todo)
    BY <1>9 DEF Rest
  <2>4. InLoop(doc, x.at) => HasLoop(Tail(todo))
    BY <1>2, <1>4, <1>5, <2>2, SameLoops
  <2> HIDE DEF x
  <2>5. /\ Rest \in Seq(AnyTask(doc)) /\ Nest(doc, Rest)
        /\ Begin(x) => Started(Rest)
        /\ HasLoop(Rest) <=> IsLoop(x) \/ HasLoop(Tail(todo))
    BY <1>5, <2>2, <2>3, <2>4, MoreTasks
  <2>6. Begin(x)
    BY <2>2 DEF Begin
  <2>. QED
    BY <1>3, <1>4, <1>5, <1>7, <1>8, <2>2, <2>5, <2>6
<1>10. CASE ~(Task.t = "steps" /\ After(doc, At) <= Task.to)
  <2>1. Rest = Tail(todo)
    BY <1>5, <1>10 DEF Rest
  <2>. QED
    BY <1>3, <1>4, <1>5, <1>7, <1>8, <2>1
<1>. QED
  BY <1>9, <1>10

\* An expression of a step that was accepted: what has no value is set before.
LEMMA MissingSetBefore ==
  ASSUME TaskInv, CheckedInv, IterationInv, todo # <<>>, phase # "idle", NEW have, defined \subseteq have,
         Now.do = "repeat" => "iteration" \in have
  PROVE  Now.uses \ have \subseteq SetBefore(At)
<1>1. At \in 1..Len(doc.walk) /\ DOMAIN doc.walk = 1..Len(doc.walk) /\ IsDocument(doc)
  BY RestTasks, TheDocument
<1>2. Now.uses \subseteq KnownTo(doc, At)
  BY <1>1 DEF CheckedInv, Valid, Now
<1>3. Begun(doc) \subseteq have
  BY DEF CheckedInv
<1>4. InLoop(doc, At) => "iteration" \in have
  BY RestTasks
<1>5. KnownAt(doc, At) \ have \subseteq Assigned(doc, At - 1)
  BY <1>3, <1>4 DEF KnownAt
<1>6. Assigned(doc, At - 1) \subseteq SetBefore(At)
  <2>1. Assigned(doc, At - 1) \subseteq Assigned(doc, At + Now.body)
    <3>1. Now.body \in Nat
      BY <1>1, DocumentFacts DEF Now
    <3>2. 1..At - 1 \subseteq 1..At + Now.body
      BY <1>1, <3>1
    <3>. QED
      BY <3>2 DEF Assigned
  <2>. QED
    BY <1>1, <2>1 DEF SetBefore, Now
<1>7. CASE Now.do # "repeat"
  BY <1>2, <1>5, <1>6, <1>7 DEF KnownTo, Now
<1>8. CASE Now.do = "repeat" /\ "until" \notin Now.given
  BY <1>2, <1>5, <1>6, <1>8 DEF KnownTo, Now
<1>9. CASE Now.do = "repeat" /\ "until" \in Now.given
  <2>1. SetBefore(At) = Assigned(doc, At + Now.body)
    BY <1>1, <1>9 DEF SetBefore, Now
  <2>2. KnownTo(doc, At) = KnownAt(doc, At) \cup {"iteration"} \cup Assigned(doc, At + Now.body)
    BY <1>9 DEF KnownTo, Now
  <2>. QED
    BY <1>2, <1>5, <1>6, <1>9, <2>1, <2>2
<1>. QED
  BY <1>7, <1>8, <1>9

\* What the start gave a value keeps one.
LEMMA BegunKept ==
  ASSUME CheckedInv, phase # "idle", NEW have, Begun(doc) \subseteq have, NEW outer
  PROVE  Begun(doc) \subseteq Restored(have, outer)
<1>1. "iteration" \notin Begun(doc)
  BY DEF CheckedInv, Parsed, Begun, Reserved
<1>. QED
  BY <1>1 DEF Restored

\* What every step of the executor keeps.
Kept ==
  /\ todo' \in Seq(AnyTask(doc)) /\ Nest(doc, todo')
  /\ Going(todo') => "iteration" \in defined'
  /\ Begun(doc) \subseteq defined'
  /\ AcceptedFlowsRun'

LEMMA NothingLeft ==
  ASSUME TaskInv, todo' = <<>>, Begun(doc) \subseteq defined', AcceptedFlowsRun'
  PROVE  Kept
BY NoTasks DEF Kept, Going

LEMMA FailKept ==
  ASSUME TaskInv, CheckedInv, phase # "idle", doc' = doc, NEW why, NEW have, Begun(doc) \subseteq have, Fail(why, have),
         why # "no setter", why = "undefined" => Now.uses \ have \subseteq SetBefore(At)
  PROVE  Kept
<1>1. /\ todo' = <<>> /\ error' = [why |-> why, at |-> At, missing |-> Now.uses \ have]
      /\ defined' = have \/ \E outer : defined' = Restored(have, outer)
  BY DEF Fail
<1>2. Begun(doc) \subseteq defined'
  BY <1>1, BegunKept
<1>3. AcceptedFlowsRun'
  BY <1>1 DEF AcceptedFlowsRun, SetBefore, Assigned
<1>. QED
  BY <1>1, <1>2, <1>3, NothingLeft

LEMMA MisreadKept ==
  ASSUME TaskInv, CheckedInv, IterationInv, todo # <<>>, phase # "idle", doc' = doc, NEW have, defined \subseteq have,
         Now.do = "repeat" => "iteration" \in have, Misread(have)
  PROVE  Kept
<1>1. Begun(doc) \subseteq have
  BY DEF CheckedInv
<1>2. Now.uses \ have \subseteq SetBefore(At)
  BY MissingSetBefore
<1>3. Fail("undefined", have) \/ Fail("failed", have)
  BY DEF Misread
<1>. QED
  BY <1>1, <1>2, <1>3, FailKept

-----------------------------------------------------------------------------
(* Going on. *)

\* On to the next step, or to the tasks that were put before it.
LEMMA GoKept ==
  ASSUME TaskInv, CheckedInv, phase # "idle",
         doc' = doc, error' = error, AcceptedFlowsRun, NEW s, todo' = s, s \in Seq(AnyTask(doc)), Nest(doc, s),
         Going(s) => "iteration" \in defined', Begun(doc) \subseteq defined'
  PROVE  Kept
BY DEF Kept, AcceptedFlowsRun, SetBefore, Assigned

LEMMA NextKept ==
  ASSUME FlowInv, todo # <<>>, phase # "idle", doc' = doc, error' = error, Go(<<>>),
         HasLoop(Rest) => "iteration" \in defined', Begun(doc) \subseteq defined'
  PROVE  Kept
<1>1. Rest \in Seq(AnyTask(doc)) /\ Nest(doc, Rest)
  BY RestTasks DEF FlowInv
<1>2. todo' = Rest
  BY <1>1 DEF Go
<1>3. Going(Rest) => HasLoop(Rest)
  BY DEF Going, HasLoop
<1>. QED
  BY <1>1, <1>2, <1>3, GoKept DEF FlowInv

LEMMA LeaveKept ==
  ASSUME FlowInv, todo # <<>>, phase # "idle", doc' = doc, NEW have, defined \subseteq have, IsLoop(Task), Leave(have)
  PROVE  Kept
<1>1. /\ Go(<<>>) /\ error' = error /\ defined' = Restored(have, Task.outer)
  BY DEF Leave
<1>2. HasLoop(Rest) => "iteration" \in defined'
  BY <1>1, RestTasks DEF FlowInv, Restored
<1>3. Begun(doc) \subseteq defined'
  BY <1>1, BegunKept DEF FlowInv, CheckedInv
<1>. QED
  BY <1>1, <1>2, <1>3, NextKept

\* The steps of a body or of a branch, before what is left.
LEMMA EnterKept ==
  ASSUME FlowInv, todo # <<>>, phase # "idle", doc' = doc, error' = error, NEW from \in Nat \ {0}, NEW to \in 0..Len(doc.walk),
         from <= to /\ InLoop(doc, from) => HasLoop(Rest), Go(Steps(from, to)), defined \subseteq defined'
  PROVE  Kept
<1>1. /\ Rest \in Seq(AnyTask(doc)) /\ Nest(doc, Rest) /\ Started(Rest)
      /\ HasLoop(Rest) => "iteration" \in defined
      /\ IsDocument(doc)
  BY RestTasks, TheDocument DEF FlowInv
<1> DEFINE s == Steps(from, to) \o Rest
<1>2. s \in Seq(AnyTask(doc)) /\ Nest(doc, s) /\ (HasLoop(s) <=> HasLoop(Rest))
  BY <1>1, MoreSteps
<1>3. todo' = s
  BY DEF Go
<1>4. Going(s) => HasLoop(s)
  BY DEF Going, HasLoop
<1>5. Begun(doc) \subseteq defined'
  BY DEF FlowInv, CheckedInv
<1> HIDE DEF s
<1>6. Going(s) => "iteration" \in defined'
  BY <1>1, <1>2, <1>4
<1>7. TaskInv /\ CheckedInv /\ AcceptedFlowsRun
  BY DEF FlowInv
<1>. QED
  BY <1>2, <1>3, <1>5, <1>6, <1>7, GoKept

\* The same with the next pass of a loop after them.
LEMMA PassKept ==
  ASSUME FlowInv, todo # <<>>, phase # "idle", doc' = doc, error' = error, NEW y \in AnyTask(doc), y.at = At,
         IsLoop(y) <=> IsLoop(Task), y.outer = Task.outer, Begin(y), Go(Body \o <<y>>),
         Now.do \in {"repeat", "sweep"}, Now.do = "repeat" => IsLoop(y),
         defined \subseteq defined', IsLoop(y) => "iteration" \in defined'
  PROVE  Kept
<1>1. /\ Rest \in Seq(AnyTask(doc)) /\ Nest(doc, Rest) /\ Started(Rest)
      /\ HasLoop(Rest) => "iteration" \in defined
      /\ InLoop(doc, At) => HasLoop(Rest)
      /\ IsLoop(Task) /\ HasLoop(Rest) => Task.outer
      /\ At \in 1..Len(doc.walk) /\ IsDocument(doc) /\ Len(doc.walk) \in Nat
  BY RestTasks, TheDocument DEF FlowInv
<1> DEFINE r == <<y>> \o Rest
           s == Body \o r
<1>2. /\ r \in Seq(AnyTask(doc)) /\ Nest(doc, r) /\ Started(r)
      /\ HasLoop(r) <=> IsLoop(y) \/ HasLoop(Rest)
  BY <1>1, MoreTasks
<1>3. At + 1 \in Nat \ {0} /\ At + Now.body \in 0..Len(doc.walk) /\ Now.body \in Nat
  <2>1. /\ Now.body \in Nat /\ Now.otherwise \in Nat /\ After(doc, At) = At + Now.body + Now.otherwise + 1
        /\ After(doc, At) <= Len(doc.walk) + 1
    BY <1>1, DocumentFacts DEF Now
  <2>. QED
    BY <1>1, <2>1
<1>4. At + 1 <= At + Now.body /\ InLoop(doc, At + 1) => HasLoop(r)
  <2>1. SUFFICES ASSUME At + 1 <= At + Now.body, InLoop(doc, At + 1) PROVE HasLoop(r)
    OBVIOUS
  <2>2. At + 1 \in 1..Len(doc.walk)
    BY <1>1, <1>3, <2>1
  <2>3. InLoop(doc, At) \/ doc.walk[At].do = "repeat"
    BY <1>1, <2>1, <2>2, BodyLoops
  <2>. QED
    BY <1>1, <1>2, <2>3 DEF Now
<1> HIDE DEF r
<1>5. s \in Seq(AnyTask(doc)) /\ Nest(doc, s) /\ (HasLoop(s) <=> HasLoop(r))
  BY <1>1, <1>2, <1>3, <1>4, MoreSteps DEF Body
<1>6. todo' = s
  <2>1. Body = <<>> \/ \E z : Body = <<z>>
    BY DEF Body, Steps
  <2>2. todo' = (Body \o <<y>>) \o Rest
    BY DEF Go
  <2>3. (Body \o <<y>>) \o Rest = Body \o (<<y>> \o Rest)
    <3> DEFINE S == AnyTask(doc) \cup {Body[1]}
    <3>1. Body \in Seq(S) /\ <<y>> \in Seq(S) /\ Rest \in Seq(S)
      <4>1. Rest \in Seq(S) /\ <<y>> \in Seq(S)
        BY <1>1
      <4>2. CASE Body = <<>>
        BY <4>1, <4>2
      <4>3. ASSUME NEW z, Body = <<z>> PROVE Body \in Seq(S)
        <5>1. z \in S
          BY <4>3
        <5>. QED
          BY <4>3, <5>1
      <4>. QED
        BY <2>1, <4>1, <4>2, <4>3
    <3> HIDE DEF S
    <3>. QED
      BY <3>1, ConcatAssociative
  <2>. QED
    BY <2>2, <2>3 DEF r
<1>7. Going(s) => HasLoop(s)
  BY DEF Going, HasLoop
<1>8. Begun(doc) \subseteq defined'
  BY DEF FlowInv, CheckedInv
<1> HIDE DEF s
<1>9. Going(s) => "iteration" \in defined'
  BY <1>1, <1>2, <1>5, <1>7
<1>10. TaskInv /\ CheckedInv /\ AcceptedFlowsRun
  BY DEF FlowInv
<1>. QED
  BY <1>5, <1>6, <1>8, <1>9, <1>10, GoKept

-----------------------------------------------------------------------------
(* The steps of the executor. *)

LEMMA InProgress ==
  ASSUME FlowInv, NEW t, Doing(t)
  PROVE  /\ todo # <<>> /\ phase # "idle" /\ Task.t = t
         /\ Task \in AnyTask(doc) /\ At \in 1..Len(doc.walk)
         /\ ParseOk(Now) /\ StepOk(Now) /\ Begun(doc) \subseteq defined
<1>1. todo # <<>> /\ phase # "idle" /\ Task.t = t
  BY DEF Doing
<1>2. Task \in AnyTask(doc) /\ At \in 1..Len(doc.walk) /\ DOMAIN doc.walk = 1..Len(doc.walk)
  BY <1>1, RestTasks, TheDocument DEF FlowInv
<1>. QED
  BY <1>1, <1>2 DEF FlowInv, CheckedInv, Parsed, Valid, Now

LEMMA SetKept ==
  ASSUME FlowInv, Set
  PROVE  Kept
<1>1. /\ todo # <<>> /\ phase # "idle" /\ Task.t = "steps" /\ StepOk(Now) /\ Now.do = "set"
      /\ Begun(doc) \subseteq defined /\ doc' = doc
  BY InProgress DEF Set
<1>2. KnowsOp(Now)
  BY <1>1 DEF StepOk, SetOk
<1>3. Misread(defined) \/ (Go(<<>>) /\ defined' = defined /\ error' = error) \/ Fail("failed", defined)
  BY <1>2 DEF Set
<1>4. CASE Misread(defined)
  BY <1>1, <1>4, MisreadKept DEF FlowInv
<1>5. CASE Fail("failed", defined)
  BY <1>1, <1>5, FailKept DEF FlowInv
<1>6. CASE Go(<<>>) /\ defined' = defined /\ error' = error
  BY <1>1, <1>6, NextKept, RestTasks DEF FlowInv
<1>. QED
  BY <1>3, <1>4, <1>5, <1>6

LEMMA ReadKept ==
  ASSUME FlowInv, Read
  PROVE  Kept
<1>1. todo # <<>> /\ phase # "idle" /\ Begun(doc) \subseteq defined /\ doc' = doc
  BY InProgress DEF Read
<1>2. CASE Fail("failed", defined)
  BY <1>1, <1>2, FailKept DEF FlowInv
<1>3. CASE Go(<<>>) /\ defined' = defined \cup {Now.var} /\ error' = error
  BY <1>1, <1>3, NextKept, RestTasks DEF FlowInv
<1>. QED
  BY <1>2, <1>3 DEF Read

LEMMA LetKept ==
  ASSUME FlowInv, Let
  PROVE  Kept
<1>1. todo # <<>> /\ phase # "idle" /\ Now.do = "let" /\ Begun(doc) \subseteq defined /\ doc' = doc
  BY InProgress DEF Let
<1>2. CASE Misread(defined)
  BY <1>1, <1>2, MisreadKept DEF FlowInv
<1>3. CASE Go(<<>>) /\ defined' = defined \cup {Now.var} /\ error' = error
  BY <1>1, <1>3, NextKept, RestTasks DEF FlowInv
<1>. QED
  BY <1>2, <1>3 DEF Let, Reads

LEMMA IfKept ==
  ASSUME FlowInv, If
  PROVE  Kept
<1>1. /\ todo # <<>> /\ phase # "idle" /\ Now.do = "if" /\ Begun(doc) \subseteq defined /\ doc' = doc
      /\ At \in 1..Len(doc.walk)
  BY InProgress DEF If
<1>2. CASE Misread(defined)
  BY <1>1, <1>2, MisreadKept DEF FlowInv
<1>3. /\ Now.body \in Nat /\ Now.otherwise \in Nat /\ Len(doc.walk) \in Nat /\ IsDocument(doc)
      /\ After(doc, At) = At + Now.body + Now.otherwise + 1 /\ After(doc, At) <= Len(doc.walk) + 1
  BY <1>1, TheDocument, DocumentFacts DEF FlowInv, Now
<1>4. InLoop(doc, At) => HasLoop(Rest)
  BY <1>1, RestTasks DEF FlowInv
<1>5. CASE Go(Body) /\ defined' = defined /\ error' = error
  <2>1. At + 1 <= At + Now.body /\ InLoop(doc, At + 1) => HasLoop(Rest)
    <3> SUFFICES ASSUME At + 1 <= At + Now.body, InLoop(doc, At + 1) PROVE HasLoop(Rest)
      OBVIOUS
    <3>1. At + 1 \in 1..Len(doc.walk)
      BY <1>1, <1>3
    <3>. QED
      BY <1>1, <1>3, <1>4, <3>1, BodyLoops DEF Now
  <2>2. At + 1 \in Nat \ {0} /\ At + Now.body \in 0..Len(doc.walk)
    BY <1>1, <1>3
  <2>. QED
    BY <1>1, <1>5, <2>1, <2>2, EnterKept DEF Body
<1>6. CASE Go(Otherwise) /\ defined' = defined /\ error' = error
  <2> DEFINE e == At + Now.body + 1
             l == After(doc, At) - 1
  <2>1. e \in Nat \ {0} /\ l \in 0..Len(doc.walk) /\ (e <= l => e < After(doc, At))
    BY <1>1, <1>3
  <2>2. e <= l /\ InLoop(doc, e) => HasLoop(Rest)
    BY <1>1, <1>3, <1>4, <2>1, ElseLoops DEF Now
  <2>3. Go(Steps(e, l))
    BY <1>6 DEF Otherwise
  <2> HIDE DEF e, l
  <2>. QED
    BY <1>1, <1>6, <2>1, <2>2, <2>3, EnterKept
<1>. QED
  BY <1>2, <1>5, <1>6 DEF If, Reads

LEMMA OtherKept ==
  ASSUME FlowInv, Other
  PROVE  Kept
<1>1. todo # <<>> /\ phase # "idle" /\ Now.do # "repeat" /\ Begun(doc) \subseteq defined /\ doc' = doc
  BY InProgress DEF Other
<1>2. CASE Misread(defined)
  BY <1>1, <1>2, MisreadKept DEF FlowInv
<1>3. CASE Fail("failed", defined)
  BY <1>1, <1>3, FailKept DEF FlowInv
<1>4. CASE Go(<<>>) /\ defined' = defined /\ error' = error
  BY <1>1, <1>4, NextKept, RestTasks DEF FlowInv
<1>. QED
  BY <1>2, <1>3, <1>4 DEF Other, Reads

LEMMA StopKept ==
  ASSUME FlowInv, Stop
  PROVE  Kept
<1>1. todo # <<>> /\ phase # "idle" /\ Begun(doc) \subseteq defined /\ doc' = doc /\ Fail("none", defined)
  BY InProgress DEF Stop
<1>. QED
  BY <1>1, FailKept DEF FlowInv

LEMMA EnterLoopKept ==
  ASSUME FlowInv, Enter
  PROVE  Kept
<1> DEFINE x == [t |-> IF Now.do = "repeat" THEN "pass" ELSE "point", at |-> At, to |-> At, n |-> 0,
                 outer |-> "iteration" \in defined]
<1>1. /\ todo # <<>> /\ phase # "idle" /\ Now.do \in {"repeat", "sweep"} /\ Begun(doc) \subseteq defined
      /\ doc' = doc /\ error' = error /\ defined' = defined /\ todo' = <<x>> \o Rest /\ At \in 1..Len(doc.walk)
  BY InProgress DEF Enter, Go
<1>2. /\ Rest \in Seq(AnyTask(doc)) /\ Nest(doc, Rest) /\ Started(Rest)
      /\ InLoop(doc, At) => HasLoop(Rest)
      /\ HasLoop(Rest) => "iteration" \in defined
      /\ DOMAIN doc.walk = 1..Len(doc.walk)
  BY <1>1, RestTasks, TheDocument DEF FlowInv
<1>3. x.outer = ("iteration" \in defined) /\ x.at = At /\ x.n = 0
  OBVIOUS
<1>4. x \in AnyTask(doc)
  <2>1. x \in [t : {"steps", "pass", "until", "point"}, at : DOMAIN doc.walk, to : DOMAIN doc.walk, n : Nat, outer : BOOLEAN]
    BY <1>1, <1>2
  <2>. QED
    BY <1>1, <2>1 DEF AnyTask, IsLoop, Now
<1> HIDE DEF x
<1> DEFINE s == <<x>> \o Rest
<1>5. /\ s \in Seq(AnyTask(doc)) /\ Nest(doc, s)
      /\ Going(s) => (IsLoop(x) /\ x.n > 0) \/ HasLoop(Rest)
  BY <1>2, <1>3, <1>4, MoreTasks
<1>6. Going(s) => "iteration" \in defined'
  BY <1>1, <1>2, <1>3, <1>5
<1>7. todo' = s
  BY <1>1
<1> HIDE DEF s
<1>. QED
  BY <1>1, <1>5, <1>6, <1>7, GoKept DEF FlowInv

LEMMA PassesKept ==
  ASSUME FlowInv, Pass
  PROVE  Kept
<1> DEFINE have == defined \cup {"iteration"}
           y == IF "until" \in Now.given THEN [NextTime EXCEPT !.t = "until"] ELSE NextTime
<1>1. /\ todo # <<>> /\ phase # "idle" /\ Task.t = "pass" /\ Begun(doc) \subseteq defined
      /\ doc' = doc /\ Task \in AnyTask(doc) /\ IsLoop(Task)
  BY InProgress DEF Pass, IsLoop
<1>2. Now.do = "repeat"
  BY <1>1 DEF AnyTask, Now, At
<1>3. y \in AnyTask(doc) /\ y.at = At /\ IsLoop(y) /\ y.outer = Task.outer /\ Begin(y)
  <2>1. Task \in [t : {"steps", "pass", "until", "point"}, at : DOMAIN doc.walk, to : DOMAIN doc.walk, n : Nat, outer : BOOLEAN]
    BY <1>1 DEF AnyTask
  <2>2. /\ NextTime \in [t : {"steps", "pass", "until", "point"}, at : DOMAIN doc.walk, to : DOMAIN doc.walk, n : Nat, outer : BOOLEAN]
        /\ NextTime.t = "pass" /\ NextTime.at = At /\ NextTime.outer = Task.outer /\ NextTime.n > 0
    BY <1>1, <2>1 DEF NextTime, At
  <2>3. CASE "until" \in Now.given
    <3>1. y = [NextTime EXCEPT !.t = "until"]
      BY <2>3
    <3>2. /\ y \in [t : {"steps", "pass", "until", "point"}, at : DOMAIN doc.walk, to : DOMAIN doc.walk, n : Nat, outer : BOOLEAN]
          /\ y.t = "until" /\ y.at = At /\ y.outer = Task.outer /\ y.n > 0
      BY <2>2, <3>1
    <3> HIDE DEF y
    <3>. QED
      BY <1>2, <3>2 DEF AnyTask, IsLoop, Begin, Now
  <2>4. CASE "until" \notin Now.given
    <3>1. y = NextTime
      BY <2>4
    <3> HIDE DEF y
    <3>. QED
      BY <1>2, <2>2, <3>1 DEF AnyTask, IsLoop, Begin, Now
  <2>. QED
    BY <2>3, <2>4
<1>4. \/ Leave(defined) \/ Leave(have) \/ Misread(have)
      \/ Go(Body \o <<y>>) /\ defined' = have /\ error' = error
  BY DEF Pass
<1>5. CASE Leave(defined)
  BY <1>1, <1>5, LeaveKept
<1>6. CASE Leave(have)
  BY <1>1, <1>6, LeaveKept
<1>7. CASE Misread(have)
  BY <1>1, <1>7, MisreadKept DEF FlowInv
<1>8. CASE Go(Body \o <<y>>) /\ defined' = have /\ error' = error
  <2> HIDE DEF y
  <2>. QED
    BY <1>1, <1>2, <1>3, <1>8, PassKept
<1>. QED
  BY <1>4, <1>5, <1>6, <1>7, <1>8

LEMMA UntilKept ==
  ASSUME FlowInv, Until
  PROVE  Kept
<1>1. /\ todo # <<>> /\ phase # "idle" /\ Task.t = "until" /\ Begun(doc) \subseteq defined
      /\ doc' = doc /\ Task \in AnyTask(doc) /\ IsLoop(Task) /\ At \in 1..Len(doc.walk)
  BY InProgress DEF Until, IsLoop
<1>2. Task.n > 0
  BY <1>1 DEF AnyTask
<1>3. /\ "iteration" \in defined /\ Rest \in Seq(AnyTask(doc)) /\ Nest(doc, Rest) /\ Started(Rest)
      /\ InLoop(doc, At) => HasLoop(Rest)
      /\ HasLoop(Rest) => Task.outer
  BY <1>1, <1>2, RestTasks DEF FlowInv
<1>4. CASE Misread(defined)
  BY <1>1, <1>3, <1>4, MisreadKept DEF FlowInv
<1>5. CASE Leave(defined)
  BY <1>1, <1>5, LeaveKept
<1>6. CASE Go(<<[Task EXCEPT !.t = "pass"]>>) /\ defined' = defined /\ error' = error
  <2> DEFINE x == [Task EXCEPT !.t = "pass"]
             s == <<x>> \o Rest
  <2>1. x \in AnyTask(doc) /\ x.at = At /\ IsLoop(x) /\ x.outer = Task.outer
    BY <1>1, <1>2 DEF AnyTask, IsLoop, At
  <2> HIDE DEF x
  <2>2. s \in Seq(AnyTask(doc)) /\ Nest(doc, s)
    BY <1>3, <2>1, MoreTasks
  <2>3. todo' = s
    BY <1>6 DEF Go, x
  <2> HIDE DEF s
  <2>. QED
    BY <1>1, <1>3, <1>6, <2>2, <2>3, GoKept DEF FlowInv
<1>. QED
  BY <1>4, <1>5, <1>6 DEF Until, Reads

LEMMA PointKept ==
  ASSUME FlowInv, Point
  PROVE  Kept
<1>1. /\ todo # <<>> /\ phase # "idle" /\ Task.t = "point" /\ Begun(doc) \subseteq defined
      /\ doc' = doc /\ error' = error /\ Task \in AnyTask(doc) /\ ~IsLoop(Task)
  BY InProgress DEF Point, IsLoop
<1>2. Now.do = "sweep"
  BY <1>1 DEF AnyTask, Now, At
<1>3. CASE Go(<<>>) /\ defined' = defined
  BY <1>1, <1>3, NextKept, RestTasks DEF FlowInv
<1>4. CASE Go(Body \o <<NextTime>>) /\ defined' = defined \cup {Now.var}
  <2> DEFINE y == NextTime
  <2>1. y \in AnyTask(doc) /\ y.at = At /\ y.outer = Task.outer /\ ~IsLoop(y) /\ Begin(y)
    BY <1>1, <1>2 DEF AnyTask, IsLoop, NextTime, Begin, At
  <2> HIDE DEF y
  <2>2. Go(Body \o <<y>>)
    BY <1>4 DEF y
  <2>. QED
    BY <1>1, <1>2, <1>4, <2>1, <2>2, PassKept
<1>. QED
  BY <1>3, <1>4 DEF Point

-----------------------------------------------------------------------------
(* What is switched on. *)

LEMMA SetStaysOff ==
  ASSUME FlowInv, Set
  PROVE  UnarmedStaysOff'
<1>1. /\ armed' = armed /\ StepOk(Now) /\ Now.do = "set" /\ phase # "idle" /\ At \in 1..Len(doc.walk)
      /\ DOMAIN doc.walk = 1..Len(doc.walk)
  BY InProgress, TheDocument DEF Set, FlowInv
<1>2. SetOk(Now)
  BY <1>1 DEF StepOk
<1>3. \/ on' = on
      \/ \E v \in IF "value" \in Now.given THEN {Now.value} ELSE Values :
           on' = Applied(v) \/ on' = Applied(v) \cup Asked
  BY Zenon DEF Set
<1>4. CASE on' = on
  BY <1>1, <1>4 DEF FlowInv, UnarmedStaysOff
<1>5. ASSUME NEW v \in IF "value" \in Now.given THEN {Now.value} ELSE Values, ~armed
      PROVE  \A x \in Applied(v) : Unnamed(Bench[x[1]].ops[x[2]])
  <2>1. CASE ~("energize" \in Items(OpOf(Now).set) /\ ~Safe(v, OpOf(Now)))
    <3>1. Applied(v) \subseteq on
      BY <2>1 DEF Applied
    <3>. QED
      BY <1>5, <3>1 DEF FlowInv, UnarmedStaysOff
  <2>2. CASE "energize" \in Items(OpOf(Now).set) /\ ~Safe(v, OpOf(Now))
    <3>1. Applied(v) = on \cup {<<Now.at, Now.op>>}
      BY <2>2 DEF Applied, Operated
    <3>2. ~CanEnergize(Now)
      <4>1. Energizing(doc) = {}
        BY <1>1, <1>5 DEF FlowInv, CheckedInv
      <4>. QED
        BY <1>1, <4>1 DEF Energizing, Now
    <3>3. ~Energizes(OpOf(Now))
      BY <1>1, <1>2, <1>5, <2>2, <3>2 DEF CanEnergize
    <3>4. Unnamed(Bench[Now.at].ops[Now.op])
      BY <3>3 DEF Unnamed, OpOf
    <3>. QED
      BY <1>5, <3>1, <3>4 DEF FlowInv, UnarmedStaysOff
  <2>. QED
    BY <2>1, <2>2
<1>6. \A x \in Asked : Unnamed(Bench[x[1]].ops[x[2]])
  BY DEF Asked, Operated, Unnamed, OpOf
<1>7. ASSUME NEW v \in IF "value" \in Now.given THEN {Now.value} ELSE Values,
             on' = Applied(v) \/ on' = Applied(v) \cup Asked, ~armed
      PROVE  \A x \in on' : Unnamed(Bench[x[1]].ops[x[2]])
  BY <1>5, <1>6, <1>7
<1>. QED
  BY <1>1, <1>3, <1>4, <1>7 DEF UnarmedStaysOff

LEMMA ReadStaysOff ==
  ASSUME FlowInv, Read
  PROVE  UnarmedStaysOff'
<1>1. armed' = armed
  BY DEF Read
<1>2. on' = on \/ (on' = on \cup {<<Now.at, Now.op>>} /\ "energize" \in Items(OpOf(Now).get))
  BY DEF Read, Operated, Asked
<1>3. "energize" \in Items(OpOf(Now).get) => Unnamed(Bench[Now.at].ops[Now.op])
  BY DEF Unnamed, OpOf
<1>4. ASSUME ~armed PROVE \A x \in on' : Unnamed(Bench[x[1]].ops[x[2]])
  BY <1>2, <1>3, <1>4 DEF FlowInv, UnarmedStaysOff
<1>. QED
  BY <1>1, <1>4 DEF UnarmedStaysOff

-----------------------------------------------------------------------------
(* The invariant. *)

LEMMA FlowInit ==
  ASSUME Init
  PROVE  FlowInv
<1>1. doc \in Documents /\ IsDocument(doc)
  BY DocumentsAssumption DEF Init
<1>2. later \in 1..Len(doc.walk) + 1 /\ TopLevel(doc, later)
  BY <1>1, CleanupTopLevel DEF Init
<1>3. TaskInv
  BY <1>1, <1>2, NoTasks DEF Init, TaskInv
<1>4. CheckedInv /\ IterationInv /\ AcceptedFlowsRun /\ UnarmedStaysOff
  BY DEF Init, CheckedInv, IterationInv, Going, AcceptedFlowsRun, NoError, UnarmedStaysOff
<1>. QED
  BY <1>3, <1>4 DEF FlowInv

LEMMA StartStep ==
  ASSUME FlowInv, Start
  PROVE  FlowInv'
<1>1. /\ phase' = "main" /\ todo' = Steps(1, doc.main) /\ defined' = Begun(doc) /\ Parsed(doc) /\ Valid(doc)
      /\ armed \/ Energizing(doc) = {}
      /\ doc' = doc /\ armed' = armed /\ later' = later /\ error' = error /\ on' = on
  BY DEF Start
<1>2. IsDocument(doc) /\ doc.main \in 0..Len(doc.walk)
  BY TheDocument, DocumentFacts DEF FlowInv
<1>3. /\ Steps(1, doc.main) \o <<>> \in Seq(AnyTask(doc)) /\ Nest(doc, Steps(1, doc.main) \o <<>>)
      /\ ~HasLoop(Steps(1, doc.main) \o <<>>)
  <2>1. ~InLoop(doc, 1)
    BY DEF InLoop
  <2> DEFINE n == 1
  <2>2. /\ Steps(n, doc.main) \o <<>> \in Seq(AnyTask(doc)) /\ Nest(doc, Steps(n, doc.main) \o <<>>)
        /\ ~HasLoop(Steps(n, doc.main) \o <<>>)
    <3>1. n \in Nat \ {0} /\ ~InLoop(doc, n)
      BY <2>1
    <3> HIDE DEF n
    <3>. QED
      BY <1>2, <3>1, NoTasks, MoreSteps
  <2>. QED
    BY <2>2
<1>4. Steps(1, doc.main) \o <<>> = Steps(1, doc.main)
  BY DEF Steps
<1>5. /\ todo' \in Seq(AnyTask(doc)) /\ Nest(doc, todo') /\ ~HasLoop(todo')
  BY <1>1, <1>3, <1>4
<1>6. TaskInv'
  BY <1>1, <1>5 DEF FlowInv, TaskInv
<1>7. CheckedInv'
  BY <1>1 DEF CheckedInv
<1>8. IterationInv'
  BY <1>5 DEF IterationInv, Going, HasLoop
<1>9. AcceptedFlowsRun' /\ UnarmedStaysOff'
  BY <1>1 DEF FlowInv, AcceptedFlowsRun, SetBefore, UnarmedStaysOff
<1>. QED
  BY <1>6, <1>7, <1>8, <1>9 DEF FlowInv

LEMMA PartOverStep ==
  ASSUME FlowInv, PartOver
  PROVE  FlowInv'
<1>1. /\ phase # "idle" /\ phase' \in {"cleanup", "done"} /\ todo = <<>>
      /\ doc' = doc /\ armed' = armed /\ defined' = defined /\ error' = error /\ on' = on
  BY DEF PartOver
<1>2. IsDocument(doc) /\ Len(doc.walk) \in Nat /\ later \in 1..Len(doc.walk) + 1 /\ TopLevel(doc, later)
  BY TheDocument DEF FlowInv, TaskInv
<1>3. /\ todo' \in Seq(AnyTask(doc)) /\ Nest(doc, todo') /\ ~HasLoop(todo')
      /\ later' \in 1..Len(doc.walk) + 1 /\ TopLevel(doc, later')
  <2>1. CASE later > Len(doc.walk)
    BY <1>1, <1>2, <2>1, NoTasks DEF PartOver
  <2>2. CASE ~(later > Len(doc.walk))
    <3> DEFINE a == After(doc, later)
    <3>1. todo' = Steps(later, a - 1) /\ later' = a
      BY <2>2 DEF PartOver
    <3>2. later \in 1..Len(doc.walk) /\ a \in later + 1..Len(doc.walk) + 1
      BY <1>2, <2>2, DocumentFacts
    <3>3. TopLevel(doc, a) /\ ~InLoop(doc, later)
      BY <1>2, <3>2, TopLevelNext
    <3> HIDE DEF a
    <3>4. later \in Nat \ {0} /\ a - 1 \in 0..Len(doc.walk)
      BY <1>2, <3>2
    <3>5. /\ Steps(later, a - 1) \o <<>> \in Seq(AnyTask(doc)) /\ Nest(doc, Steps(later, a - 1) \o <<>>)
          /\ ~HasLoop(Steps(later, a - 1) \o <<>>)
      BY <1>2, <3>3, <3>4, NoTasks, MoreSteps
    <3>6. Steps(later, a - 1) \o <<>> = Steps(later, a - 1)
      BY DEF Steps
    <3>7. a \in 1..Len(doc.walk) + 1
      BY <1>2, <3>2
    <3>. QED
      BY <3>1, <3>3, <3>5, <3>6, <3>7
  <2>. QED
    BY <2>1, <2>2
<1>4. TaskInv'
  BY <1>1, <1>3 DEF FlowInv, TaskInv
<1>5. CheckedInv'
  BY <1>1 DEF FlowInv, CheckedInv
<1>6. IterationInv'
  BY <1>3 DEF IterationInv, Going, HasLoop
<1>7. AcceptedFlowsRun' /\ UnarmedStaysOff'
  BY <1>1 DEF FlowInv, AcceptedFlowsRun, SetBefore, UnarmedStaysOff
<1>. QED
  BY <1>4, <1>5, <1>6, <1>7 DEF FlowInv

Executes == Set \/ Read \/ Let \/ If \/ Other \/ Stop \/ Enter \/ Pass \/ Until \/ Point

LEMMA ExecutesStep ==
  ASSUME FlowInv, Executes
  PROVE  FlowInv'
<1>1. Kept
  BY SetKept, ReadKept, LetKept, IfKept, OtherKept, StopKept, EnterLoopKept, PassesKept, UntilKept, PointKept
     DEF Executes
<1>2. doc' = doc /\ phase' = phase /\ armed' = armed /\ later' = later /\ phase # "idle"
  BY DEF Executes, Set, Read, Let, If, Other, Stop, Enter, Pass, Until, Point, Doing
<1>3. UnarmedStaysOff'
  <2>1. CASE Set
    BY <2>1, SetStaysOff
  <2>2. CASE Read
    BY <2>2, ReadStaysOff
  <2>3. CASE ~Set /\ ~Read
    <3>1. on' = on
      BY <2>3 DEF Executes, Let, If, Other, Stop, Enter, Pass, Until, Point
    <3>. QED
      BY <1>2, <3>1 DEF FlowInv, UnarmedStaysOff
  <2>. QED
    BY <2>1, <2>2, <2>3
<1>4. TaskInv'
  BY <1>1, <1>2 DEF FlowInv, TaskInv, Kept
<1>5. CheckedInv'
  BY <1>1, <1>2 DEF FlowInv, CheckedInv, Kept
<1>6. IterationInv' /\ AcceptedFlowsRun'
  BY <1>1 DEF IterationInv, Kept
<1>. QED
  BY <1>3, <1>4, <1>5, <1>6 DEF FlowInv

LEMMA FlowInvariant == Spec => []FlowInv
<1>1. Init => FlowInv
  BY FlowInit
<1>2. FlowInv /\ [Next]_vars => FlowInv'
  <2> SUFFICES ASSUME FlowInv, [Next]_vars PROVE FlowInv'
    OBVIOUS
  <2>1. CASE Start
    BY <2>1, StartStep
  <2>2. CASE PartOver
    BY <2>2, PartOverStep
  <2>3. CASE Executes
    BY <2>3, ExecutesStep
  <2>4. CASE UNCHANGED vars
    BY <2>4 DEF vars, FlowInv, TaskInv, CheckedInv, IterationInv, AcceptedFlowsRun, SetBefore, UnarmedStaysOff
  <2>. QED
    BY <2>1, <2>2, <2>3, <2>4 DEF Next, Executes
<1>. QED
  BY <1>1, <1>2, PTL DEF Spec

\* A flow the validator accepted never fails for what the validator looks at
\* (AcceptedFlowsRun), for every document: however its loops, branches and sweeps are nested,
\* and wherever it fails or stops.
THEOREM AcceptedFlowsAlwaysRun == Spec => []AcceptedFlowsRun
BY FlowInvariant, PTL DEF FlowInv

\* A run that was not armed switches nothing on that the list for arming could name
\* (UnarmedStaysOff), for every bench and every document.
THEOREM UnarmedAlwaysStaysOff == Spec => []UnarmedStaysOff
BY FlowInvariant, PTL DEF FlowInv
=============================================================================
