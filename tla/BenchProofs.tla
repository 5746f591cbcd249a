---------------------------- MODULE BenchProofs ----------------------------
(***************************************************************************)
(* Proofs about the configuration in Bench, for every set of devices,      *)
(* requests, flows and lists of devices, and every bound.                  *)
(*                                                                         *)
(* The properties are about what several requests leave behind as long as  *)
(* no client has hung up.  CalmInv says what is then true: a device has    *)
(* one thread at most (CalmTypes), only the request that holds config_lock *)
(* is in progress (LockInv), how far the file and the threads are apart at *)
(* each of its steps (WorkInv), that what it may start under a run counts  *)
(* as edited (EditInv), and the property of the run (RunInv).  PortTypes   *)
(* says of every copy of the SCPI settings that its ports differ, also     *)
(* after a client has hung up; SyncInv at which step of a sync a request   *)
(* is (TaskInv, OpInv), and what is then assigned and listened for         *)
(* (AppliedInv).                                                           *)
(***************************************************************************)
EXTENDS Bench, FiniteSetTheorems, WellFoundedInduction, TLAPS

-----------------------------------------------------------------------------
(* Numbers. *)

\* A set of numbers has a least one, if any.
LEMMA Least ==
  ASSUME NEW T \in SUBSET Nat, T # {}
  PROVE  \E m \in T : \A x \in T : m <= x
<1>1. PICK m \in T : \A x \in T : <<x, m>> \notin OpToRel(<, Nat)
  BY NatLessThanWellFounded, WFMin
<1>2. \A x \in T : ~(x < m)
  BY <1>1, Zenon DEF OpToRel
<1>. QED
  BY <1>2

\* A set that has 0, and with every number the next one, has them all.
LEMMA Induction ==
  ASSUME NEW S, 0 \in S, \A n \in Nat : n \in S => n + 1 \in S
  PROVE  \A n \in Nat : n \in S
<1>1. ASSUME Nat \ S # {} PROVE FALSE
  <2>1. PICK m \in Nat \ S : \A x \in Nat \ S : m <= x
    BY <1>1, Least
  <2>. QED
    BY <2>1
<1>. QED
  BY <1>1

-----------------------------------------------------------------------------
AnyEntry == {NoEntry} \cup {<<e>> : e \in Entry}
RunEntry == {NoEntry} \cup {<<e>> : e \in {x \in Entry : x.starts}}
Config == [Ids -> AnyEntry]
AnyRequest == [op : {"none", "add", "update", "delete", "replace", "park"},
               id : Ids \cup {Nobody}, step : Steps, new : Config, left : [Ids -> {0, 1}]]

\* Types that hold even after a client has hung up.
Types ==
  /\ hangUps \in Nat /\ lock \in Handlers \cup {Nobody}
  /\ run \in [state : {"none", "checked", "active"}, uses : SUBSET Ids]

\* No device runs twice.
CalmTypes ==
  /\ file \in Config /\ managed \in [Ids -> RunEntry]
  /\ req \in [Handlers -> AnyRequest]

LockInv == \A h \in Handlers : IF lock = h THEN req[h].step # "idle" ELSE req[h] = Resting

\* If i runs, it runs as it is saved.
AsSaved(i) == managed[i] # NoEntry => file[i] = managed[i]

\* What h, in progress alone, has done so far.
Working(h) == req[h].step \in {"begin", "stop", "start"} =>
  /\ req[h].op \in {"add", "update", "delete", "replace"} /\ Affected(h) \subseteq Ids
  /\ \A i \in Ids : req[h].new[i] \in {NoEntry, file[i]}
  /\ \A i \in Ids \ Affected(h) : AsSaved(i)

Stopping(h) ==
  /\ req[h].step = "begin" => req[h].op = "replace"
  /\ req[h].step = "stop" =>
       \A i \in Affected(h) : managed[i] # NoEntry => req[h].left[i] = 1

Starting(h) == req[h].step = "start" =>
  /\ req[h].op # "delete"
  /\ \A i \in Affected(h) :
       managed[i] # NoEntry => req[h].new[i] = NoEntry /\ file[i] = managed[i]

Syncing(h) == req[h].step \in {"tell", "sync", "syncing"} => \A i \in Ids : AsSaved(i)

\* The device that is marked was saved as it was.
Marking(h) == req[h].step = "save" =>
  LET i == req[h].id IN
  /\ i \in Ids /\ managed[i] # NoEntry /\ req[h].new[i] # NoEntry /\ file[i] = req[h].new[i]
  /\ managed[i][1].starts = req[h].new[i][1].starts
  /\ \A j \in Ids \ {i} : AsSaved(j)

Work(h) == Working(h) /\ Stopping(h) /\ Starting(h) /\ Syncing(h) /\ Marking(h)

WorkInv == IF lock = Nobody THEN \A i \in Ids : AsSaved(i) ELSE Work(lock)

EditInv ==
  run.state # "none" =>
    \A h \in Handlers : req[h].op \in {"add", "update", "replace"} => Affected(h) \subseteq edited

RunInv == Active => \A i \in run.uses \ edited : ~IsParked(i)

CalmInv == CalmTypes /\ LockInv /\ WorkInv /\ EditInv /\ RunInv

IInv == Types /\ (hangUps = 0 => CalmInv)

-----------------------------------------------------------------------------
(* Facts about entries and requests. *)

\* A list of one entry.
LEMMA OneEntry ==
  ASSUME NEW e, NEW f
  PROVE  /\ <<e>> # <<>> /\ <<e>>[1] = e /\ Tail(<<e>>) = <<>> /\ Append(<<>>, e) = <<e>>
         /\ <<f>> \o Tail(<<e>>) = <<f>> /\ Len(<<e>>) = 1 /\ Len(<<>>) = 0
  OBVIOUS

\* What an entry can be.
LEMMA EntryCases ==
  ASSUME NEW x \in AnyEntry, x # NoEntry
  PROVE  /\ x = <<x[1]>> /\ x[1] \in Entry /\ Len(x) = 1 /\ Tail(x) = NoEntry
         /\ \A e : <<e>> \o Tail(x) = <<e>>
<1>1. PICK e \in Entry : x = <<e>>
  BY DEF AnyEntry
<1>2. x[1] = e /\ Len(x) = 1 /\ Tail(x) = NoEntry
  BY <1>1, OneEntry DEF NoEntry
<1>3. \A f : <<f>> \o Tail(x) = <<f>>
  BY <1>1, OneEntry
<1> QED
  BY <1>1, <1>2, <1>3

\* What runs can be started.
LEMMA RunEntryCases ==
  ASSUME NEW x \in RunEntry
  PROVE  x \in AnyEntry /\ (x # NoEntry => x = <<x[1]>> /\ x[1] \in Entry /\ x[1].starts)
  BY OneEntry DEF RunEntry, AnyEntry, NoEntry

\* Marking an entry changes its mark only.
LEMMA MarkEntry ==
  ASSUME NEW e \in Entry, NEW p \in BOOLEAN
  PROVE  /\ [<<e>> EXCEPT ![1].parked = p] = <<[parked |-> p, starts |-> e.starts]>>
         /\ e.starts => [parked |-> p, starts |-> e.starts] \in Entry
  BY DEF Entry

\* A request at rest is one.
LEMMA RestingType ==
  /\ Resting \in AnyRequest /\ Resting.step = "idle" /\ Resting.op = "none"
  /\ NoEntries \in Config
  BY DEF Resting, AnyRequest, NoEntries, Config, AnyEntry, Steps

\* A request in progress is the only one.
LEMMA Alone ==
  ASSUME Types, CalmInv, NEW h \in Handlers, req[h].step # "idle"
  PROVE  /\ lock = h /\ Work(h) /\ h # Nobody /\ req[h] \in AnyRequest
         /\ \A g \in Handlers \ {h} : req[g] = Resting
         /\ \A i \in Ids : managed[i] \in RunEntry /\ file[i] \in AnyEntry
                           /\ req[h].new[i] \in AnyEntry /\ req[h].left[i] \in {0, 1}
<1>1. h # Nobody
  BY TasksAssumption
<1>2. lock = h
  BY RestingType DEF CalmInv, LockInv
<1>3. req[h] \in AnyRequest
  BY DEF CalmInv, CalmTypes
<1> QED
  BY <1>1, <1>2, <1>3 DEF CalmInv, CalmTypes, LockInv, WorkInv, AnyRequest, Config

\* Before a request every device that runs is saved as it runs.
LEMMA Before ==
  ASSUME Types, CalmInv, lock = Nobody
  PROVE  /\ \A g \in Handlers : req[g] = Resting
         /\ \A i \in Ids : AsSaved(i) /\ managed[i] \in RunEntry /\ file[i] \in AnyEntry
  BY TasksAssumption DEF CalmInv, CalmTypes, LockInv, WorkInv, Config

\* What a step of the request h, that goes on, has to show.
LEMMA GoesOn ==
  ASSUME Types, CalmInv, NEW h \in Handlers, lock' = h, req' \in [Handlers -> AnyRequest],
         req'[h].step # "idle", \A g \in Handlers \ {h} : req[g] = Resting /\ req'[g] = Resting,
         file' \in Config, managed' \in [Ids -> RunEntry], run' = run,
         edited \cap Ids \subseteq edited',
         run.state # "none" /\ req'[h].op \in {"add", "update", "replace"} =>
           (Affected(h) \subseteq edited)',
         Active => \A i \in run.uses \ edited' : IsParked(i)' => IsParked(i),
         Work(h)'
  PROVE  CalmInv'
<1>1. CalmTypes'
  BY DEF CalmTypes
<1>2. LockInv' /\ WorkInv'
  BY TasksAssumption DEF LockInv, WorkInv
<1>3. EditInv'
  BY RestingType DEF EditInv
<1>4. RunInv'
  BY DEF RunInv, CalmInv, Active, Types
<1> QED
  BY <1>1, <1>2, <1>3, <1>4 DEF CalmInv

\* What the last step of the request h has to show.
LEMMA Ends ==
  ASSUME Types, CalmInv, NEW h \in Handlers, req[h].step # "idle", Release(h),
         file' \in Config, managed' \in [Ids -> RunEntry], run' = run,
         edited \cap Ids \subseteq edited',
         Active => \A i \in run.uses \ edited' : IsParked(i)' => IsParked(i),
         \A i \in Ids : AsSaved(i)'
  PROVE  CalmInv'
<1>1. /\ lock' = Nobody /\ req' = [req EXCEPT ![h] = Resting]
      /\ \A g \in Handlers : req'[g] = Resting
  BY Alone DEF Release, CalmInv, CalmTypes
<1>2. CalmTypes'
  BY <1>1, RestingType DEF CalmTypes, CalmInv
<1>3. LockInv' /\ WorkInv'
  BY <1>1, TasksAssumption DEF LockInv, WorkInv
<1>4. EditInv'
  BY <1>1, RestingType DEF EditInv
<1>5. RunInv'
  BY DEF RunInv, CalmInv, Active, Types
<1> QED
  BY <1>2, <1>3, <1>4, <1>5 DEF CalmInv

-----------------------------------------------------------------------------
(* A request begins. *)

Edits == {"add", "update", "delete", "replace"}

\* A request that is saved before anything is stopped or started.
LEMMA Saves ==
  ASSUME Types, CalmInv, NEW h \in Handlers, NEW op \in Edits, NEW id \in Ids \cup {Nobody},
         NEW step \in {"begin", "stop", "start"}, NEW new \in Config,
         SaveThen(h, op, id, step, new), edited \cap Ids \subseteq edited',
         step = "begin" <=> op = "replace",
         op # "replace" => id \in Ids /\ \A i \in Ids \ {id} : new[i] = managed[i],
         step = "start" => op = "add" /\ managed[id] = NoEntry,
         op \in {"add", "update"} => id \in edited',
         op = "replace" => Ids \subseteq edited'
  PROVE  CalmInv'
<1> DEFINE r == [op |-> op, id |-> id, step |-> step, new |-> new,
                 left |-> [i \in Ids |-> IF i = id THEN 1 ELSE 0]]
<1>1. /\ r \in AnyRequest /\ r.op = op /\ r.id = id /\ r.step = step /\ r.new = new
      /\ \A i \in Ids : r.left[i] = IF i = id THEN 1 ELSE 0
  BY DEF AnyRequest, Steps, Edits
<1> HIDE DEF r
<1>2. /\ lock = Nobody /\ lock' = h /\ file' = new /\ managed' = managed /\ run' = run
      /\ req' = [req EXCEPT ![h] = r]
  BY DEF SaveThen, Take, r
<1>3. /\ req' \in [Handlers -> AnyRequest] /\ req'[h] = r
      /\ \A g \in Handlers \ {h} : req[g] = Resting /\ req'[g] = Resting
  BY <1>1, <1>2, Before DEF CalmInv, CalmTypes
<1>4. /\ op = "replace" => Affected(h)' = Ids
      /\ op # "replace" => Affected(h)' = {id}
  BY <1>1, <1>3 DEF Affected
<1>5. \A i \in Ids : IsParked(i)' = IsParked(i)
  BY <1>2 DEF IsParked
<1>6. Work(h)'
  <2>1. Working(h)'
    BY <1>1, <1>2, <1>3, <1>4 DEF Working, AsSaved, Edits
  <2>2. Stopping(h)' /\ Starting(h)'
    BY <1>1, <1>2, <1>3, <1>4 DEF Stopping, Starting
  <2>3. Syncing(h)' /\ Marking(h)'
    BY <1>1, <1>3 DEF Syncing, Marking
  <2> QED
    BY <2>1, <2>2, <2>3 DEF Work
<1>7. managed \in [Ids -> RunEntry]
  BY DEF CalmInv, CalmTypes
<1>8. req'[h].step # "idle"
  BY <1>1, <1>3
<1>9. req'[h].op \in {"add", "update", "replace"} => (Affected(h) \subseteq edited)'
  BY <1>1, <1>3, <1>4
<1>10. Active => \A i \in run.uses \ edited' : IsParked(i)' => IsParked(i)
  BY <1>5 DEF Types
<1> QED
  BY <1>2, <1>3, <1>6, <1>7, <1>8, <1>9, <1>10, GoesOn

\* What the file says of the devices that run.
LEMMA EntriesSaved ==
  ASSUME CalmInv, NEW i \in Ids, NEW x \in AnyEntry
  PROVE  /\ Entries \in Config /\ [Entries EXCEPT ![i] = x] \in Config
         /\ \A j \in Ids : Entries[j] = managed[j]
         /\ \A j \in Ids \ {i} : [Entries EXCEPT ![i] = x][j] = managed[j]
<1>1. \A j \in Ids : managed[j] \in AnyEntry
  BY RunEntryCases DEF CalmInv, CalmTypes
<1> QED
  BY <1>1 DEF Entries, Config

LEMMA AddCalm ==
  ASSUME Types, CalmInv, NEW h \in Handlers, NEW i \in Ids, NEW e \in Entry, Add(h, i, e)
  PROVE  CalmInv'
<1>1. <<e>> \in AnyEntry
  BY DEF AnyEntry
<1>2. managed[i] = NoEntry
  BY DEF Add, Running, NoEntry
<1> QED
  BY <1>1, <1>2, EntriesSaved, Saves DEF Add, Edits

LEMMA UpdateCalm ==
  ASSUME Types, CalmInv, NEW h \in Handlers, NEW i \in Ids, NEW e \in Entry, Update(h, i, e)
  PROVE  CalmInv'
<1>1. managed[i] \in AnyEntry /\ managed[i] # NoEntry /\ Entries[i] = managed[i]
  BY RunEntryCases DEF Update, Running, CalmInv, CalmTypes, NoEntry, Entries
<1>2. [Entries EXCEPT ![i] = <<e>> \o Tail(@)] = [Entries EXCEPT ![i] = <<e>>]
  BY <1>1, EntryCases
<1>3. <<e>> \in AnyEntry
  BY DEF AnyEntry
<1> QED
  BY <1>2, <1>3, EntriesSaved, Saves DEF Update, Edits

LEMMA DeleteCalm ==
  ASSUME Types, CalmInv, NEW h \in Handlers, NEW i \in Ids, Delete(h, i)
  PROVE  CalmInv'
<1>1. NoEntry \in AnyEntry
  BY DEF AnyEntry
<1> QED
  BY <1>1, EntriesSaved, Saves DEF Delete, Edits

LEMMA ReplaceCalm ==
  ASSUME Types, CalmInv, NEW h \in Handlers, NEW new \in Lists, Replace(h, new)
  PROVE  CalmInv'
<1>1. new \in Config
  BY ListsAssumption DEF Config, AnyEntry
<1> QED
  BY <1>1, Saves DEF Replace, Edits

\* A device is marked in place, before that is saved.
LEMMA MarkCalm ==
  ASSUME Types, CalmInv, NEW h \in Handlers, NEW i \in Ids, NEW parked \in BOOLEAN,
         Mark(h, i, parked)
  PROVE  CalmInv'
<1> DEFINE r == [op |-> "park", id |-> i, step |-> "save", new |-> Entries,
                 left |-> [j \in Ids |-> IF j = i THEN 1 ELSE 0]]
<1>1. /\ r \in AnyRequest /\ r.op = "park" /\ r.id = i /\ r.step = "save"
      /\ \A j \in Ids : r.new[j] = managed[j]
  BY EntriesSaved, RestingType DEF AnyRequest, Steps, AnyEntry
<1> HIDE DEF r
<1>2. /\ lock = Nobody /\ lock' = h /\ file' = file /\ run' = run /\ edited' = edited
      /\ managed' = [managed EXCEPT ![i][1].parked = parked] /\ req' = [req EXCEPT ![h] = r]
  BY DEF Mark, Take, r, runVars
<1>3. /\ req' \in [Handlers -> AnyRequest] /\ req'[h] = r
      /\ \A g \in Handlers \ {h} : req[g] = Resting /\ req'[g] = Resting
  BY <1>1, <1>2, Before DEF CalmInv, CalmTypes
<1>4. managed \in [Ids -> RunEntry] /\ managed[i] # NoEntry
  BY DEF Mark, Running, CalmInv, CalmTypes, NoEntry
<1>5. PICK e \in Entry : managed[i] = <<e>> /\ e.starts
  BY <1>4, RunEntryCases
<1> DEFINE f == [parked |-> parked, starts |-> e.starts]
<1>6. f \in Entry /\ f.starts /\ f.parked = parked
  BY <1>5, MarkEntry DEF Entry
<1>7. managed' = [managed EXCEPT ![i] = <<f>>]
  BY <1>2, <1>4, <1>5, MarkEntry
<1> HIDE DEF f
<1>8. managed' \in [Ids -> RunEntry] /\ managed'[i] = <<f>>
      /\ \A j \in Ids \ {i} : managed'[j] = managed[j]
  BY <1>4, <1>6, <1>7 DEF RunEntry
<1>9. Work(h)'
  <2>1. \A j \in Ids \ {i} : AsSaved(j)'
    BY <1>2, <1>8, Before DEF AsSaved
  <2>2. file[i] = managed[i] /\ managed'[i] # NoEntry /\ managed'[i][1].starts = managed[i][1].starts
    BY <1>2, <1>4, <1>5, <1>6, <1>8, Before, OneEntry DEF AsSaved, NoEntry, f
  <2>3. Marking(h)'
    BY <1>1, <1>2, <1>3, <1>4, <2>1, <2>2 DEF Marking
  <2> QED
    BY <1>1, <1>3, <2>3 DEF Work, Working, Stopping, Starting, Syncing
<1>10. Active => \A j \in run.uses \ edited' : IsParked(j)' => IsParked(j)
  <2> SUFFICES ASSUME Active, NEW j \in run.uses, IsParked(j)' PROVE IsParked(j)
    OBVIOUS
  <2>1. CASE j = i
    BY <2>1, <1>6, <1>8, OneEntry DEF IsParked, Mark, MayPark
  <2>2. CASE j # i
    BY <2>2, <1>8 DEF IsParked, Types
  <2> QED
    BY <2>1, <2>2
<1>11. req'[h].step # "idle" /\ req'[h].op \notin {"add", "update", "replace"}
  BY <1>1, <1>3
<1>12. file' \in Config
  BY <1>2 DEF CalmInv, CalmTypes
<1> QED
  BY <1>2, <1>3, <1>8, <1>9, <1>10, <1>11, <1>12, GoesOn

-----------------------------------------------------------------------------
(* A request goes on. *)

\* What is kept by a step of h that changes its request and the threads only.
LEMMA Continues ==
  ASSUME Types, CalmInv, NEW h \in Handlers, req[h].step # "idle", NEW r \in AnyRequest,
         req' = [req EXCEPT ![h] = r], r.step # "idle", r.op = req[h].op, r.id = req[h].id,
         lock' = lock, file' = file, run' = run, edited' = edited,
         managed' \in [Ids -> RunEntry],
         Active => \A i \in run.uses \ edited : IsParked(i)' => IsParked(i), Work(h)'
  PROVE  CalmInv'
<1>1. /\ req' \in [Handlers -> AnyRequest] /\ req'[h] = r /\ lock' = h
      /\ \A g \in Handlers \ {h} : req[g] = Resting /\ req'[g] = Resting
  BY Alone DEF CalmInv, CalmTypes
<1>2. Affected(h)' = Affected(h)
  BY <1>1 DEF Affected
<1>3. run.state # "none" /\ req'[h].op \in {"add", "update", "replace"} =>
        (Affected(h) \subseteq edited)'
  BY <1>1, <1>2 DEF CalmInv, EditInv
<1>4. file' \in Config
  BY DEF CalmInv, CalmTypes
<1> QED
  BY <1>1, <1>3, <1>4, GoesOn

LEMMA BeginStopsCalm ==
  ASSUME Types, CalmInv, NEW h \in Handlers, BeginStops(h)
  PROVE  CalmInv'
<1> DEFINE counts == [i \in Ids |-> Len(managed[i])]
           r == [req[h] EXCEPT !.step = "stop", !.left = counts]
<1>1. req[h].step # "idle"
  BY DEF BeginStops
<1>2. \A i \in Ids : managed[i] # NoEntry => counts[i] = 1
  BY <1>1, Alone, RunEntryCases, EntryCases
<1>3. counts \in [Ids -> {0, 1}]
  BY <1>1, Alone, RunEntryCases, EntryCases, OneEntry DEF NoEntry
<1> HIDE DEF counts
<1>4. /\ r \in AnyRequest /\ r.op = req[h].op /\ r.id = req[h].id /\ r.step = "stop"
      /\ r.new = req[h].new /\ r.left = counts
  BY <1>1, <1>3, Alone DEF AnyRequest, Steps
<1>5. req' = [req EXCEPT ![h] = r]
  BY <1>1, Alone DEF BeginStops, CalmInv, CalmTypes, counts
<1> HIDE DEF r
<1>6. file' = file /\ managed' = managed /\ lock' = lock /\ run' = run /\ edited' = edited
  BY DEF BeginStops, runVars
<1>7. req'[h] = r
  BY <1>5 DEF CalmInv, CalmTypes
<1>8. Affected(h)' = Affected(h) /\ Affected(h) \subseteq Ids
  BY <1>1, <1>4, <1>7, Alone DEF Affected, Work, Working, BeginStops
<1>9. Work(h)'
  <2>1. req[h].step = "begin" /\ Working(h)
    BY <1>1, Alone DEF Work, BeginStops
  <2>2. Working(h)'
    BY <2>1, <1>4, <1>6, <1>7, <1>8 DEF Working, AsSaved
  <2>3. Stopping(h)'
    BY <1>2, <1>4, <1>6, <1>7, <1>8 DEF Stopping
  <2> QED
    BY <2>2, <2>3, <1>4, <1>7 DEF Work, Starting, Syncing, Marking
<1>10. managed' \in [Ids -> RunEntry] /\ \A i : IsParked(i)' = IsParked(i)
  BY <1>6 DEF CalmInv, CalmTypes, IsParked
<1> QED
  BY <1>1, <1>4, <1>5, <1>6, <1>9, <1>10, Continues

LEMMA StopOneCalm ==
  ASSUME Types, CalmInv, NEW h \in Handlers, StopOne(h)
  PROVE  CalmInv'
<1>1. req[h].step = "stop"
  BY DEF StopOne
<1>2. PICK i \in Ids :
        /\ req[h].left[i] > 0
        /\ managed' = IF managed[i] = <<>> THEN managed ELSE [managed EXCEPT ![i] = Tail(@)]
        /\ req' = [req EXCEPT ![h].left[i] = @ - 1]
  BY DEF StopOne
<1>3. /\ managed' \in [Ids -> RunEntry] /\ managed'[i] = NoEntry
      /\ \A j \in Ids \ {i} : managed'[j] = managed[j]
  <2>1. managed[i] # NoEntry => Tail(managed[i]) = NoEntry
    BY <1>1, Alone, RunEntryCases, EntryCases
  <2>2. managed \in [Ids -> RunEntry] /\ NoEntry \in RunEntry
    BY DEF CalmInv, CalmTypes, RunEntry
  <2> QED
    BY <1>2, <2>1, <2>2 DEF NoEntry
<1> DEFINE less == [req[h].left EXCEPT ![i] = 0]
           r == [req[h] EXCEPT !.left = less]
<1>4. /\ req[h].left \in [Ids -> {0, 1}] /\ req[h].left[i] - 1 = 0
      /\ less \in [Ids -> {0, 1}] /\ \A j \in Ids \ {i} : less[j] = req[h].left[j]
  BY <1>1, <1>2, Alone DEF AnyRequest
<1>5. req' = [req EXCEPT ![h] = r]
  BY <1>1, <1>2, <1>4, Alone DEF CalmInv, CalmTypes, AnyRequest
<1> HIDE DEF less
<1>6. /\ r \in AnyRequest /\ r.op = req[h].op /\ r.id = req[h].id /\ r.step = "stop"
      /\ r.new = req[h].new /\ r.left = less
  BY <1>1, <1>4, Alone DEF AnyRequest, Steps
<1> HIDE DEF r
<1>7. file' = file /\ lock' = lock /\ run' = run /\ edited' = edited
  BY DEF StopOne, runVars
<1>8. req'[h] = r
  BY <1>5 DEF CalmInv, CalmTypes
<1>9. Affected(h)' = Affected(h) /\ Affected(h) \subseteq Ids
  BY <1>1, <1>6, <1>8, Alone DEF Affected, Work, Working
<1>10. Work(h)'
  BY <1>1, <1>3, <1>4, <1>6, <1>7, <1>8, <1>9, Alone
     DEF Work, Working, Stopping, Starting, Syncing, Marking, AsSaved
<1>11. Active => \A j \in run.uses \ edited : IsParked(j)' => IsParked(j)
  BY <1>3 DEF IsParked, Types, NoEntry
<1> QED
  BY <1>1, <1>3, <1>5, <1>6, <1>7, <1>10, <1>11, Continues

LEMMA StopsDoneCalm ==
  ASSUME Types, CalmInv, NEW h \in Handlers, StopsDone(h)
  PROVE  CalmInv'
<1>1. req[h].step = "stop"
  BY DEF StopsDone
<1> DEFINE r == [req[h] EXCEPT !.step = AfterStop(h)]
<1>2. /\ AfterStop(h) \in {"sync", "start"} /\ (AfterStop(h) = "start" <=> req[h].op # "delete")
      /\ \A i \in Affected(h) : i \in Ids /\ managed[i] = NoEntry
  BY <1>1, Alone DEF AfterStop, StopsDone, Work, Working, Stopping
<1>3. /\ r \in AnyRequest /\ r.op = req[h].op /\ r.id = req[h].id /\ r.step = AfterStop(h)
      /\ r.new = req[h].new
  BY <1>1, <1>2, Alone DEF AnyRequest, Steps
<1>4. req' = [req EXCEPT ![h] = r]
  BY <1>1, Alone DEF StopsDone, CalmInv, CalmTypes
<1> HIDE DEF r
<1>5. file' = file /\ managed' = managed /\ lock' = lock /\ run' = run /\ edited' = edited
  BY DEF StopsDone, runVars
<1>6. req'[h] = r
  BY <1>4 DEF CalmInv, CalmTypes
<1>7. Affected(h)' = Affected(h)
  BY <1>3, <1>6 DEF Affected
<1>8. Work(h)'
  BY <1>1, <1>2, <1>3, <1>5, <1>6, <1>7, Alone
     DEF Work, Working, Stopping, Starting, Syncing, Marking, AsSaved
<1>9. managed' \in [Ids -> RunEntry] /\ \A i : IsParked(i)' = IsParked(i)
  BY <1>5 DEF CalmInv, CalmTypes, IsParked
<1> QED
  BY <1>1, <1>2, <1>3, <1>4, <1>5, <1>8, <1>9, Continues

LEMMA StartOneCalm ==
  ASSUME Types, CalmInv, NEW h \in Handlers, StartOne(h)
  PROVE  CalmInv'
<1>1. req[h].step = "start"
  BY DEF StartOne
<1>2. file' = file /\ lock' = lock /\ run' = run /\ edited' = edited
  BY DEF StartOne, runVars
<1>3. /\ lock = h /\ Working(h) /\ Starting(h) /\ req[h] \in AnyRequest
      /\ Affected(h) \subseteq Ids
  BY <1>1, Alone DEF Work, Working
<1>4. PICK i \in ToStart(h) :
        LET e == req[h].new[i][1] IN
        IF e.starts
        THEN /\ managed' = [managed EXCEPT ![i] = Append(@, e)]
             /\ req' = [req EXCEPT ![h].new[i] = NoEntry]
        ELSE /\ req' = [req EXCEPT ![h].new = NoEntries]
             /\ UNCHANGED managed
  BY DEF StartOne
<1>5. i \in Ids /\ i \in Affected(h) /\ req[h].new[i] # NoEntry /\ managed[i] = NoEntry
      /\ req[h].new[i] = file[i]
  BY <1>1, <1>3, <1>4 DEF ToStart, Starting, Working
<1>6. PICK e \in Entry : file[i] = <<e>>
  BY <1>1, <1>5, Alone, EntryCases
<1>7. req[h].new[i][1] = e
  BY <1>5, <1>6, OneEntry
<1>8. CASE e.starts
  <2> DEFINE rest == [req[h].new EXCEPT ![i] = NoEntry]
             r == [req[h] EXCEPT !.new = rest]
  <2>1. /\ managed' \in [Ids -> RunEntry] /\ managed'[i] = <<e>>
        /\ \A j \in Ids \ {i} : managed'[j] = managed[j]
    <3>1. managed' = [managed EXCEPT ![i] = <<e>>]
      BY <1>4, <1>5, <1>7, <1>8, OneEntry DEF CalmInv, CalmTypes, NoEntry
    <3> QED
      BY <3>1, <1>5, <1>8 DEF RunEntry, CalmInv, CalmTypes
  <2>2. /\ rest \in Config /\ rest[i] = NoEntry
        /\ \A j \in Ids \ {i} : rest[j] = req[h].new[j]
    BY <1>3, <1>5 DEF AnyRequest, Config, AnyEntry
  <2>3. req' = [req EXCEPT ![h] = r]
    BY <1>3, <1>4, <1>7, <1>8 DEF CalmInv, CalmTypes, AnyRequest
  <2> HIDE DEF rest
  <2>4. /\ r \in AnyRequest /\ r.op = req[h].op /\ r.id = req[h].id /\ r.step = "start"
        /\ r.new = rest
    BY <1>1, <1>3, <2>2 DEF AnyRequest
  <2> HIDE DEF r
  <2>5. req'[h] = r
    BY <2>3 DEF CalmInv, CalmTypes
  <2>6. Affected(h)' = Affected(h)
    BY <2>4, <2>5 DEF Affected
  <2>7. Working(h)'
    BY <1>1, <1>2, <1>3, <1>5, <2>1, <2>2, <2>4, <2>5, <2>6 DEF Working, AsSaved
  <2>8. Starting(h)'
    BY <1>1, <1>2, <1>3, <1>6, <2>1, <2>2, <2>4, <2>5, <2>6 DEF Starting
  <2>9. Work(h)'
    BY <2>4, <2>5, <2>7, <2>8 DEF Work, Stopping, Syncing, Marking
  <2>10. Active => \A j \in run.uses \ edited : IsParked(j)' => IsParked(j)
    <3>1. Active => i \in edited
      BY <1>1, <1>3, <1>5 DEF CalmInv, EditInv, Active, Working, Starting
    <3> QED
      BY <3>1, <2>1 DEF IsParked, Types
  <2> QED
    BY <1>1, <1>2, <2>1, <2>3, <2>4, <2>9, <2>10, Continues
<1>9. CASE ~e.starts
  <2> DEFINE r == [req[h] EXCEPT !.new = NoEntries]
  <2>1. managed' = managed /\ req' = [req EXCEPT ![h] = r]
    BY <1>3, <1>4, <1>7, <1>9 DEF CalmInv, CalmTypes
  <2>2. /\ r \in AnyRequest /\ r.op = req[h].op /\ r.id = req[h].id /\ r.step = "start"
        /\ \A j \in Ids : r.new[j] = NoEntry
    BY <1>1, <1>3, RestingType DEF AnyRequest, NoEntries
  <2> HIDE DEF r
  <2>3. req'[h] = r
    BY <2>1 DEF CalmInv, CalmTypes
  <2>4. Affected(h)' = Affected(h)
    BY <2>2, <2>3 DEF Affected
  <2>5. Working(h)' /\ Starting(h)'
    BY <1>1, <1>2, <1>3, <2>1, <2>2, <2>3, <2>4 DEF Working, Starting, AsSaved
  <2>6. Work(h)'
    BY <2>2, <2>3, <2>5 DEF Work, Stopping, Syncing, Marking
  <2>7. managed' \in [Ids -> RunEntry] /\ \A j : IsParked(j)' = IsParked(j)
    BY <2>1 DEF CalmInv, CalmTypes, IsParked
  <2> QED
    BY <1>1, <1>2, <2>1, <2>2, <2>6, <2>7, Continues
<1> QED
  BY <1>8, <1>9

\* A step of h after which every device that runs is saved as it runs.
LEMMA ToSync ==
  ASSUME Types, CalmInv, NEW h \in Handlers, req[h].step # "idle",
         NEW step \in {"sync", "syncing"}, req' = [req EXCEPT ![h].step = step],
         file' = file, managed' = managed, lock' = lock, run' = run, edited' = edited,
         \A i \in Ids : AsSaved(i)
  PROVE  CalmInv'
<1> DEFINE r == [req[h] EXCEPT !.step = step]
<1>1. r \in AnyRequest /\ r.op = req[h].op /\ r.id = req[h].id /\ r.step = step
  BY Alone DEF AnyRequest, Steps
<1>2. req' = [req EXCEPT ![h] = r]
  BY DEF CalmInv, CalmTypes
<1> HIDE DEF r
<1>3. req'[h] = r
  BY <1>2 DEF CalmInv, CalmTypes
<1>4. Work(h)'
  BY <1>1, <1>3 DEF Work, Working, Stopping, Starting, Syncing, Marking, AsSaved
<1>5. managed' \in [Ids -> RunEntry] /\ \A i : IsParked(i)' = IsParked(i)
  BY DEF CalmInv, CalmTypes, IsParked
<1> QED
  BY <1>1, <1>2, <1>4, <1>5, Continues

\* The end of a request that leaves the configuration as it is.
LEMMA EndsSame ==
  ASSUME Types, CalmInv, NEW h \in Handlers, req[h].step # "idle", Release(h),
         file' = file, managed' = managed, run' = run, edited' = edited,
         \A i \in Ids : AsSaved(i)
  PROVE  CalmInv'
<1>1. /\ file' \in Config /\ managed' \in [Ids -> RunEntry]
      /\ \A i : IsParked(i)' = IsParked(i) /\ AsSaved(i)' = AsSaved(i)
  BY DEF CalmInv, CalmTypes, IsParked, AsSaved
<1> QED
  BY <1>1, Ends

LEMMA StartsDoneCalm ==
  ASSUME Types, CalmInv, NEW h \in Handlers, StartsDone(h)
  PROVE  CalmInv'
<1>1. req[h].step = "start" /\ lock = h /\ Working(h) /\ Starting(h)
  BY Alone DEF StartsDone, Work
<1>2. \A i \in Ids : AsSaved(i)
  BY <1>1 DEF Working, Starting, AsSaved
<1>3. file' = file /\ managed' = managed /\ run' = run /\ edited' = edited
  BY DEF StartsDone, runVars
<1>4. CASE Release(h)
  BY <1>1, <1>2, <1>3, <1>4, EndsSame
<1>5. CASE req' = [req EXCEPT ![h].step = "sync"] /\ lock' = lock
  BY <1>1, <1>2, <1>3, <1>5, ToSync
<1> QED
  BY <1>4, <1>5 DEF StartsDone

LEMMA HandlerSyncCalm ==
  ASSUME Types, CalmInv, NEW h \in Handlers, HandlerSync(h) \/ HandlerSyncs(h)
  PROVE  CalmInv'
<1>1. req[h].step \in {"sync", "syncing"}
  BY DEF HandlerSync, HandlerSyncs
<1>2. lock = h /\ \A i \in Ids : AsSaved(i)
  BY <1>1, Alone DEF Work, Syncing
<1>3. file' = file /\ managed' = managed /\ run' = run /\ edited' = edited
  BY DEF HandlerSync, HandlerSyncs, runVars
<1>4. CASE HandlerSync(h)
  BY <1>1, <1>2, <1>3, <1>4, ToSync DEF HandlerSync
<1>5. CASE HandlerSyncs(h) /\ req' = req /\ lock' = lock
  <2>1. req' = [req EXCEPT ![h].step = "syncing"]
    BY <1>5 DEF HandlerSyncs, CalmInv, CalmTypes, AnyRequest
  <2> QED
    BY <1>1, <1>2, <1>3, <1>5, <2>1, ToSync
<1>6. CASE Release(h)
  BY <1>1, <1>2, <1>3, <1>6, EndsSame
<1> QED
  BY <1>4, <1>5, <1>6 DEF HandlerSyncs

\* A mark is saved, or taken back as it was saved before.
LEMMA SaveMarkCalm ==
  ASSUME Types, CalmInv, NEW h \in Handlers, SaveMark(h)
  PROVE  CalmInv'
<1> DEFINE i == req[h].id
<1>1. req[h].step = "save" /\ run' = run /\ lock = h /\ Marking(h)
  BY Alone DEF SaveMark, Work
<1>2. /\ i \in Ids /\ managed[i] # NoEntry /\ req[h].new[i] # NoEntry
      /\ file[i] = req[h].new[i] /\ managed[i][1].starts = req[h].new[i][1].starts
      /\ \A j \in Ids \ {i} : AsSaved(j)
  BY <1>1 DEF Marking
<1> HIDE DEF i
<1>3. CASE /\ file' = Entries /\ UNCHANGED <<managed, lock, edited>>
           /\ req' = [req EXCEPT ![h].step = "tell"]
  <2>1. file' \in Config /\ \A j \in Ids : AsSaved(j)'
    BY <1>2, <1>3, EntriesSaved, RestingType DEF AsSaved, AnyEntry
  <2>2. managed' \in [Ids -> RunEntry] /\ \A j : IsParked(j)' = IsParked(j)
    BY <1>3 DEF CalmInv, CalmTypes, IsParked
  <2> DEFINE r == [req[h] EXCEPT !.step = "tell"]
  <2>3. /\ r \in AnyRequest /\ r.step = "tell" /\ r.op = req[h].op /\ r.id = req[h].id
        /\ req' = [req EXCEPT ![h] = r]
    BY <1>1, <1>3, Alone DEF AnyRequest, Steps, CalmInv, CalmTypes
  <2> HIDE DEF r
  <2>4. /\ req' \in [Handlers -> AnyRequest] /\ req'[h] = r
        /\ \A g \in Handlers \ {h} : req[g] = Resting /\ req'[g] = Resting
    BY <1>1, <2>3, Alone DEF CalmInv, CalmTypes
  <2>5. req'[h].step # "idle" /\ Affected(h)' = Affected(h) /\ req'[h].op = req[h].op
    BY <2>3, <2>4 DEF Affected
  <2>6. Work(h)'
    BY <2>1, <2>3, <2>4 DEF Work, Working, Stopping, Starting, Syncing, Marking
  <2>7. run.state # "none" /\ req'[h].op \in {"add", "update", "replace"} =>
          (Affected(h) \subseteq edited)'
    BY <1>3, <2>5 DEF CalmInv, EditInv
  <2> QED
    BY <1>1, <1>3, <2>1, <2>2, <2>4, <2>5, <2>6, <2>7, GoesOn
<1>4. CASE /\ file' = file /\ edited' = edited \cup {i} /\ Release(h)
           /\ managed' = [managed EXCEPT ![i][1].parked = req[h].new[i][1].parked]
  <2>1. PICK e \in Entry : managed[i] = <<e>> /\ e.starts /\ managed[i][1] = e
    BY <1>1, <1>2, Alone, RunEntryCases, OneEntry
  <2>2. PICK f \in Entry : req[h].new[i] = <<f>> /\ req[h].new[i][1] = f
    BY <1>1, <1>2, Alone, EntryCases
  <2>3. <<f>> = <<[parked |-> f.parked, starts |-> e.starts]>> /\ f.starts /\ f.parked \in BOOLEAN
    BY <1>2, <2>1, <2>2 DEF Entry
  <2>4. managed' = [managed EXCEPT ![i] = <<f>>]
    <3>1. [<<e>> EXCEPT ![1].parked = f.parked] = <<f>>
      BY <2>3, MarkEntry
    <3>2. managed' = [managed EXCEPT ![i] = [<<e>> EXCEPT ![1].parked = f.parked]]
      BY <1>4, <2>1, <2>2
    <3> QED
      BY <3>1, <3>2
  <2>5. /\ managed' \in [Ids -> RunEntry] /\ managed'[i] = file[i]
        /\ \A j \in Ids \ {i} : managed'[j] = managed[j]
    BY <1>2, <2>2, <2>3, <2>4 DEF RunEntry, CalmInv, CalmTypes
  <2>6. file' \in Config /\ \A j \in Ids : AsSaved(j)'
    BY <1>2, <1>4, <2>5 DEF AsSaved, CalmInv, CalmTypes
  <2>7. Active => \A j \in run.uses \ edited' : IsParked(j)' => IsParked(j)
    BY <1>4, <2>5 DEF IsParked, Types
  <2> QED
    BY <1>1, <1>4, <2>5, <2>6, <2>7, Ends
<1> QED
  BY <1>1, <1>2, <1>3, <1>4 DEF SaveMark, NoEntry, i

\* A thread that has been told.
LEMMA ToldCalm ==
  ASSUME Types, CalmInv, NEW h \in Handlers, Told(h)
  PROVE  CalmInv'
<1>1. req[h].step = "tell" /\ Release(h) /\ \A i \in Ids : AsSaved(i)
  BY Alone DEF Told, Work, Syncing
<1>2. file' = file /\ managed' = managed /\ run' = run /\ edited' = edited
  BY DEF Told, runVars
<1> QED
  BY <1>1, <1>2, EndsSame

-----------------------------------------------------------------------------
(* The runner, PUT /scpi and the restart. *)

\* Steps that leave the configuration alone.
LEMMA ConfigAlone ==
  ASSUME CalmInv, UNCHANGED configVars
  PROVE  CalmTypes' /\ LockInv' /\ WorkInv' /\ \A i : IsParked(i)' = IsParked(i)
  BY DEF CalmInv, configVars, CalmTypes, LockInv, WorkInv, Work, Working, Stopping, Starting,
         Syncing, Marking, AsSaved, Affected, IsParked

LEMMA RunCalm ==
  ASSUME Types, CalmInv, (\E uses \in Flows : CheckFlow(uses)) \/ StartRun \/ EndRun
  PROVE  CalmInv'
<1>1. UNCHANGED configVars
  BY DEF CheckFlow, StartRun, EndRun
<1>2. \A h : Affected(h)' = Affected(h) /\ req'[h] = req[h]
  BY <1>1 DEF Affected, configVars
<1>3. CASE \E uses \in Flows : CheckFlow(uses)
  <2>1. EditInv'
    <3> DEFINE doing == {x \in Handlers : req[x].op \in {"add", "update", "replace"}}
    <3>1. edited' = UNION {Affected(x) : x \in doing}
      BY <1>3 DEF CheckFlow
    <3> QED
      BY <1>2, <3>1 DEF EditInv
  <2>2. run'.state = "checked"
    BY <1>3 DEF CheckFlow
  <2>3. RunInv'
    BY <2>2 DEF RunInv, Active
  <2> QED
    BY <1>1, <2>1, <2>3, ConfigAlone DEF CalmInv
<1>4. CASE StartRun \/ EndRun
  <2>1. edited' = edited /\ (run'.state # "none" => run.state # "none")
    BY <1>4 DEF StartRun, EndRun, Active
  <2>2. EditInv'
    BY <1>2, <2>1 DEF EditInv, CalmInv
  <2>3. RunInv'
    <3>1. CASE run'.state = "none"
      BY <3>1 DEF RunInv, Active
    <3>2. CASE run'.state # "none"
      <4>1. run' = [run EXCEPT !.state = "active"] /\ \A i \in run.uses : ~IsParked(i)
        BY <1>4, <3>2 DEF StartRun, EndRun
      <4>2. run'.uses = run.uses
        BY <4>1 DEF Types
      <4> QED
        BY <1>1, <4>1, <4>2, ConfigAlone DEF RunInv
    <3> QED
      BY <3>1, <3>2
  <2> QED
    BY <1>1, <2>2, <2>3, ConfigAlone DEF CalmInv
<1> QED
  BY <1>3, <1>4

LEMMA AloneCalm ==
  ASSUME CalmInv, UNCHANGED <<configVars, runVars>>
  PROVE  CalmInv'
<1>1. \A h : Affected(h)' = Affected(h)
  BY DEF Affected, configVars
<1>2. EditInv' /\ RunInv'
  BY <1>1, ConfigAlone DEF CalmInv, EditInv, RunInv, Active, runVars, configVars
<1> QED
  BY <1>2, ConfigAlone DEF CalmInv

LEMMA RestartCalm ==
  ASSUME Types, CalmInv, Restart
  PROVE  CalmInv'
<1>1. /\ lock' = Nobody /\ req' = [h \in Handlers |-> Resting] /\ file' = file
      /\ run' = [state |-> "none", uses |-> {}]
      /\ managed' = [i \in Ids |-> IF \E e \in Entry : e.starts /\ file[i] = <<e>> THEN file[i]
                                  ELSE NoEntry]
  BY DEF Restart
<1>2. CalmTypes'
  <2>1. managed' \in [Ids -> RunEntry]
    BY <1>1 DEF RunEntry
  <2> QED
    BY <1>1, <2>1, RestingType DEF CalmTypes, CalmInv
<1>3. LockInv' /\ WorkInv'
  BY <1>1, TasksAssumption DEF LockInv, WorkInv, AsSaved
<1>4. EditInv' /\ RunInv'
  BY <1>1 DEF EditInv, RunInv, Active
<1> QED
  BY <1>2, <1>3, <1>4 DEF CalmInv

-----------------------------------------------------------------------------
(* The induction. *)

LEMMA InitInv == Init => IInv
<1> SUFFICES ASSUME Init PROVE IInv
  OBVIOUS
<1>1. /\ file = managed /\ lock = Nobody /\ req = [h \in Handlers |-> Resting]
      /\ run = [state |-> "none", uses |-> {}] /\ hangUps = 0
      /\ managed \in [Ids -> {NoEntry, <<[parked |-> FALSE, starts |-> TRUE]>>}]
  BY DEF Init
<1>2. managed \in [Ids -> RunEntry] /\ file \in Config
  BY <1>1 DEF RunEntry, Config, AnyEntry, Entry
<1>3. Types /\ CalmTypes
  BY <1>1, <1>2, RestingType DEF Types, CalmTypes
<1>4. LockInv /\ WorkInv /\ EditInv /\ RunInv
  BY <1>1, TasksAssumption DEF LockInv, WorkInv, AsSaved, EditInv, RunInv, Active
<1> QED
  BY <1>3, <1>4 DEF IInv, CalmInv

LEMMA TypesStep ==
  ASSUME Types, Next
  PROVE  Types' /\ (hangUps' = 0 => hangUps = 0)
<1>1. ASSUME NEW h \in Handlers, Request(h)
      PROVE  Types' /\ (hangUps' = 0 => hangUps = 0)
  <2>1. lock' \in {h, lock, Nobody} /\ run' = run /\ hangUps' \in {hangUps, hangUps + 1}
    BY <1>1 DEF Request, Add, Update, Delete, Replace, Mark, SaveThen, Take, SaveMark, BeginStops,
       Told, StopOne, StopsDone, StartOne, StartsDone, HandlerSync, HandlerSyncs, HangUp, Release,
       runVars, bounds
  <2> QED
    BY <2>1 DEF Types
<1>2. ASSUME NEW uses \in Flows, CheckFlow(uses)
      PROVE  Types' /\ hangUps' = hangUps
  BY <1>2 DEF CheckFlow, Running, Types, configVars, bounds
<1>3. ASSUME StartRun \/ EndRun
      PROVE  Types' /\ hangUps' = hangUps
  BY <1>3 DEF StartRun, EndRun, Types, configVars, bounds
<1>4. ASSUME (\E on \in BOOLEAN, base \in Bases : PutBegin(on, base)) \/ PutGoesOn
      PROVE  Types' /\ hangUps' = hangUps
  BY <1>4 DEF PutBegin, PutGoesOn, Types, configVars, runVars, bounds
<1>5. ASSUME Restart
      PROVE  Types' /\ hangUps' = hangUps
  BY <1>5 DEF Restart, Types
<1> QED
  BY <1>1, <1>2, <1>3, <1>4, <1>5 DEF Next

LEMMA CalmStep ==
  ASSUME Types, CalmInv, Next, hangUps' = 0
  PROVE  CalmInv'
<1>1. ASSUME NEW h \in Handlers, Request(h)
      PROVE  CalmInv'
  <2>1. ~HangUp(h)
    BY DEF HangUp, Types
  <2>2. CASE \E i \in Ids, e \in Entry : Add(h, i, e) \/ Update(h, i, e)
    BY <2>2, AddCalm, UpdateCalm
  <2>3. CASE \/ \E i \in Ids : Delete(h, i)
             \/ \E new \in Lists : Replace(h, new)
    BY <2>3, DeleteCalm, ReplaceCalm
  <2>4. CASE \E i \in Ids, parked \in BOOLEAN : Mark(h, i, parked)
    BY <2>4, MarkCalm
  <2>5. CASE SaveMark(h) \/ Told(h)
    BY <2>5, SaveMarkCalm, ToldCalm
  <2>6. CASE BeginStops(h) \/ StopOne(h) \/ StopsDone(h)
    BY <2>6, BeginStopsCalm, StopOneCalm, StopsDoneCalm
  <2>7. CASE StartOne(h) \/ StartsDone(h)
    BY <2>7, StartOneCalm, StartsDoneCalm
  <2>8. CASE HandlerSync(h) \/ HandlerSyncs(h)
    BY <2>8, HandlerSyncCalm
  <2> QED
    BY <1>1, <2>1, <2>2, <2>3, <2>4, <2>5, <2>6, <2>7, <2>8 DEF Request
<1>2. CASE (\E uses \in Flows : CheckFlow(uses)) \/ StartRun \/ EndRun
  BY <1>2, RunCalm
<1>3. CASE (\E on \in BOOLEAN, base \in Bases : PutBegin(on, base)) \/ PutGoesOn
  <2>1. UNCHANGED <<configVars, runVars>>
    BY <1>3 DEF PutBegin, PutGoesOn
  <2> QED
    BY <2>1, AloneCalm
<1>4. CASE Restart
  BY <1>4, RestartCalm
<1> QED
  BY <1>1, <1>2, <1>3, <1>4 DEF Next

LEMMA Step == IInv /\ [Next]_vars => IInv'
<1> SUFFICES ASSUME IInv, [Next]_vars PROVE IInv'
  OBVIOUS
<1>1. CASE Next
  BY <1>1, TypesStep, CalmStep DEF IInv
<1>2. CASE UNCHANGED vars
  <2>1. UNCHANGED <<configVars, runVars>> /\ hangUps' = hangUps
    BY <1>2 DEF vars, bounds
  <2>2. Types'
    BY <2>1 DEF IInv, Types, configVars, runVars
  <2> QED
    BY <2>1, <2>2, AloneCalm DEF IInv
<1> QED
  BY <1>1, <1>2

LEMMA Inductive == Spec => []IInv
  BY InitInv, Step, PTL DEF Spec

-----------------------------------------------------------------------------

\* Between requests every device that runs is in config.yaml as it runs, and runs once
\* (config_lock over save, stop, start and the way back of a mark), until a client hangs up.
THEOREM RunsAreSaved == Spec => []RunningIsSaved
<1>1. IInv => RunningIsSaved
  <2> SUFFICES ASSUME IInv, lock = Nobody, hangUps = 0, NEW i \in Running
               PROVE  Len(managed[i]) = 1 /\ file[i] = managed[i]
    BY DEF RunningIsSaved
  <2>1. i \in Ids /\ managed[i] # NoEntry
    BY DEF Running, NoEntry
  <2>2. managed[i] \in RunEntry /\ AsSaved(i)
    BY <2>1, Before DEF IInv
  <2> QED
    BY <2>1, <2>2, RunEntryCases, EntryCases DEF AsSaved
<1> QED
  BY <1>1, Inductive, PTL

\* No device is parked under a run that uses it, whichever of Runner::start and
\* unless_used comes first, as long as no request replaced its entry meanwhile and no
\* client has hung up.
THEOREM ParkedOrUsed == Spec => []NoneParkedUnderRun
<1>1. IInv => NoneParkedUnderRun
  BY DEF IInv, CalmInv, RunInv, NoneParkedUnderRun
<1> QED
  BY <1>1, Inductive, PTL

-----------------------------------------------------------------------------
(* The SCPI ports.                                                         *)

\* Settings in which no two instruments have one port.
AnySettings ==
  {s \in [on : BOOLEAN, base : Bases, ports : [Ids -> Nat]] :
     \A i, j \in Ids : s.ports[i] # 0 /\ s.ports[i] = s.ports[j] => i = j}

SyncSteps == {"idle", "assign", "listen", "save", "replace", "sync"}

PortTypes ==
  /\ settings \in AnySettings /\ stored \in AnySettings
  /\ sync \in [Tasks -> [step : SyncSteps, ids : SUBSET Ids, copy : AnySettings]]

\* Settings::assign: nobody gets a port that another has, and everybody one while there are any.
LEMMA AssignsPorts ==
  ASSUME NEW s \in AnySettings, NEW ids \in SUBSET Ids, NEW t \in Assigned(s, ids)
  PROVE  t \in AnySettings /\ Served(t, ids)
<1> DEFINE kept == Kept(s.ports, ids)
           new == {i \in ids : kept[i] = 0}
           free == (s.base..LastPort) \ {kept[i] : i \in Ids}
<1>0. Bases \subseteq Nat \ {0}
  BY BasesAssumption
<1>1. /\ s.on \in BOOLEAN /\ s.base \in Bases /\ s.base \in Nat \ {0} /\ s.ports \in [Ids -> Nat]
      /\ \A i, j \in Ids : s.ports[i] # 0 /\ s.ports[i] = s.ports[j] => i = j
  BY <1>0 DEF AnySettings
<1>2. /\ kept \in [Ids -> Nat] /\ \A i \in Ids : kept[i] \in {0, s.ports[i]}
  BY <1>1 DEF Kept
<1>5. free \subseteq Nat \ {0} /\ \A i \in Ids : kept[i] \notin free
  BY <1>1, BasesAssumption
<1>6. PICK f \in [new -> free \cup {0}] :
        /\ \A i, j \in new : f[i] = f[j] /\ f[i] # 0 => i = j
        /\ \A p \in free : (\E i \in new : f[i] = p) \/ (\A i \in new : f[i] # 0 /\ f[i] < p)
        /\ t = [s EXCEPT !.ports = [i \in Ids |-> IF i \in new THEN f[i] ELSE kept[i]]]
  BY DEF Assigned
<1>. HIDE DEF free, kept
<1>7. t = [on |-> s.on, base |-> s.base,
           ports |-> [i \in Ids |-> IF i \in new THEN f[i] ELSE kept[i]]]
  BY <1>6 DEF AnySettings
<1>8. t.ports \in [Ids -> Nat]
  BY <1>2, <1>5, <1>6, <1>7
<1>9. ASSUME NEW i \in Ids, NEW j \in Ids, t.ports[i] # 0, t.ports[i] = t.ports[j] PROVE i = j
  <2>1. CASE i \in new /\ j \in new
    BY <1>6, <1>7, <1>9, <2>1
  <2>2. CASE i \notin new /\ j \notin new
    BY <1>1, <1>2, <1>7, <1>9, <2>2
  <2>3. CASE i \in new /\ j \notin new
    BY <1>2, <1>5, <1>6, <1>7, <1>9, <2>3
  <2>4. CASE i \notin new /\ j \in new
    BY <1>2, <1>5, <1>6, <1>7, <1>9, <2>4
  <2>. QED
    BY <2>1, <2>2, <2>3, <2>4
<1>10. t \in AnySettings
  BY <1>1, <1>7, <1>8, <1>9 DEF AnySettings
<1>11. ASSUME NEW i \in ids, t.ports[i] = 0, NEW p \in s.base..LastPort
       PROVE  \E j \in Ids : t.ports[j] = p
  <2>1. i \in new /\ f[i] = 0
    BY <1>7, <1>11
  <2>2. CASE p \in free
    <3>1. PICK j \in new : f[j] = p
      BY <1>6, <2>1, <2>2
    <3>. QED
      BY <1>7, <3>1
  <2>3. CASE p \notin free
    <3>1. PICK j \in Ids : kept[j] = p
      BY <2>3 DEF free
    <3>2. j \notin new
      BY <1>1, <1>11, <3>1, BasesAssumption
    <3>. QED
      BY <1>7, <3>1, <3>2
  <2>. QED
    BY <2>2, <2>3
<1>12. t.base = s.base
  BY <1>7
<1>. QED
  BY <1>10, <1>11, <1>12 DEF Served

\* The base port of the first start is one a user may choose.
LEMMA DefaultTypes ==
  /\ Defaults \in AnySettings /\ Defaults.ports = [i \in Ids |-> 0]
  /\ Idle.step = "idle" /\ Idle \in [step : SyncSteps, ids : SUBSET Ids, copy : AnySettings]
<1> DEFINE b == CHOOSE b \in Bases : \A c \in Bases : b <= c
<1>1. b \in Bases
  <2>1. \E m \in Bases : \A c \in Bases : m <= c
    BY BasesAssumption, Least
  <2>. QED
    BY <2>1
<1>. HIDE DEF b
<1>2. Defaults = [on |-> FALSE, base |-> b, ports |-> [i \in Ids |-> 0]]
  BY DEF Defaults, b
<1>3. Defaults \in AnySettings
  BY <1>1, <1>2 DEF AnySettings
<1>. QED
  BY <1>2, <1>3 DEF Idle, SyncSteps

AnySync == [step : SyncSteps, ids : SUBSET Ids, copy : AnySettings]

LEMMA SyncOfIds ==
  ASSUME NEW x \in AnySync, NEW step, NEW ids
  PROVE  [x EXCEPT !.step = step, !.ids = ids] = [step |-> step, ids |-> ids, copy |-> x.copy]
<1> DEFINE y == [x EXCEPT !.step = step]
<1>1. [x EXCEPT !.step = step, !.ids = ids] = [y EXCEPT !.ids = ids]
  OBVIOUS
<1>2. y = [step |-> step, ids |-> x.ids, copy |-> x.copy]
  BY DEF AnySync
<1>. HIDE DEF y
<1>. QED
  BY <1>1, <1>2

LEMMA SyncOfCopy ==
  ASSUME NEW x \in AnySync, NEW step, NEW copy
  PROVE  [x EXCEPT !.step = step, !.copy = copy] = [step |-> step, ids |-> x.ids, copy |-> copy]
<1> DEFINE y == [x EXCEPT !.step = step]
<1>1. [x EXCEPT !.step = step, !.copy = copy] = [y EXCEPT !.copy = copy]
  OBVIOUS
<1>2. y = [step |-> step, ids |-> x.ids, copy |-> x.copy]
  BY DEF AnySync
<1>. HIDE DEF y
<1>. QED
  BY <1>1, <1>2

\* The steps of sync(), and what they leave alone.
LEMMA IdsStep ==
  ASSUME PortTypes, NEW t \in Tasks, SyncIds(t, Running)
  PROVE  /\ PortTypes' /\ settings' = settings /\ listener' = listener
         /\ sync'[t].step = "assign" /\ sync'[t].ids = Running
         /\ \A x \in Tasks \ {t} : sync'[x] = sync[x]
<1>1. sync[t] \in [step : SyncSteps, ids : SUBSET Ids, copy : AnySettings] /\ Running \in SUBSET Ids
  BY DEF PortTypes, Running
<1>2. sync' = [sync EXCEPT ![t] = [step |-> "assign", ids |-> Running, copy |-> sync[t].copy]]
  <2>1. sync[t] \in AnySync
    BY <1>1 DEF AnySync
  <2> DEFINE y == [sync[t] EXCEPT !.step = "assign", !.ids = Running]
  <2>2. sync' = [sync EXCEPT ![t] = y]
    BY DEF SyncIds
  <2>3. y = [step |-> "assign", ids |-> Running, copy |-> sync[t].copy]
    BY <2>1, SyncOfIds, Zenon
  <2>. HIDE DEF y
  <2>. QED
    BY <2>2, <2>3
<1>3. settings' = settings /\ stored' = stored /\ listener' = listener
  BY DEF SyncIds
<1>. QED
  BY <1>1, <1>2, <1>3 DEF PortTypes, SyncSteps

LEMMA AssignStep ==
  ASSUME PortTypes, NEW t \in Tasks, SyncAssign(t)
  PROVE  /\ PortTypes' /\ sync[t].step = "assign" /\ listener' = listener
         /\ Served(settings', sync[t].ids)
         /\ sync'[t].step = "listen" /\ sync'[t].ids = sync[t].ids /\ sync'[t].copy = settings'
         /\ \A x \in Tasks \ {t} : sync'[x] = sync[x]
<1>1. sync[t] \in [step : SyncSteps, ids : SUBSET Ids, copy : AnySettings]
  BY DEF PortTypes
<1>2. settings' \in AnySettings /\ Served(settings', sync[t].ids)
  BY <1>1, AssignsPorts DEF SyncAssign, PortTypes
<1>3. sync' = [sync EXCEPT ![t] = [step |-> "listen", ids |-> sync[t].ids, copy |-> settings']]
  <2>1. sync[t] \in AnySync
    BY <1>1 DEF AnySync
  <2> DEFINE y == [sync[t] EXCEPT !.step = "listen", !.copy = settings']
  <2>2. sync' = [sync EXCEPT ![t] = y]
    BY DEF SyncAssign
  <2>3. y = [step |-> "listen", ids |-> sync[t].ids, copy |-> settings']
    BY <2>1, SyncOfCopy, Zenon
  <2>. HIDE DEF y
  <2>. QED
    BY <2>2, <2>3
<1>4. stored' \in {stored, settings'} /\ listener' = listener /\ sync[t].step = "assign"
  BY DEF SyncAssign
<1>. QED
  BY <1>1, <1>2, <1>3, <1>4 DEF PortTypes, SyncSteps

LEMMA ListenStep ==
  ASSUME PortTypes, NEW t \in Tasks, SyncListen(t)
  PROVE  /\ PortTypes' /\ sync[t].step = "listen" /\ settings' = settings
         /\ listener' = Wanted(sync[t].copy) /\ sync'[t].step = "idle"
         /\ \A x \in Tasks \ {t} : sync'[x] = sync[x]
  BY DefaultTypes DEF PortTypes, SyncListen

\* The steps of update().
LEMMA CopyStep ==
  ASSUME PortTypes, NEW t \in Tasks, NEW on \in BOOLEAN, NEW base \in Bases,
         UpdateCopy(t, on, base)
  PROVE  /\ PortTypes' /\ settings' = settings /\ listener' = listener
         /\ sync[t].step = "idle" /\ sync'[t].step = "save"
         /\ \A x \in Tasks \ {t} : sync'[x] = sync[x]
<1> DEFINE c == [on |-> on, base |-> base,
                 ports |-> IF base = settings.base THEN settings.ports ELSE [i \in Ids |-> 0]]
<1>1. c \in AnySettings
  BY DEF PortTypes, AnySettings
<1>2. /\ sync' = [sync EXCEPT ![t] = [step |-> "save", ids |-> {}, copy |-> c]]
      /\ settings' = settings /\ stored' = stored /\ listener' = listener /\ sync[t].step = "idle"
  BY DEF UpdateCopy
<1>. HIDE DEF c
<1>. QED
  BY <1>1, <1>2 DEF PortTypes, SyncSteps

LEMMA SaveStep ==
  ASSUME PortTypes, NEW t \in Tasks, NEW ok \in BOOLEAN, UpdateSave(t, ok)
  PROVE  /\ PortTypes' /\ settings' = settings /\ listener' = listener
         /\ sync[t].step = "save" /\ sync'[t].step \in {"replace", "idle"}
         /\ \A x \in Tasks \ {t} : sync'[x] = sync[x]
<1>1. sync[t] \in [step : SyncSteps, ids : SUBSET Ids, copy : AnySettings]
  BY DEF PortTypes
<1>2. /\ sync[t].step = "save" /\ settings' = settings /\ listener' = listener
      /\ stored' \in {stored, sync[t].copy}
      /\ sync' = [sync EXCEPT ![t].step = "replace"] \/ sync' = [sync EXCEPT ![t] = Idle]
  BY DEF UpdateSave
<1>. QED
  BY <1>1, <1>2, DefaultTypes DEF PortTypes, SyncSteps

LEMMA ReplaceStep ==
  ASSUME PortTypes, NEW t \in Tasks, UpdateReplace(t)
  PROVE  /\ PortTypes' /\ listener' = listener
         /\ sync[t].step = "replace" /\ sync'[t].step = "sync"
         /\ \A x \in Tasks \ {t} : sync'[x] = sync[x]
<1>1. sync[t] \in [step : SyncSteps, ids : SUBSET Ids, copy : AnySettings]
  BY DEF PortTypes
<1>. QED
  BY <1>1 DEF UpdateReplace, PortTypes, SyncSteps

LEMMA RestartStep ==
  ASSUME PortTypes, Restart
  PROVE  /\ PortTypes' /\ listener' = Wanted(settings')
         /\ Served(settings', Running')
         /\ \A t \in Tasks : sync'[t].step = "idle"
<1>1. Running' = {i \in Ids : managed'[i] # NoEntry} /\ Running' \in SUBSET Ids
  BY DEF Running, NoEntry
<1>2. ScpiRestart(Running')
  BY <1>1 DEF Restart
<1>3. settings' \in AnySettings /\ Served(settings', Running')
  BY <1>1, <1>2, AssignsPorts DEF ScpiRestart, PortTypes
<1>. QED
  BY <1>2, <1>3, DefaultTypes DEF ScpiRestart, PortTypes

LEMMA PortTypesInit == Init => PortTypes
<1> SUFFICES ASSUME Init PROVE PortTypes
  OBVIOUS
<1>1. Running \in SUBSET Ids
  BY DEF Running
<1>2. settings \in AnySettings
  BY <1>1, DefaultTypes, AssignsPorts DEF Init
<1>. QED
  BY <1>2, DefaultTypes DEF Init, PortTypes

\* What a step does to the ports.
LEMMA PortMoves ==
  ASSUME Next
  PROVE  \/ UNCHANGED scpiVars
         \/ \E h \in Handlers : SyncIds(h, Running) \/ SyncAssign(h) \/ SyncListen(h)
         \/ \E on \in BOOLEAN, base \in Bases : UpdateCopy(Putter, on, base)
         \/ \E ok \in BOOLEAN : UpdateSave(Putter, ok)
         \/ UpdateReplace(Putter)
         \/ SyncIds(Putter, Running) \/ SyncAssign(Putter) \/ SyncListen(Putter)
         \/ Restart
<1>1. ASSUME NEW h \in Handlers, Request(h)
      PROVE  UNCHANGED scpiVars \/ SyncIds(h, Running) \/ SyncAssign(h) \/ SyncListen(h)
  BY <1>1 DEF Request, Add, Update, Delete, Replace, Mark, SaveThen, SaveMark, BeginStops,
       Told, StopOne, StopsDone, StartOne, StartsDone, HandlerSync, HandlerSyncs, HangUp
<1>2. CASE (\E uses \in Flows : CheckFlow(uses)) \/ StartRun \/ EndRun
  BY <1>2 DEF CheckFlow, StartRun, EndRun
<1>3. CASE (\E on \in BOOLEAN, base \in Bases : PutBegin(on, base)) \/ PutGoesOn
  BY <1>3 DEF PutBegin, PutGoesOn
<1>. QED
  BY <1>1, <1>2, <1>3 DEF Next

LEMMA PortTypesStep == PortTypes /\ [Next]_vars => PortTypes'
<1> SUFFICES ASSUME PortTypes, [Next]_vars PROVE PortTypes'
  OBVIOUS
<1>1. CASE UNCHANGED scpiVars
  BY <1>1 DEF PortTypes, scpiVars
<1>2. ASSUME NEW t \in Tasks, SyncIds(t, Running) \/ SyncAssign(t) \/ SyncListen(t)
      PROVE  PortTypes'
  BY <1>2, IdsStep, AssignStep, ListenStep
<1>3. Putter \in Tasks /\ Handlers \subseteq Tasks
  BY TasksAssumption
<1>4. CASE Next
  BY <1>1, <1>2, <1>3, <1>4, PortMoves, CopyStep, SaveStep, ReplaceStep, RestartStep
<1>. QED
  BY <1>1, <1>4 DEF vars

\* Two instruments never get one port, whatever copies of the settings are put back and
\* however syncs, updates and restarts overlap (Settings::assign, Scpi::update, Scpi::sync).
THEOREM OnePortEach == Spec => []PortsDistinct
<1>1. PortTypes => PortsDistinct
  BY DEF PortTypes, AnySettings, PortsDistinct
<1>. QED
  BY <1>1, PortTypesInit, PortTypesStep, PTL DEF Spec

-----------------------------------------------------------------------------
(* The listeners.                                                          *)
(* What is true of the ports until a client hangs up (TaskInv, OpInv), and *)
(* what a configuration change and a PUT /scpi leave behind as long as     *)
(* they were not in progress at once (AppliedInv).                         *)

\* A request syncs in its last step, with what runs; an edit and a mark do not.
TaskInv ==
  \A h \in Handlers : IF req[h].step = "syncing"
                      THEN sync[h].step \in {"assign", "listen"} /\ sync[h].ids = Running
                      ELSE sync[h].step = "idle"
OpInv ==
  \A h \in Handlers : /\ req[h].step \in {"save", "tell"} => req[h].op = "park"
                      /\ req[h].step \in {"sync", "syncing"} => req[h].op # "update"

OneByOne ==
  /\ PutBusy => \A h \in Handlers : req[h].step = "idle"
  /\ sync[Putter].step \in {"assign", "listen"} => sync[Putter].ids = Running

\* Who is about to listen has assigned the ports of the settings.
ToListen ==
  \A t \in Tasks : sync[t].step = "listen" =>
    sync[t].copy = settings /\ Served(settings, sync[t].ids)

\* Neither the settings nor what runs has changed since the last sync, or who changed it
\* has not synced yet.
PutApplied == sync[Putter].step \in {"idle", "save", "replace"}
Listening ==
  PutApplied /\ (\A h \in Handlers : req[h].step # "syncing") => listener = Wanted(settings)
HasPorts ==
  PutApplied =>
    /\ (\A h \in Handlers : req[h].op \notin {"add", "replace"}) =>
         Served(settings, Running)
    /\ \A h \in Handlers : req[h].op = "update" => Served(settings, {req[h].id})

AppliedInv == ~crossed => OneByOne /\ ToListen /\ Listening /\ HasPorts

SyncInv == TaskInv /\ OpInv /\ AppliedInv

LEMMA PutterApart == Putter \in Tasks /\ Handlers \subseteq Tasks /\ Putter \notin Handlers
BY TasksAssumption

\* Nothing of the ports, and nothing that matters to them, changes.
LEMMA SyncAlone ==
  ASSUME SyncInv, UNCHANGED <<scpiVars, crossed, req>>, Running' = Running
  PROVE  SyncInv'
<1>1. /\ settings' = settings /\ listener' = listener /\ sync' = sync /\ crossed' = crossed
      /\ req' = req /\ Running' = Running
  BY DEF scpiVars
<1>. QED
  BY <1>1 DEF SyncInv, TaskInv, OpInv, AppliedInv, OneByOne, ToListen, Listening, HasPorts,
     PutBusy, PutApplied

\* A request begins.
LEMMA BeginsSync ==
  ASSUME Types, CalmInv, SyncInv, NEW h \in Handlers, lock = Nobody, NEW r,
         req' = [req EXCEPT ![h] = r], r.step \notin {"idle", "sync", "syncing"},
         r.step \in {"save", "tell"} => r.op = "park", r.op = "update" => r.id \in Running,
         crossed' = (crossed \/ PutBusy), UNCHANGED scpiVars, Running' = Running
  PROVE  SyncInv'
<1>1. settings' = settings /\ listener' = listener /\ sync' = sync
  BY DEF scpiVars
<1>2. /\ \A g \in Handlers : req[g] = Resting
      /\ req'[h] = r /\ \A g \in Handlers \ {h} : req'[g] = Resting
  BY Before DEF CalmInv, CalmTypes
<1>3. TaskInv' /\ OpInv'
  BY <1>1, <1>2, RestingType DEF SyncInv, TaskInv, OpInv
<1>4. ASSUME ~crossed' PROVE OneByOne' /\ ToListen' /\ Listening' /\ HasPorts'
  <2>1. ~crossed /\ sync[Putter].step = "idle" /\ OneByOne /\ ToListen /\ Listening /\ HasPorts
    BY <1>4 DEF PutBusy, SyncInv, AppliedInv
  <2>2. OneByOne' /\ ToListen'
    BY <1>1, <2>1 DEF OneByOne, ToListen, PutBusy
  <2>3. Listening'
    BY <1>1, <1>2, <2>1, RestingType DEF Listening, PutApplied
  <2>4. Served(settings, Running)
    BY <1>2, <2>1, RestingType DEF HasPorts, PutApplied
  <2>5. HasPorts'
    BY <1>1, <1>2, <2>4, RestingType DEF HasPorts, Served
  <2>. QED
    BY <2>2, <2>3, <2>5
<1>. QED
  BY <1>3, <1>4 DEF SyncInv, AppliedInv

\* A request goes on, and does not sync yet.
LEMMA GoesOnSync ==
  ASSUME Types, CalmInv, SyncInv, NEW h \in Handlers, NEW r, req' = [req EXCEPT ![h] = r],
         req[h].step \notin {"idle", "syncing"}, r.step \notin {"idle", "syncing"},
         r.op = req[h].op, r.id = req[h].id,
         r.step \in {"save", "tell"} => r.op = "park", r.step = "sync" => r.op # "update",
         crossed' = crossed, UNCHANGED scpiVars,
         \A i \in Running' : i \in Running \/ r.op \in {"add", "replace"}
                             \/ (r.op = "update" /\ i = r.id)
  PROVE  SyncInv'
<1>1. settings' = settings /\ listener' = listener /\ sync' = sync
  BY DEF scpiVars
<1>2. /\ \A g \in Handlers \ {h} : req[g] = Resting
      /\ req'[h] = r /\ \A g \in Handlers \ {h} : req'[g] = Resting
  BY Alone DEF CalmInv, CalmTypes
<1>3. TaskInv' /\ OpInv'
  BY <1>1, <1>2, RestingType DEF SyncInv, TaskInv, OpInv
<1>4. ASSUME ~crossed' PROVE OneByOne' /\ ToListen' /\ Listening' /\ HasPorts'
  <2>1. /\ ~crossed /\ sync[Putter].step = "idle"
        /\ OneByOne /\ ToListen /\ Listening /\ HasPorts
    BY <1>4 DEF PutBusy, SyncInv, AppliedInv, OneByOne
  <2>2. OneByOne' /\ ToListen'
    BY <1>1, <2>1 DEF OneByOne, ToListen, PutBusy
  <2>3. Listening'
    BY <1>1, <1>2, <2>1, RestingType DEF Listening, PutApplied
  <2>4. r.op \notin {"add", "replace"} => Served(settings, Running')
    BY <1>2, <2>1, RestingType DEF HasPorts, PutApplied, Served
  <2>5. r.op = "update" => Served(settings, {r.id})
    BY <2>1 DEF HasPorts, PutApplied
  <2>6. HasPorts'
    BY <1>1, <1>2, <2>4, <2>5, RestingType DEF HasPorts
  <2>. QED
    BY <2>2, <2>3, <2>6
<1>. QED
  BY <1>3, <1>4 DEF SyncInv, AppliedInv

\* A request ends without a sync.
LEMMA EndsUnsynced ==
  ASSUME Types, CalmInv, SyncInv, NEW h \in Handlers, req[h].step \notin {"idle", "syncing"},
         Release(h), req[h].op \notin {"add", "replace"},
         crossed' = crossed, UNCHANGED scpiVars, Running' = Running
  PROVE  SyncInv'
<1>1. settings' = settings /\ listener' = listener /\ sync' = sync
  BY DEF scpiVars
<1>2. \A g \in Handlers : req'[g] = Resting /\ (g # h => req[g] = Resting)
  BY Alone DEF CalmInv, CalmTypes, Release
<1>3. TaskInv' /\ OpInv'
  BY <1>1, <1>2, RestingType DEF SyncInv, TaskInv, OpInv
<1>4. ASSUME ~crossed' PROVE OneByOne' /\ ToListen' /\ Listening' /\ HasPorts'
  <2>1. /\ ~crossed /\ sync[Putter].step = "idle"
        /\ OneByOne /\ ToListen /\ Listening /\ HasPorts
    BY <1>4 DEF PutBusy, SyncInv, AppliedInv, OneByOne
  <2>2. OneByOne' /\ ToListen'
    BY <1>1, <2>1 DEF OneByOne, ToListen, PutBusy
  <2>3. Listening'
    BY <1>1, <1>2, <2>1, RestingType DEF Listening, PutApplied
  <2>4. HasPorts'
    BY <1>1, <1>2, <2>1, RestingType DEF HasPorts, PutApplied
  <2>. QED
    BY <2>2, <2>3, <2>4
<1>. QED
  BY <1>3, <1>4 DEF SyncInv, AppliedInv

LEMMA TakesSync ==
  ASSUME Types, CalmInv, SyncInv, NEW h \in Handlers,
         \/ \E i \in Ids, e \in Entry : Add(h, i, e) \/ Update(h, i, e)
         \/ \E i \in Ids : Delete(h, i)
         \/ \E new \in Lists : Replace(h, new)
  PROVE  SyncInv'
<1>1. PICK op, id, step, new :
        /\ SaveThen(h, op, id, step, new) /\ step \in {"begin", "stop", "start"}
        /\ op = "update" => id \in Running
  <2>1. \A i \in Ids, e \in Entry : Add(h, i, e) =>
          SaveThen(h, "add", i, "start", [Entries EXCEPT ![i] = <<e>>])
    BY DEF Add
  <2>2. \A i \in Ids, e \in Entry : Update(h, i, e) =>
          i \in Running /\ SaveThen(h, "update", i, "stop", [Entries EXCEPT ![i] = <<e>> \o Tail(@)])
    BY DEF Update
  <2>3. \A i \in Ids : Delete(h, i) =>
          SaveThen(h, "delete", i, "stop", [Entries EXCEPT ![i] = NoEntry])
    BY DEF Delete
  <2>4. \A n \in Lists : Replace(h, n) => SaveThen(h, "replace", Nobody, "begin", n)
    BY DEF Replace
  <2>. QED
    BY <2>1, <2>2, <2>3, <2>4
<1> DEFINE r == [op |-> op, id |-> id, step |-> step, new |-> new,
                 left |-> [i \in Ids |-> IF i = id THEN 1 ELSE 0]]
<1>2. /\ lock = Nobody /\ req' = [req EXCEPT ![h] = r] /\ managed' = managed
      /\ UNCHANGED scpiVars /\ crossed' = (crossed \/ PutBusy)
  BY <1>1 DEF SaveThen, Take
<1>3. r.step = step /\ r.op = op /\ r.id = id
  OBVIOUS
<1>. HIDE DEF r
<1>4. Running' = Running
  BY <1>2 DEF Running
<1>. QED
  BY <1>1, <1>2, <1>3, <1>4, BeginsSync

LEMMA MarksSync ==
  ASSUME Types, CalmInv, SyncInv, NEW h \in Handlers, NEW i \in Ids, NEW parked \in BOOLEAN,
         Mark(h, i, parked)
  PROVE  SyncInv'
<1> DEFINE r == [op |-> "park", id |-> i, step |-> "save", new |-> Entries,
                 left |-> [j \in Ids |-> IF j = i THEN 1 ELSE 0]]
<1>1. /\ lock = Nobody /\ req' = [req EXCEPT ![h] = r] /\ UNCHANGED scpiVars
      /\ managed' = [managed EXCEPT ![i][1].parked = parked] /\ crossed' = (crossed \/ PutBusy)
  BY DEF Mark, Take
<1>2. r.step = "save" /\ r.op = "park"
  OBVIOUS
<1>. HIDE DEF r
<1>3. Running' = Running
  <2>1. managed \in [Ids -> RunEntry] /\ managed[i] # NoEntry
    BY DEF CalmInv, CalmTypes, Mark, Running, NoEntry
  <2>2. PICK e \in Entry : managed[i] = <<e>>
    BY <2>1, RunEntryCases
  <2>3. managed' = [managed EXCEPT ![i] = <<[parked |-> parked, starts |-> e.starts]>>]
    BY <1>1, <2>1, <2>2, MarkEntry
  <2>4. managed'[i] # <<>> /\ \A j \in Ids \ {i} : managed'[j] = managed[j]
    BY <2>1, <2>3, OneEntry
  <2>. QED
    BY <2>1, <2>4 DEF Running, NoEntry
<1>. QED
  BY <1>1, <1>2, <1>3, BeginsSync

LEMMA SaveMarkSync ==
  ASSUME Types, CalmInv, SyncInv, NEW h \in Handlers, SaveMark(h)
  PROVE  SyncInv'
<1> DEFINE i == req[h].id
<1>1. /\ req[h].step = "save" /\ crossed' = crossed /\ UNCHANGED scpiVars
      /\ Marking(h) /\ req[h].op = "park" /\ req \in [Handlers -> AnyRequest]
  BY Alone DEF SaveMark, Work, bounds, SyncInv, OpInv, CalmInv, CalmTypes
<1>2. i \in Ids /\ managed[i] # NoEntry
  BY <1>1 DEF Marking
<1>3. \/ managed' = managed
      \/ managed' = [managed EXCEPT ![i][1].parked = req[h].new[i][1].parked]
  BY DEF SaveMark
<1>. HIDE DEF i
<1>4. Running' = Running
  <2>1. managed \in [Ids -> RunEntry]
    BY DEF CalmInv, CalmTypes
  <2>2. PICK e \in Entry : managed[i] = <<e>>
    BY <1>2, <2>1, RunEntryCases
  <2>3. CASE managed' = [managed EXCEPT ![i][1].parked = req[h].new[i][1].parked]
    <3>1. req[h].new[i][1].parked \in BOOLEAN
      BY <1>1, <1>2, Alone, EntryCases DEF Marking, Entry, i
    <3>2. managed' = [managed EXCEPT ![i] =
                        <<[parked |-> req[h].new[i][1].parked, starts |-> e.starts]>>]
      BY <2>1, <2>2, <2>3, <3>1, MarkEntry
    <3>3. managed'[i] # <<>> /\ \A j \in Ids \ {i} : managed'[j] = managed[j]
      BY <1>2, <2>1, <3>2, OneEntry
    <3>. QED
      BY <1>2, <2>1, <3>3 DEF Running, NoEntry
  <2>4. CASE managed' = managed
    BY <2>4 DEF Running
  <2>. QED
    BY <1>3, <2>3, <2>4
<1>5. CASE Release(h)
  BY <1>1, <1>4, <1>5, EndsUnsynced
<1>6. CASE req' = [req EXCEPT ![h].step = "tell"]
  <2> DEFINE r == [req[h] EXCEPT !.step = "tell"]
  <2>1. r.step = "tell" /\ r.op = req[h].op /\ r.id = req[h].id /\ req' = [req EXCEPT ![h] = r]
    BY <1>1, <1>6 DEF AnyRequest
  <2>. HIDE DEF r
  <2>. QED
    BY <1>1, <1>4, <2>1, GoesOnSync
<1>. QED
  BY <1>5, <1>6 DEF SaveMark

LEMMA ToldSync ==
  ASSUME Types, CalmInv, SyncInv, NEW h \in Handlers, Told(h)
  PROVE  SyncInv'
<1>1. /\ req[h].step = "tell" /\ Release(h) /\ req[h].op = "park" /\ crossed' = crossed
      /\ UNCHANGED scpiVars /\ Running' = Running
  BY DEF Told, SyncInv, OpInv, bounds, Running
<1>. QED
  BY <1>1, EndsUnsynced

LEMMA StopsSync ==
  ASSUME Types, CalmInv, SyncInv, NEW h \in Handlers, BeginStops(h) \/ StopOne(h) \/ StopsDone(h)
  PROVE  SyncInv'
<1>1. /\ req[h].step \in {"begin", "stop"} /\ req[h] \in AnyRequest /\ Work(h)
      /\ req \in [Handlers -> AnyRequest]
  BY Alone DEF BeginStops, StopOne, StopsDone, CalmInv, CalmTypes
<1>2. PICK r : /\ req' = [req EXCEPT ![h] = r] /\ r.op = req[h].op /\ r.id = req[h].id
               /\ r.step \in {"stop", "start", "sync"} /\ (r.step = "sync" => r.op # "update")
  <2>1. CASE BeginStops(h)
    <3> DEFINE left == [i \in Ids |-> Len(managed[i])]
               r == [req[h] EXCEPT !.step = "stop", !.left = left]
    <3>1. req' = [req EXCEPT ![h] = r]
      BY <1>1, <2>1 DEF BeginStops
    <3>2. r.op = req[h].op /\ r.id = req[h].id /\ r.step = "stop"
      BY <1>1 DEF AnyRequest
    <3>. HIDE DEF r
    <3>. QED
      BY <3>1, <3>2
  <2>2. CASE StopOne(h)
    <3>1. PICK i \in Ids : req' = [req EXCEPT ![h].left[i] = @ - 1]
      BY <2>2 DEF StopOne
    <3> DEFINE r == [req[h] EXCEPT !.left[i] = @ - 1]
    <3>2. req' = [req EXCEPT ![h] = r]
      BY <1>1, <3>1
    <3>3. r.op = req[h].op /\ r.id = req[h].id /\ r.step = "stop"
      BY <1>1, <2>2 DEF AnyRequest, StopOne
    <3>. HIDE DEF r
    <3>. QED
      BY <3>2, <3>3
  <2>3. CASE StopsDone(h)
    <3> DEFINE r == [req[h] EXCEPT !.step = AfterStop(h)]
    <3>1. req' = [req EXCEPT ![h] = r]
      BY <1>1, <2>3 DEF StopsDone
    <3>2. r.op = req[h].op /\ r.id = req[h].id /\ r.step = AfterStop(h)
      BY <1>1 DEF AnyRequest
    <3>3. AfterStop(h) = IF req[h].op = "delete" THEN "sync" ELSE "start"
      BY DEF AfterStop
    <3>. HIDE DEF r
    <3>. QED
      BY <3>1, <3>2, <3>3
  <2>. QED
    BY <2>1, <2>2, <2>3
<1>3. crossed' = crossed /\ UNCHANGED scpiVars
  BY DEF BeginStops, StopOne, StopsDone, bounds
<1>4. Running' \subseteq Running
  <2>1. CASE managed' = managed
    BY <2>1 DEF Running
  <2>2. CASE StopOne(h)
    BY <2>2 DEF StopOne, Running, CalmInv, CalmTypes
  <2>. QED
    BY <2>1, <2>2 DEF BeginStops, StopsDone
<1>. QED
  BY <1>1, <1>2, <1>3, <1>4, GoesOnSync

LEMMA StartOneSync ==
  ASSUME Types, CalmInv, SyncInv, NEW h \in Handlers, StartOne(h)
  PROVE  SyncInv'
<1>1. /\ req[h].step = "start" /\ req[h] \in AnyRequest /\ Working(h) /\ Starting(h)
      /\ req \in [Handlers -> AnyRequest]
  BY Alone DEF StartOne, CalmInv, CalmTypes, Work
<1>2. PICK i \in ToStart(h) :
        \/ /\ \E e : managed' = [managed EXCEPT ![i] = Append(@, e)]
           /\ req' = [req EXCEPT ![h].new[i] = NoEntry]
        \/ req' = [req EXCEPT ![h].new = NoEntries] /\ managed' = managed
  BY DEF StartOne
<1>3. PICK r : /\ req' = [req EXCEPT ![h] = r] /\ r.op = req[h].op /\ r.id = req[h].id
               /\ r.step = "start"
  <2>1. CASE req' = [req EXCEPT ![h].new[i] = NoEntry]
    <3> DEFINE r == [req[h] EXCEPT !.new[i] = NoEntry]
    <3>1. req' = [req EXCEPT ![h] = r]
      BY <1>1, <2>1
    <3>2. r.op = req[h].op /\ r.id = req[h].id /\ r.step = "start"
      BY <1>1 DEF AnyRequest
    <3>. HIDE DEF r
    <3>. QED
      BY <3>1, <3>2
  <2>2. CASE req' = [req EXCEPT ![h].new = NoEntries]
    <3> DEFINE r == [req[h] EXCEPT !.new = NoEntries]
    <3>1. req' = [req EXCEPT ![h] = r]
      BY <1>1, <2>2
    <3>2. r.op = req[h].op /\ r.id = req[h].id /\ r.step = "start"
      BY <1>1 DEF AnyRequest
    <3>. HIDE DEF r
    <3>. QED
      BY <3>1, <3>2
  <2>. QED
    BY <1>2, <2>1, <2>2
<1>4. crossed' = crossed /\ UNCHANGED scpiVars
  BY DEF StartOne, bounds
<1>5. req[h].op \in {"add", "replace"} \/ (req[h].op = "update" /\ i = req[h].id)
  BY <1>1, <1>2 DEF Working, Starting, ToStart, Affected
<1>6. \A j \in Running' : j \in Running \/ j = i
  BY <1>2 DEF Running, CalmInv, CalmTypes
<1>. QED
  BY <1>1, <1>3, <1>4, <1>5, <1>6, GoesOnSync

LEMMA StartsDoneSync ==
  ASSUME Types, CalmInv, SyncInv, NEW h \in Handlers, StartsDone(h)
  PROVE  SyncInv'
<1>1. req[h].step = "start" /\ req[h] \in AnyRequest /\ req \in [Handlers -> AnyRequest] /\ lock = h
  BY Alone DEF StartsDone, CalmInv, CalmTypes
<1>2. crossed' = crossed /\ UNCHANGED scpiVars /\ Running' = Running
  BY DEF StartsDone, bounds, Running
<1>3. CASE req[h].op = "update"
  <2>1. Release(h)
    BY <1>3 DEF StartsDone
  <2>. QED
    BY <1>1, <1>2, <1>3, <2>1, EndsUnsynced
<1>4. CASE req[h].op # "update"
  <2> DEFINE r == [req[h] EXCEPT !.step = "sync"]
  <2>1. req' = [req EXCEPT ![h] = r]
    BY <1>1, <1>4 DEF StartsDone
  <2>2. r.op = req[h].op /\ r.id = req[h].id /\ r.step = "sync"
    BY <1>1 DEF AnyRequest
  <2>. HIDE DEF r
  <2>. QED
    BY <1>1, <1>2, <1>4, <2>1, <2>2, GoesOnSync
<1>. QED
  BY <1>3, <1>4

\* A request's sync: it reads what runs, assigns ports and listens.
LEMMA SyncsIds ==
  ASSUME Types, CalmInv, PortTypes, SyncInv, NEW h \in Handlers, HandlerSync(h)
  PROVE  SyncInv'
<1>1. req[h].step = "sync" /\ req[h] \in AnyRequest /\ req \in [Handlers -> AnyRequest] /\ lock = h
  BY Alone DEF HandlerSync, CalmInv, CalmTypes
<1>2. /\ SyncIds(h, Running) /\ req' = [req EXCEPT ![h].step = "syncing"]
      /\ crossed' = crossed /\ Running' = Running
  BY <1>1 DEF HandlerSync, bounds, Running
<1>3. /\ settings' = settings /\ listener' = listener
      /\ sync'[h].step = "assign" /\ sync'[h].ids = Running
      /\ \A t \in Tasks \ {h} : sync'[t] = sync[t]
  BY <1>2, IdsStep, PutterApart
<1>4. /\ req'[h].step = "syncing" /\ req'[h].op = req[h].op /\ req'[h].id = req[h].id
      /\ \A g \in Handlers \ {h} : req[g] = Resting /\ req'[g] = Resting
  BY <1>1, <1>2, Alone DEF AnyRequest
<1>5. TaskInv' /\ OpInv'
  BY <1>1, <1>2, <1>3, <1>4, RestingType, PutterApart DEF SyncInv, TaskInv, OpInv
<1>6. ASSUME ~crossed' PROVE OneByOne' /\ ToListen' /\ Listening' /\ HasPorts'
  <2>1. ~crossed /\ sync[Putter].step = "idle" /\ ToListen /\ HasPorts
    BY <1>1, <1>2, <1>6 DEF PutBusy, SyncInv, AppliedInv, OneByOne
  <2>2. sync'[Putter] = sync[Putter]
    BY <1>3, PutterApart
  <2>3. OneByOne' /\ Listening'
    BY <1>4, <2>1, <2>2 DEF OneByOne, PutBusy, Listening
  <2>4. ToListen'
    BY <1>3, <2>1 DEF ToListen
  <2>5. HasPorts'
    BY <1>2, <1>3, <1>4, <2>1, <2>2 DEF HasPorts, PutApplied
  <2>. QED
    BY <2>3, <2>4, <2>5
<1>. QED
  BY <1>5, <1>6 DEF SyncInv, AppliedInv

LEMMA SyncsAssign ==
  ASSUME Types, CalmInv, PortTypes, SyncInv, NEW h \in Handlers, req[h].step = "syncing",
         SyncAssign(h), req' = req, crossed' = crossed, Running' = Running
  PROVE  SyncInv'
<1>1. /\ listener' = listener /\ Served(settings', sync[h].ids)
      /\ sync'[h].step = "listen" /\ sync'[h].ids = sync[h].ids /\ sync'[h].copy = settings'
      /\ \A t \in Tasks \ {h} : sync'[t] = sync[t]
  BY AssignStep, PutterApart
<1>2. \A g \in Handlers \ {h} : req[g] = Resting
  BY Alone
<1>3. sync[h].ids = Running /\ \A g \in Handlers \ {h} : sync[g].step = "idle"
  BY <1>2, RestingType DEF SyncInv, TaskInv
<1>4. TaskInv' /\ OpInv'
  BY <1>1, PutterApart DEF SyncInv, TaskInv, OpInv
<1>5. ASSUME ~crossed' PROVE OneByOne' /\ ToListen' /\ Listening' /\ HasPorts'
  <2>1. ~crossed /\ sync[Putter].step = "idle" /\ sync'[Putter] = sync[Putter]
    BY <1>1, <1>5, PutterApart DEF PutBusy, SyncInv, AppliedInv, OneByOne
  <2>2. OneByOne' /\ Listening'
    BY <2>1 DEF OneByOne, PutBusy, Listening
  <2>3. ToListen'
    BY <1>1, <1>3, <2>1, TasksAssumption DEF ToListen
  <2>4. req[h].op # "update"
    BY DEF SyncInv, OpInv
  <2>5. HasPorts'
    BY <1>1, <1>2, <1>3, <2>4, RestingType DEF HasPorts
  <2>. QED
    BY <2>2, <2>3, <2>5
<1>. QED
  BY <1>4, <1>5 DEF SyncInv, AppliedInv

LEMMA SyncsListen ==
  ASSUME Types, CalmInv, PortTypes, SyncInv, NEW h \in Handlers, req[h].step = "syncing",
         SyncListen(h), Release(h), crossed' = crossed, Running' = Running
  PROVE  SyncInv'
<1>1. /\ settings' = settings /\ sync[h].step = "listen" /\ listener' = Wanted(sync[h].copy)
      /\ sync'[h].step = "idle" /\ \A t \in Tasks \ {h} : sync'[t] = sync[t]
  BY ListenStep, PutterApart
<1>2. \A g \in Handlers : req'[g] = Resting /\ (g # h => req[g] = Resting)
  BY Alone DEF CalmInv, CalmTypes, Release
<1>3. sync[h].ids = Running /\ \A g \in Handlers \ {h} : sync[g].step = "idle"
  BY <1>2, RestingType DEF SyncInv, TaskInv
<1>4. TaskInv' /\ OpInv'
  BY <1>1, <1>2, <1>3, RestingType, PutterApart DEF TaskInv, OpInv
<1>5. ASSUME ~crossed' PROVE OneByOne' /\ ToListen' /\ Listening' /\ HasPorts'
  <2>1. ~crossed /\ sync[Putter].step = "idle" /\ sync'[Putter] = sync[Putter] /\ ToListen
    BY <1>1, <1>5, PutterApart DEF PutBusy, SyncInv, AppliedInv, OneByOne
  <2>2. sync[h].copy = settings /\ Served(settings, Running)
    BY <1>1, <1>3, <2>1, PutterApart DEF ToListen
  <2>3. OneByOne' /\ ToListen'
    BY <1>1, <2>1 DEF OneByOne, PutBusy, ToListen
  <2>4. Listening'
    BY <1>1, <2>2 DEF Listening
  <2>5. HasPorts'
    BY <1>1, <1>2, <2>2, RestingType DEF HasPorts
  <2>. QED
    BY <2>3, <2>4, <2>5
<1>. QED
  BY <1>4, <1>5 DEF SyncInv, AppliedInv

LEMMA RequestSync ==
  ASSUME Types, CalmInv, PortTypes, SyncInv, NEW h \in Handlers, Request(h), ~HangUp(h)
  PROVE  SyncInv'
<1>1. CASE HandlerSyncs(h)
  <2>1. req[h].step = "syncing" /\ crossed' = crossed /\ Running' = Running
    BY <1>1 DEF HandlerSyncs, bounds, Running
  <2>2. (SyncAssign(h) /\ req' = req) \/ (SyncListen(h) /\ Release(h))
    BY <1>1 DEF HandlerSyncs
  <2>. QED
    BY <2>1, <2>2, SyncsAssign, SyncsListen
<1>. QED
  BY <1>1, TakesSync, MarksSync, SaveMarkSync, ToldSync, StopsSync, StartOneSync, StartsDoneSync, SyncsIds
     DEF Request

\* A PUT /scpi copies, saves, replaces and syncs; nobody else is in progress then.
LEMMA PutSync ==
  ASSUME Types, CalmInv, PortTypes, SyncInv,
         (\E on \in BOOLEAN, base \in Bases : PutBegin(on, base)) \/ PutGoesOn
  PROVE  SyncInv'
<1>1. req' = req /\ Running' = Running
  BY DEF PutBegin, PutGoesOn, configVars, Running
<1>2. \A t \in Tasks \ {Putter} : sync'[t] = sync[t]
  BY CopyStep, SaveStep, ReplaceStep, IdsStep, AssignStep, ListenStep, PutterApart
     DEF PutBegin, PutGoesOn
<1>3. TaskInv' /\ OpInv'
  BY <1>1, <1>2, PutterApart DEF SyncInv, TaskInv, OpInv
<1>4. ASSUME ~crossed' PROVE OneByOne' /\ ToListen' /\ Listening' /\ HasPorts'
  <2>1. ~crossed /\ OneByOne /\ ToListen /\ Listening /\ HasPorts
    <3>1. crossed' = crossed \/ crossed' = (crossed \/ \E h \in Handlers : req[h].step # "idle")
      BY DEF PutBegin, PutGoesOn, bounds
    <3>2. ~crossed
      BY <1>4, <3>1, Zenon
    <3>. QED
      BY <3>2 DEF SyncInv, AppliedInv
  <2>2. \A h \in Handlers : req[h].step = "idle"
    <3>1. CASE \E on \in BOOLEAN, base \in Bases : PutBegin(on, base)
      BY <1>4, <3>1 DEF PutBegin
    <3>2. CASE PutGoesOn
      <4>1. PutBusy
        BY <3>2 DEF PutGoesOn, PutBusy, UpdateSave, UpdateReplace, SyncAssign, SyncListen
      <4>. QED
        BY <2>1, <4>1 DEF OneByOne
    <3>. QED
      BY <3>1, <3>2
  <2>3. \A h \in Handlers : req[h] = Resting /\ sync[h].step = "idle"
    BY <2>2 DEF CalmInv, LockInv, SyncInv, TaskInv
  <2>4. \A t \in Tasks \ {Putter} : sync'[t].step = "idle"
    BY <1>2, <2>3, TasksAssumption
  <2>5. CASE \/ \E on \in BOOLEAN, base \in Bases : UpdateCopy(Putter, on, base)
             \/ \E ok \in BOOLEAN : UpdateSave(Putter, ok)
    <3>1. /\ PutApplied /\ settings' = settings /\ listener' = listener
          /\ sync'[Putter].step \in {"idle", "save", "replace"}
      BY <2>5, CopyStep, SaveStep, PutterApart DEF PutApplied
    <3>. QED
      BY <1>1, <2>1, <2>2, <2>4, <3>1
         DEF OneByOne, ToListen, Listening, HasPorts, PutBusy, PutApplied
  <2>6. CASE UpdateReplace(Putter)
    <3>1. sync'[Putter].step = "sync"
      BY <2>6, ReplaceStep, PutterApart
    <3>. QED
      BY <1>1, <2>2, <2>4, <3>1
         DEF OneByOne, ToListen, Listening, HasPorts, PutBusy, PutApplied
  <2>7. CASE SyncIds(Putter, Running)
    <3>1. sync'[Putter].step = "assign" /\ sync'[Putter].ids = Running
      BY <2>7, IdsStep, PutterApart
    <3>. QED
      BY <1>1, <2>2, <2>4, <3>1
         DEF OneByOne, ToListen, Listening, HasPorts, PutBusy, PutApplied
  <2>8. CASE SyncAssign(Putter)
    <3>1. /\ sync[Putter].step = "assign" /\ Served(settings', sync[Putter].ids)
          /\ sync'[Putter].step = "listen" /\ sync'[Putter].ids = sync[Putter].ids
          /\ sync'[Putter].copy = settings'
      BY <2>8, AssignStep, PutterApart
    <3>. QED
      BY <1>1, <2>1, <2>2, <2>4, <3>1
         DEF OneByOne, ToListen, Listening, HasPorts, PutBusy, PutApplied
  <2>9. CASE SyncListen(Putter)
    <3>1. /\ sync[Putter].step = "listen" /\ settings' = settings
          /\ listener' = Wanted(sync[Putter].copy) /\ sync'[Putter].step = "idle"
      BY <2>9, ListenStep, PutterApart
    <3>2. sync[Putter].copy = settings /\ Served(settings, Running)
      BY <2>1, <3>1, PutterApart DEF OneByOne, ToListen
    <3>3. \A h \in Handlers : req'[h].op # "update"
      BY <1>1, <2>3, RestingType
    <3>. QED
      BY <1>1, <2>2, <2>4, <3>1, <3>2, <3>3
         DEF OneByOne, ToListen, Listening, HasPorts, PutBusy, PutApplied
  <2>. QED
    BY <2>5, <2>6, <2>7, <2>8, <2>9 DEF PutBegin, PutGoesOn
<1>. QED
  BY <1>3, <1>4 DEF SyncInv, AppliedInv

LEMMA RestartSync ==
  ASSUME PortTypes, Restart
  PROVE  SyncInv'
<1>1. /\ listener' = Wanted(settings') /\ Served(settings', Running')
      /\ \A t \in Tasks : sync'[t].step = "idle"
  BY RestartStep
<1>2. \A h \in Handlers : req'[h] = Resting
  BY DEF Restart
<1>. QED
  BY <1>1, <1>2, RestingType, PutterApart
     DEF SyncInv, TaskInv, OpInv, AppliedInv, OneByOne, ToListen, Listening, HasPorts, PutBusy

FInv == IInv /\ PortTypes /\ (hangUps = 0 => SyncInv)

LEMMA FollowInit == Init => FInv
<1> SUFFICES ASSUME Init PROVE FInv
  OBVIOUS
<1>1. Running \in SUBSET Ids
  BY DEF Running
<1>2. Served(settings, Running)
  BY <1>1, DefaultTypes, AssignsPorts DEF Init
<1>3. \A t \in Tasks : sync[t].step = "idle"
  BY DefaultTypes DEF Init
<1>4. SyncInv
  BY <1>2, <1>3, RestingType, PutterApart
     DEF Init, SyncInv, TaskInv, OpInv, AppliedInv, OneByOne, ToListen, Listening, HasPorts, PutBusy
<1>. QED
  BY <1>4, InitInv, PortTypesInit DEF FInv

LEMMA FollowStep == FInv /\ [Next]_vars => FInv'
<1> SUFFICES ASSUME FInv, [Next]_vars PROVE FInv'
  OBVIOUS
<1>1. IInv' /\ PortTypes'
  BY Step, PortTypesStep DEF FInv
<1>2. ASSUME hangUps' = 0 PROVE SyncInv'
  <2>1. CASE UNCHANGED vars
    <3>1. UNCHANGED <<scpiVars, crossed, req>> /\ Running' = Running /\ hangUps' = hangUps
      BY <2>1 DEF vars, configVars, bounds, Running
    <3>. QED
      BY <1>2, <3>1, SyncAlone DEF FInv
  <2>2. CASE Next
    <3>1. hangUps = 0 /\ Types /\ CalmInv /\ PortTypes /\ SyncInv
      BY <1>2, <2>2, TypesStep DEF FInv, IInv
    <3>2. ASSUME NEW h \in Handlers, Request(h) PROVE SyncInv'
      <4>1. ~HangUp(h)
        BY <1>2, <3>1 DEF HangUp
      <4>. QED
        BY <3>1, <3>2, <4>1, RequestSync
    <3>3. CASE (\E uses \in Flows : CheckFlow(uses)) \/ StartRun \/ EndRun
      <4>1. UNCHANGED <<scpiVars, crossed, req>> /\ Running' = Running
        BY <3>3 DEF CheckFlow, StartRun, EndRun, configVars, bounds, Running
      <4>. QED
        BY <3>1, <4>1, SyncAlone
    <3>. QED
      BY <2>2, <3>1, <3>2, <3>3, PutSync, RestartSync DEF Next
  <2>. QED
    BY <2>1, <2>2
<1>. QED
  BY <1>1, <1>2 DEF FInv

\* At rest what is listened on is what the settings say, and every device that runs has a
\* port (Scpi::sync after every change of the configuration and of the settings, none after
\* an edit), unless the two kinds of change overlapped or a client has hung up.
THEOREM ListensAtRest == Spec => []ListenersFollow
<1>1. FInv => ListenersFollow
  <2> SUFFICES ASSUME FInv, AtRest, ~crossed, hangUps = 0
               PROVE  listener = Wanted(settings) /\ Served(settings, Running)
    BY DEF ListenersFollow
  <2>1. SyncInv /\ CalmInv
    BY DEF FInv, IInv
  <2>2. PutApplied /\ \A h \in Handlers : req[h].step = "idle"
    BY DEF AtRest, PutBusy, PutApplied
  <2>3. \A h \in Handlers : req[h] = Resting
    BY <2>1, <2>2 DEF CalmInv, LockInv
  <2>. QED
    BY <2>1, <2>2, <2>3, RestingType DEF SyncInv, AppliedInv, Listening, HasPorts
<1>. QED
  BY <1>1, FollowInit, FollowStep, PTL DEF Spec
=============================================================================
