-------------------------- MODULE RecordingsProofs --------------------------
(***************************************************************************)
(* Proofs about the store of Recordings and what a client shows of it, for *)
(* every set of signals and handlers, every interval, bound and capacity.  *)
(*                                                                         *)
(* That a sample belongs to its series is not inductive: a tick writes     *)
(* what it read some time before.  IInv adds that a series belongs to a    *)
(* recording that exists (SeriesInv), that every sample does               *)
(* (SamplesInv), and what is true of the values a tick still holds while   *)
(* series end, recordings are deleted and ids are given again (BatchInv).  *)
(* WInv adds what is true of a client, its messages and the requests that  *)
(* are announcing.                                                         *)
(***************************************************************************)
EXTENDS Recordings, FiniteSetTheorems, WellFoundedInduction, TLAPS

-----------------------------------------------------------------------------
(* Numbers. *)

\* A set of numbers has a least one, if any.
LEMMA Least ==
  ASSUME NEW T \in SUBSET Nat, T # {}
  PROVE  \E m \in T : \A x \in T : m <= x
<1>1. PICK m \in T : \A x \in T : <<x, m>> \notin OpToRel(<, Nat)
  BY NatLessThanWellFounded, WFMin
<1>2. \A x \in T : ~(x < m)
  BY <1>1, Zenon DEF OpToRel
<1>. QED
  BY <1>2

\* A set of numbers up to n has a largest one, if any.
LEMMA Largest ==
  ASSUME NEW n \in Nat, NEW T \in SUBSET (1..n), T # {}
  PROVE  \E m \in T : \A x \in T : x <= m
<1> DEFINE B == {b \in Nat : \A x \in T : x <= b}
<1>1. n \in B
  OBVIOUS
<1>2. PICK b \in B : \A c \in B : b <= c
  BY <1>1, Least
<1>3. b \in Nat /\ \A x \in T : x <= b
  BY <1>2
<1>4. PICK y \in T : y <= b
  BY <1>3
<1>5. b - 1 \in Nat /\ b - 1 \notin B
  BY <1>2, <1>3, <1>4
<1>6. PICK x \in T : ~(x <= b - 1)
  BY <1>5
<1>7. x = b
  BY <1>3, <1>6
<1>. QED
  BY <1>3, <1>7

-----------------------------------------------------------------------------
Entry == [rec : Ids \cup {0}, sig : Signals \cup {"none"}, added : 0..(MaxTicks + 1),
          active : BOOLEAN]

\* The part of TypeOK that is about the store and the sampler.
StoreTypes ==
  /\ recs \in [Ids -> States] /\ series \in [Ids -> Entry]
  /\ samples \subseteq Samples /\ batch \subseteq Samples /\ clock \in 0..MaxTicks
  /\ given \in [Ids -> Nat]

\* ON DELETE CASCADE leaves no series behind, and an id that was not given has none.
SeriesInv ==
  \A s \in Ids :
    /\ series[s].rec # 0 => recs[series[s].rec] # "absent" /\ given[s] >= 1
    /\ series[s].rec = 0 => ~series[s].active
    /\ series[s].rec # 0 => series[s].sig \in Signals

\* x was read from the signal of its series after that was added, if no other
\* series had its id.
ReadFrom(x) ==
  given[x.series] = 1 => x.sig = series[x.series].sig /\ x.t >= series[x.series].added

SamplesInv == \A x \in samples : series[x.series].rec # 0 /\ ReadFrom(x)

BatchInv == \A x \in batch : given[x.series] >= 1 /\ (series[x.series].rec # 0 => ReadFrom(x))

IInv == StoreTypes /\ SeriesInv /\ SamplesInv /\ BatchInv

-----------------------------------------------------------------------------
(* Ids. *)

\* SQLite gives a new row an id that none has.
LEMMA FreshId ==
  ASSUME NEW used \in SUBSET Ids
  PROVE  NextId(used) \in Nat \ {0} /\ NextId(used) \notin used
<1>1. CASE used = {}
  BY <1>1 DEF NextId
<1>2. CASE used # {}
  <2> DEFINE m == CHOOSE m \in used : \A x \in used : x <= m
  <2>1. m \in used /\ \A x \in used : x <= m
    BY <1>2, Largest, BoundsAssumption DEF Ids
  <2>. HIDE DEF m
  <2>2. 1 + m \notin used
    BY <2>1 DEF Ids
  <2>3. NextId(used) = 1 + m
    BY <1>2 DEF NextId, m
  <2>. QED
    BY <2>1, <2>2, <2>3 DEF Ids
<1>. QED
  BY <1>1, <1>2

-----------------------------------------------------------------------------
(* IInv is inductive. *)

LEMMA InitInv == Init => IInv
  BY BoundsAssumption DEF Init, IInv, StoreTypes, SeriesInv, SamplesInv, BatchInv, Entry, States,
     Samples, Absent, Ids

\* A step that changes neither the store nor the batch.
LEMMA IdleStep ==
  ASSUME IInv, UNCHANGED <<store, batch, given>>, clock' \in 0..MaxTicks
  PROVE  IInv'
  BY DEF IInv, StoreTypes, SeriesInv, SamplesInv, BatchInv, ReadFrom, store

\* Requests that change the state of recordings and nothing else: a row that is
\* there stays there.
LEMMA StateStep ==
  ASSUME IInv, recs' \in [Ids -> States], \A id \in Ids : recs[id] # "absent" => recs'[id] # "absent",
         UNCHANGED <<series, samples, clock, given>>, batch' \in {batch, {}}
  PROVE  IInv'
  BY DEF IInv, StoreTypes, SeriesInv, SamplesInv, BatchInv, ReadFrom, Entry

\* Every step of a request keeps IInv.
LEMMA RequestStep ==
  ASSUME IInv, NEW h \in Handlers, Request(h)
  PROVE  IInv'
<1> USE DEF Change, watcher
<1>1. ASSUME NEW step, Create(h, step) PROVE IInv'
  <2>1. recs' \in [Ids -> States] /\ \A id \in Ids : recs[id] # "absent" => recs'[id] # "absent"
    BY <1>1 DEF Create, IInv, StoreTypes, States
  <2>. QED
    BY <1>1, <2>1, StateStep DEF Create
<1>2. ASSUME NEW id \in Ids, Pause(h, id) PROVE IInv'
  <2>1. recs' \in [Ids -> States] /\ \A i \in Ids : recs[i] # "absent" => recs'[i] # "absent"
    BY <1>2 DEF Pause, Paused, IInv, StoreTypes, States
  <2>. QED
    BY <1>2, <2>1, StateStep DEF Pause
<1>3. ASSUME NEW id \in Ids, Resume(h, id) PROVE IInv'
  <2>1. recs' \in [Ids -> States] /\ \A i \in Ids : recs[i] # "absent" => recs'[i] # "absent"
    BY <1>3 DEF Resume, Resumed, IInv, StoreTypes, States
  <2>. QED
    BY <1>3, <2>1, StateStep DEF Resume
<1>4. ASSUME NEW id \in Ids, Stop(h, id) PROVE IInv'
  <2>1. recs' \in [Ids -> States] /\ \A i \in Ids : recs[i] # "absent" => recs'[i] # "absent"
    BY <1>4 DEF Stop, IInv, StoreTypes, States
  <2>. QED
    BY <1>4, <2>1, StateStep DEF Stop
<1>5. ASSUME NEW id \in Ids, Delete(h, id) PROVE IInv'
  <2>1. recs' = [recs EXCEPT ![id] = "absent"] /\ UNCHANGED <<batch, clock, given>>
    BY <1>5 DEF Delete
  <2>2. \A s \in Ids : series'[s] = IF series[s].rec = id THEN Absent ELSE series[s]
    BY <1>5 DEF Delete
  <2>3. samples' = {x \in samples : series[x.series].rec # id}
    BY <1>5 DEF Delete
  <2>4. StoreTypes'
    <3>1. Absent \in Entry
      BY BoundsAssumption DEF Absent, Entry
    <3>2. series' \in [Ids -> Entry]
      BY <1>5, <3>1 DEF Delete, IInv, StoreTypes
    <3>. QED
      BY <2>1, <2>3, <3>2 DEF IInv, StoreTypes, States
  <2>5. SeriesInv'
    BY <2>1, <2>2 DEF IInv, StoreTypes, SeriesInv, Absent, Entry
  <2>6. SamplesInv'
    <3> SUFFICES ASSUME NEW x \in samples' PROVE series'[x.series].rec # 0 /\ ReadFrom(x)'
      BY DEF SamplesInv
    <3>1. x \in samples /\ x.series \in Ids /\ series'[x.series] = series[x.series]
      BY <2>2, <2>3 DEF IInv, StoreTypes, Samples
    <3>. QED
      BY <2>1, <3>1 DEF IInv, SamplesInv, ReadFrom
  <2>7. BatchInv'
    <3> SUFFICES ASSUME NEW x \in batch
                 PROVE  given[x.series] >= 1 /\ (series'[x.series].rec # 0 => ReadFrom(x)')
      BY <2>1 DEF BatchInv
    <3>1. x.series \in Ids
      BY DEF IInv, StoreTypes, Samples
    <3>2. series'[x.series].rec # 0 => series'[x.series] = series[x.series]
      BY <2>2, <3>1 DEF Absent
    <3>. QED
      BY <2>1, <3>2 DEF IInv, BatchInv, ReadFrom
  <2>. QED
    BY <2>4, <2>5, <2>6, <2>7 DEF IInv
<1>6. ASSUME NEW id, NEW sig \in Signals, NEW times \in SUBSET (0..(MaxTicks + 1)),
             NewSeries(id, sig, times), UNCHANGED <<clock, batch>>
      PROVE  IInv'
  <2> DEFINE s == NextId(UsedSeries)
  <2>1. s \in Ids /\ series[s].rec = 0
    <3>1. s \in Nat \ {0} /\ s \notin UsedSeries /\ s <= MaxId
      BY <1>6, FreshId DEF NewSeries, UsedSeries
    <3>. QED
      BY <3>1, BoundsAssumption DEF UsedSeries, Ids
  <2>2. PICK now \in times :
          series' = [series EXCEPT ![s] = [rec |-> id, sig |-> sig, added |-> now, active |-> TRUE]]
    BY <1>6 DEF NewSeries
  <2>3. /\ given' = [given EXCEPT ![s] = @ + 1] /\ recs[id] # "absent" /\ id \in Ids
        /\ UNCHANGED <<recs, samples, clock, batch>>
    BY <1>6 DEF NewSeries, Live
  <2>. HIDE DEF s
  <2>4. StoreTypes'
    <3>2. [rec |-> id, sig |-> sig, added |-> now, active |-> TRUE] \in Entry
      BY <2>3 DEF Entry
    <3>3. series' \in [Ids -> Entry]
      BY <2>1, <2>2, <3>2 DEF IInv, StoreTypes
    <3>4. given' \in [Ids -> Nat]
      BY <2>1, <2>3 DEF IInv, StoreTypes
    <3>. QED
      BY <2>3, <3>3, <3>4 DEF IInv, StoreTypes
  <2>5. SeriesInv'
    <3> SUFFICES ASSUME NEW r \in Ids
                 PROVE  /\ series'[r].rec # 0 => recs[series'[r].rec] # "absent" /\ given'[r] >= 1
                        /\ series'[r].rec = 0 => ~series'[r].active
                        /\ series'[r].rec # 0 => series'[r].sig \in Signals
      BY <2>3 DEF SeriesInv
    <3>1. CASE r = s
      BY <2>1, <2>2, <2>3, <3>1, BoundsAssumption DEF IInv, StoreTypes, Ids
    <3>2. CASE r # s
      BY <2>1, <2>2, <2>3, <3>2 DEF IInv, StoreTypes, SeriesInv
    <3>. QED
      BY <3>1, <3>2
  <2>6. SamplesInv'
    <3> SUFFICES ASSUME NEW x \in samples PROVE series'[x.series].rec # 0 /\ ReadFrom(x)'
      BY <2>3 DEF SamplesInv
    <3>1. x.series \in Ids /\ x.series # s
      BY <2>1 DEF IInv, StoreTypes, SamplesInv, Samples
    <3>2. series'[x.series] = series[x.series] /\ given'[x.series] = given[x.series]
      BY <2>2, <2>3, <3>1 DEF IInv, StoreTypes
    <3>. QED
      BY <3>2 DEF IInv, SamplesInv, ReadFrom
  <2>7. BatchInv'
    <3> SUFFICES ASSUME NEW x \in batch
                 PROVE  given'[x.series] >= 1 /\ (series'[x.series].rec # 0 => ReadFrom(x)')
      BY <2>3 DEF BatchInv
    <3>1. x.series \in Ids /\ given[x.series] >= 1 /\ given[x.series] \in Nat
      BY DEF IInv, StoreTypes, BatchInv, Samples
    <3>2. CASE x.series = s
      <4>1. given'[x.series] = given[x.series] + 1
        BY <2>3, <3>1, <3>2 DEF IInv, StoreTypes
      <4>. QED
        BY <3>1, <4>1 DEF ReadFrom
    <3>3. CASE x.series # s
      <4>1. series'[x.series] = series[x.series] /\ given'[x.series] = given[x.series]
        BY <2>2, <2>3, <3>1, <3>3 DEF IInv, StoreTypes
      <4>. QED
        BY <3>1, <4>1 DEF IInv, BatchInv, ReadFrom
    <3>. QED
      BY <3>2, <3>3
  <2>. QED
    BY <2>4, <2>5, <2>6, <2>7 DEF IInv
<1>7. ASSUME NEW s \in Ids, EndSeries(h, s) PROVE IInv'
  <2>1. \A r \in Ids : /\ series'[r].rec = series[r].rec /\ series'[r].sig = series[r].sig
                       /\ series'[r].added = series[r].added
                       /\ series'[r].active => series[r].active
    BY <1>7 DEF EndSeries, IInv, StoreTypes, Entry
  <2>2. series' \in [Ids -> Entry] /\ UNCHANGED <<recs, samples, clock, batch, given>>
    BY <1>7 DEF EndSeries, IInv, StoreTypes, Entry
  <2>3. StoreTypes' /\ SeriesInv'
    BY <2>1, <2>2 DEF IInv, StoreTypes, SeriesInv
  <2>4. \A x \in Samples : ReadFrom(x)' <=> ReadFrom(x)
    BY <2>1, <2>2 DEF ReadFrom, Samples
  <2>5. SamplesInv' /\ BatchInv'
    BY <2>1, <2>2, <2>4 DEF IInv, StoreTypes, SamplesInv, BatchInv, Samples
  <2>. QED
    BY <2>3, <2>5 DEF IInv
<1>8. CASE ReadRow(h) \/ ReadSeries(h) \/ Publish(h) \/ EndUnannounced(h)
  BY <1>8, IdleStep DEF ReadRow, ReadSeries, Publish, EndUnannounced, history, IInv, StoreTypes
<1>9. Stamps \in SUBSET (0..(MaxTicks + 1)) /\ 0..(clock + 1) \in SUBSET (0..(MaxTicks + 1))
  BY BoundsAssumption DEF Stamps, IInv, StoreTypes
<1>10. ASSUME NEW id \in Ids, NEW sig \in Signals, AddSeries(h, id, sig) PROVE IInv'
  BY <1>6, <1>9, <1>10 DEF AddSeries
<1>11. CASE StartWith(h)
  <2>1. UNCHANGED <<clock, batch>>
    BY <1>11 DEF StartWith
  <2>2. CASE \E sig \in Signals : NewSeries(handler[h].id, sig, 0..(clock + 1))
    BY <1>6, <1>9, <2>1, <2>2
  <2>3. CASE UNCHANGED <<store, ops, given>>
    BY <2>1, <2>3, IdleStep DEF IInv, StoreTypes
  <2>. QED
    BY <1>11, <2>2, <2>3 DEF StartWith
<1>. QED
  BY <1>1, <1>2, <1>3, <1>4, <1>5, <1>7, <1>8, <1>10, <1>11 DEF Request

\* Every step keeps IInv.
LEMMA NextStep == IInv /\ [Next]_vars => IInv'
<1> SUFFICES ASSUME IInv, [Next]_vars PROVE IInv'
  OBVIOUS
<1>1. ASSUME NEW h \in Handlers, Request(h) PROVE IInv'
  BY <1>1, RequestStep
<1>2. CASE Tick
  <2>1. PICK got \in SUBSET Due(clock + 1) :
          batch' = {[series |-> r, t |-> clock + 1, sig |-> series[r].sig] : r \in got}
    BY <1>2 DEF Tick
  <2>2. /\ clock' = clock + 1 /\ clock + 1 \in 1..MaxTicks
        /\ UNCHANGED <<recs, series, samples, given>>
    BY <1>2, BoundsAssumption DEF Tick, store, history, IInv, StoreTypes
  <2>3. \A r \in got : /\ r \in Ids /\ series[r].rec # 0 /\ given[r] >= 1
                       /\ series[r].added <= clock + 1 /\ series[r].sig \in Signals
    BY DEF Due, IInv, SeriesInv
  <2>4. batch' \subseteq Samples
    BY <2>1, <2>2, <2>3 DEF Samples
  <2>5. StoreTypes' /\ SeriesInv' /\ SamplesInv'
    BY <2>2, <2>4, BoundsAssumption DEF IInv, StoreTypes, SeriesInv, SamplesInv, ReadFrom
  <2>6. BatchInv'
    <3> SUFFICES ASSUME NEW x \in batch'
                 PROVE  given[x.series] >= 1 /\ ReadFrom(x)'
      BY <2>2 DEF BatchInv
    <3>1. PICK r \in got : x = [series |-> r, t |-> clock + 1, sig |-> series[r].sig]
      BY <2>1
    <3>. QED
      BY <2>2, <2>3, <3>1 DEF ReadFrom
  <2>. QED
    BY <2>5, <2>6 DEF IInv
<1>3. CASE Insert
  BY <1>3 DEF Insert, IInv, StoreTypes, SeriesInv, SamplesInv, BatchInv, ReadFrom, Entry, Samples,
     history
<1>4. CASE Second
  BY <1>4, IdleStep, BoundsAssumption DEF Second, history, IInv, StoreTypes
<1>5. CASE Subscribe \/ SnapshotRows \/ SnapshotSeries \/ Receive \/ Leave
  BY <1>5, IdleStep DEF Subscribe, SnapshotRows, SnapshotSeries, Receive, Leave, server, history, IInv,
     StoreTypes
<1>6. CASE Restart
  <2>1. recs' \in [Ids -> States] /\ \A id \in Ids : recs[id] # "absent" => recs'[id] # "absent"
    BY <1>6 DEF Restart, CloseOrphans, Live, States
  <2>. QED
    BY <1>6, <2>1, StateStep DEF Restart
<1>7. CASE UNCHANGED vars
  BY <1>7, IdleStep DEF vars, server, history, IInv, StoreTypes
<1>. QED
  BY <1>1, <1>2, <1>3, <1>4, <1>5, <1>6, <1>7 DEF Next

\* IInv is an invariant.
LEMMA Invariance == Spec => []IInv
  BY InitInv, NextStep, PTL DEF Spec

-----------------------------------------------------------------------------
(* The theorems. *)

\* insert_samples and the cascade: no sample outlives its series, and none is of
\* another signal or older than its series, unless the series' id was given before.
THEOREM SamplesAreOwned == Spec => []SamplesBelong
<1>1. IInv => SamplesBelong
  BY DEF IInv, StoreTypes, SeriesInv, SamplesInv, ReadFrom, SamplesBelong, Live, Entry, Samples
<1>. QED
  BY <1>1, Invariance, PTL

\* The store's pause, resume, stop and insert_samples: nothing brings a stopped
\* recording back, and nothing is added to it.
THEOREM StoppedIsFinal == Spec => StopIsFinal
<1> DEFINE Final == \A id \in Ids : recs[id] = "stopped" =>
                      /\ recs'[id] \in {"stopped", "absent"}
                      /\ \A x \in samples' : series'[x.series].rec = id => x \in samples
<1>1. IInv /\ [Next]_vars => [Final]_vars
  <2> SUFFICES ASSUME IInv, Next, NEW id \in Ids, recs[id] = "stopped"
               PROVE  /\ recs'[id] \in {"stopped", "absent"}
                      /\ \A x \in samples' : series'[x.series].rec = id => x \in samples
    OBVIOUS
  <2> USE DEF Change, watcher, server, store, history, IInv, StoreTypes, Live
  <2>1. ASSUME NEW h \in Handlers, Request(h)
        PROVE  recs'[id] \in {"stopped", "absent"} /\ samples' \subseteq samples
    <3>1. ASSUME NEW step, Create(h, step)
          PROVE  recs'[id] \in {"stopped", "absent"} /\ samples' \subseteq samples
      BY <2>1, <3>1, FreshId DEF Create
    <3>2. ASSUME NEW i \in Ids, Pause(h, i) \/ Resume(h, i) \/ Stop(h, i) \/ Delete(h, i)
          PROVE  recs'[id] \in {"stopped", "absent"} /\ samples' \subseteq samples
      BY <3>2 DEF Pause, Paused, Resume, Resumed, Stop, Delete
    <3>3. ASSUME NEW i \in Ids, NEW sig \in Signals, AddSeries(h, i, sig)
          PROVE  recs'[id] \in {"stopped", "absent"} /\ samples' \subseteq samples
      BY <3>3 DEF AddSeries, NewSeries
    <3>4. ASSUME NEW s \in Ids, EndSeries(h, s)
          PROVE  recs'[id] \in {"stopped", "absent"} /\ samples' \subseteq samples
      BY <3>4 DEF EndSeries
    <3>5. CASE StartWith(h) \/ ReadRow(h) \/ ReadSeries(h) \/ Publish(h) \/ EndUnannounced(h)
      BY <3>5 DEF StartWith, NewSeries, ReadRow, ReadSeries, Publish, EndUnannounced
    <3>. QED
      BY <2>1, <3>1, <3>2, <3>3, <3>4, <3>5 DEF Request
  <2>2. CASE Insert
    BY <2>2 DEF Insert
  <2>3. CASE Tick \/ Second
    BY <2>3 DEF Tick, Second
  <2>4. CASE Subscribe \/ SnapshotRows \/ SnapshotSeries \/ Receive \/ Leave
    BY <2>4 DEF Subscribe, SnapshotRows, SnapshotSeries, Receive, Leave
  <2>5. CASE Restart
    BY <2>5 DEF Restart, CloseOrphans
  <2>. QED
    BY <2>1, <2>2, <2>3, <2>4, <2>5 DEF Next
<1>. QED
  BY <1>1, Invariance, PTL DEF Spec, StopIsFinal

-----------------------------------------------------------------------------
(* The client.                                                             *)
(* As long as no change was made while another waited to be announced, one *)
(* request at most is announcing, and its row is as new as what it says    *)
(* (AnnounceInv).  What the client will show once it has received          *)
(* everything is what is stored, but for the recording being announced and *)
(* those missed: the last message about a recording is right, and where    *)
(* there is none, the view is, unless a message was dropped (FollowInv).   *)

Steps == {"idle", "adding", "read", "series", "publish"}
AnyRows == [state : States, sigs : SUBSET (Signals \cup {"none"})]
Requests == [step : Steps, id : Ids \cup {0}, row : AnyRows]
Messages == [id : Ids \cup {0}, row : AnyRows]

WatchTypes ==
  /\ handler \in [Handlers -> Requests] /\ raced \in BOOLEAN
  /\ client \in {"off", "subscribed", "listed", "live"}
  /\ inbox \in Seq(Messages) /\ lagged \in BOOLEAN /\ view \in [Ids -> AnyRows]

Announces(h) ==
  LET r == handler[h] IN
  /\ r.step # "idle" => r.id \in Ids
  /\ r.step \in {"adding", "read", "series"} => r.id \in Live
  /\ r.step = "series" => r.row.state = recs[r.id]
  /\ r.step = "publish" => r.row = Table[r.id]

AnnounceInv ==
  ~raced => /\ \A h \in Handlers : Announces(h)
            /\ \A h, g \in Busy : h = g

\* The last message of q about id, if there is one, says row.
Told(q, id, row) ==
  \A k \in 1..Len(q) :
    q[k].id = id /\ (\A j \in (k + 1)..Len(q) : q[j].id # id) => q[k].row = row
Untold(q, id) == \A k \in 1..Len(q) : q[k].id # id

Follows(id) ==
  /\ Told(inbox, id, Table[id])
  /\ Untold(inbox, id) /\ ~lagged =>
       /\ client = "listed" => view[id].state = recs[id]
       /\ client = "live" => view[id] = Table[id]

Announced(id) == \A h \in Busy : handler[h].id # id

FollowInv == ~raced /\ client # "off" => \A id \in Ids \ missed : Announced(id) => Follows(id)

WInv == IInv /\ WatchTypes /\ AnnounceInv /\ FollowInv

\* Facts about queues of messages: what becomes of them when one is taken off or put on.
LEMMA TakenOff ==
  ASSUME NEW q \in Seq(Messages), q # <<>>, NEW id \in Ids, NEW row, Told(q, id, row)
  PROVE  /\ Told(Tail(q), id, row)
         /\ Untold(Tail(q), id) => Untold(q, id) \/ (q[1].id = id /\ q[1].row = row)
<1>1. Len(q) \in Nat /\ Len(q) >= 1 /\ Len(Tail(q)) = Len(q) - 1
  OBVIOUS
<1>2. \A k \in 1..Len(Tail(q)) : Tail(q)[k] = q[k + 1]
  BY <1>1
<1>3. Told(Tail(q), id, row)
  <2> SUFFICES ASSUME NEW k \in 1..Len(Tail(q)), Tail(q)[k].id = id,
                      \A j \in (k + 1)..Len(Tail(q)) : Tail(q)[j].id # id
               PROVE  Tail(q)[k].row = row
    BY DEF Told
  <2>1. k + 1 \in 1..Len(q) /\ q[k + 1].id = id /\ Tail(q)[k] = q[k + 1]
    BY <1>1, <1>2
  <2>2. ASSUME NEW j \in (k + 2)..Len(q) PROVE q[j].id # id
    <3>1. j - 1 \in (k + 1)..Len(Tail(q)) /\ j - 1 \in 1..Len(Tail(q)) /\ (j - 1) + 1 = j
      BY <1>1
    <3>. QED
      BY <1>2, <3>1
  <2>3. q[k + 1].row = row
    <3>1. \A j \in ((k + 1) + 1)..Len(q) : q[j].id # id
      BY <1>1, <2>2
    <3>. QED
      BY <2>1, <3>1 DEF Told
  <2>. QED
    BY <2>1, <2>3
<1>4. ASSUME Untold(Tail(q), id), q[1].id # id PROVE Untold(q, id)
  <2> SUFFICES ASSUME NEW k \in 1..Len(q) PROVE q[k].id # id
    BY DEF Untold
  <2>1. CASE k = 1
    BY <1>4, <2>1
  <2>2. CASE k # 1
    <3>1. k - 1 \in 1..Len(Tail(q)) /\ (k - 1) + 1 = k
      BY <1>1, <2>2
    <3>. QED
      BY <1>2, <1>4, <3>1 DEF Untold
  <2>. QED
    BY <2>1, <2>2
<1>5. ASSUME Untold(Tail(q), id), q[1].id = id PROVE q[1].row = row
  <2>1. ASSUME NEW j \in (1 + 1)..Len(q) PROVE q[j].id # id
    <3>1. j - 1 \in 1..Len(Tail(q)) /\ (j - 1) + 1 = j
      BY <1>1
    <3>. QED
      BY <1>2, <1>5, <3>1 DEF Untold
  <2>. QED
    BY <1>1, <1>5, <2>1 DEF Told
<1>. QED
  BY <1>3, <1>4, <1>5

LEMMA PutOn ==
  ASSUME NEW q \in Seq(Messages), NEW msg \in Messages, NEW id \in Ids, NEW row,
         IF msg.id = id THEN msg.row = row ELSE Told(q, id, row)
  PROVE  /\ Told(Append(q, msg), id, row)
         /\ Untold(Append(q, msg), id) => Untold(q, id) /\ msg.id # id
<1> DEFINE n == Len(q) + 1
           p == Append(q, msg)
<1>1. Len(q) \in Nat /\ Len(p) = n /\ p[n] = msg /\ \A k \in 1..Len(q) : p[k] = q[k]
  OBVIOUS
<1>. HIDE DEF p
<1>2. Told(p, id, row)
  <2> SUFFICES ASSUME NEW k \in 1..n, p[k].id = id, \A j \in (k + 1)..n : p[j].id # id
               PROVE  p[k].row = row
    BY <1>1 DEF Told
  <2>1. CASE k = n
    BY <1>1, <2>1
  <2>2. CASE k # n
    <3>1. k \in 1..Len(q) /\ n \in (k + 1)..n
      BY <1>1, <2>2
    <3>2. msg.id # id
      BY <1>1, <3>1
    <3>3. \A j \in (k + 1)..Len(q) : q[j].id # id
      BY <1>1, <3>1
    <3>. QED
      BY <1>1, <3>1, <3>2, <3>3 DEF Told
  <2>. QED
    BY <2>1, <2>2
<1>3. Untold(p, id) => Untold(q, id) /\ msg.id # id
  BY <1>1 DEF Untold
<1>. QED
  BY <1>2, <1>3 DEF p

\* What is stored, as rows.
LEMMA TableRows ==
  ASSUME IInv
  PROVE  /\ Table \in [Ids -> AnyRows] /\ Gone \in AnyRows
         /\ \A id \in Ids : /\ Row(id) \in AnyRows /\ Row(id).state = recs[id]
                            /\ Table[id] = IF recs[id] = "absent" THEN Gone ELSE Row(id)
<1>1. Gone \in AnyRows
  BY DEF Gone, AnyRows, States
<1>2. ASSUME NEW id \in Ids PROVE Row(id) \in AnyRows /\ Row(id).state = recs[id]
  BY DEF Row, AnyRows, IInv, StoreTypes, Entry
<1>. QED
  BY <1>1, <1>2 DEF Table, Live

\* A step that posts one message and changes no row of the table: those it says nothing
\* of are followed as before, the one it is about is when the message is right.
LEMMA Posts ==
  ASSUME IInv, WatchTypes, client # "off", NEW msg \in Messages, Post(msg),
         Table' = Table, UNCHANGED <<recs, client, view>>, NEW id \in Ids,
         IF msg.id = id THEN msg.row = Table[id] ELSE Follows(id)
  PROVE  Follows(id)'
<1>1. inbox \in Seq(Messages)
  BY DEF WatchTypes
<1>2. CASE inbox' = Append(inbox, msg) /\ lagged' = lagged
  <2>1. /\ Told(inbox', id, Table[id])
        /\ Untold(inbox', id) => Untold(inbox, id) /\ msg.id # id
    BY <1>1, <1>2, PutOn DEF Follows
  <2>. QED
    BY <1>2, <2>1 DEF Follows
<1>3. CASE inbox' = Append(Tail(inbox), msg) /\ lagged' = TRUE /\ inbox # <<>>
  <2>1. Tail(inbox) \in Seq(Messages)
    BY <1>1, <1>3
  <2>2. msg.id # id => Told(Tail(inbox), id, Table[id])
    BY <1>1, <1>3, TakenOff DEF Follows
  <2>3. Told(inbox', id, Table[id])
    BY <1>3, <2>1, <2>2, PutOn
  <2>. QED
    BY <1>3, <2>3 DEF Follows
<1>4. Len(inbox) < Capacity \/ inbox # <<>>
  BY <1>1, BoundsAssumption
<1>5. \/ inbox' = Append(inbox, msg) /\ lagged' = lagged
      \/ inbox' = Append(Tail(inbox), msg) /\ lagged' = TRUE /\ inbox # <<>>
  BY <1>4, Zenon DEF Post
<1>. QED
  BY <1>2, <1>3, <1>5

LEMMA PostTypes ==
  ASSUME WatchTypes, NEW msg \in Messages, Post(msg)
  PROVE  inbox' \in Seq(Messages) /\ lagged' \in BOOLEAN
<1>1. inbox \in Seq(Messages) /\ lagged \in BOOLEAN
  BY DEF WatchTypes
<1>2. Len(inbox) < Capacity \/ inbox # <<>>
  BY <1>1, BoundsAssumption
<1>3. \/ inbox' \in {inbox, Append(inbox, msg)} /\ lagged' = lagged
      \/ inbox' = Append(Tail(inbox), msg) /\ lagged' = TRUE /\ inbox # <<>>
  BY <1>2, Zenon DEF Post
<1>4. inbox # <<>> => Tail(inbox) \in Seq(Messages)
  BY <1>1
<1>5. inbox # <<>> => Append(Tail(inbox), msg) \in Seq(Messages)
  BY <1>4
<1>6. Append(inbox, msg) \in Seq(Messages)
  BY <1>1
<1>. QED
  BY <1>1, <1>3, <1>5, <1>6, Zenon

\* A step that no client sees: no row, request, message or view changes.
LEMMA Unseen ==
  ASSUME WInv, IInv', Table' = Table, UNCHANGED <<recs, handler, raced, watcher>>
  PROVE  WInv'
<1>1. /\ handler' = handler /\ raced' = raced /\ client' = client /\ inbox' = inbox
      /\ lagged' = lagged /\ view' = view /\ recs' = recs /\ missed' = missed
  BY DEF watcher
<1>2. WatchTypes'
  BY <1>1 DEF WInv, WatchTypes
<1>3. Live' = Live /\ Busy' = Busy
  BY <1>1 DEF Live, Busy
<1>4. AnnounceInv'
  BY <1>1, <1>3 DEF WInv, AnnounceInv, Announces
<1>5. \A id \in Ids : Announced(id)' <=> Announced(id)
  BY <1>1, <1>3 DEF Announced
<1>6. FollowInv'
  BY <1>1, <1>5 DEF WInv, FollowInv, Follows
<1>. QED
  BY <1>2, <1>4, <1>6 DEF WInv

\* A request changes the store: from now on it announces that.
LEMMA Changes ==
  ASSUME WInv, IInv', NEW h \in Handlers, NEW id \in Ids, NEW step \in {"adding", "read", "publish"},
         Change(h, id, step),
         step # "publish" => recs'[id] # "absent",
         step = "publish" => recs'[id] = "absent",
         \A i \in Ids \ {id} : Table'[i] = Table[i] /\ recs'[i] = recs[i]
  PROVE  WInv'
<1> DEFINE r == [step |-> step, id |-> id, row |-> Gone]
<1>1. /\ handler[h].step = "idle" /\ handler' = [handler EXCEPT ![h] = r]
      /\ raced' = (raced \/ Busy # {}) /\ client' = client /\ inbox' = inbox
      /\ lagged' = lagged /\ view' = view /\ missed' = missed
  BY DEF Change, watcher
<1>2. r \in Requests /\ r.step = step /\ r.id = id /\ r.row = Gone /\ r.step # "idle"
  BY TableRows DEF WInv, Requests, Steps
<1>. HIDE DEF r
<1>3. /\ handler' \in [Handlers -> Requests] /\ handler'[h] = r
      /\ \A g \in Handlers \ {h} : handler'[g] = handler[g]
  BY <1>1, <1>2 DEF WInv, WatchTypes
<1>4. WatchTypes'
  BY <1>1, <1>3 DEF WInv, WatchTypes
<1>5. ~raced' => ~raced /\ Busy = {} /\ \A g \in Handlers : handler[g].step = "idle"
  BY <1>1 DEF WInv, WatchTypes, Busy
<1>6. ~raced' => Busy' = {h} /\ \A g \in Handlers \ {h} : handler'[g].step = "idle"
  BY <1>2, <1>3, <1>5 DEF Busy
<1>7. Announces(h)'
  <2>1. id \in Live' <=> recs'[id] # "absent"
    BY DEF Live
  <2>2. step = "publish" => Table'[id] = Gone
    BY TableRows DEF Table, Live
  <2>. QED
    BY <1>2, <1>3, <2>1, <2>2 DEF Announces
<1>8. AnnounceInv'
  <2>1. ASSUME ~raced', NEW g \in Handlers, g # h PROVE Announces(g)'
    BY <1>6, <2>1 DEF Announces
  <2>. QED
    BY <1>6, <1>7, <2>1 DEF AnnounceInv
<1>9. FollowInv'
  <2> SUFFICES ASSUME ~raced', client # "off", NEW i \in Ids \ missed, Announced(i)'
               PROVE  Follows(i)'
    BY <1>1 DEF FollowInv
  <2>1. i # id
    BY <1>2, <1>3, <1>6 DEF Announced
  <2>2. Announced(i)
    BY <1>5 DEF Announced
  <2>3. Follows(i)
    BY <1>5, <2>2 DEF WInv, FollowInv
  <2>. QED
    BY <1>1, <2>1, <2>3 DEF Follows
<1>. QED
  BY <1>4, <1>8, <1>9 DEF WInv

\* What depends on the store alone.
LEMMA SameStore ==
  ASSUME UNCHANGED store
  PROVE  /\ recs' = recs /\ Table' = Table /\ Live' = Live
         /\ \A id \in Ids : Row(id)' = Row(id)
<1>1. recs' = recs /\ series' = series
  BY DEF store
<1>. QED
  BY <1>1 DEF Table, Live, Row

\* A request reads part of what it announces; nothing else changes.
LEMMA Reads ==
  ASSUME WInv, IInv', NEW h \in Handlers, NEW r \in Requests,
         UNCHANGED <<store, watcher, raced>>, handler' = [handler EXCEPT ![h] = r],
         handler[h].step # "idle",
         ~raced => /\ r.id = handler[h].id /\ r.step \in {"read", "series", "publish"}
                   /\ r.step \in {"read", "series"} => r.id \in Live
                   /\ r.step = "series" => r.row.state = recs[r.id]
                   /\ r.step = "publish" => r.row = Table[r.id]
  PROVE  WInv'
<1>1. /\ recs' = recs /\ Table' = Table /\ Live' = Live /\ raced' = raced
      /\ client' = client /\ inbox' = inbox /\ lagged' = lagged /\ view' = view
      /\ missed' = missed
  BY SameStore DEF watcher
<1>2. /\ handler' \in [Handlers -> Requests] /\ handler'[h] = r
      /\ \A g \in Handlers \ {h} : handler'[g] = handler[g]
  BY DEF WInv, WatchTypes
<1>3. WatchTypes'
  BY <1>1, <1>2 DEF WInv, WatchTypes
<1>4. ~raced => Busy' = Busy
  BY <1>2 DEF Busy
<1>5. ~raced => \A g \in Handlers : handler'[g].id = handler[g].id
  BY <1>2
<1>6. AnnounceInv'
  <2>1. ~raced => Announces(h)'
    BY <1>1, <1>2 DEF WInv, AnnounceInv, Announces, Busy
  <2>2. ~raced => \A g \in Handlers \ {h} : Announces(g)'
    BY <1>1, <1>2 DEF WInv, AnnounceInv, Announces
  <2>. QED
    BY <1>1, <1>4, <2>1, <2>2 DEF WInv, AnnounceInv
<1>7. FollowInv'
  <2>1. ~raced => \A id \in Ids : Announced(id)' => Announced(id)
    BY <1>4, <1>5 DEF Announced, Busy
  <2>. QED
    BY <1>1, <2>1 DEF WInv, FollowInv, Follows
<1>. QED
  BY <1>3, <1>6, <1>7 DEF WInv

LEMMA ReadsRow ==
  ASSUME WInv, IInv', NEW h \in Handlers, ReadRow(h)
  PROVE  WInv'
<1> DEFINE i == handler[h].id
           r == IF i \in Live
                THEN [step |-> "series", id |-> i, row |-> [state |-> recs[i], sigs |-> {}]]
                ELSE Resting
<1>1. handler[h] \in Requests /\ i \in Ids \cup {0} /\ handler[h].step = "read"
  BY DEF WInv, WatchTypes, Requests, ReadRow
<1>2. r \in Requests
  <2>1. Resting \in Requests
    BY TableRows DEF Resting, Requests, Steps, WInv
  <2>2. i \in Live => recs[i] \in States
    BY DEF Live, WInv, IInv, StoreTypes
  <2>3. i \in Live => [state |-> recs[i], sigs |-> {}] \in AnyRows
    BY <2>2 DEF AnyRows
  <2>. QED
    BY <1>1, <2>1, <2>3 DEF Requests, Steps
<1>3. handler' = [handler EXCEPT ![h] = r] /\ UNCHANGED <<store, watcher, raced>>
  BY DEF ReadRow, history
<1>4. ~raced => i \in Live
  BY <1>1 DEF WInv, AnnounceInv, Announces
<1>5. i \in Live => r.id = i /\ r.step = "series" /\ r.row.state = recs[i]
  OBVIOUS
<1>. HIDE DEF r
<1>. QED
  BY <1>1, <1>2, <1>3, <1>4, <1>5, Reads

LEMMA ReadsSeries ==
  ASSUME WInv, IInv', NEW h \in Handlers, ReadSeries(h)
  PROVE  WInv'
<1> DEFINE i == handler[h].id
           b == handler[h].row
           r == [handler[h] EXCEPT !.step = "publish", !.row.sigs = Row(i).sigs]
<1>1. handler[h] \in Requests /\ handler[h].step = "series"
  BY DEF WInv, WatchTypes, ReadSeries
<1>2. Row(i).sigs \in SUBSET (Signals \cup {"none"})
  <2>1. Row(i).sigs = {series[s].sig : s \in {x \in Ids : series[x].rec = i /\ series[x].active}}
    BY DEF Row
  <2>2. \A s \in Ids : series[s].sig \in Signals \cup {"none"}
    BY DEF WInv, IInv, StoreTypes, Entry
  <2>. QED
    BY <2>1, <2>2
<1>3. b \in AnyRows /\ r = [step |-> "publish", id |-> i, row |-> [b EXCEPT !.sigs = Row(i).sigs]]
  <2>1. handler[h] = [step |-> handler[h].step, id |-> i, row |-> b] /\ b \in AnyRows
    BY <1>1 DEF Requests
  <2>. HIDE DEF b, i
  <2>2. [handler[h] EXCEPT !.step = "publish"] = [step |-> "publish", id |-> i, row |-> b]
    BY <2>1
  <2>3. r = [[handler[h] EXCEPT !.step = "publish"] EXCEPT !.row.sigs = Row(i).sigs]
    OBVIOUS
  <2>. HIDE DEF r
  <2>4. r = [[step |-> "publish", id |-> i, row |-> b] EXCEPT !.row.sigs = Row(i).sigs]
    BY <2>2, <2>3
  <2>5. r = [step |-> "publish", id |-> i, row |-> [b EXCEPT !.sigs = Row(i).sigs]]
    BY <2>4
  <2>. QED
    BY <2>1, <2>5
<1>4. /\ [b EXCEPT !.sigs = Row(i).sigs] \in AnyRows
      /\ [b EXCEPT !.sigs = Row(i).sigs] = [state |-> b.state, sigs |-> Row(i).sigs]
  BY <1>2, <1>3 DEF AnyRows
<1>5. r \in Requests /\ r.id = i /\ r.step = "publish"
      /\ r.row = [state |-> b.state, sigs |-> Row(i).sigs]
  BY <1>1, <1>3, <1>4 DEF Requests, Steps
<1>6. handler' = [handler EXCEPT ![h] = r] /\ UNCHANGED <<store, watcher, raced>>
  BY <1>1 DEF ReadSeries, history, Requests
<1>7. ~raced => r.row = Table[i]
  <2>1. ~raced => i \in Live /\ i \in Ids /\ b.state = recs[i]
    BY <1>1 DEF WInv, AnnounceInv, Announces
  <2>2. Row(i) = [state |-> recs[i], sigs |-> Row(i).sigs]
    BY DEF Row
  <2>. QED
    BY <1>5, <2>1, <2>2 DEF Table
<1>. HIDE DEF r, b
<1>. QED
  BY <1>1, <1>5, <1>6, <1>7, Reads

\* The row is published: it is what is stored of the recording.
LEMMA Publishes ==
  ASSUME WInv, IInv', NEW h \in Handlers, Publish(h)
  PROVE  WInv'
<1> DEFINE msg == [id |-> handler[h].id, row |-> handler[h].row]
<1>1. /\ recs' = recs /\ Table' = Table /\ Live' = Live /\ raced' = raced
      /\ client' = client /\ view' = view
  BY SameStore DEF Publish, history
<1>2. handler[h] \in Requests /\ handler[h].step = "publish" /\ Post(msg)
  BY DEF WInv, WatchTypes, Publish
<1>3. msg \in Messages /\ msg.id = handler[h].id /\ msg.row = handler[h].row
  BY <1>2 DEF Requests, Messages
<1>. HIDE DEF msg
<1>4. inbox' \in Seq(Messages) /\ lagged' \in BOOLEAN
  BY <1>2, <1>3, PostTypes DEF WInv
<1>5. Resting \in Requests /\ Resting.step = "idle"
  BY TableRows DEF Resting, Requests, Steps, WInv
<1>6. /\ handler' \in [Handlers -> Requests] /\ handler'[h].step = "idle"
      /\ \A g \in Handlers \ {h} : handler'[g] = handler[g]
  BY <1>5 DEF WInv, WatchTypes, Publish
<1>7. WatchTypes'
  BY <1>1, <1>4, <1>6 DEF WInv, WatchTypes
<1>8. Busy' = Busy \ {h} /\ h \in Busy
  BY <1>2, <1>6 DEF Busy
<1>9. AnnounceInv'
  <2>1. ASSUME ~raced, NEW g \in Handlers PROVE Announces(g)'
    BY <1>1, <1>6, <2>1 DEF WInv, AnnounceInv, Announces
  <2>. QED
    BY <1>1, <1>8, <2>1 DEF WInv, AnnounceInv
<1>10. FollowInv'
  <2> SUFFICES ASSUME ~raced, client # "off", NEW id \in Ids, id \notin missed'
               PROVE  Follows(id)'
    BY <1>1 DEF FollowInv
  <2>0. id \in missed => msg.id = id
    BY <1>3 DEF Publish
  <2>1. CASE msg.id = id
    <3>1. msg.row = Table[id]
      BY <1>2, <1>3, <2>1 DEF WInv, AnnounceInv, Announces
    <3>. QED
      BY <1>1, <1>2, <1>3, <2>1, <3>1, Posts DEF WInv
  <2>2. CASE msg.id # id
    <3>1. Announced(id)
      BY <1>3, <1>8, <2>2 DEF WInv, AnnounceInv, Announced
    <3>2. Follows(id)
      BY <2>0, <2>2, <3>1 DEF WInv, FollowInv
    <3>. QED
      BY <1>1, <1>2, <1>3, <2>2, <3>2, Posts DEF WInv
  <2>. QED
    BY <2>1, <2>2
<1>. QED
  BY <1>7, <1>9, <1>10 DEF WInv

\* A tick's values are published: they are about no recording.
LEMMA Inserts ==
  ASSUME WInv, IInv', Insert
  PROVE  WInv'
<1>1. /\ recs' = recs /\ Table' = Table /\ Live' = Live /\ raced' = raced
      /\ client' = client /\ view' = view /\ handler' = handler /\ missed' = missed
      /\ Post(Values)
  BY DEF Insert, history, Table, Live, Row
<1>2. Values \in Messages /\ Values.id = 0 /\ 0 \notin Ids
  BY TableRows DEF Values, Messages, WInv, Ids
<1>3. inbox' \in Seq(Messages) /\ lagged' \in BOOLEAN
  BY <1>1, <1>2, PostTypes DEF WInv
<1>4. WatchTypes'
  BY <1>1, <1>3 DEF WInv, WatchTypes
<1>5. Busy' = Busy
  BY <1>1 DEF Busy
<1>6. AnnounceInv'
  BY <1>1, <1>5 DEF WInv, AnnounceInv, Announces
<1>7. FollowInv'
  <2> SUFFICES ASSUME ~raced, client # "off", NEW id \in Ids \ missed, Announced(id)'
               PROVE  Follows(id)'
    BY <1>1 DEF FollowInv
  <2>1. Follows(id)
    BY <1>1, <1>5 DEF WInv, FollowInv, Announced
  <2>2. Values.id # id
    BY <1>2
  <2>. QED
    BY <1>1, <1>2, <2>1, <2>2, Posts DEF WInv
<1>. QED
  BY <1>4, <1>6, <1>7 DEF WInv

\* A client's own step; it follows afterwards what it followed before.
LEMMA Watches ==
  ASSUME WInv, IInv', UNCHANGED <<store, server, history>>, WatchTypes',
         client' # "off" => missed' = missed,
         \A id \in Ids : client' # "off" /\ (client # "off" => Follows(id)) => Follows(id)'
  PROVE  WInv'
<1>1. /\ recs' = recs /\ Table' = Table /\ Live' = Live /\ raced' = raced
      /\ handler' = handler
  BY SameStore DEF server, history
<1>2. Busy' = Busy
  BY <1>1 DEF Busy
<1>3. AnnounceInv'
  BY <1>1, <1>2 DEF WInv, AnnounceInv, Announces
<1>4. \A id \in Ids : Announced(id)' <=> Announced(id)
  BY <1>1, <1>2 DEF Announced
<1>5. FollowInv'
  BY <1>1, <1>4 DEF WInv, FollowInv
<1>. QED
  BY <1>3, <1>5 DEF WInv

LEMMA NoMessages == <<>> \in Seq(Messages)
OBVIOUS

LEMMA Subscribes ==
  ASSUME WInv, IInv', Subscribe
  PROVE  WInv'
<1>1. client' = "subscribed" /\ inbox' = <<>> /\ lagged' = FALSE /\ view' = view
  BY DEF Subscribe
<1>2. UNCHANGED <<store, server, history, missed>>
  BY DEF Subscribe
<1>3. WatchTypes'
  BY <1>1, <1>2, NoMessages DEF WInv, WatchTypes, server, history
<1>4. \A id \in Ids : Follows(id)'
  BY <1>1 DEF Follows, Told
<1>. QED
  BY <1>2, <1>3, <1>4, Watches

LEMMA ListsRows ==
  ASSUME WInv, IInv', SnapshotRows
  PROVE  WInv'
<1>1. /\ client = "subscribed" /\ client' = "listed" /\ inbox' = inbox /\ lagged' = lagged
      /\ view' = [id \in Ids |-> [state |-> recs[id], sigs |-> {}]]
  BY DEF SnapshotRows
<1>2. UNCHANGED <<store, server, history, missed>>
  BY DEF SnapshotRows
<1>3. recs' = recs /\ Table' = Table
  BY <1>2, SameStore
<1>4. \A id \in Ids : [state |-> recs[id], sigs |-> {}] \in AnyRows
  BY DEF WInv, IInv, StoreTypes, AnyRows
<1>5. WatchTypes'
  BY <1>1, <1>2, <1>4 DEF WInv, WatchTypes, server, history
<1>6. \A id \in Ids : Follows(id) => Follows(id)'
  BY <1>1, <1>3 DEF Follows
<1>. QED
  BY <1>1, <1>2, <1>5, <1>6, Watches

LEMMA ListsSeries ==
  ASSUME WInv, IInv', SnapshotSeries
  PROVE  WInv'
<1> DEFINE full(id) == [view[id] EXCEPT !.sigs = Row(id).sigs]
<1>1. /\ client = "listed" /\ client' = "live" /\ inbox' = inbox /\ lagged' = lagged
      /\ view' = [id \in Ids |-> IF view[id].state = "absent" THEN Gone ELSE full(id)]
  BY DEF SnapshotSeries
<1>2. UNCHANGED <<store, server, history, missed>>
  BY DEF SnapshotSeries
<1>3. recs' = recs /\ Table' = Table
  BY <1>2, SameStore
<1>4. ASSUME NEW id \in Ids
      PROVE  full(id) \in AnyRows /\ full(id) = [state |-> view[id].state, sigs |-> Row(id).sigs]
  <2>1. view[id] \in AnyRows /\ Row(id).sigs \in SUBSET (Signals \cup {"none"})
    BY TableRows DEF WInv, WatchTypes, AnyRows
  <2>2. full(id) = [state |-> view[id].state, sigs |-> Row(id).sigs]
    BY <2>1 DEF AnyRows
  <2>. QED
    BY <2>1, <2>2 DEF AnyRows
<1>5. \A id \in Ids : Row(id) = [state |-> recs[id], sigs |-> Row(id).sigs]
  BY DEF Row
<1>. HIDE DEF full
<1>6. WatchTypes'
  <2>1. view' \in [Ids -> AnyRows]
    BY <1>1, <1>4, TableRows DEF WInv
  <2>. QED
    BY <1>1, <1>2, <2>1 DEF WInv, WatchTypes, server, history
<1>7. ASSUME NEW id \in Ids, Follows(id) PROVE Follows(id)'
  <2>1. ASSUME Untold(inbox, id), ~lagged PROVE view'[id] = Table[id]
    <3>1. view[id].state = recs[id]
      BY <1>1, <1>7, <2>1 DEF Follows
    <3>. QED
      BY <1>1, <1>4, <1>5, <3>1 DEF Table, Live
  <2>. QED
    BY <1>1, <1>3, <1>7, <2>1 DEF Follows
<1>. QED
  BY <1>1, <1>2, <1>6, <1>7, Watches

LEMMA Receives ==
  ASSUME WInv, IInv', Receive
  PROVE  WInv'
<1>1. client = "live" /\ inbox # <<>> /\ lagged' = FALSE
      /\ UNCHANGED <<store, server, history, missed>>
  BY DEF Receive
<1>2. recs' = recs /\ Table' = Table
  BY <1>1, SameStore
<1>3. CASE lagged
  <2>1. client' = "subscribed" /\ view' = view /\ inbox' = inbox
    BY <1>3 DEF Receive
  <2>2. WatchTypes'
    BY <1>1, <2>1 DEF WInv, WatchTypes, server, history
  <2>3. \A id \in Ids : Follows(id) => Follows(id)'
    BY <1>2, <2>1 DEF Follows
  <2>. QED
    BY <1>1, <2>2, <2>3, Watches
<1>4. CASE ~lagged
  <2> DEFINE msg == inbox[1]
  <2>1. client' = "live" /\ view' = Seen(Head(inbox)) /\ inbox' = Tail(inbox)
    BY <1>1, <1>4 DEF Receive
  <2>2. inbox \in Seq(Messages) /\ view \in [Ids -> AnyRows]
    BY DEF WInv, WatchTypes
  <2>3. Head(inbox) = msg /\ msg \in Messages /\ inbox' \in Seq(Messages)
    BY <1>1, <2>1, <2>2
  <2>. HIDE DEF msg
  <2>4. msg.row \in AnyRows /\ Values.id = 0
    BY <2>3 DEF Messages, Values
  <2>5. /\ view' \in [Ids -> AnyRows]
        /\ \A id \in Ids : view'[id] = IF msg.id = id THEN msg.row ELSE view[id]
    <3>1. msg = Values => view' = view /\ \A id \in Ids : msg.id # id
      BY <2>1, <2>3, <2>4 DEF Seen, Ids
    <3>2. msg # Values => view' = [view EXCEPT ![msg.id] = msg.row]
      BY <2>1, <2>3 DEF Seen
    <3>. QED
      BY <2>2, <2>4, <3>1, <3>2
  <2>6. WatchTypes'
    BY <1>1, <2>1, <2>3, <2>5 DEF WInv, WatchTypes, server, history
  <2>7. ASSUME NEW id \in Ids, Follows(id) PROVE Follows(id)'
    <3>1. /\ Told(inbox', id, Table[id])
          /\ Untold(inbox', id) => Untold(inbox, id) \/ (msg.id = id /\ msg.row = Table[id])
      BY <1>1, <2>1, <2>2, <2>7, TakenOff DEF Follows, msg
    <3>2. Untold(inbox, id) => msg.id # id /\ view[id] = Table[id]
      <4>1. Untold(inbox, id) => view[id] = Table[id]
        BY <1>1, <1>4, <2>7 DEF Follows
      <4>2. 1 \in 1..Len(inbox)
        BY <1>1, <2>2
      <4>. QED
        BY <4>1, <4>2 DEF Untold, msg
    <3>3. Untold(inbox', id) => view'[id] = Table[id]
      BY <2>5, <3>1, <3>2
    <3>. QED
      BY <1>2, <2>1, <3>1, <3>3 DEF Follows
  <2>. QED
    BY <1>1, <2>6, <2>7, Watches
<1>. QED
  BY <1>3, <1>4

LEMMA Leaves ==
  ASSUME WInv, IInv', Leave
  PROVE  WInv'
<1>1. /\ client' = "off" /\ inbox' = <<>> /\ lagged' = FALSE /\ view' = Blank
      /\ UNCHANGED <<store, server, history>>
  BY DEF Leave, Disconnect
<1>2. Blank \in [Ids -> AnyRows]
  BY TableRows DEF WInv, Blank
<1>3. WatchTypes'
  BY <1>1, <1>2, NoMessages DEF WInv, WatchTypes, server, history
<1>. QED
  BY <1>1, <1>3, Watches

\* Nothing is announced after a restart, and no client is connected.
LEMMA Restarts ==
  ASSUME WInv, IInv', Restart
  PROVE  WInv'
<1>1. /\ client' = "off" /\ inbox' = <<>> /\ lagged' = FALSE /\ view' = Blank
      /\ handler' = [h \in Handlers |-> Resting] /\ raced' = raced
  BY DEF Restart, Disconnect
<1>2. Blank \in [Ids -> AnyRows] /\ Resting \in Requests /\ Resting.step = "idle"
  BY TableRows DEF WInv, Blank, Resting, Requests, Steps
<1>3. WatchTypes'
  BY <1>1, <1>2, NoMessages DEF WInv, WatchTypes
<1>4. Busy' = {} /\ \A h \in Handlers : handler'[h].step = "idle"
  BY <1>1, <1>2 DEF Busy
<1>5. AnnounceInv'
  BY <1>4 DEF AnnounceInv, Announces
<1>. QED
  BY <1>1, <1>3, <1>5 DEF WInv, FollowInv

\* A series is added: the row of its recording changes, and it is there.
LEMMA AddsOne ==
  ASSUME WInv, NEW id, NEW sig \in Signals, NEW times, NewSeries(id, sig, times)
  PROVE  /\ recs' = recs /\ recs'[id] # "absent" /\ id \in Live
         /\ \A i \in Ids \ {id} : Table'[i] = Table[i] /\ recs'[i] = recs[i]
<1> DEFINE s == NextId(UsedSeries)
<1>1. s \in Ids /\ series[s].rec = 0
  <2>1. s \in Nat \ {0} /\ s \notin UsedSeries
    BY FreshId DEF UsedSeries
  <2>. QED
    BY <2>1 DEF NewSeries, UsedSeries, Ids
<1>. HIDE DEF s
<1>2. PICK now \in times :
        series' = [series EXCEPT ![s] = [rec |-> id, sig |-> sig, added |-> now, active |-> TRUE]]
  BY DEF NewSeries, s
<1>3. recs' = recs /\ recs[id] # "absent" /\ id \in Live
  BY DEF NewSeries, Live
<1>4. /\ series'[s].rec = id /\ \A x \in Ids \ {s} : series'[x] = series[x]
  BY <1>1, <1>2 DEF WInv, IInv, StoreTypes
<1>5. ASSUME NEW i \in Ids \ {id} PROVE Table'[i] = Table[i]
  <2>1. {x \in Ids : series'[x].rec = i /\ series'[x].active}
          = {x \in Ids : series[x].rec = i /\ series[x].active}
    BY <1>1, <1>4 DEF Ids
  <2>2. \A x \in {y \in Ids : series[y].rec = i /\ series[y].active} : series'[x] = series[x]
    BY <1>1, <1>4 DEF Ids
  <2>3. Row(i)' = Row(i)
    BY <1>3, <2>1, <2>2 DEF Row
  <2>. QED
    BY <1>3, <2>3 DEF Table, Live
<1>. QED
  BY <1>3, <1>5

\* start_with adds a series to its recording, which no other request has announced, or
\* goes on to announce it.
LEMMA StartsWith ==
  ASSUME WInv, IInv', NEW h \in Handlers, StartWith(h)
  PROVE  WInv'
<1> DEFINE i == handler[h].id
<1>1. handler[h] \in Requests /\ handler[h].step = "adding" /\ h \in Busy
  BY DEF WInv, WatchTypes, StartWith, Busy
<1>2. UNCHANGED <<watcher, raced>>
  BY DEF StartWith
<1>3. CASE (\E sig \in Signals : NewSeries(i, sig, 0..(clock + 1))) /\ handler' = handler
  <2>1. /\ recs' = recs /\ \A id \in Ids \ {i} : Table'[id] = Table[id]
    BY <1>3, AddsOne
  <2>2. Live' = Live /\ Busy' = Busy
    BY <1>3, <2>1 DEF Live, Busy
  <2>3. /\ raced' = raced /\ client' = client /\ inbox' = inbox /\ lagged' = lagged
        /\ view' = view /\ missed' = missed
    BY <1>2 DEF watcher
  <2>4. WatchTypes'
    BY <1>3, <2>3 DEF WInv, WatchTypes
  <2>5. ~raced => \A g \in Handlers \ {h} : handler[g].step = "idle"
    BY <1>1 DEF WInv, AnnounceInv, Busy
  <2>6. AnnounceInv'
    <3>1. ASSUME ~raced, NEW g \in Handlers PROVE Announces(g)'
      <4>1. Announces(g)
        BY <3>1 DEF WInv, AnnounceInv
      <4>. QED
        BY <1>1, <1>3, <2>1, <2>2, <2>5, <3>1, <4>1 DEF Announces
    <3>. QED
      BY <2>2, <2>3, <3>1 DEF WInv, AnnounceInv
  <2>7. FollowInv'
    <3> SUFFICES ASSUME ~raced, client # "off", NEW id \in Ids \ missed, Announced(id)'
                 PROVE  Follows(id)'
      BY <2>3 DEF FollowInv
    <3>1. Announced(id) /\ id # i
      BY <1>1, <1>3, <2>2 DEF Announced
    <3>2. Follows(id)
      BY <3>1 DEF WInv, FollowInv
    <3>. QED
      BY <2>1, <2>3, <3>1, <3>2 DEF Follows
  <2>. QED
    BY <2>4, <2>6, <2>7 DEF WInv
<1>4. CASE handler' = [handler EXCEPT ![h].step = "read"] /\ UNCHANGED store
  <2> DEFINE r == [handler[h] EXCEPT !.step = "read"]
  <2>1. r \in Requests /\ r.id = i /\ r.step = "read" /\ handler' = [handler EXCEPT ![h] = r]
    BY <1>1, <1>4 DEF Requests, Steps
  <2>2. ~raced => i \in Live
    BY <1>1 DEF WInv, AnnounceInv, Announces
  <2>. HIDE DEF r
  <2>. QED
    BY <1>1, <1>2, <1>4, <2>1, <2>2, Reads
<1>. QED
  BY <1>3, <1>4 DEF StartWith

\* A request ends unannounced: what the client shows of its recording is not claimed.
LEMMA Unannounced ==
  ASSUME WInv, IInv', NEW h \in Handlers, EndUnannounced(h)
  PROVE  WInv'
<1>1. /\ recs' = recs /\ Table' = Table /\ Live' = Live /\ raced' = raced
      /\ client' = client /\ view' = view /\ inbox' = inbox /\ lagged' = lagged
  BY SameStore DEF EndUnannounced, history
<1>2. Resting \in Requests /\ Resting.step = "idle"
  BY TableRows DEF Resting, Requests, Steps, WInv
<1>3. /\ handler' \in [Handlers -> Requests] /\ handler'[h].step = "idle"
      /\ \A g \in Handlers \ {h} : handler'[g] = handler[g]
  BY <1>2 DEF WInv, WatchTypes, EndUnannounced
<1>4. WatchTypes'
  BY <1>1, <1>3 DEF WInv, WatchTypes
<1>5. Busy' = Busy \ {h}
  BY <1>3 DEF Busy
<1>6. AnnounceInv'
  <2>1. ASSUME ~raced, NEW g \in Handlers PROVE Announces(g)'
    BY <1>1, <1>3, <2>1 DEF WInv, AnnounceInv, Announces
  <2>. QED
    BY <1>1, <1>5, <2>1 DEF WInv, AnnounceInv
<1>7. FollowInv'
  <2> SUFFICES ASSUME ~raced, client # "off", NEW id \in Ids, id \notin missed', Announced(id)'
               PROVE  Follows(id)'
    BY <1>1 DEF FollowInv
  <2>1. id \notin missed /\ id # handler[h].id
    BY DEF EndUnannounced
  <2>2. Announced(id)
    <3> SUFFICES ASSUME NEW g \in Busy, g # h PROVE handler[g].id # id
      BY <2>1 DEF Announced
    <3>1. g \in Handlers \ {h} /\ g \in Busy'
      BY <1>5 DEF Busy
    <3>. QED
      BY <1>3, <3>1 DEF Announced
  <2>3. Follows(id)
    BY <2>1, <2>2 DEF WInv, FollowInv
  <2>. QED
    BY <1>1, <2>3 DEF Follows
<1>. QED
  BY <1>4, <1>6, <1>7 DEF WInv

LEMMA RequestWatched ==
  ASSUME WInv, IInv', NEW h \in Handlers, Request(h)
  PROVE  WInv'
<1>1. ASSUME NEW step \in {"read", "adding"}, Create(h, step) PROVE WInv'
  <2> DEFINE id == NextId(Live)
  <2>1. id \in Ids
    BY <1>1, FreshId DEF Create, Ids, Live
  <2>. HIDE DEF id
  <2>2. /\ Change(h, id, step) /\ recs' = [recs EXCEPT ![id] = "recording"] /\ series' = series
    BY <1>1 DEF Create, id
  <2>3. recs'[id] = "recording" /\ \A i \in Ids \ {id} : recs'[i] = recs[i]
    BY <2>1, <2>2 DEF WInv, IInv, StoreTypes
  <2>4. \A i \in Ids \ {id} : Table'[i] = Table[i]
    BY <2>2, <2>3 DEF Table, Live, Row
  <2>. QED
    BY <2>1, <2>2, <2>3, <2>4, Changes
<1>2. ASSUME NEW id \in Ids, Pause(h, id) \/ Resume(h, id) \/ Stop(h, id) PROVE WInv'
  <2>1. PICK st \in States : recs' = [recs EXCEPT ![id] = st] /\ st # "absent"
    <3>1. recs[id] \in States /\ recs[id] # "absent"
      BY <1>2 DEF WInv, IInv, StoreTypes, Pause, Resume, Stop, Live
    <3>. QED
      BY <1>2, <3>1 DEF Pause, Resume, Stop, Paused, Resumed, States
  <2>2. Change(h, id, "read") /\ series' = series
    BY <1>2 DEF Pause, Resume, Stop
  <2>3. recs'[id] # "absent" /\ \A i \in Ids \ {id} : recs'[i] = recs[i]
    BY <2>1 DEF WInv, IInv, StoreTypes
  <2>4. \A i \in Ids \ {id} : Table'[i] = Table[i]
    BY <2>2, <2>3 DEF Table, Live, Row
  <2>. QED
    BY <2>2, <2>3, <2>4, Changes
<1>3. ASSUME NEW id \in Ids, Delete(h, id) PROVE WInv'
  <2>1. /\ Change(h, id, "publish") /\ recs' = [recs EXCEPT ![id] = "absent"]
        /\ series' = [s \in Ids |-> IF series[s].rec = id THEN Absent ELSE series[s]]
    BY <1>3 DEF Delete
  <2>2. recs'[id] = "absent" /\ \A i \in Ids \ {id} : recs'[i] = recs[i]
    BY <2>1 DEF WInv, IInv, StoreTypes
  <2>3. ASSUME NEW i \in Ids \ {id} PROVE Table'[i] = Table[i]
    <3>1. {x \in Ids : series'[x].rec = i /\ series'[x].active}
            = {x \in Ids : series[x].rec = i /\ series[x].active}
      BY <2>1 DEF Absent, Ids
    <3>2. \A s \in {x \in Ids : series[x].rec = i /\ series[x].active} : series'[s] = series[s]
      BY <2>1
    <3>3. {series'[s].sig : s \in {x \in Ids : series'[x].rec = i /\ series'[x].active}}
            = {series[s].sig : s \in {x \in Ids : series[x].rec = i /\ series[x].active}}
      BY <3>1, <3>2
    <3>4. Row(i)' = Row(i)
      BY <2>2, <3>3 DEF Row
    <3>. QED
      BY <2>2, <3>4 DEF Table, Live
  <2>. QED
    BY <2>1, <2>2, <2>3, Changes
<1>4. ASSUME NEW id \in Ids, NEW sig \in Signals, AddSeries(h, id, sig) PROVE WInv'
  <2>1. NewSeries(id, sig, Stamps) /\ Change(h, id, "read")
    BY <1>4 DEF AddSeries
  <2>. QED
    BY <2>1, AddsOne, Changes
<1>5. ASSUME NEW s \in Ids, EndSeries(h, s) PROVE WInv'
  <2> DEFINE id == series[s].rec
  <2>1. id \in Ids /\ recs[id] # "absent"
    BY <1>5 DEF EndSeries, WInv, IInv, StoreTypes, SeriesInv, Entry
  <2>2. /\ Change(h, id, "read") /\ recs' = recs /\ series' = [series EXCEPT ![s].active = FALSE]
    BY <1>5 DEF EndSeries
  <2>3. /\ series'[s].rec = id /\ \A x \in Ids \ {s} : series'[x] = series[x]
    BY <2>2 DEF WInv, IInv, StoreTypes, Entry
  <2>. HIDE DEF id
  <2>4. ASSUME NEW i \in Ids \ {id} PROVE Table'[i] = Table[i]
    <3>1. {x \in Ids : series'[x].rec = i /\ series'[x].active}
            = {x \in Ids : series[x].rec = i /\ series[x].active}
      BY <2>3 DEF id
    <3>2. \A x \in {y \in Ids : series[y].rec = i /\ series[y].active} : series'[x] = series[x]
      BY <2>3 DEF id
    <3>3. Row(i)' = Row(i)
      BY <2>2, <3>1, <3>2 DEF Row
    <3>. QED
      BY <2>2, <3>3 DEF Table, Live
  <2>. QED
    BY <2>1, <2>2, <2>4, Changes
<1>. QED
  BY <1>1, <1>2, <1>3, <1>4, <1>5, StartsWith, ReadsRow, ReadsSeries, Publishes, Unannounced
     DEF Request

LEMMA NextWatched == WInv /\ IInv' /\ [Next]_vars => WInv'
<1> SUFFICES ASSUME WInv, IInv', [Next]_vars PROVE WInv'
  OBVIOUS
<1>1. CASE Tick \/ Second
  <2>1. UNCHANGED <<store, handler, watcher, history>>
    BY <1>1 DEF Tick, Second
  <2>. QED
    BY <2>1, SameStore, Unseen DEF history
<1>2. CASE UNCHANGED vars
  <2>1. UNCHANGED <<store, handler, watcher, history>>
    BY <1>2 DEF vars, server
  <2>. QED
    BY <2>1, SameStore, Unseen DEF history
<1>. QED
  BY <1>1, <1>2, RequestWatched, Inserts, Subscribes, ListsRows, ListsSeries, Receives, Leaves,
     Restarts DEF Next

LEMMA InitWatched == Init => WInv
<1> SUFFICES ASSUME Init PROVE WInv
  OBVIOUS
<1>1. IInv
  BY InitInv
<1>2. Blank \in [Ids -> AnyRows] /\ Resting \in Requests /\ Resting.step = "idle"
  BY <1>1, TableRows DEF Blank, Resting, Requests, Steps
<1>3. WatchTypes
  BY <1>2, NoMessages DEF Init, WatchTypes
<1>4. Busy = {} /\ \A h \in Handlers : handler[h].step = "idle"
  BY <1>2 DEF Init, Busy
<1>5. AnnounceInv
  BY <1>4 DEF AnnounceInv, Announces
<1>6. FollowInv
  BY DEF Init, FollowInv
<1>. QED
  BY <1>1, <1>3, <1>5, <1>6 DEF WInv

\* Once everything was announced and received, a client shows what is stored of every
\* recording but those of which a change was never announced, provided no change was made
\* while another one was not announced yet (recordings.rs live, announce): whatever it
\* subscribed between and however many messages the channel dropped.
THEOREM ClientCatchesUp == Spec => []ClientFollows
<1>1. WInv /\ [Next]_vars => WInv'
  BY NextStep, NextWatched DEF WInv
<1>2. WInv => ClientFollows
  <2> SUFFICES ASSUME WInv, Quiet, ~raced, NEW id \in Ids \ missed
               PROVE  view[id] = Table[id]
    BY DEF ClientFollows
  <2>1. client = "live" /\ inbox = <<>> /\ ~lagged /\ Busy = {}
    BY DEF Quiet
  <2>2. Follows(id)
    BY <2>1 DEF WInv, FollowInv, Announced
  <2>3. Untold(inbox, id)
    BY <2>1 DEF Untold
  <2>. QED
    BY <2>1, <2>2, <2>3 DEF Follows
<1>. QED
  BY <1>1, <1>2, InitWatched, PTL DEF Spec
=============================================================================
