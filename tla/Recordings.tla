----------------------------- MODULE Recordings -----------------------------
(***************************************************************************)
(* Recordings: the database (bm-store), the one sampler that writes to it, *)
(* the API's handlers that change it and announce what they changed, and a *)
(* client of /ws/recordings (bm-server recordings.rs).                     *)
(*                                                                         *)
(* The store is one SQLite connection behind a mutex, so each of its calls *)
(* is one step; a handler, a tick and a client make several.  Values,      *)
(* labels and the times of a pause or stop are abstracted away: a sample   *)
(* keeps which signal it was read from.  Time is rounded up to whole seconds: clock is the last second    *)
(* that began, and what happens after it has the time clock + 1.           *)
(***************************************************************************)
EXTENDS Naturals, Sequences, FiniteSets

CONSTANTS
  Signals,    \* what a series can read
  Handlers,   \* API requests that may be in progress at once
  Interval,   \* interval_s of each recording, by id
  MaxId,      \* bound: ids in use at once
  MaxTicks,   \* bound: ticks
  MaxOps,     \* bound: changes of the store
  Capacity    \* of the broadcast channel

Ids == 1..MaxId

ASSUME IntervalAssumption == Interval \in [Ids -> Nat \ {0}]
ASSUME BoundsAssumption ==
  MaxId \in Nat /\ MaxTicks \in Nat /\ MaxOps \in Nat /\ Capacity \in Nat \ {0}

VARIABLES
  \* the store
  recs,      \* recordings: id -> state, "absent" if there is no row
  series,    \* series: id -> recording, signal, added_at, active
  samples,   \* samples
  \* the server
  clock,     \* the second that began last
  batch,     \* the values a tick has read and not written yet
  handler,   \* what each request is doing
  \* the client
  client,    \* off, subscribed, listed (the recordings were read) or live
  inbox,     \* messages the channel holds for it
  lagged,    \* the channel dropped some
  view,      \* the recordings the client shows
  \* bound and history
  ops,       \* changes made
  given,     \* how often an id was given to a series
  raced,     \* a change was made while another waited to be announced
  missed     \* until raced: recordings of which a change was not announced since the client
             \* subscribed, nor any later one

store == <<recs, series, samples>>
server == <<clock, batch, handler>>
watcher == <<client, inbox, lagged, view, missed>>
history == <<ops, given, raced>>
vars == <<store, server, watcher, history>>

Absent == [rec |-> 0, sig |-> "none", added |-> 0, active |-> FALSE]
Gone == [state |-> "absent", sigs |-> {}]
Resting == [step |-> "idle", id |-> 0, row |-> Gone]

Live == {id \in Ids : recs[id] # "absent"}
Busy == {h \in Handlers : handler[h].step # "idle"}

\* recording_json: the row and its active series.
Row(id) == [state |-> recs[id],
            sigs |-> {series[s].sig : s \in {x \in Ids : series[x].rec = id /\ series[x].active}}]
Blank == [id \in Ids |-> Gone]
Table == [id \in Ids |-> IF id \in Live THEN Row(id) ELSE Gone]

Init ==
  /\ recs = [id \in Ids |-> "absent"]
  /\ series = [id \in Ids |-> Absent] /\ samples = {}
  /\ clock = 0 /\ batch = {} /\ handler = [h \in Handlers |-> Resting]
  /\ client = "off" /\ inbox = <<>> /\ lagged = FALSE /\ view = Blank
  /\ ops = 0 /\ given = [id \in Ids |-> 0] /\ raced = FALSE /\ missed = {}

-----------------------------------------------------------------------------
(* Changes of the store by a request; then it announces them. *)

\* INTEGER PRIMARY KEY without AUTOINCREMENT: one more than the largest in use.
NextId(used) == IF used = {} THEN 1 ELSE 1 + CHOOSE m \in used : \A x \in used : x <= m

\* The time a request passes to the store; it was read before the request waited for
\* the connection, and a second may have begun since.
Stamps == {clock, clock + 1}

\* The handler's store call.  raced: another request is not announced yet.
Change(h, id, step) ==
  /\ handler[h].step = "idle" /\ ops < MaxOps
  /\ handler' = [handler EXCEPT ![h] = [step |-> step, id |-> id, row |-> Gone]]
  /\ ops' = ops + 1
  /\ raced' = (raced \/ Busy # {})
  /\ UNCHANGED <<clock, batch, watcher>>

\* POST /recordings announces the row; start_with (a run, the assistant) first adds series.
Create(h, step) ==
  LET id == NextId(Live) IN
  /\ id <= MaxId
  /\ Change(h, id, step)
  /\ recs' = [recs EXCEPT ![id] = "recording"]
  /\ UNCHANGED <<series, samples, given>>

\* Mutant of Resumed: a stopped recording can be resumed.
ResumedAny(s) == "recording"

\* pause, resume and stop; a call that changes nothing is announced as well.
Paused(s) == IF s = "recording" THEN "paused" ELSE s
Resumed(s) == IF s = "paused" THEN "recording" ELSE s

Pause(h, id) ==
  /\ id \in Live /\ Change(h, id, "read")
  /\ recs' = [recs EXCEPT ![id] = Paused(@)]
  /\ UNCHANGED <<series, samples, given>>

Resume(h, id) ==
  /\ id \in Live /\ Change(h, id, "read")
  /\ recs' = [recs EXCEPT ![id] = Resumed(@)]
  /\ UNCHANGED <<series, samples, given>>

Stop(h, id) ==
  /\ id \in Live /\ Change(h, id, "read")
  /\ recs' = [recs EXCEPT ![id] = "stopped"]
  /\ UNCHANGED <<series, samples, given>>

UsedSeries == {s \in Ids : series[s].rec # 0}

\* Store::add_series, with one of these times.
NewSeries(id, sig, times) ==
  LET s == NextId(UsedSeries) IN
  /\ s <= MaxId /\ id \in Live /\ recs[id] # "stopped"
  /\ ~ \E x \in Ids : series[x].rec = id /\ series[x].sig = sig /\ series[x].active
  /\ \E now \in times : series' =
       [series EXCEPT ![s] = [rec |-> id, sig |-> sig, added |-> now, active |-> TRUE]]
  /\ given' = [given EXCEPT ![s] = @ + 1]
  /\ UNCHANGED <<recs, samples>>

AddSeries(h, id, sig) == NewSeries(id, sig, Stamps) /\ Change(h, id, "read")

\* start_with adds the next of its series, with the time it began at, or is done.
StartWith(h) ==
  /\ handler[h].step = "adding"
  /\ \/ /\ ops < MaxOps /\ ops' = ops + 1
        /\ \E sig \in Signals : NewSeries(handler[h].id, sig, 0..(clock + 1))
        /\ UNCHANGED handler
     \/ /\ handler' = [handler EXCEPT ![h].step = "read"]
        /\ UNCHANGED <<store, ops, given>>
  /\ UNCHANGED <<clock, batch, watcher, raced>>

EndSeries(h, s) ==
  /\ series[s].rec # 0 /\ Change(h, series[s].rec, "read")
  /\ series' = [series EXCEPT ![s].active = FALSE]
  /\ UNCHANGED <<recs, samples, given>>

\* Mutant of Delete: PRAGMA foreign_keys is off, only the row goes.
DeleteRow(h, id) ==
  /\ id \in Live /\ Change(h, id, "publish")
  /\ recs' = [recs EXCEPT ![id] = "absent"]
  /\ UNCHANGED <<series, samples, given>>

\* ON DELETE CASCADE: the series and their samples go as well.
Delete(h, id) ==
  /\ id \in Live /\ Change(h, id, "publish")
  /\ recs' = [recs EXCEPT ![id] = "absent"]
  /\ series' = [s \in Ids |-> IF series[s].rec = id THEN Absent ELSE series[s]]
  /\ samples' = {x \in samples : series[x.series].rec # id}
  /\ UNCHANGED given

-----------------------------------------------------------------------------
(* Announcements: the row is read, then published to every subscriber. *)

\* announce: the row may be gone by now (404, nothing is published).
ReadRow(h) ==
  /\ handler[h].step = "read"
  /\ handler' = [handler EXCEPT ![h] =
       IF @.id \in Live
       THEN [step |-> "series", id |-> @.id, row |-> [state |-> recs[@.id], sigs |-> {}]]
       ELSE Resting]
  /\ UNCHANGED <<store, clock, batch, watcher, history>>

\* series_of: another call, so what it finds may be newer than the row.
ReadSeries(h) ==
  /\ handler[h].step = "series"
  /\ handler' = [handler EXCEPT ![h].step = "publish", ![h].row.sigs = Row(handler[h].id).sigs]
  /\ UNCHANGED <<store, clock, batch, watcher, history>>

\* tokio::sync::broadcast: the oldest message makes room for the newest.
Post(msg) ==
  IF client = "off" THEN UNCHANGED <<inbox, lagged>>
  ELSE IF Len(inbox) < Capacity THEN inbox' = Append(inbox, msg) /\ UNCHANGED lagged
  ELSE inbox' = Append(Tail(inbox), msg) /\ lagged' = TRUE

Publish(h) ==
  /\ handler[h].step = "publish"
  /\ Post([id |-> handler[h].id, row |-> handler[h].row])
  /\ handler' = [handler EXCEPT ![h] = Resting]
  /\ missed' = missed \ {handler[h].id}
  /\ UNCHANGED <<store, clock, batch, client, view, history>>

\* A request ends and its change is not announced: the client hung up, which drops the
\* handler where it awaits; what it reads fails; or start_with cannot add a series.
EndUnannounced(h) ==
  /\ handler[h].step # "idle"
  /\ handler' = [handler EXCEPT ![h] = Resting]
  /\ missed' = IF client = "off" \/ raced THEN missed ELSE missed \cup {handler[h].id}
  /\ UNCHANGED <<store, clock, batch, client, inbox, lagged, view, history>>

-----------------------------------------------------------------------------
(* The sampler. *)

Due(t) == {s \in Ids : /\ series[s].active /\ series[s].added <= t
                       /\ recs[series[s].rec] = "recording"
                       /\ t % Interval[series[s].rec] = 0}

\* due_series, then the registry: values may be missing or too old.  A tick that
\* reads none writes nothing (Second).
Tick ==
  /\ batch = {} /\ clock < MaxTicks
  /\ clock' = clock + 1
  /\ \E got \in (SUBSET Due(clock + 1)) \ {{}} :
       batch' = {[series |-> s, t |-> clock + 1, sig |-> series[s].sig] : s \in got}
  /\ UNCHANGED <<store, handler, watcher, history>>

\* The tick's values, as messages: a client appends them to its charts.
Values == [id |-> 0, row |-> Gone]

\* insert_samples: what is no longer active in a running recording is skipped.  Then
\* the values are published, one message for all recordings here.
Insert ==
  /\ batch # {}
  /\ samples' = samples \cup
       {x \in batch : series[x.series].active /\ recs[series[x.series].rec] = "recording"}
  /\ Post(Values) /\ batch' = {}
  /\ UNCHANGED <<recs, series, clock, handler, client, view, missed, history>>

\* The sampler sleeps, or is late and skips a second.
Second ==
  /\ clock < MaxTicks /\ clock' = clock + 1
  /\ UNCHANGED <<store, batch, handler, watcher, history>>

-----------------------------------------------------------------------------
(* The client (live): subscribe, snapshot, then messages. *)

Subscribe ==
  /\ client = "off"
  /\ client' = "subscribed" /\ inbox' = <<>> /\ lagged' = FALSE
  /\ UNCHANGED <<store, server, view, missed, history>>

\* The recordings first, then the series of each.
SnapshotRows ==
  /\ client = "subscribed"
  /\ client' = "listed" /\ view' = [id \in Ids |-> [state |-> recs[id], sigs |-> {}]]
  /\ UNCHANGED <<store, server, inbox, lagged, missed, history>>

SnapshotSeries ==
  /\ client = "listed"
  /\ client' = "live"
  /\ view' = [id \in Ids |-> IF view[id].state = "absent" THEN Gone
                             ELSE [view[id] EXCEPT !.sigs = Row(id).sigs]]
  /\ UNCHANGED <<store, server, inbox, lagged, missed, history>>

\* What a message changes in the view; values change none of its rows.
Seen(msg) == IF msg = Values THEN view ELSE [view EXCEPT ![msg.id] = msg.row]

\* Mutant of Receive: a client that was too slow just goes on.
ReceiveSkips ==
  /\ client = "live" /\ inbox # <<>>
  /\ view' = Seen(Head(inbox))
  /\ inbox' = Tail(inbox) /\ lagged' = FALSE
  /\ UNCHANGED <<store, server, client, missed, history>>

\* Too slow: a fresh snapshot, then the messages the channel still holds.
Receive ==
  /\ client = "live" /\ inbox # <<>>
  /\ IF lagged
     THEN client' = "subscribed" /\ UNCHANGED <<view, inbox>>
     ELSE view' = Seen(Head(inbox)) /\ inbox' = Tail(inbox) /\ UNCHANGED client
  /\ lagged' = FALSE
  /\ UNCHANGED <<store, server, missed, history>>

Disconnect ==
  /\ client' = "off" /\ inbox' = <<>> /\ lagged' = FALSE /\ view' = Blank
  /\ missed' = {}

Leave ==
  /\ client # "off"
  /\ Disconnect
  /\ UNCHANGED <<store, server, history>>

-----------------------------------------------------------------------------
(* The server ends (or crashes) and starts again: Recordings::new. *)

\* close_orphans
CloseOrphans == recs' = [id \in Ids |-> IF id \in Live THEN "stopped" ELSE "absent"]

Restart ==
  /\ ops < MaxOps /\ ops' = ops + 1
  /\ CloseOrphans
  /\ batch' = {} /\ handler' = [h \in Handlers |-> Resting]
  /\ Disconnect
  /\ UNCHANGED <<series, samples, clock, given, raced>>

-----------------------------------------------------------------------------

Request(h) ==
  \/ \E step \in {"read", "adding"} : Create(h, step)
  \/ StartWith(h)
  \/ \E id \in Ids : Pause(h, id) \/ Resume(h, id) \/ Stop(h, id) \/ Delete(h, id)
  \/ \E id \in Ids, sig \in Signals : AddSeries(h, id, sig)
  \/ \E s \in Ids : EndSeries(h, s)
  \/ ReadRow(h) \/ ReadSeries(h) \/ Publish(h) \/ EndUnannounced(h)

Next ==
  \/ \E h \in Handlers : Request(h)
  \/ Tick \/ Insert \/ Second
  \/ Subscribe \/ SnapshotRows \/ SnapshotSeries \/ Receive \/ Leave
  \/ Restart

Spec == Init /\ [][Next]_vars
-----------------------------------------------------------------------------
(* Properties *)

States == {"absent", "recording", "paused", "stopped"}
Rows == [state : States, sigs : SUBSET Signals]
Samples == [series : Ids, t : 1..MaxTicks, sig : Signals]

\* Types of the store, the server and its client.
TypeOK ==
  /\ recs \in [Ids -> States]
  /\ series \in [Ids -> [rec : Ids \cup {0}, sig : Signals \cup {"none"},
                         added : 0..(MaxTicks + 1), active : BOOLEAN]]
  /\ samples \subseteq Samples /\ batch \subseteq Samples /\ clock \in 0..MaxTicks
  /\ handler \in [Handlers -> [step : {"idle", "adding", "read", "series", "publish"}, id : Ids \cup {0},
                               row : Rows]]
  /\ client \in {"off", "subscribed", "listed", "live"} /\ Len(inbox) <= Capacity
  /\ inbox \in Seq([id : Ids \cup {0}, row : Rows]) /\ lagged \in BOOLEAN
  /\ view \in [Ids -> Rows]
  /\ ops \in 0..MaxOps /\ given \in [Ids -> 0..MaxOps] /\ raced \in BOOLEAN
  /\ missed \subseteq Ids

\* A sample belongs to a series of a recording that exists, and was read from its
\* signal after the series was added, however requests fell between a tick's query and
\* its write.  Series whose id was given before are apart (SkipsDeleted).
SamplesBelong ==
  \A x \in samples : LET s == series[x.series] IN
    /\ s.rec \in Live
    /\ given[x.series] = 1 => x.sig = s.sig /\ x.t >= s.added

\* stop is final: a stopped recording is deleted or stays stopped, and gets no sample.
StopIsFinal ==
  [][\A id \in Ids : recs[id] = "stopped" =>
       /\ recs'[id] \in {"stopped", "absent"}
       /\ \A x \in samples' : series'[x.series].rec = id => x \in samples]_vars

\* Once everything was announced and received, a client shows what is stored of every
\* recording, from whatever moment it connected and however slow it was.  Two things break
\* it: a change of a recording that was never announced, until the next one is; and a change
\* made while another one was not announced yet: rows are read and published in two steps,
\* and the one read first may be published last.
Quiet == client = "live" /\ inbox = <<>> /\ ~lagged /\ Busy = {}
ClientFollows == Quiet /\ ~raced => \A id \in Ids \ missed : view[id] = Table[id]

-----------------------------------------------------------------------------
(* What a comment in the code says, and the code does not do. *)

\* bm-store, insert_samples: samples for series deleted meanwhile are skipped.
SkipsDeleted == \A x \in samples : x.sig = series[x.series].sig
=============================================================================
