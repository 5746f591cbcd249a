------------------------------- MODULE Bench -------------------------------
(***************************************************************************)
(* The configuration of a bench (bm-server lib.rs, config.rs, devices.rs,  *)
(* run.rs): requests that add, edit, remove, park or replace devices, the  *)
(* file they are saved in, the threads that run, the start of a flow's run *)
(* (automation/exec.rs) and the SCPI ports (ScpiPorts).                    *)
(*                                                                         *)
(* Requests hold config_lock, but what they do is seen in between by those *)
(* who do not: the start of a run, SCPI syncs, a crash.  A request whose   *)
(* client hangs up is dropped where it awaits: its lock is released, the   *)
(* blocking task it started goes on.                                       *)
(*                                                                         *)
(* A device's entry is abstracted to whether it is parked and whether a    *)
(* thread can be started for it (the definition offers its transport,      *)
(* which validate_entry does not check).                                   *)
(***************************************************************************)
EXTENDS ScpiPorts, Sequences

CONSTANTS
  Handlers,   \* requests that may be in progress at once
  Putter,     \* the PUT /scpi request
  Nobody,
  Lists,      \* device lists POST /config may bring: [Ids -> {NoEntry} \cup {<<entry>>}]
  Flows,      \* the sets of devices that flows use
  MaxOps,     \* bound: configuration requests and restarts
  MaxOthers,  \* bound: PUT /scpi requests and clients that hang up, together
  MaxRuns     \* bound: flows started

ASSUME TasksAssumption ==
  /\ Tasks = Handlers \cup {Putter} /\ Putter \notin Handlers /\ Nobody \notin Tasks

VARIABLES
  file,     \* config.yaml: the entry of each device
  managed,  \* Devices.managed: the entries that run; more than one is two threads
  lock,     \* config_lock: who holds it
  req,      \* what each request is doing
  run,      \* the run: none, checked (its flow is valid) or active, and its devices
  ops, puts, runs, \* bounds: requests made
  hangUps,  \* clients that hung up
  edited,   \* history: devices added, edited, replaced or marked back since the flow was checked
  crossed   \* history: a configuration change and a PUT /scpi were in progress at once

configVars == <<file, managed, lock, req>>
runVars == <<run, runs, edited>>
bounds == <<ops, puts, hangUps, crossed>>
vars == <<configVars, runVars, bounds, scpiVars>>

Entry == {e \in [parked : BOOLEAN, starts : BOOLEAN] : e.parked => e.starts}
NoEntry == <<>>

ASSUME ListsAssumption ==
  Lists \subseteq [Ids -> {NoEntry} \cup {<<e>> : e \in Entry}] /\ Nobody \notin Ids

\* Devices::entries: what runs, by id.
Running == {i \in Ids : managed[i] # <<>>}
Entries == [i \in Ids |-> managed[i]]
Saved == {i \in Ids : file[i] # NoEntry}

NoEntries == [i \in Ids |-> NoEntry]
Resting == [op |-> "none", id |-> Nobody, step |-> "idle", new |-> NoEntries,
            left |-> [i \in Ids |-> 0]]

\* Devices::is_parked
IsParked(i) == managed[i] # <<>> /\ managed[i][1].parked

Init ==
  /\ managed \in [Ids -> {NoEntry, <<[parked |-> FALSE, starts |-> TRUE]>>}]
  /\ file = managed
  /\ lock = Nobody /\ req = [h \in Handlers |-> Resting]
  /\ run = [state |-> "none", uses |-> {}] /\ runs = 0 /\ edited = {}
  /\ ops = 0 /\ puts = 0 /\ hangUps = 0 /\ crossed = FALSE
  /\ settings \in Assigned(Defaults, Running) /\ stored = settings
  /\ listener = Wanted(settings)
  /\ sync = [t \in Tasks |-> Idle]

-----------------------------------------------------------------------------
(* A request takes the lock, checks, and saves what it will do. *)

PutBusy == sync[Putter].step # "idle"

Take(h, op, id, step, new) ==
  /\ lock = Nobody /\ req[h].step = "idle" /\ ops < MaxOps
  /\ ops' = ops + 1
  /\ lock' = h
  /\ req' = [req EXCEPT ![h] = [op |-> op, id |-> id, step |-> step, new |-> new,
       left |-> [i \in Ids |-> IF i = id THEN 1 ELSE 0]]]
  /\ crossed' = (crossed \/ PutBusy)

\* ConfigFile::save replaces the file as a whole.  When it cannot, the request ends with
\* nothing changed: no step of the model.
SaveThen(h, op, id, step, new) ==
  /\ Take(h, op, id, step, new)
  /\ file' = new
  /\ UNCHANGED <<managed, run, runs, puts, hangUps, scpiVars>>

Add(h, i, e) ==
  /\ i \notin Running
  /\ SaveThen(h, "add", i, "start", [Entries EXCEPT ![i] = <<e>>])
  /\ edited' = edited \cup {i}

\* An edit that does not mention `parked` keeps it.
Update(h, i, e) ==
  /\ i \in Running
  /\ SaveThen(h, "update", i, "stop", [Entries EXCEPT ![i] = <<e>> \o Tail(@)])
  /\ edited' = edited \cup {i}

Delete(h, i) ==
  /\ i \in Running
  /\ SaveThen(h, "delete", i, "stop", [Entries EXCEPT ![i] = NoEntry])
  /\ UNCHANGED edited

Replace(h, new) ==
  /\ SaveThen(h, "replace", Nobody, "begin", new)
  /\ edited' = Ids

-----------------------------------------------------------------------------
(* The blocking task of a request: stop, then start. *)

Affected(h) == IF req[h].op = "replace" THEN Ids ELSE {req[h].id}

\* Devices::stop_all first lists what runs.
BeginStops(h) ==
  /\ req[h].step = "begin"
  /\ req' = [req EXCEPT ![h].step = "stop", ![h].left = [i \in Ids |-> Len(managed[i])]]
  /\ UNCHANGED <<file, managed, lock, runVars, bounds, scpiVars>>

\* Mutant of StopOne: a device is stopped however often.
StopOneTwice(h) ==
  /\ req[h].step = "stop"
  /\ \E i \in Affected(h) :
       /\ managed' = IF managed[i] = <<>> THEN managed ELSE [managed EXCEPT ![i] = Tail(@)]
       /\ req' = [req EXCEPT ![h].left[i] = @ - 1]
  /\ UNCHANGED <<file, lock, runVars, bounds, scpiVars>>

\* Devices::stop: the first of that id leaves the list, then its thread is joined.
StopOne(h) ==
  /\ req[h].step = "stop"
  /\ \E i \in {x \in Ids : req[h].left[x] > 0} :
       /\ managed' = IF managed[i] = <<>> THEN managed ELSE [managed EXCEPT ![i] = Tail(@)]
       /\ req' = [req EXCEPT ![h].left[i] = @ - 1]
  /\ UNCHANGED <<file, lock, runVars, bounds, scpiVars>>

\* What is left to start; an edit is not followed by a sync.
AfterStop(h) == CASE req[h].op = "delete" -> "sync" [] OTHER -> "start"

StopsDone(h) ==
  /\ req[h].step = "stop" /\ \A i \in Ids : req[h].left[i] = 0
  /\ req' = [req EXCEPT ![h].step = AfterStop(h)]
  /\ UNCHANGED <<file, managed, lock, runVars, bounds, scpiVars>>

ToStart(h) == {i \in Affected(h) : req[h].new[i] # NoEntry}

\* Devices::start; the first that cannot be started ends the list.
StartOne(h) ==
  /\ req[h].step = "start"
  /\ \E i \in ToStart(h) : LET e == req[h].new[i][1] IN
       IF e.starts
       THEN /\ managed' = [managed EXCEPT ![i] = Append(@, e)]
            /\ req' = [req EXCEPT ![h].new[i] = NoEntry]
       ELSE /\ req' = [req EXCEPT ![h].new = NoEntries]
            /\ UNCHANGED managed
  /\ UNCHANGED <<file, lock, runVars, bounds, scpiVars>>

Release(h) ==
  /\ req' = [req EXCEPT ![h] = Resting]
  /\ lock' = IF lock = h THEN Nobody ELSE lock

StartsDone(h) ==
  /\ req[h].step = "start" /\ ToStart(h) = {}
  /\ IF req[h].op = "update" \/ lock # h
     THEN Release(h)
     ELSE req' = [req EXCEPT ![h].step = "sync"] /\ UNCHANGED lock
  /\ UNCHANGED <<file, managed, runVars, bounds, scpiVars>>

\* Scpi::sync by the handler, which then answers; one that was dropped does not.
HandlerSync(h) ==
  /\ req[h].step = "sync" /\ sync[h].step = "idle"
  /\ IF lock = h
     THEN /\ SyncIds(h, Running)
          /\ req' = [req EXCEPT ![h].step = "syncing"] /\ UNCHANGED lock
     ELSE Release(h) /\ UNCHANGED scpiVars
  /\ UNCHANGED <<file, managed, runVars, bounds>>

HandlerSyncs(h) ==
  /\ req[h].step = "syncing"
  /\ \/ SyncAssign(h) /\ UNCHANGED <<req, lock>>
     \/ SyncListen(h) /\ Release(h)
  /\ UNCHANGED <<file, managed, runVars, bounds>>

\* The client hangs up while the handler awaits its blocking task.
HangUp(h) ==
  /\ puts + hangUps < MaxOthers /\ lock = h
  /\ \/ req[h].op \in {"update", "delete", "replace"} /\ req[h].step \in {"stop", "start"}
     \/ req[h].op = "park" /\ req[h].step = "tell"
  /\ lock' = Nobody /\ hangUps' = hangUps + 1
  /\ UNCHANGED <<file, managed, req, runVars, ops, puts, crossed, scpiVars>>

-----------------------------------------------------------------------------
(* set_parked: marked, saved, then the thread is told (DeviceThread). *)

Active == run.state = "active"

\* Runner::unless_used
MayPark(i, parked) == ~(parked /\ Active /\ i \in run.uses)

\* Devices::mark_parked; `new` remembers the entry as it was.
Mark(h, i, parked) ==
  /\ i \in Running /\ MayPark(i, parked)
  /\ Take(h, "park", i, "save", Entries)
  /\ managed' = [managed EXCEPT ![i][1].parked = parked]
  /\ UNCHANGED <<file, runVars, puts, hangUps, scpiVars>>

\* Mutant of SaveMark: what cannot be saved stays marked.
SaveMarkKeeps(h) ==
  /\ req[h].step = "save"
  /\ file' \in {file, Entries}
  /\ Release(h)
  /\ UNCHANGED <<managed, runVars, bounds, scpiVars>>

\* When saving fails the entry is marked back, without asking the runner.
SaveMark(h) ==
  LET i == req[h].id IN
  /\ req[h].step = "save"
  /\ \/ /\ file' = Entries
        /\ req' = [req EXCEPT ![h].step = "tell"]
        /\ UNCHANGED <<managed, lock, edited>>
     \/ /\ UNCHANGED file
        /\ managed' = IF managed[i] = <<>> THEN managed
                      ELSE [managed EXCEPT ![i][1].parked = req[h].new[i][1].parked]
        /\ edited' = edited \cup {i}
        /\ Release(h)
  /\ UNCHANGED <<run, runs, bounds, scpiVars>>

\* The blocking task has told the thread (DeviceThread); the request answers.
Told(h) ==
  /\ req[h].step = "tell"
  /\ Release(h)
  /\ UNCHANGED <<file, managed, runVars, bounds, scpiVars>>

-----------------------------------------------------------------------------
(* Runner::start *)

\* The vocabulary is read and the flow checked before the runner's lock is taken.
CheckFlow(uses) ==
  /\ run.state = "none" /\ runs < MaxRuns
  /\ uses \subseteq Running
  /\ run' = [state |-> "checked", uses |-> uses] /\ runs' = runs + 1
  /\ edited' = UNION {Affected(h) : h \in {x \in Handlers :
                               req[x].op \in {"add", "update", "replace"}}}
  /\ UNCHANGED <<configVars, bounds, scpiVars>>

\* Mutant of StartRun: what is parked was looked at when the flow was checked.
StartRunBlind ==
  /\ run.state = "checked"
  /\ run' = [run EXCEPT !.state = "active"]
  /\ UNCHANGED <<configVars, runs, edited, bounds, scpiVars>>

\* Under the runner's lock: refused while a device is parked.
StartRun ==
  /\ run.state = "checked"
  /\ run' = IF \E i \in run.uses : IsParked(i) THEN [state |-> "none", uses |-> {}]
            ELSE [run EXCEPT !.state = "active"]
  /\ UNCHANGED <<configVars, runs, edited, bounds, scpiVars>>

EndRun ==
  /\ Active /\ run' = [state |-> "none", uses |-> {}]
  /\ UNCHANGED <<configVars, runs, edited, bounds, scpiVars>>

-----------------------------------------------------------------------------
(* PUT /scpi, and the end and start of the server. *)

PutBegin(on, base) ==
  /\ puts + hangUps < MaxOthers /\ puts' = puts + 1
  /\ UpdateCopy(Putter, on, base)
  /\ crossed' = (crossed \/ \E h \in Handlers : req[h].step # "idle")
  /\ UNCHANGED <<configVars, runVars, ops, hangUps>>

PutGoesOn ==
  /\ \/ \E ok \in BOOLEAN : UpdateSave(Putter, ok)
     \/ UpdateReplace(Putter)
     \/ sync[Putter].step = "sync" /\ SyncIds(Putter, Running)
     \/ SyncAssign(Putter) \/ SyncListen(Putter)
  /\ UNCHANGED <<configVars, runVars, bounds>>

\* The server ends at any moment, and starts what the file says: run::start.
Restart ==
  /\ ops < MaxOps /\ ops' = ops + 1
  /\ managed' = [i \in Ids |-> IF \E e \in Entry : e.starts /\ file[i] = <<e>> THEN file[i]
                              ELSE NoEntry]
  /\ lock' = Nobody /\ req' = [h \in Handlers |-> Resting]
  /\ run' = [state |-> "none", uses |-> {}]
  /\ ScpiRestart({i \in Ids : managed'[i] # NoEntry})
  /\ UNCHANGED <<file, runs, edited, puts, hangUps, crossed>>

-----------------------------------------------------------------------------

Request(h) ==
  \/ \E i \in Ids, e \in Entry : Add(h, i, e) \/ Update(h, i, e)
  \/ \E i \in Ids : Delete(h, i)
  \/ \E new \in Lists : Replace(h, new)
  \/ \E i \in Ids, parked \in BOOLEAN : Mark(h, i, parked)
  \/ SaveMark(h) \/ Told(h)
  \/ BeginStops(h) \/ StopOne(h) \/ StopsDone(h) \/ StartOne(h) \/ StartsDone(h)
  \/ HandlerSync(h) \/ HandlerSyncs(h) \/ HangUp(h)

Next ==
  \/ \E h \in Handlers : Request(h)
  \/ \E uses \in Flows : CheckFlow(uses)
  \/ StartRun \/ EndRun
  \/ \E on \in BOOLEAN, base \in Bases : PutBegin(on, base)
  \/ PutGoesOn \/ Restart

Spec == Init /\ [][Next]_vars
-----------------------------------------------------------------------------
(* Properties *)

Steps == {"idle", "begin", "stop", "start", "save", "tell", "sync", "syncing"}

\* Types of the configuration, its requests, the run and the SCPI ports.
TypeOK ==
  /\ file \in [Ids -> Seq(Entry)] /\ managed \in [Ids -> Seq(Entry)]
  /\ lock \in Handlers \cup {Nobody}
  /\ req \in [Handlers -> [op : {"none", "add", "update", "delete", "replace", "park"},
                           id : Ids \cup {Nobody}, step : Steps, new : [Ids -> Seq(Entry)],
                           left : [Ids -> 0..Cardinality(Handlers)]]]
  /\ run \in [state : {"none", "checked", "active"}, uses : SUBSET Ids]
  /\ ops \in 0..MaxOps /\ puts \in 0..MaxOthers /\ runs \in 0..MaxRuns
  /\ hangUps \in 0..MaxOthers /\ edited \subseteq Ids /\ crossed \in BOOLEAN
  /\ ScpiTypeOK

\* Between requests every device that runs is in config.yaml as it runs, and runs
\* once: a crash, a failed save or a failed start never leaves one that the next
\* start of the server would not bring back as it is.  A client that hangs up
\* breaks it.
RunningIsSaved ==
  lock = Nobody /\ hangUps = 0 =>
    \A i \in Running : Len(managed[i]) = 1 /\ file[i] = managed[i]

\* A run is not started with a device that is parked, nor is one parked under it:
\* whichever comes first, the other is refused (PARKING.md: the run check and the park
\* are one step).  Edits, POST /config and a mark that is taken back are not asked; after
\* a client has hung up a device can have two threads, and only one is looked at.
NoneParkedUnderRun ==
  Active /\ hangUps = 0 => \A i \in run.uses \ edited : ~IsParked(i)

\* At rest the listeners are those of the settings, and every device that runs has a
\* port as long as there are any, unless a PUT /scpi and a configuration change were in progress at once.
AtRest == lock = Nobody /\ ~PutBusy /\ \A h \in Handlers : req[h].step = "idle"
ListenersFollow ==
  AtRest /\ ~crossed /\ hangUps = 0 =>
    /\ listener = Wanted(settings)
    /\ Served(settings, Running)

-----------------------------------------------------------------------------
(* What SCPI.md says, and the code does not do. *)

\* A port stays with its instrument while the instrument is configured; a new base
\* renumbers all (SCPI.md).  Instruments that cannot be started are left aside.
PortsStay ==
  [][\A i \in Saved : file'[i] = file[i] /\ file[i][1].starts /\ settings.ports[i] # 0
       /\ settings'.base = settings.base => settings'.ports[i] = settings.ports[i]]_vars
=============================================================================
