---------------------------- MODULE DeviceThread ----------------------------
(***************************************************************************)
(* One instrument's thread (bm-driver actor.rs), the callers that send it  *)
(* requests and the registry entry it maintains (bm-server devices.rs).    *)
(*                                                                         *)
(* The thread owns the link.  It connects, serves get and set requests     *)
(* between polls, reconnects with a backoff after a failure, and holds no  *)
(* link at all while parked.  Callers wait for an answer for a bounded     *)
(* time only: a request whose caller has given up stays in the queue.      *)
(* What an engine operation exchanges on the wire is abstracted to whether *)
(* the instrument may have been touched and how the operation ended.       *)
(***************************************************************************)
EXTENDS Naturals, Sequences, FiniteSets

CONSTANTS
  Requests,   \* requests that may be sent, each at most once
  KindOf,     \* what each of them asks for
  Stop,       \* the message of DeviceHandle::stop
  MaxSilent   \* ActorConfig::max_silent_polls

DataKinds == {"get", "set"}
ControlKinds == {"park", "unpark"}

ASSUME RequestsAssumption ==
  /\ IsFiniteSet(Requests)
  /\ KindOf \in [Requests -> DataKinds \cup ControlKinds]
  /\ Stop \notin Requests

ASSUME MaxSilentAssumption == MaxSilent \in Nat \ {0}

VARIABLES
  pc,        \* where the thread is
  queue,     \* the channel to the thread
  current,   \* the message being served ("busy", "closing"), else Stop
  pending,   \* the shared request counter (a metric)
  stage,     \* where each request is
  told,      \* what each caller got
  carried,   \* get/set requests whose exchange may have reached the instrument
  link,      \* whether the thread owns an open port
  session,   \* what became of the last session with the instrument
  silent,    \* Engine::silent_polls
  seen,      \* last presence reported since parking
  reg,       \* the registry's entry for this instrument
  handle,    \* Devices::stop: is the thread being stopped, joined
  entry,     \* the config entry: parked, and parked before the last request (was)
  lastCtl,   \* history: the last park / unpark request that was answered
  overtaken  \* history: was a request to park or unpark marked while another was not sent

callerVars == <<pending, stage, told>>
linkVars == <<link, session, silent, carried>>
vars == <<pc, queue, current, pending, stage, told, carried, link, session,
          silent, seen, reg, handle, entry, lastCtl, overtaken>>
parking == <<entry, lastCtl, overtaken>>

Data == {r \in Requests : KindOf[r] \in DataKinds}
Control == Requests \ Data

Waiting == {"backoff", "parked"}   \* the two places that call wait()

-----------------------------------------------------------------------------
(* Registry::apply, one operator per event. *)

OnConnected(e) ==
  [e EXCEPT !.listed = TRUE, !.connected = TRUE, !.failing = FALSE]
OnStatus(e) == [e EXCEPT !.listed = TRUE, !.status = TRUE]
OnDisconnected(e, reason) ==
  [e EXCEPT !.listed = TRUE, !.connected = FALSE, !.status = FALSE,
            !.failing = @ \/ reason # "stopped"]
OnParked(e, present) ==
  [e EXCEPT !.listed = TRUE, !.parked = TRUE, !.present = present,
            !.connected = FALSE, !.status = FALSE, !.failing = FALSE]
OnUnparked(e) ==
  [e EXCEPT !.listed = TRUE, !.parked = FALSE, !.present = "unknown"]

Init ==
  /\ \E parked \in BOOLEAN :
       /\ pc = IF parked THEN "presence" ELSE "connect"
       /\ lastCtl = IF parked THEN "park" ELSE "unpark"
       /\ entry = [parked |-> parked, was |-> parked]
       /\ reg = [listed |-> TRUE, parked |-> parked, present |-> "unknown",
                 connected |-> FALSE, status |-> FALSE, failing |-> FALSE]
  /\ queue = <<>> /\ current = Stop /\ pending = 0
  /\ stage = [r \in Requests |-> "idle"]
  /\ told = [r \in Requests |-> "nothing"]
  /\ carried = {} /\ link = "closed" /\ session = "none" /\ silent = 0
  /\ seen = "unknown" /\ handle = "held" /\ overtaken = FALSE

-----------------------------------------------------------------------------
(* The callers: DeviceClient::get, set, park; set_parked of the API. *)

\* DeviceClient::send counts a request before it is in the channel.
CountRequest(r) ==
  /\ r \in Data /\ stage[r] = "idle"
  /\ pending' = pending + 1
  /\ stage' = [stage EXCEPT ![r] = "begun"]
  /\ UNCHANGED <<pc, queue, current, told, linkVars, seen, reg, handle, parking>>

\* config_lock is held by one park or unpark request at a time, until its caller was told
\* the outcome or has hung up.
Unlocked == \A q \in Control : stage[q] = "idle" \/ told[q] # "nothing"

\* Devices::mark_parked, on the registry.
Marked(e, parked) ==
  [e EXCEPT !.parked = parked, !.present = IF parked THEN @ ELSE "unknown"]

\* set_parked marks the entry and the registry, saves the configuration, then sends.
Mark(r) ==
  /\ r \in Control /\ stage[r] = "idle" /\ handle = "held" /\ Unlocked
  /\ entry' = [parked |-> KindOf[r] = "park", was |-> entry.parked]
  /\ reg' = Marked(reg, KindOf[r] = "park")
  /\ stage' = [stage EXCEPT ![r] = "begun"]
  /\ overtaken' = (overtaken \/ \E q \in Control : stage[q] = "begun")
  /\ UNCHANGED <<pc, queue, current, pending, told, linkVars, seen, handle, lastCtl>>

\* Mutant of SaveFails: what could not be saved stays marked.
SaveFailsKeeps(r) ==
  /\ r \in Control /\ stage[r] = "begun" /\ told[r] = "nothing"
  /\ stage' = [stage EXCEPT ![r] = "done"]
  /\ told' = [told EXCEPT ![r] = "error"]
  /\ UNCHANGED <<pc, queue, current, pending, linkVars, seen, reg, handle, parking>>

\* The configuration could not be saved: marked back; a device that is being removed
\* is not found any more.
SaveFails(r) ==
  /\ r \in Control /\ stage[r] = "begun" /\ told[r] = "nothing"
  /\ stage' = [stage EXCEPT ![r] = "done"]
  /\ told' = [told EXCEPT ![r] = "error"]
  /\ IF handle = "held"
     THEN entry' = [entry EXCEPT !.parked = entry.was] /\ reg' = Marked(reg, entry.was)
     ELSE UNCHANGED <<entry, reg>>
  /\ UNCHANGED <<pc, queue, current, pending, linkVars, seen, handle, lastCtl, overtaken>>

\* The client hangs up while set_parked awaits its blocking task, which may not have sent
\* yet: the handler is dropped and its lock with it, the configuration is saved, and the
\* task sends all the same.
HangUp(r) ==
  /\ r \in Control /\ stage[r] = "begun" /\ told[r] = "nothing"
  /\ told' = [told EXCEPT ![r] = "hung_up"]
  /\ UNCHANGED <<pc, queue, current, pending, stage, linkVars, seen, reg, handle, parking>>

SendOpen(r) ==
  /\ pc # "stopped"
  /\ queue' = Append(queue, r)
  /\ stage' = [stage EXCEPT ![r] = "queued"]
  /\ UNCHANGED <<pending, told>>

\* The receiver is gone: "device thread stopped".
SendClosed(r) ==
  /\ pc = "stopped"
  /\ pending' = IF r \in Data THEN pending - 1 ELSE pending
  /\ stage' = [stage EXCEPT ![r] = "done"]
  /\ told' = [told EXCEPT ![r] = IF @ = "nothing" THEN "gone" ELSE @]
  /\ UNCHANGED queue

Send(r) ==
  /\ stage[r] = "begun"
  /\ SendOpen(r) \/ SendClosed(r)
  /\ UNCHANGED <<pc, current, linkVars, seen, reg, handle, parking>>

\* recv_timeout gives up after request_timeout, or because the reply's sender
\* was dropped with the queue, or the client hangs up.  The request itself is not
\* withdrawn.
GiveUp(r) ==
  /\ stage[r] \in {"queued", "taken", "done"} /\ told[r] = "nothing"
  /\ told' = [told EXCEPT ![r] = "timeout"]
  /\ UNCHANGED <<pc, queue, current, pending, stage, linkVars, seen, reg,
                 handle, parking>>

\* Devices::stop: Stop is sent; the registry entry goes once the thread is joined.
StopDevice ==
  /\ handle = "held"
  /\ handle' = "stopping"
  /\ queue' = Append(queue, Stop)
  /\ UNCHANGED <<pc, current, callerVars, linkVars, seen, reg, parking>>

\* Mutant of Joined: the entry goes without waiting for the thread.
JoinedEarly ==
  /\ handle = "stopping"
  /\ handle' = "joined"
  /\ reg' = [reg EXCEPT !.listed = FALSE]
  /\ UNCHANGED <<pc, queue, current, callerVars, linkVars, seen, parking>>

Joined ==
  /\ handle = "stopping" /\ pc = "stopped"
  /\ handle' = "joined"
  /\ reg' = [reg EXCEPT !.listed = FALSE]
  /\ UNCHANGED <<pc, queue, current, callerVars, linkVars, seen, parking>>

-----------------------------------------------------------------------------
(* Helpers of the thread's steps. *)

\* The next message is r: it leaves the channel.
Receive(r) == /\ queue # <<>> /\ Head(queue) = r
              /\ queue' = Tail(queue)

\* Mutant of Answer: a late answer replaces the timeout.
AnswerLate(r, outcome) == told' = [told EXCEPT ![r] = outcome]

\* A caller that has given up does not see the answer.
Answer(r, outcome) ==
  told' = [told EXCEPT ![r] = IF @ = "nothing" THEN outcome ELSE @]

AnswerControl(r) == /\ Answer(r, "ok")
                    /\ stage' = [stage EXCEPT ![r] = "done"]
                    /\ lastCtl' = KindOf[r]
                    /\ UNCHANGED <<entry, overtaken>>

\* Mutant of ThreadEnds: the channel outlives the thread.
ThreadEndsKeepsQueue ==
  /\ pc' = "stopped" /\ current' = Stop
  /\ UNCHANGED <<queue, stage, pending, told>>

\* run() returns: the receiver is dropped with everything queued in it.
ThreadEnds ==
  /\ pc' = "stopped" /\ queue' = <<>> /\ current' = Stop
  /\ stage' = [r \in Requests |-> IF stage[r] = "queued" THEN "done" ELSE stage[r]]
  /\ UNCHANGED <<pending, told>>

\* The link broke: it is dropped without on_disconnect traffic.
LoseLink ==
  /\ link' = "closed" /\ session' = "lost"
  /\ reg' = OnDisconnected(reg, "lost")
  /\ pc' = "backoff"

-----------------------------------------------------------------------------
(* connect *)

ConnectOk ==
  /\ pc = "connect"
  /\ link' = "open" /\ session' = "open" /\ silent' = 0
  /\ reg' = OnConnected(reg)
  /\ pc' = "serve"
  /\ UNCHANGED <<queue, current, callerVars, carried, seen, handle, parking>>

ConnectFail ==
  /\ pc = "connect"
  /\ reg' = OnDisconnected(reg, "connect failed")
  /\ pc' = "backoff"
  /\ UNCHANGED <<queue, current, callerVars, linkVars, seen, handle, parking>>

-----------------------------------------------------------------------------
(* wait(): the backoff and the parked thread's pause between presence checks *)

\* Mutants of WaitRefuse: it forgets the counter; it leaves the request queued.
WaitRefuseUncounted(r) ==
  /\ pc \in Waiting /\ r \in Data /\ Receive(r)
  /\ stage' = [stage EXCEPT ![r] = "done"]
  /\ Answer(r, "refused")
  /\ UNCHANGED <<pc, current, pending, linkVars, seen, reg, handle, parking>>

WaitRefusePeeks(r) ==
  /\ pc \in Waiting /\ r \in Data /\ queue # <<>> /\ Head(queue) = r
  /\ Answer(r, "refused")
  /\ UNCHANGED <<pc, queue, current, pending, stage, linkVars, seen, reg, handle,
                 parking>>

WaitRefuse(r) ==
  /\ pc \in Waiting /\ r \in Data /\ Receive(r)
  /\ pending' = pending - 1
  /\ stage' = [stage EXCEPT ![r] = "done"]
  /\ Answer(r, "refused")
  /\ UNCHANGED <<pc, current, linkVars, seen, reg, handle, parking>>

WaitElapsed ==
  /\ pc \in Waiting
  /\ pc' = IF pc = "parked" THEN "presence" ELSE "connect"
  /\ UNCHANGED <<queue, current, callerVars, linkVars, seen, reg, handle, parking>>

\* Mutant of WaitStop: the stop is taken for any other wake-up.
WaitStopIgnored ==
  /\ pc \in Waiting /\ Receive(Stop)
  /\ UNCHANGED <<pc, current, callerVars, linkVars, seen, reg, handle, parking>>

WaitStop ==
  /\ pc \in Waiting /\ queue # <<>> /\ Head(queue) = Stop
  /\ ThreadEnds
  /\ UNCHANGED <<linkVars, seen, reg, handle, parking>>

\* Mutant of BackoffControl: the answered park request is forgotten.
BackoffControlForgets(r) ==
  /\ pc = "backoff" /\ r \in Control /\ Receive(r)
  /\ AnswerControl(r)
  /\ pc' = "connect"
  /\ UNCHANGED <<current, pending, linkVars, seen, reg, handle>>

\* Wake::Park during the backoff: parked = p, answered, back to the loop's top.
BackoffControl(r) ==
  /\ pc = "backoff" /\ r \in Control /\ Receive(r)
  /\ AnswerControl(r)
  /\ IF KindOf[r] = "park" THEN pc' = "presence" /\ seen' = "unknown"
                           ELSE pc' = "connect" /\ UNCHANGED seen
  /\ UNCHANGED <<current, pending, linkVars, reg, handle>>

-----------------------------------------------------------------------------
(* park() *)

\* Mutant of CheckPresence: an instrument that is off is no news.
CheckPresenceQuiet(present) ==
  /\ pc = "presence"
  /\ reg' = IF present = "no" THEN reg ELSE OnParked(reg, present)
  /\ seen' = present
  /\ pc' = "parked"
  /\ UNCHANGED <<queue, current, callerVars, linkVars, handle, parking>>

\* The presence check; an event only when it changed since parking.
CheckPresence(present) ==
  /\ pc = "presence"
  /\ reg' = IF seen = present THEN reg ELSE OnParked(reg, present)
  /\ seen' = present
  /\ pc' = "parked"
  /\ UNCHANGED <<queue, current, callerVars, linkVars, handle, parking>>

ParkedControl(r) ==
  /\ pc = "parked" /\ r \in Control /\ Receive(r)
  /\ AnswerControl(r)
  /\ pc' = IF KindOf[r] = "park" THEN "presence" ELSE "unparking"
  /\ UNCHANGED <<current, pending, linkVars, seen, reg, handle>>

\* Back in run(): the event follows the answer.
Unpark ==
  /\ pc = "unparking"
  /\ reg' = OnUnparked(reg)
  /\ pc' = "connect"
  /\ UNCHANGED <<queue, current, callerVars, linkVars, seen, handle, parking>>

-----------------------------------------------------------------------------
(* serve *)

ServeTake(r) ==
  /\ pc = "serve" /\ r \in Data /\ Receive(r)
  /\ pending' = pending - 1
  /\ stage' = [stage EXCEPT ![r] = "taken"]
  /\ current' = r /\ pc' = "busy"
  /\ UNCHANGED <<told, linkVars, seen, reg, handle, parking>>

\* engine.get / engine.set returns and the caller is answered.  A failed one
\* may or may not have touched the instrument; an I/O error ends the session.
Finish(outcome, touched) ==
  /\ pc = "busy"
  /\ outcome = "ok" /\ KindOf[current] = "set" => touched
  /\ carried' = IF touched THEN carried \cup {current} ELSE carried
  /\ Answer(current, IF outcome = "ok" THEN "ok" ELSE "error")
  /\ stage' = [stage EXCEPT ![current] = "done"]
  /\ current' = Stop
  /\ IF outcome = "io"
     THEN LoseLink
     ELSE pc' = "serve" /\ UNCHANGED <<link, session, reg>>
  /\ UNCHANGED <<queue, pending, silent, seen, handle, parking>>

ServeUnpark(r) ==
  /\ pc = "serve" /\ r \in Control /\ KindOf[r] = "unpark" /\ Receive(r)
  /\ AnswerControl(r)
  /\ UNCHANGED <<pc, current, pending, linkVars, seen, reg, handle>>

\* End::Park, End::Stop: engine.disconnect() runs on_disconnect next.
ServeEnd(m) ==
  /\ pc = "serve" /\ Receive(m)
  /\ m # Stop => m \in Control /\ KindOf[m] = "park"
  /\ current' = m /\ pc' = "closing"
  /\ stage' = IF m = Stop THEN stage ELSE [stage EXCEPT ![m] = "taken"]
  /\ UNCHANGED <<pending, told, linkVars, seen, reg, handle, parking>>

\* Mutant of ReleaseSession: on_disconnect is skipped.
LeaveSession == UNCHANGED <<link, session>>

ReleaseSession == link' = "closed" /\ session' = "released"

\* Mutant of ClosePark: what was seen the last time it was parked is kept.
CloseParkRemembers ==
  /\ pc = "closing" /\ current # Stop
  /\ ReleaseSession
  /\ AnswerControl(current)
  /\ current' = Stop /\ pc' = "presence"
  /\ UNCHANGED <<queue, pending, carried, silent, seen, reg, handle>>

ClosePark ==
  /\ pc = "closing" /\ current # Stop
  /\ ReleaseSession
  /\ AnswerControl(current)
  /\ current' = Stop /\ pc' = "presence" /\ seen' = "unknown"
  /\ UNCHANGED <<queue, pending, carried, silent, reg, handle>>

CloseStop ==
  /\ pc = "closing" /\ current = Stop
  /\ ReleaseSession
  /\ reg' = OnDisconnected(reg, "stopped")
  /\ ThreadEnds
  /\ UNCHANGED <<carried, silent, seen, handle, parking>>

\* recv_timeout found the channel empty when the next poll was due.
PollAnswered ==
  /\ pc = "serve" /\ queue = <<>>
  /\ reg' = OnStatus(reg) /\ silent' = 0
  /\ UNCHANGED <<pc, queue, current, callerVars, carried, link, session, seen,
                 handle, parking>>

\* Mutant of PollSilent: silence never ends the session.
PollSilentForever ==
  /\ pc = "serve" /\ queue = <<>>
  /\ silent' = silent + 1 /\ reg' = OnStatus(reg)
  /\ UNCHANGED <<pc, queue, current, callerVars, link, session, carried, seen,
                 handle, parking>>

\* Every command timed out: null readings are still reported.
PollSilent ==
  /\ pc = "serve" /\ queue = <<>>
  /\ silent' = silent + 1
  /\ IF silent + 1 >= MaxSilent
     THEN LoseLink
     ELSE reg' = OnStatus(reg) /\ UNCHANGED <<pc, link, session>>
  /\ UNCHANGED <<queue, current, callerVars, carried, seen, handle, parking>>

PollIo ==
  /\ pc = "serve" /\ queue = <<>>
  /\ LoseLink
  /\ UNCHANGED <<queue, current, callerVars, carried, silent, seen, handle, parking>>

-----------------------------------------------------------------------------

WaitTakes ==
  \/ WaitStop
  \/ \E r \in Requests : WaitRefuse(r) \/ BackoffControl(r) \/ ParkedControl(r)

ThreadStep ==
  \/ ConnectOk \/ ConnectFail
  \/ WaitElapsed \/ WaitTakes
  \/ \E present \in {"yes", "no"} : CheckPresence(present)
  \/ Unpark
  \/ \E r \in Requests : ServeTake(r) \/ ServeUnpark(r)
  \/ \E outcome \in {"ok", "error", "io"}, touched \in BOOLEAN : Finish(outcome, touched)
  \/ \E m \in Requests \cup {Stop} : ServeEnd(m)
  \/ ClosePark \/ CloseStop
  \/ PollAnswered \/ PollSilent \/ PollIo

CallerStep(r) ==
  CountRequest(r) \/ Mark(r) \/ SaveFails(r) \/ HangUp(r) \/ Send(r) \/ GiveUp(r)

Next ==
  \/ ThreadStep
  \/ \E r \in Requests : CallerStep(r)
  \/ StopDevice \/ Joined

(* The thread runs while it can take a step (its waits are bounded, engine   *)
(* operations have deadlines).  wait() returns a queued message before the   *)
(* time is up, so a thread that keeps coming back to wait() takes the head   *)
(* of its queue: strong fairness.  A caller that began a request goes on.    *)
Fairness ==
  /\ WF_vars(ThreadStep)
  /\ SF_vars(WaitTakes)
  /\ \A r \in Requests : WF_vars(Send(r) \/ SaveFails(r))
  /\ WF_vars(Joined)

Spec == Init /\ [][Next]_vars
FairSpec == Spec /\ Fairness
-----------------------------------------------------------------------------
(* Properties *)

Registry == [listed : BOOLEAN, parked : BOOLEAN, connected : BOOLEAN,
             status : BOOLEAN, failing : BOOLEAN,
             present : {"unknown", "yes", "no"}]

\* Types of the thread, its callers and the registry entry.
TypeOK ==
  /\ pc \in {"connect", "serve", "busy", "closing", "backoff", "presence",
             "parked", "unparking", "stopped"}
  /\ queue \in Seq(Requests \cup {Stop})
  /\ current \in Requests \cup {Stop}
  /\ pending \in Nat
  /\ stage \in [Requests -> {"idle", "begun", "queued", "taken", "done"}]
  /\ told \in [Requests -> {"nothing", "ok", "error", "refused", "timeout", "gone",
                        "hung_up"}]
  /\ carried \in SUBSET Requests
  /\ link \in {"open", "closed"}
  /\ session \in {"none", "open", "released", "lost"}
  /\ silent \in 0..MaxSilent
  /\ seen \in {"unknown", "yes", "no"}
  /\ reg \in Registry
  /\ handle \in {"held", "stopping", "joined"}
  /\ entry \in [parked : BOOLEAN, was : BOOLEAN] /\ lastCtl \in ControlKinds
  /\ overtaken \in BOOLEAN

\* Requests that are counted: sent or about to be, and not picked up yet.
Outstanding == {r \in Data : stage[r] \in {"begun", "queued"}}

\* The queue-depth counter is an unsigned number shared by every caller and the
\* thread (actor.rs send, run, wait).  It never falls below the requests that
\* will still be subtracted from it, so it never wraps; while the thread runs it
\* counts exactly the requests sent or being sent.
PendingExact ==
  /\ pending >= Cardinality(Outstanding)
  /\ pc # "stopped" => pending = Cardinality(Outstanding)

\* Once the thread has answered a park request, and until it answers an unpark
\* request, it owns no port and no session is open, whatever the connection was
\* doing when the request was picked up (PARKING.md: after that, nothing is sent
\* to the instrument).
QuietWhileParked ==
  lastCtl = "park" => link = "closed" /\ session # "open"

\* A caller that was told "parked" or "not connected" may repeat its request: the
\* instrument never sees the refused one, not even after the next connection.
RefusedNeverCarried ==
  \A r \in Requests : told[r] \in {"refused", "gone"} => r \notin carried

\* The thread does not end with a session open: the panel goes back to the user
\* (on_disconnect), unless the link was lost before.
StopReleasesSession ==
  pc = "stopped" => link = "closed" /\ session # "open"

\* The registry never shows readings without a connection, and shows a
\* connection only while there is one; the only exception is the time from the
\* answer to a park request to the first presence report.  A parked thread is shown
\* parked, unless it is about to be unparked or removed, or one request to park or unpark
\* has overtaken another (below).
RegistryTruthful ==
  /\ reg.status => reg.connected
  /\ reg.connected /\ reg.listed => link = "open" \/ (pc = "presence" /\ seen = "unknown")
  /\ pc = "parked" /\ handle = "held" /\ ~overtaken =>
       \/ reg.parked
       \/ \E r \in Control : KindOf[r] = "unpark" /\ stage[r] \in {"begun", "queued"}

\* No park or unpark request is between its mark and its answer.
Settled == \A r \in Control : stage[r] \in {"idle", "done"}

\* Once the requests to park and unpark are settled, the thread and the registry are
\* in the state the config entry says, whatever was saved or not, and also when callers
\* gave up waiting for the answers or hung up.  It needs the requests to be sent in the
\* order they were marked.  config_lock sees to that only while the client of each stays on
\* until its request is sent: a request marked while another is not sent yet may be sent
\* first (overtaken), and ParkedLeftAlone shows what comes of it.
LastWordWins ==
  pc # "stopped" /\ handle = "held" /\ Settled /\ ~overtaken =>
    /\ (pc \in {"presence", "parked"}) = entry.parked
    /\ pc \notin {"presence", "unparking"} => reg.parked = entry.parked

\* A device that was stopped and removed stays out of the registry: no event of
\* its thread brings the entry back (Registry::apply would recreate it).
RemovedStaysRemoved == [][handle = "joined" => ~reg'.listed]_vars

\* Every request put in the channel leaves it and is settled.
EveryRequestSettles == \A r \in Requests : stage[r] = "queued" ~> stage[r] = "done"

\* Stopping a device does not hang: the thread ends and is joined.
StopJoins == handle = "stopping" ~> handle = "joined"

\* An answered park request shows in the registry, with no connection and no
\* readings, unless the device is unparked or stopped first.
ParkIsShown ==
  lastCtl = "park" ~> \/ reg.parked /\ ~reg.connected /\ ~reg.status
                      \/ lastCtl = "unpark" \/ pc = "stopped"

\* PARKING.md: an instrument with `parked: true` in its config.yaml entry is left alone, its
\* link closed.  Not so after one request has overtaken another.
ParkedLeftAlone ==
  handle = "held" /\ Settled /\ entry.parked => link = "closed"

\* PARKING.md, of a configuration that cannot be saved: the state is not changed then.
\* So a parked instrument is still shown as it was last seen.
PresenceKept == pc = "parked" /\ handle = "held" /\ Settled => reg.present = seen

-----------------------------------------------------------------------------
(* The contract of InstrumentService, seen through the thread's state. *)

StateOf(r) == CASE stage[r] \in {"idle", "begun"} -> "new"
                [] stage[r] \in {"queued", "taken"} -> "pending"
                [] OTHER -> "settled"

Service == INSTANCE InstrumentService WITH
  state <- [r \in Requests |-> StateOf(r)],
  open <- link = "open",
  held <- lastCtl = "park",
  ended <- pc = "stopped"

\* The thread, its queue, its waits and its reconnects keep the contract its
\* callers rely on: every step is one of the contract's, or invisible to it.
KeepsContract == Service!Spec
=============================================================================
