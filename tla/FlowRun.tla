------------------------------ MODULE FlowRun ------------------------------
(***************************************************************************)
(* Automation runs (bm-server automation/exec.rs): the executor of a flow, *)
(* the user who aborts it and continues its prompts, and the instruments'  *)
(* threads, which serve its sets and report readings at their own pace.    *)
(*                                                                         *)
(* A flow is abstracted to the steps its executor takes: up to MaxSteps of *)
(* them, each of any kind, then up to MaxCleanup cleanup steps.  A set     *)
(* switches an instrument's output on or off; a reading shows which        *)
(* outputs were on when it was taken (instruments are wired together).     *)
(***************************************************************************)
EXTENDS Integers, Sequences, FiniteSets

CONSTANTS
  Devices,     \* configured instruments
  Sources,     \* those with an output that can energise
  SafeKnown,   \* by run: the outputs whose safe value is known, in the vocabulary of its start
  NoOne,       \* no instrument
  MaxSteps,    \* bound: steps of setup and main part together
  MaxCleanup,  \* bound: steps of the cleanup
  MaxRuns,     \* bound: runs started
  MaxContinues \* bound: continues accepted ahead of the prompts they pass

ASSUME DevicesAssumption == 
  IsFiniteSet(Devices) /\ Sources \subseteq Devices /\ NoOne \notin Devices
ASSUME SafeKnownAssumption == SafeKnown \in [1..MaxRuns -> SUBSET Sources]
ASSUME BoundsAssumption ==
  MaxSteps \in Nat /\ MaxCleanup \in Nat /\ MaxRuns \in Nat /\ MaxContinues \in Nat

VARIABLES
  \* Runner and Run
  run,         \* Info.state of the current run
  aborts,      \* Run.abort; 2 stands for two or more
  woken,       \* Run.resume: the waiting prompt was notified
  permit,      \* Run.resume: a notification stored while nobody waits
  runs,        \* bound: runs started
  \* Exec
  phase,       \* what the executor is doing
  cleanup,     \* Exec.cleanup
  left,        \* steps left in this part of the flow
  cleanupLen,  \* number of cleanup steps of the flow
  outcome,     \* how the main part ended
  expired,     \* timeout_s has passed
  energized,   \* Exec.energized
  target,      \* the set or read in progress
  answer,      \* what device_set returned, once it has
  owned,       \* Exec.recording is set
  live,        \* recordings this run started that still record
  \* instruments
  out,         \* which outputs are on
  chan,        \* sets waiting in each instrument's thread
  polling,     \* threads between sampling a status and applying it
  sample,      \* what they sampled
  reading,     \* registry status: what it shows, newer than Exec.last_set
  \* history
  sentOn,      \* outputs a set of this run switched on, as far as it was told
  late,        \* outputs with a set that a run was not told the success of
  unsafe,      \* outputs whose safe value is not known or could not be written (logged)
  credit,      \* continues accepted less prompts passed
  granted      \* a continue was accepted while this prompt was shown

runner == <<run, aborts, woken, permit, runs>>
exec == <<phase, cleanup, left, cleanupLen, outcome, expired, energized,
          target, answer, owned, live>>
threads == <<out, chan, polling, sample, reading>>
history == <<sentOn, late, unsafe, credit, granted>>
vars == <<runner, exec, threads, history>>

Active == run \in {"running", "waiting", "cleanup"}
Ended == run \in {"failed", "aborted", "finished"}
Nothing == [dev |-> NoOne, level |-> FALSE]
AllOff == [d \in Sources |-> FALSE]

Init ==
  /\ run = "none" /\ aborts = 0
  /\ woken = FALSE /\ permit = FALSE /\ runs = 0
  /\ phase = "idle" /\ cleanup = FALSE /\ left = 0 /\ cleanupLen = 0
  /\ outcome = "none" /\ expired = FALSE /\ energized = {}
  /\ target = Nothing /\ answer = "none"
  /\ owned = FALSE /\ live = 0
  /\ out = AllOff /\ chan = [d \in Devices |-> <<>>]
  /\ polling = {} /\ sample = [d \in Devices |-> AllOff]
  /\ reading = [d \in Devices |-> [world |-> AllOff, fresh |-> TRUE]]
  /\ sentOn = {} /\ late = {} /\ unsafe = {} /\ credit = 0
  /\ granted = FALSE

-----------------------------------------------------------------------------
(* Runner: the API's calls on a run. *)

\* Runner::start, under the lock on `current`: one run at a time.
Start ==
  /\ ~Active /\ runs < MaxRuns
  /\ run' = "running" /\ runs' = runs + 1
  /\ aborts' = 0 /\ woken' = FALSE /\ permit' = FALSE
  /\ phase' = "ready" /\ cleanup' = FALSE
  /\ left' \in 0..MaxSteps /\ cleanupLen' \in 0..MaxCleanup
  /\ outcome' = "none" /\ expired' = FALSE /\ energized' = {}
  /\ owned' = FALSE /\ live' = 0
  /\ reading' = [d \in Devices |-> [reading[d] EXCEPT !.fresh = TRUE]]
  /\ sentOn' = {} /\ unsafe' = {} /\ credit' = 0 /\ granted' = FALSE
  /\ UNCHANGED <<target, answer, out, chan, polling, sample, late>>

Abort ==
  /\ Active /\ aborts < 2
  /\ aborts' = aborts + 1
  /\ UNCHANGED <<run, woken, permit, runs, exec, threads, history>>

\* Mutant of Resume: no prompt needs to be shown.
ResumeAnytime ==
  /\ Active /\ credit < MaxContinues
  /\ permit' = TRUE
  /\ UNCHANGED <<run, aborts, woken, runs, exec, threads, history>>

\* Runner::resume.  notify_one wakes the waiting prompt, or is stored.  The run
\* is shown waiting until its executor runs again.
Resume ==
  /\ run = "waiting" /\ credit < MaxContinues
  /\ IF woken THEN permit' = TRUE /\ UNCHANGED woken
              ELSE woken' = TRUE /\ UNCHANGED permit
  /\ credit' = credit + 1 /\ granted' = TRUE
  /\ UNCHANGED <<run, aborts, runs, exec, threads,
                 sentOn, late, unsafe>>

\* timeout_s passes.
Expire ==
  /\ Active /\ ~expired
  /\ expired' = TRUE
  /\ UNCHANGED <<runner, phase, cleanup, left, cleanupLen, outcome, energized,
                 target, answer, owned, live, threads, history>>

-----------------------------------------------------------------------------
(* Exec: how a part of the flow ends. *)

\* Exec::check.
Stopped == aborts >= IF cleanup THEN 2 ELSE 1
TimedOut == expired /\ ~cleanup
Checked == ~Stopped /\ ~TimedOut

\* Mutant of Halt: the first abort also ends the cleanup it starts.
HaltAll(o) ==
  /\ outcome' = IF cleanup THEN outcome ELSE o
  /\ cleanup' = TRUE
  /\ phase' = IF o = "aborted" THEN "safe" ELSE "ready"
  /\ left' = IF ~cleanup THEN cleanupLen ELSE IF o = "aborted" THEN left ELSE left - 1
  /\ run' = IF cleanupLen > 0 THEN "cleanup" ELSE "running"

\* A step, or a part of the flow, ends early.  The main part is followed by the
\* cleanup; a failed cleanup step by the next one.
Halt(o) ==
  /\ outcome' = IF cleanup THEN outcome ELSE o
  /\ cleanup' = TRUE
  /\ phase' = IF cleanup /\ o = "aborted" THEN "safe" ELSE "ready"
  /\ left' = IF ~cleanup THEN cleanupLen ELSE IF o = "aborted" THEN left ELSE left - 1
  /\ run' = IF cleanupLen > 0 THEN "cleanup" ELSE "running"

Continue ==
  /\ phase' = "ready" /\ left' = left - 1
  /\ run' = IF cleanup THEN "cleanup" ELSE "running"
  /\ UNCHANGED <<outcome, cleanup>>

\* Exec::check at the end of a step.
HaltChecked == ~Checked /\ Halt(IF Stopped THEN "aborted" ELSE "failed")
ContinueChecked == Checked /\ Continue

otherRunner == <<aborts, runs>>
notify == <<woken, permit>>
record == <<owned, live>>
flow == <<cleanupLen, expired>>
setting == <<energized, target, answer>>

\* run_steps and run_cleanup check before each step.
HaltBetween ==
  /\ phase = "ready" /\ left > 0 /\ HaltChecked
  /\ UNCHANGED <<otherRunner, notify, flow, setting, record, threads, history>>

\* No check after the last step: an abort that comes now aborts nothing.
PartEnds ==
  /\ phase = "ready" /\ left = 0
  /\ IF cleanup THEN phase' = "safe" /\ UNCHANGED <<run, outcome, cleanup, left>>
                ELSE Halt("finished")
  /\ UNCHANGED <<otherRunner, notify, flow, setting, record, threads, history>>

MayStep == phase = "ready" /\ left > 0 /\ Checked

\* let, if, repeat, sweep, check, log; stop ends the main part.
PlainStep(o) ==
  /\ MayStep
  /\ IF o = "ok" THEN Continue ELSE Halt(o)
  /\ UNCHANGED <<otherRunner, notify, flow, setting, record, threads, history>>

BeginWait ==
  /\ MayStep /\ phase' = "pause"
  /\ UNCHANGED <<runner, cleanup, left, outcome, flow, setting, record, threads, history>>

\* Exec::sleep returns when the time is up, or as soon as it is stopped.
EndWait ==
  /\ phase = "pause"
  /\ ContinueChecked \/ HaltChecked
  /\ UNCHANGED <<otherRunner, notify, flow, setting, record, threads, history>>

-----------------------------------------------------------------------------
(* Exec: set. *)

\* device_set: the set goes to the instrument's thread.
Send(d, level) ==
  /\ target' = [dev |-> d, level |-> level]
  /\ chan' = [chan EXCEPT ![d] = Append(@, level)]
  /\ UNCHANGED answer

BeginSet(d, level) ==
  /\ MayStep
  /\ Send(d, level)
  /\ phase' = "sending"
  /\ UNCHANGED <<runner, cleanup, left, outcome, flow, energized, record, out,
                 polling, sample, reading, history>>

\* The caller waits for a bounded time only; the request stays in the queue.
SetTimesOut ==
  /\ phase \in {"sending", "securing"} /\ answer = "none"
  /\ answer' = "error"
  /\ UNCHANGED <<runner, phase, cleanup, left, outcome, flow, energized, target,
                 record, threads, history>>

\* Mutant of Outdate: last_set stays.
OutdateNothing == UNCHANGED reading

\* last_set moves: every status read must be newer than this.
Outdate == reading' = [d \in Devices |-> [reading[d] EXCEPT !.fresh = FALSE]]

\* Mutant of SetAccepted: what is switched on is not noted.
SetAcceptedUnnoted ==
  /\ phase = "sending" /\ answer = "ok"
  /\ Outdate
  /\ sentOn' = IF target.level THEN sentOn \cup {target.dev} ELSE sentOn
  /\ phase' = "confirming" /\ answer' = "none"
  /\ UNCHANGED <<runner, cleanup, left, outcome, flow, energized, target, record, out,
                 chan, polling, sample, late, unsafe, credit, granted>>

\* Without a known safe value no value is one.
SetAccepted ==
  /\ phase = "sending" /\ answer = "ok"
  /\ Outdate
  /\ energized' = IF target.level \/ target.dev \notin SafeKnown[runs]
                  THEN energized \cup {target.dev} ELSE energized
  /\ sentOn' = IF target.level THEN sentOn \cup {target.dev} ELSE sentOn
  /\ phase' = "confirming" /\ answer' = "none"
  /\ UNCHANGED <<runner, cleanup, left, outcome, flow, target, record, out, chan,
                 polling, sample, late, unsafe, credit, granted>>

SetFailed ==
  /\ phase = "sending" /\ answer = "error"
  /\ Halt("failed")
  /\ late' = late \cup {target.dev}
  /\ answer' = "none"
  /\ target' = Nothing
  /\ UNCHANGED <<otherRunner, notify, flow, energized, record, threads, sentOn, unsafe, credit, granted>>

\* confirm: the instrument reports the value, or does not in time.
ConfirmOk ==
  /\ phase = "confirming" /\ Checked /\ out[target.dev] = target.level
  /\ Outdate /\ Continue
  /\ target' = Nothing
  /\ UNCHANGED <<otherRunner, notify, flow, energized, answer, record, out, chan, polling,
                 sample, history>>

\* The setter has no read-back: the step ends without a check.
ConfirmSkipped ==
  /\ phase = "confirming"
  /\ Outdate /\ Continue
  /\ target' = Nothing
  /\ UNCHANGED <<otherRunner, notify, flow, energized, answer, record, out, chan, polling,
                 sample, history>>

ConfirmFails ==
  /\ phase = "confirming"
  /\ HaltChecked \/ (Checked /\ Halt("failed"))
  /\ target' = Nothing
  /\ UNCHANGED <<otherRunner, notify, flow, energized, answer, record, threads, history>>

-----------------------------------------------------------------------------
(* Exec: read, prompt, record. *)

BeginRead(d) ==
  /\ MayStep
  /\ target' = [dev |-> d, level |-> FALSE] /\ phase' = "reading"
  /\ UNCHANGED <<runner, cleanup, left, outcome, flow, energized, answer, record,
                 threads, history>>

\* fresh_field found an update newer than last_set.
ReadOk ==
  /\ phase = "reading" /\ reading[target.dev].fresh
  /\ ContinueChecked
  /\ target' = Nothing
  /\ UNCHANGED <<otherRunner, notify, flow, energized, answer, record, threads, history>>

\* A read of an operation asks the instrument itself (device_get).
ReadAsked ==
  /\ phase = "reading"
  /\ ContinueChecked
  /\ target' = Nothing
  /\ UNCHANGED <<otherRunner, notify, flow, energized, answer, record, threads, history>>

\* None came in time, the instrument is offline, or the run was stopped.
ReadFails ==
  /\ phase = "reading"
  /\ HaltChecked \/ (Checked /\ Halt("failed"))
  /\ target' = Nothing
  /\ UNCHANGED <<otherRunner, notify, flow, energized, answer, record, threads, history>>

\* A stored notification is consumed at once.
BeginPrompt ==
  /\ MayStep
  /\ phase' = "prompt" /\ run' = "waiting"
  /\ woken' = permit /\ permit' = FALSE /\ granted' = FALSE
  /\ UNCHANGED <<otherRunner, cleanup, left, outcome, flow, setting, record,
                 threads, sentOn, late, unsafe, credit>>

PromptPassed ==
  /\ phase = "prompt" /\ woken
  /\ Continue
  /\ woken' = FALSE /\ credit' = credit - 1
  /\ UNCHANGED <<otherRunner, permit, flow, setting, record, threads,
                 sentOn, late, unsafe, granted>>

\* Mutant of PromptHalts: an abort does not wake the prompt.
PromptDeaf ==
  /\ phase = "prompt" /\ woken /\ Stopped
  /\ Halt("aborted")
  /\ woken' = FALSE /\ permit' = (permit \/ woken)
  /\ UNCHANGED <<otherRunner, flow, setting, record, threads, history>>

\* An abort wakes the prompt, which checks again; timeout_s alone does not.  A
\* notification that was not consumed is stored.
PromptHalts ==
  /\ phase = "prompt" /\ Stopped
  /\ Halt("aborted")
  /\ woken' = FALSE /\ permit' = (permit \/ woken)
  /\ UNCHANGED <<otherRunner, flow, setting, record, threads, history>>

\* record start: the run's previous recording is stopped first; start_with may
\* fail before the recording is created, or after (a series is refused).
RecordStart(created, ok) ==
  /\ MayStep
  /\ ok => created
  /\ live' = (IF owned THEN live - 1 ELSE live) + (IF created THEN 1 ELSE 0)
  /\ owned' = ok
  /\ IF ok THEN Continue ELSE Halt("failed")
  /\ UNCHANGED <<otherRunner, notify, flow, setting, threads, history>>

\* Mutant of RecordStop: the stopped recording is stopped again at the end.
RecordStopKeeps ==
  /\ MayStep
  /\ live' = IF owned THEN live - 1 ELSE live
  /\ Continue
  /\ UNCHANGED <<otherRunner, notify, owned, flow, setting, threads, history>>

\* A recording that a user has deleted meanwhile fails the step.
RecordStop ==
  /\ MayStep
  /\ live' = IF owned THEN live - 1 ELSE live
  /\ owned' = FALSE
  /\ Continue \/ (owned /\ Halt("failed"))
  /\ UNCHANGED <<otherRunner, notify, flow, setting, threads, history>>

-----------------------------------------------------------------------------
(* Exec: safe_state and the end of the run. *)

SafeDue == outcome # "finished" /\ energized # {}

Secure(d) ==
  /\ phase = "safe" /\ SafeDue /\ d \in energized \cap SafeKnown[runs]
  /\ energized' = energized \ {d}
  /\ Send(d, FALSE)
  /\ phase' = "securing"
  /\ UNCHANGED <<runner, cleanup, left, outcome, flow, record, out, polling,
                 sample, reading, history>>

\* No safe value known: a warning, and the next one.
LeaveOn(d) ==
  /\ phase = "safe" /\ SafeDue /\ d \in energized \ SafeKnown[runs]
  /\ energized' = energized \ {d} /\ unsafe' = unsafe \cup {d}
  /\ UNCHANGED <<runner, phase, cleanup, left, outcome, flow, target, answer, record,
                 threads, sentOn, late, credit, granted>>

Secured ==
  /\ phase = "securing" /\ answer # "none"
  /\ unsafe' = IF answer = "ok" THEN unsafe ELSE unsafe \cup {target.dev}
  /\ phase' = "safe" /\ answer' = "none"
  /\ target' = Nothing
  /\ UNCHANGED <<runner, cleanup, left, outcome, flow, energized, record,
                 threads, sentOn, late, credit, granted>>

RunEnds ==
  /\ phase = "safe" /\ ~SafeDue
  /\ run' = outcome /\ phase' = "idle"
  /\ live' = IF owned THEN live - 1 ELSE live
  /\ owned' = FALSE
  /\ UNCHANGED <<otherRunner, notify, cleanup, left, outcome, flow, setting,
                 threads, history>>

-----------------------------------------------------------------------------
(* The instruments' threads: one thing at a time. *)

Waits(d) == phase \in {"sending", "securing"} /\ answer = "none" /\ target.dev = d

\* A failed set may have reached the instrument.
Serve(d, ok, done) ==
  /\ chan[d] # <<>> /\ d \notin polling
  /\ ok => done
  /\ chan' = [chan EXCEPT ![d] = Tail(@)]
  /\ out' = IF done THEN [out EXCEPT ![d] = Head(chan[d])] ELSE out
  /\ answer' = IF ~(Waits(d) /\ Len(chan[d]) = 1) THEN answer
             ELSE IF ok THEN "ok" ELSE "error"
  /\ UNCHANGED <<runner, phase, cleanup, left, outcome, flow, energized, target,
                 record, polling, sample, reading, history>>

PollBegins(d) ==
  /\ d \notin polling /\ chan[d] = <<>>
  /\ polling' = polling \cup {d}
  /\ sample' = [sample EXCEPT ![d] = out]
  /\ UNCHANGED <<runner, exec, out, chan, reading, history>>

\* Registry::apply stamps the update with the time it is applied.
PollEnds(d) ==
  /\ d \in polling
  /\ polling' = polling \ {d}
  /\ reading' = [reading EXCEPT ![d] = [world |-> sample[d], fresh |-> TRUE]]
  /\ sample' = [sample EXCEPT ![d] = AllOff]
  /\ UNCHANGED <<runner, exec, out, chan, history>>

\* The instrument's entry is edited (update_device): its thread is stopped, its
\* queue dropped, and another one started.
Restart(d) ==
  /\ chan' = [chan EXCEPT ![d] = <<>>]
  /\ polling' = polling \ {d} /\ sample' = [sample EXCEPT ![d] = AllOff]
  /\ answer' = IF Waits(d) THEN "error" ELSE answer
  /\ UNCHANGED <<runner, phase, cleanup, left, outcome, flow, energized, target,
                 record, out, reading, history>>

-----------------------------------------------------------------------------

ExecStep ==
  \/ HaltBetween \/ PartEnds
  \/ \E o \in {"ok", "failed", "finished"} : PlainStep(o)
  \/ BeginWait \/ EndWait
  \/ \E d \in Sources, level \in BOOLEAN : BeginSet(d, level)
  \/ SetTimesOut \/ SetAccepted \/ SetFailed \/ ConfirmOk \/ ConfirmSkipped
  \/ ConfirmFails
  \/ \E d \in Devices : BeginRead(d)
  \/ ReadOk \/ ReadAsked \/ ReadFails
  \/ BeginPrompt \/ PromptPassed \/ PromptHalts
  \/ \E created, ok \in BOOLEAN : RecordStart(created, ok)
  \/ RecordStop
  \/ \E d \in Sources : Secure(d) \/ LeaveOn(d)
  \/ Secured \/ RunEnds

ThreadStep(d) ==
  \/ d \in Sources /\ \E ok, done \in BOOLEAN : Serve(d, ok, done)
  \/ PollBegins(d) \/ PollEnds(d) \/ Restart(d)

UserStep == Start \/ Abort \/ Resume \/ Expire

Next ==
  \/ ExecStep \/ UserStep
  \/ \E d \in Devices : ThreadStep(d)

(* The executor is a task of its own and every wait of it is bounded, except  *)
(* a prompt, which no fairness is assumed to continue.  Users owe nothing.   *)
Spec == Init /\ [][Next]_vars
FairSpec == Spec /\ WF_vars(ExecStep)
-----------------------------------------------------------------------------
(* Properties *)

World == [Sources -> BOOLEAN]

\* Types of the run, its executor, the instruments and the handlers.
TypeOK ==
  /\ run \in {"none", "running", "waiting", "cleanup", "finished", "failed", "aborted"}
  /\ aborts \in 0..2 /\ woken \in BOOLEAN /\ permit \in BOOLEAN /\ runs \in 0..MaxRuns
  /\ phase \in {"idle", "ready", "pause", "sending", "confirming", "reading", "prompt",
                "safe", "securing"}
  /\ cleanup \in BOOLEAN /\ expired \in BOOLEAN
  /\ cleanupLen \in 0..MaxCleanup /\ left \in 0..(MaxSteps + MaxCleanup)
  /\ outcome \in {"none", "finished", "failed", "aborted"}
  /\ energized \subseteq Sources
  /\ target \in [dev : Devices \cup {NoOne}, level : BOOLEAN]
  /\ answer \in {"none", "ok", "error"}
  /\ owned \in BOOLEAN /\ live \in Nat
  /\ out \in World /\ chan \in [Devices -> Seq(BOOLEAN)]
  /\ polling \subseteq Devices /\ sample \in [Devices -> World]
  /\ reading \in [Devices -> [world : World, fresh : BOOLEAN]]
  /\ sentOn \subseteq Sources /\ late \subseteq Sources /\ unsafe \subseteq Sources
  /\ credit \in Int /\ granted \in BOOLEAN

\* An output that the run switched on, and knows it did, is off once a failed or
\* aborted run has ended, unless the run logged that it could not do so: however
\* the run ended, and whatever sets still wait in the instruments' threads.
SafeAfterFailure ==
  run \in {"failed", "aborted"} => \A d \in sentOn \ unsafe : ~out[d]

\* The cleanup is run to its end after success, failure, a stop step and an abort;
\* only a second abort cuts it short (AUTOMATION.md, run_cleanup).
CleanupComplete == Ended => left = 0 \/ aborts = 2

\* No more prompts are passed than continues were accepted.
PromptsNeedContinue == credit >= 0

\* A status reading of an instrument the run has set shows the change: its thread does
\* not sample while it serves a set, and last_set makes the run wait for a sample
\* taken after the set.
OwnReadingCurrent ==
  [][\A d \in sentOn \ late :
       ReadOk /\ target.dev = d => reading[d].world[d] = out[d]]_vars

\* An aborted run ends, unless its cleanup asks the user something; aborted twice,
\* it ends in any case.
AbortEndsRun ==
  /\ Active /\ aborts >= 1 ~> ~Active \/ (cleanup /\ run = "waiting")
  /\ Active /\ aborts = 2 ~> ~Active

-----------------------------------------------------------------------------
(* What the documentation says, and the code does not do. *)

\* exec.rs, first lines, and AUTOMATION.md: a failed or aborted run puts every
\* output it switched on back to its safe value.  In the first run that is every
\* output that is on.
FailedRunIsOff ==
  runs = 1 /\ run \in {"failed", "aborted"} => \A d \in Sources \ unsafe : ~out[d]

\* AUTOMATION.md: a reading always reflects the change before it.  Here: as long
\* as every set of the run was confirmed.
ReadReflectsSets ==
  [][ReadOk /\ outcome = "none" => reading[target.dev].world = out]_vars

\* AUTOMATION.md: a prompt pauses until the user continues.
PromptPausesForUser == [][PromptPassed => granted]_vars

\* AUTOMATION.md: timeout_s bounds the whole run, cleanup excluded.
TimeoutEndsMain == Active /\ expired /\ ~cleanup ~> cleanup \/ ~Active

\* AUTOMATION.md: a recording the run started is stopped when the run ends.
RecordingsEnd == Ended => live = 0
=============================================================================
