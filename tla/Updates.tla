------------------------------ MODULE Updates ------------------------------
(***************************************************************************)
(* A headless BenchMesh looked after from its web page: checking for and   *)
(* installing updates, restart and shut down (bm-server system/update.rs,  *)
(* system/mod.rs, headless.rs), with the program's own file on the disk.   *)
(*                                                                         *)
(* A program or a download is its version and whether it is whole.  Checks *)
(* and downloads are asynchronous tasks of the server: they interleave,    *)
(* and end with it.  The process may be killed at any step.                *)
(***************************************************************************)
EXTENDS Naturals, FiniteSets

CONSTANTS
  Kinds,       \* how BenchMesh may be installed: "appimage", "app", "nsis", "deb", "source"
  CheckTasks,  \* check requests that may be in progress at once
  Downloads,   \* download tasks that may be in progress at once
  MaxRelease,  \* bound: releases published after the one installed
  MaxPassed,   \* bound: requests of the page in progress at once
  MaxFaults,   \* bound: file operations of an installation that fail
  MaxKills     \* bound: kills of the process

ASSUME UpdatesAssumption == MaxRelease \in Nat

VARIABLES
  kind,      \* Install
  released,  \* the version of latest.json
  running,   \* the version that runs
  phase, latest, command, staged, \* Updater.state: None is 0, FALSE or <<>>
  check,     \* check[c]: the check is in progress
  task,      \* task[t]: where the download is, and its version
  part, file,\* <name>.part and <name>, by version: absent, or who wrote it and whether it is whole
  action,    \* System.action: what the page asked last
  passed,    \* requests past refused_while_running and not yet carried out
  flow,      \* a flow runs
  proc,      \* the process: up, stopping, a step of the installation, off
  target, previous, tmp, \* the program's file, <file>.previous, the copy next to it
  faults, kills, \* bounds
  overlapped \* history: a check was started while another was in progress

Idle == [step |-> "idle", version |-> 0]
NoFile == <<>>
Program(v, whole) == <<[version |-> v, whole |-> whole]>>
Runs(p) == p # NoFile /\ p[1].whole
Versions == 1..MaxRelease

updater == <<phase, latest, command, staged>>
downloads == <<check, task, part, file>>
swap == <<target, previous, tmp>>
bounds == <<faults, kills, overlapped>>
updatesVars == <<kind, released, running, updater, downloads, action, passed, flow, proc, swap, bounds>>

ReplacesItself == kind \in {"appimage", "app", "nsis"}

\* The state of a server that has just started.
Fresh ==
  /\ phase = "idle" /\ latest = 0 /\ command = FALSE /\ staged = <<>>
  /\ check = [c \in CheckTasks |-> FALSE] /\ task = [t \in Downloads |-> Idle]
  /\ action = "none" /\ passed = {} /\ flow = FALSE

UpdatesInit ==
  /\ kind \in Kinds
  /\ released \in 0..MaxRelease /\ running = 0
  /\ Fresh /\ proc = "up"
  /\ part = [v \in Versions |-> NoFile] /\ file = [v \in Versions |-> NoFile]
  /\ target = Program(0, TRUE) /\ previous = NoFile /\ tmp = NoFile
  /\ faults = 0 /\ kills = 0 /\ overlapped = FALSE

Serving == proc \in {"up", "stopping"}

Publish ==
  /\ released < MaxRelease /\ released' = released + 1
  /\ UNCHANGED <<kind, running, updater, downloads, action, passed, flow, proc, swap, bounds>>

\* A flow's run starts and ends whatever the updater does.
FlowStarts ==
  /\ proc = "up" /\ ~flow /\ flow' = TRUE
  /\ UNCHANGED <<kind, released, running, updater, downloads, action, passed, proc, swap, bounds>>

FlowEnds ==
  /\ proc = "up" /\ flow /\ flow' = FALSE
  /\ UNCHANGED <<kind, released, running, updater, downloads, action, passed, proc, swap, bounds>>

-----------------------------------------------------------------------------
(* Checking for updates. *)

\* A check is refused during an installation, not during another check.
CheckStarts(c) ==
  /\ proc = "up" /\ ~check[c]
  /\ phase \notin {"downloading", "installing"}
  /\ phase' = "checking"
  /\ check' = [check EXCEPT ![c] = TRUE]
  /\ overlapped' = (overlapped \/ \E d \in CheckTasks : check[d])
  /\ UNCHANGED <<kind, released, running, latest, command, staged, task, part, file, action,
                 passed, flow, proc, swap, faults, kills>>

\* The manifest is read while the check is in progress; the phase is set whatever happened
\* to it since the check started.
CheckEnds(c) ==
  /\ Serving /\ check[c]
  /\ latest' = released
  /\ phase' = IF command THEN "manual" ELSE "idle"
  /\ check' = [check EXCEPT ![c] = FALSE]
  /\ UNCHANGED <<kind, released, running, command, staged, task, part, file, action, passed, flow,
                 proc, swap, bounds>>

CheckFails(c) ==
  /\ Serving /\ check[c]
  /\ phase' = "failed" /\ check' = [check EXCEPT ![c] = FALSE]
  /\ UNCHANGED <<kind, released, running, latest, command, staged, task, part, file, action,
                 passed, flow, proc, swap, bounds>>

\* The client hangs up: the handler is dropped, and the phase stays as it is.
CheckDropped(c) ==
  /\ Serving /\ check[c] /\ check' = [check EXCEPT ![c] = FALSE]
  /\ UNCHANGED <<kind, released, running, updater, task, part, file, action, passed, flow, proc,
                 swap, bounds>>

-----------------------------------------------------------------------------
(* Requests of the page: each first looks for a run, then acts. *)

RefusedWhileRunning == flow

Ask(request) ==
  /\ proc = "up" /\ ~RefusedWhileRunning
  /\ request \notin passed /\ Cardinality(passed) < MaxPassed
  /\ passed' = passed \cup {request}
  /\ UNCHANGED <<kind, released, running, updater, downloads, action, flow, proc, swap, bounds>>

Request(request) ==
  /\ proc = "up" /\ request \in passed \cap {"restart", "shutdown"}
  /\ passed' = passed \ {request} /\ action' = request
  /\ UNCHANGED <<kind, released, running, updater, downloads, flow, proc, swap, bounds>>

\* Mutant: a check in progress does not refuse an installation.
CanStartInstallChecking ==
  /\ kind # "source"
  /\ phase \notin {"downloading", "installing"}
  /\ latest > running

CanStartInstall ==
  /\ kind # "source"
  /\ phase \notin {"downloading", "installing", "checking"}
  /\ latest > running

RefuseInstall ==
  /\ proc = "up" /\ "install" \in passed /\ ~CanStartInstall
  /\ passed' = passed \ {"install"}
  /\ UNCHANGED <<kind, released, running, updater, downloads, action, flow, proc, swap, bounds>>

StartInstall(t) ==
  /\ proc = "up" /\ "install" \in passed /\ task[t] = Idle
  /\ CanStartInstall
  /\ passed' = passed \ {"install"}
  /\ phase' = "downloading" /\ command' = FALSE
  /\ task' = [task EXCEPT ![t] = [step |-> "asking", version |-> latest]]
  /\ UNCHANGED <<kind, released, running, latest, staged, check, part, file, action, flow, proc,
                 swap, bounds>>

-----------------------------------------------------------------------------
(* A download.  Two of the same version write the same <name>.part: the last that opened *)
(* it truncated it, and it is whole again when that one has written everything.          *)

At(t, step) == Serving /\ task[t].step = step
To(t, step) == task' = [task EXCEPT ![t].step = step]
Written(t, whole) == <<[by |-> t, whole |-> whole]>>
IsOf(f, t) == f # NoFile /\ f[1].by = t

\* File::create
OpenPart(t) ==
  /\ At(t, "asking") /\ To(t, "writing")
  /\ part' = [part EXCEPT ![task[t].version] = Written(t, FALSE)]
  /\ UNCHANGED <<kind, released, running, updater, check, file, action, passed, flow, proc, swap,
                 bounds>>

\* The open file may have been renamed by another download since.
WriteAll(t) ==
  LET v == task[t].version IN
  /\ At(t, "writing") /\ To(t, "written")
  /\ part' = [part EXCEPT ![v] = IF IsOf(@, t) THEN Written(t, TRUE) ELSE @]
  /\ file' = [file EXCEPT ![v] = IF IsOf(@, t) THEN Written(t, TRUE) ELSE @]
  /\ UNCHANGED <<kind, released, running, updater, check, action, passed, flow, proc, swap, bounds>>

\* A file that is not whole does not carry the signature.
Verify(t) ==
  LET v == task[t].version IN
  /\ At(t, "written") /\ Runs(part[v]) /\ To(t, "verified")
  /\ UNCHANGED <<kind, released, running, updater, check, part, file, action, passed, flow, proc,
                 swap, bounds>>

RenamePart(t) ==
  LET v == task[t].version IN
  /\ At(t, "verified") /\ part[v] # NoFile /\ To(t, "renamed")
  /\ file' = [file EXCEPT ![v] = part[v]] /\ part' = [part EXCEPT ![v] = NoFile]
  /\ UNCHANGED <<kind, released, running, updater, check, action, passed, flow, proc, swap, bounds>>

\* No answer: nothing was opened yet.  Once File::create was tried, whatever fails (the file,
\* the transfer, the verification, the rename), <name>.part is removed, whoever wrote it.
DownloadFails(t) ==
  LET v == task[t].version IN
  /\ Serving /\ task[t].step \in {"asking", "writing", "written", "verified"}
  /\ \/ part' = [part EXCEPT ![v] = NoFile]
     \/ task[t].step = "asking" /\ UNCHANGED part
  /\ phase' = "failed" /\ task' = [task EXCEPT ![t] = Idle]
  /\ UNCHANGED <<kind, released, running, latest, command, staged, check, file, action, passed,
                 flow, proc, swap, bounds>>

\* `ready` asks the process to stop, without looking for a run again.  A process that
\* already stops has taken its action and what was staged.
Stage(t) ==
  /\ At(t, "renamed") /\ task' = [task EXCEPT ![t] = Idle]
  /\ IF ReplacesItself
     THEN /\ phase' = "installing" /\ UNCHANGED command
          /\ IF proc = "up" THEN staged' = <<task[t].version>> /\ action' = "update"
                            ELSE UNCHANGED <<staged, action>>
     ELSE /\ phase' = "manual" /\ command' = TRUE /\ UNCHANGED <<staged, action>>
  /\ UNCHANGED <<kind, released, running, latest, check, part, file, passed, flow, proc, swap,
                 bounds>>

-----------------------------------------------------------------------------
(* The process stops, installs what is staged and starts again. *)

Go(step) == proc' = step
Unmoved == UNCHANGED <<kind, released, updater, downloads, action, passed, flow, kills, overlapped>>

\* headless::wait, and the staged update taken before the server stops.
Stop ==
  /\ proc = "up" /\ action # "none" /\ Go("stopping")
  /\ UNCHANGED <<kind, released, running, updater, downloads, action, passed, flow, swap, bounds>>

Restarted ==
  /\ phase' = "idle" /\ latest' = 0 /\ command' = FALSE /\ staged' = <<>>
  /\ check' = [c \in CheckTasks |-> FALSE] /\ task' = [t \in Downloads |-> Idle]
  /\ action' = "none" /\ passed' = {} /\ flow' = FALSE

\* An AppImage that runs keeps its image mounted; an app runs from its bundle.
CanRunAgain == kind \in {"appimage", "deb", "source"} \/ Runs(target)

\* restart(None): the program that runs, again.
Again ==
  /\ proc' = IF CanRunAgain THEN "up" ELSE "off"
  /\ Restarted /\ UNCHANGED <<kind, released, running, part, file, kills, overlapped>>

Stopped ==
  /\ proc = "stopping"
  /\ CASE action = "update" /\ staged # <<>> ->
            /\ proc' = IF kind = "nsis" THEN "helper" ELSE "copy"
            /\ task' = [t \in Downloads |-> Idle] /\ check' = [c \in CheckTasks |-> FALSE]
            /\ UNCHANGED <<kind, released, running, updater, part, file, action, passed, flow,
                           kills, overlapped>>
       [] action = "shutdown" ->
            /\ proc' = "off" /\ Restarted
            /\ UNCHANGED <<kind, released, running, part, file, kills, overlapped>>
       [] OTHER -> Again
  /\ UNCHANGED <<swap, faults>>

Works == UNCHANGED faults
Fails == faults < MaxFaults /\ faults' = faults + 1

New == IF file[staged[1]] = NoFile THEN NoFile ELSE Program(staged[1], file[staged[1]][1].whole)

\* swap_appimage, swap_mac_app: the new program next to the installed one.
Copy ==
  /\ proc = "copy"
  /\ \/ /\ Works /\ New # NoFile /\ Go("clear") /\ tmp' = New
        /\ Unmoved /\ UNCHANGED running
     \/ /\ Fails /\ tmp' \in {tmp, Program(staged[1], FALSE)} /\ Again
     \/ /\ Works /\ New = NoFile /\ UNCHANGED tmp /\ Again
  /\ UNCHANGED <<target, previous>>

Clear ==
  /\ proc = "clear" /\ Go("aside")
  /\ \/ Works /\ previous' = NoFile
     \/ Fails /\ UNCHANGED previous
  /\ Unmoved /\ UNCHANGED <<running, target, tmp>>

\* Mutant: the installed program is removed instead of moved aside.
AsideRemoves ==
  /\ proc = "aside" /\ Works /\ target # NoFile /\ Go("place")
  /\ target' = NoFile /\ Unmoved /\ UNCHANGED <<running, previous, tmp>>

Aside ==
  /\ proc = "aside"
  /\ \/ /\ Works /\ target # NoFile /\ Go("place")
        /\ previous' = target /\ target' = NoFile
        /\ Unmoved /\ UNCHANGED running
     \/ /\ Fails \/ (Works /\ target = NoFile)
        /\ UNCHANGED <<target, previous>> /\ Again
  /\ UNCHANGED tmp

\* The downloaded file is removed afterwards, if that works; nothing reads it again.
Place ==
  /\ proc = "place"
  /\ \/ /\ Works /\ Go("start") /\ target' = tmp /\ tmp' = NoFile
     \/ /\ Fails /\ Go("put back") /\ UNCHANGED <<target, tmp>>
  /\ Unmoved /\ UNCHANGED <<running, previous>>

PutBack ==
  /\ proc = "put back"
  /\ \/ Works /\ target' = previous /\ previous' = NoFile
     \/ Fails /\ UNCHANGED <<target, previous>>
  /\ proc' = (IF kind = "appimage" \/ Runs(target') THEN "up" ELSE "off")
  /\ Restarted /\ UNCHANGED <<kind, released, running, part, file, kills, overlapped, tmp>>

\* restart(Some(program)): the program in place, when it can be started.
Start ==
  /\ proc = "start"
  /\ IF Runs(target) THEN proc' = "up" /\ running' = target[1].version
                     ELSE proc' = "off" /\ UNCHANGED running
  /\ Restarted /\ UNCHANGED <<kind, released, part, file, swap, bounds>>

\* Windows: the detached helper runs the installer, then starts what is installed.
Helper ==
  /\ proc = "helper"
  /\ target' \in {target} \cup {p \in {New} : Runs(p)}
  /\ proc' = "up" /\ running' = target'[1].version
  /\ Restarted /\ UNCHANGED <<kind, released, part, file, previous, tmp, bounds>>

\* The process is killed; a service manager, or the user, starts the program's file.
Kill ==
  /\ proc \notin {"off", "helper"} /\ kills < MaxKills /\ kills' = kills + 1 /\ Go("off")
  /\ Restarted
  /\ UNCHANGED <<kind, released, running, part, file, swap, faults, overlapped>>

Launch ==
  /\ proc = "off" /\ Runs(target) /\ Go("up") /\ running' = target[1].version
  /\ UNCHANGED <<kind, released, updater, downloads, action, passed, flow, swap, bounds>>

-----------------------------------------------------------------------------
UpdatesNext ==
  \/ Publish \/ FlowStarts \/ FlowEnds
  \/ \E c \in CheckTasks : CheckStarts(c) \/ CheckEnds(c) \/ CheckFails(c) \/ CheckDropped(c)
  \/ \E r \in {"restart", "shutdown", "install"} : Ask(r) \/ Request(r)
  \/ RefuseInstall
  \/ \E t \in Downloads : StartInstall(t) \/ OpenPart(t) \/ WriteAll(t) \/ Verify(t)
                          \/ RenamePart(t) \/ DownloadFails(t) \/ Stage(t)
  \/ Stop \/ Stopped \/ Copy \/ Clear \/ Aside \/ Place \/ PutBack \/ Start \/ Helper
  \/ Kill \/ Launch

UpdatesSpec == UpdatesInit /\ [][UpdatesNext]_updatesVars

-----------------------------------------------------------------------------
\* A whole program is on the disk after every step of an installation, whichever step fails
\* and wherever the process is killed: the installed one, or the one kept as <file>.previous.
\* (swap_appimage removes the previous one first and moves the installed one aside.  When the
\* new program cannot be put in place and the old one cannot be put back either, an AppImage
\* that still runs removes that one at its next update: two operations that fail.)
ProgramSurvives == faults < 2 => Runs(target) \/ Runs(previous)

\* What is staged, or offered for installation by hand, is the whole file that was verified,
\* unless two checks overlapped: then the phase lets a second download open the same file.
StagedIsWhole ==
  ~overlapped =>
    /\ staged # <<>> => Runs(file[staged[1]])
    /\ command => \E v \in Versions : Runs(file[v])

\* An update does not stop BenchMesh under a running flow, whose cleanup would be cut off:
\* POST /system/update/install is refused while a flow runs.
UpdateSparesFlows == [][(proc = "up" /\ proc' = "stopping" /\ action = "update") => ~flow]_updatesVars
=============================================================================
