--------------------------- MODULE FlowRunProofs ---------------------------
(***************************************************************************)
(* Proofs about FlowRun, for every set of instruments and every bound.     *)
(*                                                                         *)
(* None of its properties is inductive.  IInv adds what they rest on:      *)
(* what the executor is doing in each phase (PhaseInv), that a wake-up or  *)
(* a stored notification stands for a continue not yet used (NotifyInv),   *)
(* that the end of the cleanup is decided before safe_state (CleanupInv),  *)
(* where each output the run switched on is on its way to the safe value   *)
(* (SafeInv), and that an instrument's queue is empty, and its fresh       *)
(* reading true, whenever no set of the run is on its way to it (OwnInv).  *)
(***************************************************************************)
EXTENDS FlowRun, SequenceTheorems, TLAPS

\* Where the executor is, and what the run shows.
PhaseInv ==
  /\ Active <=> phase # "idle"
  /\ run = "waiting" => phase = "prompt"
  /\ phase \in {"pause", "sending", "confirming", "reading", "prompt"} => left > 0
  /\ phase \in {"safe", "securing"} => cleanup
  /\ cleanup => outcome # "none"
  /\ phase \in {"sending", "confirming", "securing"} => target.dev \in Sources
  /\ phase \notin {"sending", "securing"} => answer = "none"
  /\ owned => live > 0

\* A notification, delivered or stored, is backed by a continue.
NotifyInv ==
  /\ woken => phase = "prompt"
  /\ credit >= (IF woken THEN 1 ELSE 0) + (IF permit THEN 1 ELSE 0)

\* The cleanup was complete, or cut short, when safe_state began.
CleanupInv == phase \in {"safe", "securing"} \/ Ended => left = 0 \/ aborts = 2

\* The output is off and nothing is queued that could change it, or the last
\* thing queued switches it off.
Off(d) == chan[d] = <<>> /\ ~out[d]
OffQueued(d) == chan[d] # <<>> /\ ~chan[d][Len(chan[d])]

\* safe_state's own set of d: failed, queued last, or done.
BeingSecured(d) ==
  /\ phase = "securing" /\ target.dev = d
  /\ \/ answer = "error"
     \/ answer = "none" /\ OffQueued(d)
     \/ answer = "ok" /\ Off(d)

\* Every output switched on is still to be secured, being secured, or off.
SafeInv ==
  \A d \in sentOn \ unsafe :
    \/ phase # "idle" /\ d \in energized
    \/ BeingSecured(d)
    \/ phase \in {"safe", "securing", "idle"} /\ Off(d)
    \/ run = "finished"

\* The set step in progress is on its way to d.
Pending(d) == phase = "sending" /\ target.dev = d

\* The queue of an instrument the run has set is empty, and what a thread sampled
\* and a fresh reading shows is true of the instrument's own output.
OwnInv ==
  /\ phase = "sending" /\ answer = "ok" => chan[target.dev] = <<>>
  /\ \A d \in polling \cap Sources : sample[d][d] = out[d]
  /\ phase \notin {"safe", "securing", "idle"} =>
       \A d \in sentOn \ late :
         ~Pending(d) => chan[d] = <<>> /\ (reading[d].fresh => reading[d].world[d] = out[d])

IInv == TypeOK /\ PhaseInv /\ NotifyInv /\ CleanupInv /\ SafeInv /\ OwnInv

-----------------------------------------------------------------------------
(* Facts about the operators the actions are built from. *)

\* Halt leaves the executor in a next phase of the right type.
LEMMA HaltTypes ==
  ASSUME TypeOK, left > 0 \/ ~cleanup, NEW o \in {"finished", "failed", "aborted"}, Halt(o)
  PROVE  /\ run' \in {"running", "cleanup"} /\ phase' \in {"ready", "safe"} /\ cleanup' = TRUE
         /\ left' \in 0..(MaxSteps + MaxCleanup)
         /\ outcome' \in {"none", "finished", "failed", "aborted"}
<1>1. left' = IF ~cleanup THEN cleanupLen ELSE IF o = "aborted" THEN left ELSE left - 1
  BY DEF Halt
<1>2. left' \in 0..(MaxSteps + MaxCleanup)
  BY <1>1, BoundsAssumption DEF TypeOK
<1>. QED
  BY <1>2 DEF Halt, TypeOK

\* Continue leaves the executor in a next phase of the right type.
LEMMA ContinueTypes ==
  ASSUME TypeOK, left > 0, Continue
  PROVE  /\ run' \in {"running", "cleanup"} /\ phase' = "ready" /\ cleanup' \in BOOLEAN
         /\ left' \in 0..(MaxSteps + MaxCleanup)
         /\ outcome' \in {"none", "finished", "failed", "aborted"}
  BY BoundsAssumption DEF Continue, TypeOK

\* A run starts with every reading as fresh.
LEMMA RefreshTypes ==
  ASSUME TypeOK
  PROVE  [d \in Devices |-> [reading[d] EXCEPT !.fresh = TRUE]]
           \in [Devices -> [world : World, fresh : BOOLEAN]]
<1>1. \A d \in Devices : reading[d] \in [world : World, fresh : BOOLEAN]
  BY DEF TypeOK
<1>. QED
  BY <1>1

\* Moving last_set keeps every reading a reading.
LEMMA OutdateTypes ==
  ASSUME TypeOK, Outdate PROVE reading' \in [Devices -> [world : World, fresh : BOOLEAN]]
  BY DEF Outdate, TypeOK

\* The first element of a queue, and what is behind it.
LEMMA QueueHead ==
  ASSUME NEW S, NEW s \in Seq(S), s # <<>>
  PROVE  /\ Head(s) \in S /\ Tail(s) \in Seq(S)
         /\ Len(Tail(s)) = Len(s) - 1 /\ Len(s) \in Nat \ {0}
         /\ s[1] = Head(s) /\ \A i \in 1..Len(Tail(s)) : Tail(s)[i] = s[i + 1]
  OBVIOUS

\* A queue is empty without its first element when it has just that one.
LEMMA QueueSingle ==
  ASSUME NEW S, NEW s \in Seq(S), s # <<>>
  PROVE  Tail(s) = <<>> <=> Len(s) = 1
<1>1. Tail(s) = <<>> <=> Len(Tail(s)) = 0
  BY QueueHead, EmptySeq
<1>. QED
  BY <1>1, QueueHead

\* What is appended is last.
LEMMA QueueAppend ==
  ASSUME NEW S, NEW s \in Seq(S), NEW e \in S
  PROVE  Append(s, e) # <<>> /\ Append(s, e)[Len(Append(s, e))] = e
  BY AppendProperties

\* A queue to which FALSE is appended ends with it.
LEMMA QueueOff ==
  \A s \in Seq(BOOLEAN) :
    Append(s, FALSE) # <<>> /\ ~Append(s, FALSE)[Len(Append(s, FALSE))]
<1>1. \A s \in Seq(BOOLEAN) :
        Append(s, FALSE) # <<>> /\ Append(s, FALSE)[Len(Append(s, FALSE))] = FALSE
  BY QueueAppend
<1>. QED
  BY <1>1

\* Serving the first element leaves the last one in its place.
LEMMA QueueLast ==
  ASSUME NEW S, NEW s \in Seq(S), s # <<>>, Tail(s) # <<>>
  PROVE  Tail(s)[Len(Tail(s))] = s[Len(s)]
  BY QueueHead

\* Stopping the run's recording leaves a number of recordings.
LEMMA LiveTypes ==
  ASSUME live \in Nat, owned => live > 0
  PROVE  (IF owned THEN live - 1 ELSE live) \in Nat
  OBVIOUS

-----------------------------------------------------------------------------
(* Every step keeps every part of IInv. *)

\* Every step keeps the types.
LEMMA TypeStep == IInv /\ [Next]_vars => TypeOK'
<1> SUFFICES ASSUME IInv, [Next]_vars PROVE TypeOK'
  OBVIOUS
<1> USE DevicesAssumption, BoundsAssumption DEF IInv, TypeOK, PhaseInv, Active, AllOff,
   World, Nothing, runner, exec, threads, history, otherRunner, notify, flow, setting,
   record
<1>1. CASE HaltBetween
  <2>1. Halt(IF Stopped THEN "aborted" ELSE "failed") /\ left > 0
    BY <1>1 DEF HaltBetween, HaltChecked
  <2>. HIDE DEF PhaseInv
  <2>. QED
    BY <1>1, <2>1, HaltTypes DEF HaltBetween
<1>2. CASE PartEnds
  <2>. HIDE DEF PhaseInv
  <2>1. CASE cleanup
    BY <1>2, <2>1 DEF PartEnds
  <2>2. CASE ~cleanup
    BY <1>2, <2>2, HaltTypes DEF PartEnds
  <2>. QED
    BY <2>1, <2>2
<1>3. ASSUME NEW o \in {"ok", "failed", "finished"}, PlainStep(o) PROVE TypeOK'
  BY <1>3, HaltTypes, ContinueTypes DEF PlainStep, MayStep
<1>4. CASE BeginWait
  BY <1>4 DEF BeginWait, MayStep
<1>5. CASE EndWait
  BY <1>5, HaltTypes, ContinueTypes DEF EndWait, ContinueChecked, HaltChecked
<1>6. ASSUME NEW d \in Sources, NEW level \in BOOLEAN, BeginSet(d, level) PROVE TypeOK'
  BY <1>6 DEF BeginSet, MayStep, Send
<1>7. CASE SetTimesOut
  BY <1>7 DEF SetTimesOut
<1>8. CASE SetAccepted
  BY <1>8, OutdateTypes DEF SetAccepted
<1>9. CASE SetFailed
  BY <1>9, HaltTypes DEF SetFailed
<1>10. CASE ConfirmOk
  BY <1>10, ContinueTypes, OutdateTypes DEF ConfirmOk
<1>11. CASE ConfirmSkipped
  BY <1>11, ContinueTypes, OutdateTypes DEF ConfirmSkipped
<1>12. CASE ConfirmFails
  BY <1>12, HaltTypes DEF ConfirmFails, HaltChecked
<1>13. ASSUME NEW d \in Devices, BeginRead(d) PROVE TypeOK'
  BY <1>13 DEF BeginRead, MayStep
<1>14. CASE ReadOk
  BY <1>14, ContinueTypes DEF ReadOk, ContinueChecked
<1>15. CASE ReadAsked
  BY <1>15, ContinueTypes DEF ReadAsked, ContinueChecked
<1>16. CASE ReadFails
  BY <1>16, HaltTypes DEF ReadFails, HaltChecked
<1>17. CASE BeginPrompt
  BY <1>17 DEF BeginPrompt, MayStep
<1>18. CASE PromptPassed
  <2>1. left > 0 /\ credit' \in Int
    BY <1>18 DEF PromptPassed
  <2>2. Continue
    BY <1>18 DEF PromptPassed
  <2>. HIDE DEF PhaseInv
  <2>. QED
    BY <1>18, <2>1, <2>2, ContinueTypes DEF PromptPassed
<1>19. CASE PromptHalts
  BY <1>19, HaltTypes DEF PromptHalts
<1>20. ASSUME NEW created \in BOOLEAN, NEW ok \in BOOLEAN, RecordStart(created, ok)
        PROVE TypeOK'
  <2>1. left > 0 /\ live' \in Nat /\ owned' \in BOOLEAN
    BY <1>20 DEF RecordStart, MayStep
  <2>2. Continue \/ Halt("failed")
    BY <1>20 DEF RecordStart
  <2>. HIDE DEF PhaseInv
  <2>. QED
    BY <1>20, <2>1, <2>2, HaltTypes, ContinueTypes DEF RecordStart
<1>21. CASE RecordStop
  <2>1. left > 0 /\ live' \in Nat /\ owned' \in BOOLEAN
    BY <1>21, LiveTypes DEF RecordStop, MayStep
  <2>2. Continue \/ Halt("failed")
    BY <1>21 DEF RecordStop
  <2>. HIDE DEF PhaseInv
  <2>. QED
    BY <1>21, <2>1, <2>2, HaltTypes, ContinueTypes DEF RecordStop
<1>22. ASSUME NEW d \in Sources, Secure(d) PROVE TypeOK'
  BY <1>22 DEF Secure, SafeDue, Send
<1>50. ASSUME NEW d \in Sources, LeaveOn(d) PROVE TypeOK'
  BY <1>50 DEF LeaveOn, SafeDue
<1>23. CASE Secured
  BY <1>23 DEF Secured
<1>24. CASE RunEnds
  <2>1. live' \in Nat /\ owned' \in BOOLEAN
    BY <1>24, LiveTypes DEF RunEnds
  <2>2. run' \in {"none", "finished", "failed", "aborted"}
    BY <1>24 DEF RunEnds
  <2>. HIDE DEF PhaseInv
  <2>. QED
    BY <1>24, <2>1, <2>2 DEF RunEnds
<1>25. CASE Start
  <2>1. runs' \in 0..MaxRuns /\ left' \in 0..(MaxSteps + MaxCleanup)
    <3>1. runs' = runs + 1 /\ runs < MaxRuns /\ left' \in 0..MaxSteps
      BY <1>25 DEF Start
    <3>. QED
      BY <3>1
  <2>2. reading' \in [Devices -> [world : World, fresh : BOOLEAN]]
    BY <1>25, RefreshTypes DEF Start
  <2>. HIDE DEF PhaseInv
  <2>. QED
    <3>1. /\ run' = "running" /\ aborts' = 0 /\ woken' = FALSE /\ permit' = FALSE /\ phase' = "ready"
          /\ cleanup' = FALSE /\ expired' = FALSE /\ cleanupLen' \in 0..MaxCleanup
          /\ outcome' = "none" /\ energized' = {} /\ owned' = FALSE /\ live' = 0
          /\ sentOn' = {} /\ unsafe' = {} /\ credit' = 0 /\ granted' = FALSE
          /\ UNCHANGED <<target, answer, out, chan, polling, sample, late>>
      BY <1>25 DEF Start
    <3>2. credit' \in Int /\ live' \in Nat /\ aborts' \in 0..2
      BY <3>1
    <3>3. chan' \in [Devices -> Seq(BOOLEAN)] /\ sample' \in [Devices -> World]
          /\ out' \in World /\ target' \in [dev : Devices \cup {NoOne}, level : BOOLEAN]
      BY <3>1
    <3>4. energized' \subseteq Sources /\ sentOn' \subseteq Sources /\ late' \subseteq Sources
          /\ unsafe' \subseteq Sources /\ polling' \subseteq Devices
          /\ answer' \in {"none", "ok", "error"}
      BY <3>1
    <3>. HIDE DEF IInv, World
    <3>. QED
      BY <2>1, <2>2, <3>1, <3>2, <3>3, <3>4
<1>26. CASE Abort
  BY <1>26 DEF Abort
<1>27. CASE Resume
  <2>1. credit' \in Int
    BY <1>27 DEF Resume
  <2>2. woken' \in BOOLEAN /\ permit' \in BOOLEAN
    BY <1>27 DEF Resume
  <2>. HIDE DEF PhaseInv
  <2>. QED
    BY <1>27, <2>1, <2>2 DEF Resume
<1>28. CASE Expire
  BY <1>28 DEF Expire
<1>29. ASSUME NEW d \in Sources, NEW ok \in BOOLEAN, NEW done \in BOOLEAN, Serve(d, ok, done)
        PROVE TypeOK'
  <2>0. chan[d] \in Seq(BOOLEAN) /\ chan[d] # <<>>
    BY <1>29 DEF Serve
  <2>2. Head(chan[d]) \in BOOLEAN /\ Tail(chan[d]) \in Seq(BOOLEAN)
    BY <2>0, QueueHead
  <2>1. chan' \in [Devices -> Seq(BOOLEAN)]
    BY <1>29, <2>2 DEF Serve
  <2>3. out' \in World
    BY <1>29, <2>2 DEF Serve
  <2>4. answer' \in {"none", "ok", "error"}
    BY <1>29 DEF Serve
  <2>. HIDE DEF PhaseInv
  <2>. QED
    BY <1>29, <2>1, <2>3, <2>4 DEF Serve
<1>30. ASSUME NEW d \in Devices, PollBegins(d) PROVE TypeOK'
  BY <1>30 DEF PollBegins
<1>31. ASSUME NEW d \in Devices, PollEnds(d) PROVE TypeOK'
  BY <1>31 DEF PollEnds
<1>32. ASSUME NEW d \in Devices, Restart(d) PROVE TypeOK'
  BY <1>32 DEF Restart
<1>33. CASE UNCHANGED vars
  BY <1>33 DEF vars
<1>. QED
    <2>. HIDE DEF IInv, TypeOK, PhaseInv, Active, AllOff, World, Nothing, runner, exec,
     threads, history, otherRunner, notify, flow, setting, record
  <2>1. ASSUME ExecStep PROVE TypeOK'
    BY <2>1, <1>1, <1>2, <1>3, <1>4, <1>5, <1>6, <1>7, <1>8, <1>9, <1>10, <1>11, <1>12, <1>13,
       <1>14, <1>15, <1>16, <1>17, <1>18, <1>19, <1>20, <1>21, <1>22, <1>23, <1>24, <1>50
       DEF ExecStep
  <2>2. ASSUME UserStep PROVE TypeOK'
    BY <2>2, <1>25, <1>26, <1>27, <1>28 DEF UserStep
  <2>3. ASSUME NEW d \in Devices, ThreadStep(d) PROVE TypeOK'
    BY <2>3, <1>29, <1>30, <1>31, <1>32 DEF ThreadStep
  <2>. QED
    BY <2>1, <2>2, <2>3, <1>33 DEF Next

\* Every step keeps PhaseInv.
LEMMA PhaseStep == IInv /\ [Next]_vars => PhaseInv'
<1> SUFFICES ASSUME IInv, [Next]_vars PROVE PhaseInv'
  OBVIOUS
<1> USE DevicesAssumption, BoundsAssumption DEF IInv, TypeOK, PhaseInv, Active, Nothing,
   Waits, runner, exec, threads, history, otherRunner, notify, flow, setting, record
<1>1. CASE HaltBetween
  BY <1>1 DEF HaltBetween, HaltChecked, Halt, Checked, Stopped, TimedOut
<1>2. CASE PartEnds
  BY <1>2 DEF PartEnds, Halt
<1>3. ASSUME NEW o \in {"ok", "failed", "finished"}, PlainStep(o) PROVE PhaseInv'
  BY <1>3 DEF PlainStep, MayStep, Continue, Halt
<1>4. CASE BeginWait
  BY <1>4 DEF BeginWait, MayStep
<1>5. CASE EndWait
  BY <1>5 DEF EndWait, ContinueChecked, Continue, HaltChecked, Halt, Checked, Stopped, TimedOut
<1>6. ASSUME NEW d \in Sources, NEW level \in BOOLEAN, BeginSet(d, level) PROVE PhaseInv'
  BY <1>6 DEF BeginSet, MayStep, Send
<1>7. CASE SetTimesOut
  BY <1>7 DEF SetTimesOut
<1>8. CASE SetAccepted
  BY <1>8 DEF SetAccepted, Outdate
<1>9. CASE SetFailed
  BY <1>9 DEF SetFailed, Halt
<1>10. CASE ConfirmOk
  BY <1>10 DEF ConfirmOk, Outdate, Continue
<1>11. CASE ConfirmSkipped
  BY <1>11 DEF ConfirmSkipped, Outdate, Continue
<1>12. CASE ConfirmFails
  BY <1>12 DEF ConfirmFails, HaltChecked, Halt
<1>13. ASSUME NEW d \in Devices, BeginRead(d) PROVE PhaseInv'
  BY <1>13 DEF BeginRead, MayStep
<1>14. CASE ReadOk
  BY <1>14 DEF ReadOk, ContinueChecked, Continue
<1>15. CASE ReadAsked
  BY <1>15 DEF ReadAsked, ContinueChecked, Continue
<1>16. CASE ReadFails
  BY <1>16 DEF ReadFails, HaltChecked, Halt
<1>17. CASE BeginPrompt
  BY <1>17 DEF BeginPrompt, MayStep
<1>18. CASE PromptPassed
  BY <1>18 DEF PromptPassed, Continue
<1>19. CASE PromptHalts
  BY <1>19 DEF PromptHalts, Halt
<1>20. ASSUME NEW created \in BOOLEAN, NEW ok \in BOOLEAN, RecordStart(created, ok)
        PROVE PhaseInv'
  BY <1>20 DEF RecordStart, MayStep, Continue, Halt
<1>21. CASE RecordStop
  BY <1>21 DEF RecordStop, MayStep, Continue, Halt
<1>22. ASSUME NEW d \in Sources, Secure(d) PROVE PhaseInv'
  BY <1>22 DEF Secure, SafeDue, Send
<1>50. ASSUME NEW d \in Sources, LeaveOn(d) PROVE PhaseInv'
  BY <1>50 DEF LeaveOn, SafeDue
<1>23. CASE Secured
  BY <1>23 DEF Secured
<1>24. CASE RunEnds
  BY <1>24 DEF RunEnds, SafeDue
<1>25. CASE Start
  BY <1>25 DEF Start
<1>26. CASE Abort
  BY <1>26 DEF Abort
<1>27. CASE Resume
  BY <1>27 DEF Resume
<1>28. CASE Expire
  BY <1>28 DEF Expire
<1>29. ASSUME NEW d \in Sources, NEW ok \in BOOLEAN, NEW done \in BOOLEAN, Serve(d, ok, done)
        PROVE PhaseInv'
  BY <1>29 DEF Serve
<1>30. ASSUME NEW d \in Devices, PollBegins(d) PROVE PhaseInv'
  BY <1>30 DEF PollBegins
<1>31. ASSUME NEW d \in Devices, PollEnds(d) PROVE PhaseInv'
  BY <1>31 DEF PollEnds
<1>32. ASSUME NEW d \in Devices, Restart(d) PROVE PhaseInv'
  BY <1>32 DEF Restart
<1>33. CASE UNCHANGED vars
  BY <1>33 DEF vars
<1>. QED
    <2>. HIDE DEF IInv, TypeOK, PhaseInv, Active, Nothing, Waits, runner, exec, threads,
     history, otherRunner, notify, flow, setting, record
  <2>1. ASSUME ExecStep PROVE PhaseInv'
    BY <2>1, <1>1, <1>2, <1>3, <1>4, <1>5, <1>6, <1>7, <1>8, <1>9, <1>10, <1>11, <1>12, <1>13,
       <1>14, <1>15, <1>16, <1>17, <1>18, <1>19, <1>20, <1>21, <1>22, <1>23, <1>24, <1>50
       DEF ExecStep
  <2>2. ASSUME UserStep PROVE PhaseInv'
    BY <2>2, <1>25, <1>26, <1>27, <1>28 DEF UserStep
  <2>3. ASSUME NEW d \in Devices, ThreadStep(d) PROVE PhaseInv'
    BY <2>3, <1>29, <1>30, <1>31, <1>32 DEF ThreadStep
  <2>. QED
    BY <2>1, <2>2, <2>3, <1>33 DEF Next

\* Every step keeps NotifyInv: only a continue adds a notification.
LEMMA NotifyStep == IInv /\ [Next]_vars => NotifyInv'
<1> SUFFICES ASSUME IInv, [Next]_vars PROVE NotifyInv'
  OBVIOUS
<1> USE DevicesAssumption, BoundsAssumption DEF IInv, TypeOK, PhaseInv, NotifyInv, Active,
   runner, exec, threads, history, otherRunner, notify, flow, setting, record
<1>1. CASE HaltBetween
  BY <1>1 DEF HaltBetween, HaltChecked, Halt, Checked, Stopped, TimedOut
<1>2. CASE PartEnds
  BY <1>2 DEF PartEnds, Halt
<1>3. ASSUME NEW o \in {"ok", "failed", "finished"}, PlainStep(o) PROVE NotifyInv'
  BY <1>3 DEF PlainStep, MayStep, Continue, Halt
<1>4. CASE BeginWait
  BY <1>4 DEF BeginWait, MayStep
<1>5. CASE EndWait
  BY <1>5 DEF EndWait, ContinueChecked, Continue, HaltChecked, Halt, Checked, Stopped, TimedOut
<1>6. ASSUME NEW d \in Sources, NEW level \in BOOLEAN, BeginSet(d, level) PROVE NotifyInv'
  BY <1>6 DEF BeginSet, MayStep, Send
<1>7. CASE SetTimesOut
  BY <1>7 DEF SetTimesOut
<1>8. CASE SetAccepted
  BY <1>8 DEF SetAccepted, Outdate
<1>9. CASE SetFailed
  BY <1>9 DEF SetFailed, Halt
<1>10. CASE ConfirmOk
  BY <1>10 DEF ConfirmOk, Outdate, Continue
<1>11. CASE ConfirmSkipped
  BY <1>11 DEF ConfirmSkipped, Outdate, Continue
<1>12. CASE ConfirmFails
  BY <1>12 DEF ConfirmFails, HaltChecked, Halt
<1>13. ASSUME NEW d \in Devices, BeginRead(d) PROVE NotifyInv'
  BY <1>13 DEF BeginRead, MayStep
<1>14. CASE ReadOk
  BY <1>14 DEF ReadOk, ContinueChecked, Continue
<1>15. CASE ReadAsked
  BY <1>15 DEF ReadAsked, ContinueChecked, Continue
<1>16. CASE ReadFails
  BY <1>16 DEF ReadFails, HaltChecked, Halt
<1>17. CASE BeginPrompt
  BY <1>17 DEF BeginPrompt, MayStep
<1>18. CASE PromptPassed
  BY <1>18 DEF PromptPassed, Continue
<1>19. CASE PromptHalts
  BY <1>19 DEF PromptHalts, Halt
<1>20. ASSUME NEW created \in BOOLEAN, NEW ok \in BOOLEAN, RecordStart(created, ok)
        PROVE NotifyInv'
  BY <1>20 DEF RecordStart, MayStep, Continue, Halt
<1>21. CASE RecordStop
  BY <1>21 DEF RecordStop, MayStep, Continue, Halt
<1>22. ASSUME NEW d \in Sources, Secure(d) PROVE NotifyInv'
  BY <1>22 DEF Secure, SafeDue, Send
<1>50. ASSUME NEW d \in Sources, LeaveOn(d) PROVE NotifyInv'
  BY <1>50 DEF LeaveOn, SafeDue
<1>23. CASE Secured
  BY <1>23 DEF Secured
<1>24. CASE RunEnds
  BY <1>24 DEF RunEnds, SafeDue
<1>25. CASE Start
  BY <1>25 DEF Start
<1>26. CASE Abort
  BY <1>26 DEF Abort
<1>27. CASE Resume
  BY <1>27 DEF Resume
<1>28. CASE Expire
  BY <1>28 DEF Expire
<1>29. ASSUME NEW d \in Sources, NEW ok \in BOOLEAN, NEW done \in BOOLEAN, Serve(d, ok, done)
        PROVE NotifyInv'
  BY <1>29 DEF Serve
<1>30. ASSUME NEW d \in Devices, PollBegins(d) PROVE NotifyInv'
  BY <1>30 DEF PollBegins
<1>31. ASSUME NEW d \in Devices, PollEnds(d) PROVE NotifyInv'
  BY <1>31 DEF PollEnds
<1>32. ASSUME NEW d \in Devices, Restart(d) PROVE NotifyInv'
  BY <1>32 DEF Restart
<1>33. CASE UNCHANGED vars
  BY <1>33 DEF vars
<1>. QED
    <2>. HIDE DEF IInv, TypeOK, PhaseInv, NotifyInv, Active, runner, exec, threads,
     history, otherRunner, notify, flow, setting, record
  <2>1. ASSUME ExecStep PROVE NotifyInv'
    BY <2>1, <1>1, <1>2, <1>3, <1>4, <1>5, <1>6, <1>7, <1>8, <1>9, <1>10, <1>11, <1>12, <1>13,
       <1>14, <1>15, <1>16, <1>17, <1>18, <1>19, <1>20, <1>21, <1>22, <1>23, <1>24, <1>50
       DEF ExecStep
  <2>2. ASSUME UserStep PROVE NotifyInv'
    BY <2>2, <1>25, <1>26, <1>27, <1>28 DEF UserStep
  <2>3. ASSUME NEW d \in Devices, ThreadStep(d) PROVE NotifyInv'
    BY <2>3, <1>29, <1>30, <1>31, <1>32 DEF ThreadStep
  <2>. QED
    BY <2>1, <2>2, <2>3, <1>33 DEF Next

\* Every step keeps CleanupInv: safe_state follows the last cleanup step, or a
\* second abort.
LEMMA CleanupStep == IInv /\ [Next]_vars => CleanupInv'
<1> SUFFICES ASSUME IInv, [Next]_vars PROVE CleanupInv'
  OBVIOUS
<1> USE DevicesAssumption, BoundsAssumption DEF IInv, TypeOK, PhaseInv, CleanupInv, Active,
   Ended, Stopped, Checked, TimedOut, runner, exec, threads, history, otherRunner, notify,
   flow, setting, record
<1>1. CASE HaltBetween
  BY <1>1 DEF HaltBetween, HaltChecked, Halt, Checked, Stopped, TimedOut
<1>2. CASE PartEnds
  BY <1>2 DEF PartEnds, Halt
<1>3. ASSUME NEW o \in {"ok", "failed", "finished"}, PlainStep(o) PROVE CleanupInv'
  BY <1>3 DEF PlainStep, MayStep, Continue, Halt
<1>4. CASE BeginWait
  BY <1>4 DEF BeginWait, MayStep
<1>5. CASE EndWait
  BY <1>5 DEF EndWait, ContinueChecked, Continue, HaltChecked, Halt, Checked, Stopped, TimedOut
<1>6. ASSUME NEW d \in Sources, NEW level \in BOOLEAN, BeginSet(d, level) PROVE CleanupInv'
  BY <1>6 DEF BeginSet, MayStep, Send
<1>7. CASE SetTimesOut
  BY <1>7 DEF SetTimesOut
<1>8. CASE SetAccepted
  BY <1>8 DEF SetAccepted, Outdate
<1>9. CASE SetFailed
  BY <1>9 DEF SetFailed, Halt
<1>10. CASE ConfirmOk
  BY <1>10 DEF ConfirmOk, Outdate, Continue
<1>11. CASE ConfirmSkipped
  BY <1>11 DEF ConfirmSkipped, Outdate, Continue
<1>12. CASE ConfirmFails
  BY <1>12 DEF ConfirmFails, HaltChecked, Halt
<1>13. ASSUME NEW d \in Devices, BeginRead(d) PROVE CleanupInv'
  BY <1>13 DEF BeginRead, MayStep
<1>14. CASE ReadOk
  BY <1>14 DEF ReadOk, ContinueChecked, Continue
<1>15. CASE ReadAsked
  BY <1>15 DEF ReadAsked, ContinueChecked, Continue
<1>16. CASE ReadFails
  BY <1>16 DEF ReadFails, HaltChecked, Halt
<1>17. CASE BeginPrompt
  BY <1>17 DEF BeginPrompt, MayStep
<1>18. CASE PromptPassed
  BY <1>18 DEF PromptPassed, Continue
<1>19. CASE PromptHalts
  BY <1>19 DEF PromptHalts, Halt
<1>20. ASSUME NEW created \in BOOLEAN, NEW ok \in BOOLEAN, RecordStart(created, ok)
        PROVE CleanupInv'
  BY <1>20 DEF RecordStart, MayStep, Continue, Halt
<1>21. CASE RecordStop
  BY <1>21 DEF RecordStop, MayStep, Continue, Halt
<1>22. ASSUME NEW d \in Sources, Secure(d) PROVE CleanupInv'
  BY <1>22 DEF Secure, SafeDue, Send
<1>50. ASSUME NEW d \in Sources, LeaveOn(d) PROVE CleanupInv'
  BY <1>50 DEF LeaveOn, SafeDue
<1>23. CASE Secured
  BY <1>23 DEF Secured
<1>24. CASE RunEnds
  BY <1>24 DEF RunEnds, SafeDue
<1>25. CASE Start
  BY <1>25 DEF Start
<1>26. CASE Abort
  BY <1>26 DEF Abort
<1>27. CASE Resume
  BY <1>27 DEF Resume
<1>28. CASE Expire
  BY <1>28 DEF Expire
<1>29. ASSUME NEW d \in Sources, NEW ok \in BOOLEAN, NEW done \in BOOLEAN, Serve(d, ok, done)
        PROVE CleanupInv'
  BY <1>29 DEF Serve
<1>30. ASSUME NEW d \in Devices, PollBegins(d) PROVE CleanupInv'
  BY <1>30 DEF PollBegins
<1>31. ASSUME NEW d \in Devices, PollEnds(d) PROVE CleanupInv'
  BY <1>31 DEF PollEnds
<1>32. ASSUME NEW d \in Devices, Restart(d) PROVE CleanupInv'
  BY <1>32 DEF Restart
<1>33. CASE UNCHANGED vars
  BY <1>33 DEF vars
<1>. QED
    <2>. HIDE DEF IInv, TypeOK, PhaseInv, CleanupInv, Active, Ended, Stopped, Checked,
     TimedOut, runner, exec, threads, history, otherRunner, notify, flow, setting,
     record
  <2>1. ASSUME ExecStep PROVE CleanupInv'
    BY <2>1, <1>1, <1>2, <1>3, <1>4, <1>5, <1>6, <1>7, <1>8, <1>9, <1>10, <1>11, <1>12, <1>13,
       <1>14, <1>15, <1>16, <1>17, <1>18, <1>19, <1>20, <1>21, <1>22, <1>23, <1>24, <1>50
       DEF ExecStep
  <2>2. ASSUME UserStep PROVE CleanupInv'
    BY <2>2, <1>25, <1>26, <1>27, <1>28 DEF UserStep
  <2>3. ASSUME NEW d \in Devices, ThreadStep(d) PROVE CleanupInv'
    BY <2>3, <1>29, <1>30, <1>31, <1>32 DEF ThreadStep
  <2>. QED
    BY <2>1, <2>2, <2>3, <1>33 DEF Next

\* Every step keeps SafeInv: the queues are first in, first out.
LEMMA SafeStep == IInv /\ [Next]_vars => SafeInv'
<1> SUFFICES ASSUME IInv, [Next]_vars PROVE SafeInv'
  OBVIOUS
<1> USE DevicesAssumption, BoundsAssumption DEF IInv, TypeOK, PhaseInv, SafeInv,
   BeingSecured, Off, OffQueued, Active, Ended, Waits, runner, exec, threads, history,
   otherRunner, notify, flow, setting, record
<1>1. CASE HaltBetween
  BY <1>1 DEF HaltBetween, HaltChecked, Halt, Checked, Stopped, TimedOut
<1>2. CASE PartEnds
  BY <1>2 DEF PartEnds, Halt
<1>3. ASSUME NEW o \in {"ok", "failed", "finished"}, PlainStep(o) PROVE SafeInv'
  BY <1>3 DEF PlainStep, MayStep, Continue, Halt
<1>4. CASE BeginWait
  BY <1>4 DEF BeginWait, MayStep
<1>5. CASE EndWait
  BY <1>5 DEF EndWait, ContinueChecked, Continue, HaltChecked, Halt, Checked, Stopped, TimedOut
<1>6. ASSUME NEW d \in Sources, NEW level \in BOOLEAN, BeginSet(d, level) PROVE SafeInv'
  BY <1>6 DEF BeginSet, MayStep, Send
<1>7. CASE SetTimesOut
  BY <1>7 DEF SetTimesOut
<1>8. CASE SetAccepted
  BY <1>8 DEF SetAccepted, Outdate
<1>9. CASE SetFailed
  BY <1>9 DEF SetFailed, Halt
<1>10. CASE ConfirmOk
  BY <1>10 DEF ConfirmOk, Outdate, Continue
<1>11. CASE ConfirmSkipped
  BY <1>11 DEF ConfirmSkipped, Outdate, Continue
<1>12. CASE ConfirmFails
  BY <1>12 DEF ConfirmFails, HaltChecked, Halt
<1>13. ASSUME NEW d \in Devices, BeginRead(d) PROVE SafeInv'
  BY <1>13 DEF BeginRead, MayStep
<1>14. CASE ReadOk
  BY <1>14 DEF ReadOk, ContinueChecked, Continue
<1>15. CASE ReadAsked
  BY <1>15 DEF ReadAsked, ContinueChecked, Continue
<1>16. CASE ReadFails
  BY <1>16 DEF ReadFails, HaltChecked, Halt
<1>17. CASE BeginPrompt
  BY <1>17 DEF BeginPrompt, MayStep
<1>18. CASE PromptPassed
  BY <1>18 DEF PromptPassed, Continue
<1>19. CASE PromptHalts
  BY <1>19 DEF PromptHalts, Halt
<1>20. ASSUME NEW created \in BOOLEAN, NEW ok \in BOOLEAN, RecordStart(created, ok)
        PROVE SafeInv'
  BY <1>20 DEF RecordStart, MayStep, Continue, Halt
<1>21. CASE RecordStop
  BY <1>21 DEF RecordStop, MayStep, Continue, Halt
<1>22. ASSUME NEW d \in Sources, Secure(d) PROVE SafeInv'
  <2>0. chan[d] \in Seq(BOOLEAN) /\ chan'[d] = Append(chan[d], FALSE)
    BY <1>22 DEF Secure, Send
  <2>1. chan'[d] # <<>> /\ ~chan'[d][Len(chan'[d])]
    BY <2>0, QueueOff, Zenon
  <2>2. SUFFICES ASSUME NEW e \in sentOn' \ unsafe' PROVE SafeInv!(e)'
    BY DEF SafeInv
  <2>3. CASE e = d
    BY <1>22, <2>1, <2>3 DEF Secure, SafeDue, Send
  <2>4. CASE e # d
    BY <1>22, <2>4 DEF Secure, SafeDue, Send
  <2>. QED
    BY <2>3, <2>4
<1>50. ASSUME NEW d \in Sources, LeaveOn(d) PROVE SafeInv'
  BY <1>50 DEF LeaveOn, SafeDue
<1>23. CASE Secured
  BY <1>23 DEF Secured
<1>24. CASE RunEnds
  BY <1>24 DEF RunEnds, SafeDue
<1>25. CASE Start
  BY <1>25 DEF Start
<1>26. CASE Abort
  BY <1>26 DEF Abort
<1>27. CASE Resume
  BY <1>27 DEF Resume
<1>28. CASE Expire
  BY <1>28 DEF Expire
<1>29. ASSUME NEW d \in Sources, NEW ok \in BOOLEAN, NEW done \in BOOLEAN, Serve(d, ok, done)
        PROVE SafeInv'
  <2>0. chan[d] \in Seq(BOOLEAN) /\ chan[d] # <<>>
    BY <1>29 DEF Serve
  <2>1. chan'[d] = Tail(chan[d])
    BY <1>29 DEF Serve
  <2>2. chan'[d] # <<>> => chan'[d][Len(chan'[d])] = chan[d][Len(chan[d])]
    BY <2>0, <2>1, QueueLast
  <2>3. chan'[d] = <<>> <=> Len(chan[d]) = 1
    BY <2>0, <2>1, QueueSingle
  <2>4. Len(chan[d]) = 1 => Head(chan[d]) = chan[d][Len(chan[d])]
    BY <2>0, QueueHead
  <2>5. SUFFICES ASSUME NEW e \in sentOn' \ unsafe' PROVE SafeInv!(e)'
    BY DEF SafeInv
  <2>6. CASE e # d
    BY <1>29, <2>6 DEF Serve
  <2>7. CASE e = d /\ ~BeingSecured(d)
    BY <1>29, <2>7 DEF Serve
  <2>8. CASE e = d /\ BeingSecured(d)
    <3>1. CASE answer = "error"
      BY <1>29, <2>8, <3>1 DEF Serve
    <3>2. CASE answer = "ok"
      BY <1>29, <2>8, <2>0, <3>2 DEF Serve
    <3>3. CASE answer = "none" /\ Len(chan[d]) = 1
      <4>1. ~Head(chan[d])
        BY <2>4, <2>8, <3>3
      <4>2. chan'[d] = <<>> /\ (ok => ~out'[d])
        BY <1>29, <2>3, <3>3, <4>1 DEF Serve, World
      <4>3. answer' = IF ok THEN "ok" ELSE "error"
        BY <1>29, <2>8, <3>3 DEF Serve
      <4>. QED
        BY <1>29, <2>8, <4>2, <4>3 DEF Serve
    <3>4. CASE answer = "none" /\ Len(chan[d]) # 1
      <4>1. OffQueued(d)'
        BY <2>2, <2>3, <2>8, <3>4
      <4>. QED
        BY <1>29, <2>8, <3>4, <4>1 DEF Serve
    <3>. QED
      BY <2>8, <3>1, <3>2, <3>3, <3>4
  <2>. QED
    BY <2>6, <2>7, <2>8
<1>30. ASSUME NEW d \in Devices, PollBegins(d) PROVE SafeInv'
  BY <1>30 DEF PollBegins
<1>31. ASSUME NEW d \in Devices, PollEnds(d) PROVE SafeInv'
  BY <1>31 DEF PollEnds
<1>32. ASSUME NEW d \in Devices, Restart(d) PROVE SafeInv'
  BY <1>32 DEF Restart
<1>33. CASE UNCHANGED vars
  BY <1>33 DEF vars
<1>. QED
    <2>. HIDE DEF IInv, TypeOK, PhaseInv, SafeInv, BeingSecured, Off, OffQueued, Active,
     Ended, Waits, runner, exec, threads, history, otherRunner, notify, flow, setting,
     record
  <2>1. ASSUME ExecStep PROVE SafeInv'
    BY <2>1, <1>1, <1>2, <1>3, <1>4, <1>5, <1>6, <1>7, <1>8, <1>9, <1>10, <1>11, <1>12, <1>13,
       <1>14, <1>15, <1>16, <1>17, <1>18, <1>19, <1>20, <1>21, <1>22, <1>23, <1>24, <1>50
       DEF ExecStep
  <2>2. ASSUME UserStep PROVE SafeInv'
    BY <2>2, <1>25, <1>26, <1>27, <1>28 DEF UserStep
  <2>3. ASSUME NEW d \in Devices, ThreadStep(d) PROVE SafeInv'
    BY <2>3, <1>29, <1>30, <1>31, <1>32 DEF ThreadStep
  <2>. QED
    BY <2>1, <2>2, <2>3, <1>33 DEF Next

\* Every step keeps OwnInv: a thread does not sample while it serves a set.
LEMMA OwnStep == IInv /\ [Next]_vars => OwnInv'
<1> SUFFICES ASSUME IInv, [Next]_vars PROVE OwnInv'
  OBVIOUS
<1> USE DevicesAssumption, BoundsAssumption DEF IInv, TypeOK, PhaseInv, OwnInv, Pending,
   Waits, World, AllOff, Nothing, runner, exec, threads, history, otherRunner, notify, flow,
   setting, record
<1>1. CASE HaltBetween
  BY <1>1 DEF HaltBetween, HaltChecked, Halt, Checked, Stopped, TimedOut
<1>2. CASE PartEnds
  BY <1>2 DEF PartEnds, Halt
<1>3. ASSUME NEW o \in {"ok", "failed", "finished"}, PlainStep(o) PROVE OwnInv'
  BY <1>3 DEF PlainStep, MayStep, Continue, Halt
<1>4. CASE BeginWait
  BY <1>4 DEF BeginWait, MayStep
<1>5. CASE EndWait
  BY <1>5 DEF EndWait, ContinueChecked, Continue, HaltChecked, Halt, Checked, Stopped, TimedOut
<1>6. ASSUME NEW d \in Sources, NEW level \in BOOLEAN, BeginSet(d, level) PROVE OwnInv'
  BY <1>6 DEF BeginSet, MayStep, Send
<1>7. CASE SetTimesOut
  BY <1>7 DEF SetTimesOut
<1>8. CASE SetAccepted
  BY <1>8 DEF SetAccepted, Outdate
<1>9. CASE SetFailed
  BY <1>9 DEF SetFailed, Halt
<1>10. CASE ConfirmOk
  BY <1>10 DEF ConfirmOk, Outdate, Continue
<1>11. CASE ConfirmSkipped
  BY <1>11 DEF ConfirmSkipped, Outdate, Continue
<1>12. CASE ConfirmFails
  BY <1>12 DEF ConfirmFails, HaltChecked, Halt
<1>13. ASSUME NEW d \in Devices, BeginRead(d) PROVE OwnInv'
  BY <1>13 DEF BeginRead, MayStep
<1>14. CASE ReadOk
  BY <1>14 DEF ReadOk, ContinueChecked, Continue
<1>15. CASE ReadAsked
  BY <1>15 DEF ReadAsked, ContinueChecked, Continue
<1>16. CASE ReadFails
  BY <1>16 DEF ReadFails, HaltChecked, Halt
<1>17. CASE BeginPrompt
  BY <1>17 DEF BeginPrompt, MayStep
<1>18. CASE PromptPassed
  BY <1>18 DEF PromptPassed, Continue
<1>19. CASE PromptHalts
  BY <1>19 DEF PromptHalts, Halt
<1>20. ASSUME NEW created \in BOOLEAN, NEW ok \in BOOLEAN, RecordStart(created, ok)
        PROVE OwnInv'
  BY <1>20 DEF RecordStart, MayStep, Continue, Halt
<1>21. CASE RecordStop
  BY <1>21 DEF RecordStop, MayStep, Continue, Halt
<1>22. ASSUME NEW d \in Sources, Secure(d) PROVE OwnInv'
  BY <1>22 DEF Secure, SafeDue, Send
<1>50. ASSUME NEW d \in Sources, LeaveOn(d) PROVE OwnInv'
  BY <1>50 DEF LeaveOn, SafeDue
<1>23. CASE Secured
  BY <1>23 DEF Secured
<1>24. CASE RunEnds
  BY <1>24 DEF RunEnds, SafeDue
<1>25. CASE Start
  BY <1>25 DEF Start
<1>26. CASE Abort
  BY <1>26 DEF Abort
<1>27. CASE Resume
  BY <1>27 DEF Resume
<1>28. CASE Expire
  BY <1>28 DEF Expire
<1>29. ASSUME NEW d \in Sources, NEW ok \in BOOLEAN, NEW done \in BOOLEAN, Serve(d, ok, done)
        PROVE OwnInv'
  BY <1>29 DEF Serve
<1>30. ASSUME NEW d \in Devices, PollBegins(d) PROVE OwnInv'
  BY <1>30 DEF PollBegins
<1>31. ASSUME NEW d \in Devices, PollEnds(d) PROVE OwnInv'
  BY <1>31 DEF PollEnds
<1>32. ASSUME NEW d \in Devices, Restart(d) PROVE OwnInv'
  BY <1>32 DEF Restart
<1>33. CASE UNCHANGED vars
  BY <1>33 DEF vars
<1>. QED
    <2>. HIDE DEF IInv, TypeOK, PhaseInv, OwnInv, Pending, Waits, World, AllOff,
     Nothing, runner, exec, threads, history, otherRunner, notify, flow, setting, record
  <2>1. ASSUME ExecStep PROVE OwnInv'
    BY <2>1, <1>1, <1>2, <1>3, <1>4, <1>5, <1>6, <1>7, <1>8, <1>9, <1>10, <1>11, <1>12, <1>13,
       <1>14, <1>15, <1>16, <1>17, <1>18, <1>19, <1>20, <1>21, <1>22, <1>23, <1>24, <1>50
       DEF ExecStep
  <2>2. ASSUME UserStep PROVE OwnInv'
    BY <2>2, <1>25, <1>26, <1>27, <1>28 DEF UserStep
  <2>3. ASSUME NEW d \in Devices, ThreadStep(d) PROVE OwnInv'
    BY <2>3, <1>29, <1>30, <1>31, <1>32 DEF ThreadStep
  <2>. QED
    BY <2>1, <2>2, <2>3, <1>33 DEF Next

\* No run has begun.
LEMMA InitInv == Init => IInv
<1> SUFFICES ASSUME Init PROVE IInv
  OBVIOUS
<1> USE DevicesAssumption, BoundsAssumption DEF Init, Active, Ended, Nothing, AllOff, World
<1>1. TypeOK
  <2>1. chan \in [Devices -> Seq(BOOLEAN)]
    OBVIOUS
  <2>2. sample \in [Devices -> World] /\ out \in World
    OBVIOUS
  <2>3. reading \in [Devices -> [world : World, fresh : BOOLEAN]]
    OBVIOUS
  <2>4. /\ runs \in 0..MaxRuns /\ aborts \in 0..2 /\ live \in Nat /\ credit \in Int
        /\ cleanupLen \in 0..MaxCleanup /\ left \in 0..(MaxSteps + MaxCleanup)
    OBVIOUS
  <2>5. /\ run = "none" /\ phase = "idle" /\ outcome = "none" /\ answer = "none"
        /\ woken = FALSE /\ permit = FALSE /\ cleanup = FALSE /\ expired = FALSE
        /\ owned = FALSE /\ granted = FALSE /\ polling = {} /\ energized = {}
        /\ sentOn = {} /\ late = {} /\ unsafe = {}
        /\ target \in [dev : Devices \cup {NoOne}, level : BOOLEAN]
    OBVIOUS
  <2>. HIDE DEF Init, World, AllOff, Nothing
  <2>. QED
    BY <2>1, <2>2, <2>3, <2>4, <2>5 DEF TypeOK
<1>2. PhaseInv /\ NotifyInv /\ CleanupInv
  BY DEF PhaseInv, NotifyInv, CleanupInv
<1>3. SafeInv /\ OwnInv
  BY DEF SafeInv, OwnInv
<1>. QED
  BY <1>1, <1>2, <1>3 DEF IInv

\* IInv is an invariant.
LEMMA Invariance == Spec => []IInv
<1>1. IInv /\ [Next]_vars => IInv'
  BY TypeStep, PhaseStep, NotifyStep, CleanupStep, SafeStep, OwnStep DEF IInv
<1>. QED
  BY InitInv, <1>1, PTL DEF Spec

-----------------------------------------------------------------------------
(* The theorems. *)

\* Types of the run, its executor and the instruments' threads.
THEOREM RunTypes == Spec => []TypeOK
  BY Invariance, PTL DEF IInv

\* Exec::safe_state: once a failed or aborted run has ended, every output it knows
\* it switched on is off, or it logged that it could not switch it off.
THEOREM FailedRunsAreSafe == Spec => []SafeAfterFailure
<1>1. IInv => SafeAfterFailure
  BY DEF IInv, PhaseInv, SafeInv, BeingSecured, Off, Active, SafeAfterFailure
<1>. QED
  BY <1>1, Invariance, PTL

\* run_cleanup: no run ends before its cleanup does, unless it is aborted twice.
THEOREM CleanupsRun == Spec => []CleanupComplete
<1>1. IInv => CleanupComplete
  BY DEF IInv, CleanupInv, CleanupComplete
<1>. QED
  BY <1>1, Invariance, PTL

\* Runner::resume and Exec's prompt: no prompt passes without a continue of its own.
THEOREM PromptsArePaidFor == Spec => []PromptsNeedContinue
<1>1. IInv => PromptsNeedContinue
  BY DEF IInv, TypeOK, NotifyInv, PromptsNeedContinue
<1>. QED
  BY <1>1, Invariance, PTL

\* fresh_field with Exec.last_set: a status reading shows the sets before it.
THEOREM ReadingsAreCurrent == Spec => OwnReadingCurrent
<1>1. IInv /\ [Next]_vars =>
        [\A d \in sentOn \ late :
           ReadOk /\ target.dev = d => reading[d].world[d] = out[d]]_vars
  BY DEF IInv, OwnInv, Pending, ReadOk
<1>. QED
  BY <1>1, Invariance, PTL DEF Spec, OwnReadingCurrent

=============================================================================
