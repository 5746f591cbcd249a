-------------------------------- MODULE Mcp --------------------------------
(***************************************************************************)
(* AI clients at POST /mcp: the tools and the access they need, one call   *)
(* after the other of a batch, and the calls that wait (bm-server mcp.rs). *)
(*                                                                         *)
(* The run, the saved flows and the recordings are what the tools change;  *)
(* the page changes them too.  A run here only starts and ends: how it     *)
(* runs is FlowRun's subject.                                              *)
(***************************************************************************)
EXTENDS Naturals, Sequences

CONSTANTS
  Clients,     \* requests to /mcp that may be in progress at once
  Batches,     \* the sequences of calls a client may send
  MaxRuns,     \* bound: runs
  MaxSaved     \* bound: flows saved, recordings, and changes of the access

VARIABLES
  access,     \* settings.mcp
  run,        \* the run the runner keeps: its number and state
  ended,      \* history: the runs that finished
  flowsSaved, recording, \* counters: flows saved; recordings that run
  request,    \* request[c]: the calls left, and the one in progress
  overtaken,  \* history: the calls whose run was replaced while they waited
  reply,      \* reply[c]: what the last call of c was answered
  switches    \* bound

mcpVars == <<access, run, ended, flowsSaved, recording, request, overtaken, reply, switches>>
mcpBench == <<run, ended, flowsSaved, recording>>

\* tools(): the least access that each one needs.
Need ==
  [t \in {"bench_overview", "read_instrument", "flow_format", "list_flows", "get_flow",
          "validate_flow", "run_status", "list_recordings", "get_recording", "abort_run"} |-> "read"]
Needs(t) == IF t \in DOMAIN Need THEN Need[t] ELSE "control"

Level(a) == CASE a = "off" -> 0 [] a = "read" -> 1 [] OTHER -> 2

Active(r) == r.state \in {"running", "waiting", "cleanup"}
NoRequest == [calls |-> <<>>, step |-> "none", id |-> 0]

McpInit ==
  /\ access = "read" /\ run = [id |-> 0, state |-> "idle"] /\ ended = {}
  /\ flowsSaved = 0 /\ recording = 0
  /\ request = [c \in Clients |-> NoRequest]
  /\ overtaken = {} /\ reply = [c \in Clients |-> "none"] /\ switches = 0

-----------------------------------------------------------------------------
(* The page and the run. *)

PutMcp(a) ==
  /\ a # access /\ switches < MaxSaved /\ switches' = switches + 1 /\ access' = a
  /\ UNCHANGED <<mcpBench, request, overtaken, reply>>

\* Runner::start: one run at a time; one that can energize has to be armed.
CanStart(energizes, arm) == ~Active(run) /\ (energizes => arm) /\ run.id < MaxRuns
StartedRun ==
  /\ run' = [id |-> run.id + 1, state |-> "running"]
  /\ overtaken' = overtaken \cup {c \in Clients : request[c].step = "waiting" /\ request[c].id = run.id}

PageStarts ==
  /\ CanStart(TRUE, TRUE) /\ StartedRun
  /\ UNCHANGED <<access, ended, flowsSaved, recording, request, reply, switches>>

PageContinues ==
  /\ run.state = "waiting" /\ run' = [run EXCEPT !.state = "running"]
  /\ UNCHANGED <<access, ended, flowsSaved, recording, request, overtaken, reply, switches>>

RunGoesOn ==
  /\ Active(run)
  /\ \E next \in CASE run.state = "cleanup" -> {"finished", "failed", "aborted"}
                   [] run.state = "waiting" -> {"cleanup"}
                   [] OTHER                 -> {"waiting", "cleanup"} :
       /\ run' = [run EXCEPT !.state = next]
       /\ ended' = IF next = "finished" THEN ended \cup {run.id} ELSE ended
  /\ UNCHANGED <<access, flowsSaved, recording, request, overtaken, reply, switches>>

-----------------------------------------------------------------------------
(* A request: its calls one after the other, each checked when its turn comes. *)

Post(c, calls) ==
  /\ request[c] = NoRequest
  /\ request' = [request EXCEPT ![c] = [calls |-> calls, step |-> "next", id |-> 0]]
  /\ UNCHANGED <<access, mcpBench, overtaken, reply, switches>>

CallAnswered(c, r) ==
  /\ reply' = [reply EXCEPT ![c] = r]
  /\ request' = [request EXCEPT ![c] =
       IF Len(@.calls) = 1 THEN NoRequest ELSE [calls |-> Tail(@.calls), step |-> "next", id |-> 0]]

Tool(c) == Head(request[c].calls)

\* handle: the access is looked up, then the tool is called.
Check(c) ==
  /\ request[c].step = "next"
  /\ IF access = "off" \/ Level(Needs(Tool(c))) > Level(access)
     THEN CallAnswered(c, "refused")
     ELSE request' = [request EXCEPT ![c].step = "call"] /\ UNCHANGED reply
  /\ UNCHANGED <<access, mcpBench, overtaken, switches>>

Calling(c, tool) == request[c].step = "call" /\ Tool(c) = tool

Read(c) ==
  /\ request[c].step = "call" /\ Tool(c) \in DOMAIN Need \ {"abort_run"}
  /\ \E r \in {"done", "error"} : CallAnswered(c, r)
  /\ UNCHANGED <<access, mcpBench, overtaken, switches>>

\* Runner::abort only asks: the run goes to its cleanup by itself.
AbortRun(c) ==
  /\ Calling(c, "abort_run") /\ CallAnswered(c, "done")
  /\ UNCHANGED <<access, mcpBench, overtaken, switches>>

ContinueRun(c) ==
  /\ Calling(c, "continue_run") /\ CallAnswered(c, "done")
  /\ run' = IF run.state = "waiting" THEN [run EXCEPT !.state = "running"] ELSE run
  /\ UNCHANGED <<access, ended, flowsSaved, recording, overtaken, switches>>

\* One setter is run as a flow of one step.
SetInstrument(c) ==
  /\ Calling(c, "set_instrument")
  /\ \E energizes, confirmed \in BOOLEAN :
       IF CanStart(energizes, confirmed)
       THEN /\ StartedRun
            /\ request' = [request EXCEPT ![c] = [calls |-> @.calls, step |-> "waiting", id |-> run.id + 1]]
            /\ UNCHANGED reply
       ELSE CallAnswered(c, "error") /\ UNCHANGED <<run, overtaken>>
  /\ UNCHANGED <<access, ended, flowsSaved, recording, switches>>

\* Mutant: a run that is over counts as one that finished.
WaitRunOver(c) ==
  /\ request[c].step = "waiting"
  /\ CallAnswered(c, IF ~Active(run) THEN "confirmed" ELSE "error")
  /\ overtaken' = overtaken \ {c}
  /\ UNCHANGED <<access, mcpBench, switches>>

\* wait_run looks every 100 ms, up to 20 s, and answers with the state of the run it finds.
WaitRun(c) ==
  /\ request[c].step = "waiting"
  /\ CallAnswered(c, IF run.state = "finished" THEN "confirmed" ELSE "error")
  /\ overtaken' = overtaken \ {c}
  /\ UNCHANGED <<access, mcpBench, switches>>

RunFlow(c) ==
  /\ Calling(c, "run_flow")
  /\ \E energizes, arm \in BOOLEAN :
       IF CanStart(energizes, arm) THEN StartedRun /\ CallAnswered(c, "done")
                                   ELSE CallAnswered(c, "error") /\ UNCHANGED <<run, overtaken>>
  /\ UNCHANGED <<access, ended, flowsSaved, recording, switches>>

SaveFlow(c) ==
  /\ Calling(c, "save_flow")
  /\ \/ flowsSaved < MaxSaved /\ flowsSaved' = flowsSaved + 1 /\ CallAnswered(c, "done")
     \/ UNCHANGED flowsSaved /\ CallAnswered(c, "error")
  /\ UNCHANGED <<access, run, ended, recording, overtaken, switches>>

StartRecording(c) ==
  /\ Calling(c, "start_recording")
  /\ \/ recording < MaxSaved /\ recording' = recording + 1 /\ CallAnswered(c, "done")
     \/ UNCHANGED recording /\ CallAnswered(c, "error")
  /\ UNCHANGED <<access, run, ended, flowsSaved, overtaken, switches>>

StopRecording(c) ==
  /\ Calling(c, "stop_recording")
  /\ \/ recording > 0 /\ recording' = recording - 1 /\ CallAnswered(c, "done")
     \/ UNCHANGED recording /\ \E r \in {"done", "error"} : CallAnswered(c, r)
  /\ UNCHANGED <<access, run, ended, flowsSaved, overtaken, switches>>

McpNext ==
  \/ \E a \in {"off", "read", "control"} : PutMcp(a)
  \/ PageStarts \/ PageContinues \/ RunGoesOn
  \/ \E c \in Clients :
       \/ \E calls \in Batches : Post(c, calls)
       \/ Check(c) \/ Read(c) \/ AbortRun(c) \/ ContinueRun(c) \/ SetInstrument(c) \/ WaitRun(c)
       \/ RunFlow(c) \/ SaveFlow(c) \/ StartRecording(c) \/ StopRecording(c)

McpSpec == McpInit /\ [][McpNext]_mcpVars

-----------------------------------------------------------------------------
Confirms(c) ==
  request[c].step = "waiting" /\ request'[c] # request[c] /\ reply'[c] = "confirmed"

Done(c) == request[c].id \in ended

\* set_instrument answers "confirmed by the instrument" only for a run of its own that finished,
\* never for one that failed, was aborted or still runs, unless another run replaced it while
\* the call was waiting: wait_run takes the state of the run it finds for that of its own.
ConfirmedMeansDone == [][\A c \in Clients \ overtaken : Confirms(c) => Done(c)]_mcpVars
=============================================================================
