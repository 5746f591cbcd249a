----------------------------- MODULE MCFlowRun -----------------------------
(* Instances of FlowRun for TLC: a supply with an output, and a meter. *)
EXTENDS FlowRun

CONSTANTS psu, dmm

Bench == {psu, dmm}
Supply == {psu}

\* The safe value of the supply's output is known in the first run, not in the second.
SafeFirst == [n \in 1..MaxRuns |-> IF n = 1 THEN Supply ELSE {}]
=============================================================================
