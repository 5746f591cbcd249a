------------------------------ MODULE MCBench ------------------------------
(* Instances of Bench for TLC: two devices, two requests at once. *)
EXTENDS Bench, TLC

CONSTANTS psu, dmm, h1, h2

TwoDevices == {psu, dmm}
TwoHandlers == {h1, h2}
AllTasks == {h1, h2, Putter}
Entry1 == <<[parked |-> FALSE, starts |-> TRUE]>>
Parked1 == <<[parked |-> TRUE, starts |-> TRUE]>>
Broken1 == <<[parked |-> FALSE, starts |-> FALSE]>>

\* One is new and one parked; the first to start cannot be; nothing is left.
FewLists == {psu :> a @@ dmm :> b : <<a, b>> \in
  {<<Entry1, Parked1>>, <<Broken1, Entry1>>, <<NoEntry, NoEntry>>}}
OneFlow == {{psu}}
Symmetry == Permutations(TwoHandlers)
=============================================================================
