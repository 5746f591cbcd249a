---------------------------- MODULE MCRecordings ----------------------------
(* Instances of Recordings for TLC: two requests at once, two signals; the *)
(* requests are interchangeable, and so are the signals.                   *)
EXTENDS Recordings, TLC

CONSTANTS h1, h2, volt, amp

TwoHandlers == {h1, h2}
TwoSignals == {volt, amp}
Symmetry == Permutations(TwoHandlers) \cup Permutations(TwoSignals)
Intervals == [id \in Ids |-> id]
=============================================================================
