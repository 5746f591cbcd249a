-------------------------- MODULE InstrumentService --------------------------
(***************************************************************************)
(* What an instrument's thread promises to those who send it requests,     *)
(* without the thread, its queue, its waits or its polls: the contract of  *)
(* DeviceClient (bm-driver actor.rs) and of parking (PARKING.md).          *)
(*   - A request is settled once, and only after it was submitted.         *)
(*   - It may reach the instrument only when it is settled, over an open   *)
(*     link; a refused one never does.                                     *)
(*   - A caller may give up at any time; that does not withdraw the        *)
(*     request, and what the caller was told never changes.                *)
(*   - While the instrument is held (parked) the link stays closed.        *)
(***************************************************************************)
CONSTANTS Requests, KindOf

VARIABLES state, told, carried, open, held, ended

vars == <<state, told, carried, open, held, ended>>

Data == {r \in Requests : KindOf[r] \in {"get", "set"}}

Init ==
  /\ state = [r \in Requests |-> "new"]
  /\ told = [r \in Requests |-> "nothing"]
  /\ carried = {} /\ open = FALSE /\ held \in BOOLEAN /\ ended = FALSE

Settle(r, outcome) ==
  /\ state[r] = "pending"
  /\ state' = [state EXCEPT ![r] = "settled"]
  /\ told' = [told EXCEPT ![r] = IF @ = "nothing" THEN outcome ELSE @]

Submit(r) ==
  /\ state[r] = "new" /\ ~ended
  /\ state' = [state EXCEPT ![r] = "pending"]
  /\ UNCHANGED <<told, carried, open, held, ended>>

SubmitTooLate(r) ==
  /\ state[r] = "new" /\ ended
  /\ state' = [state EXCEPT ![r] = "settled"]
  /\ told' = [told EXCEPT ![r] = IF @ = "nothing" THEN "gone" ELSE @]
  /\ UNCHANGED <<carried, open, held, ended>>

\* A park or unpark request may fail before it is submitted.
Decline(r) ==
  /\ r \notin Data /\ state[r] = "new" /\ told[r] = "nothing"
  /\ state' = [state EXCEPT ![r] = "settled"]
  /\ told' = [told EXCEPT ![r] = "error"]
  /\ UNCHANGED <<carried, open, held, ended>>

\* The client of a park or unpark request hangs up before it is submitted, which does not
\* withdraw it.
HangUp(r) ==
  /\ r \notin Data /\ state[r] = "new" /\ told[r] = "nothing"
  /\ told' = [told EXCEPT ![r] = "hung_up"]
  /\ UNCHANGED <<state, carried, open, held, ended>>

GiveUp(r) ==
  /\ state[r] # "new" /\ told[r] = "nothing"
  /\ told' = [told EXCEPT ![r] = "timeout"]
  /\ UNCHANGED <<state, carried, open, held, ended>>

\* A successful set has reached the instrument; a failure may cost the link.
Serve(r, outcome) ==
  /\ r \in Data /\ open
  /\ Settle(r, outcome)
  /\ carried' \in {carried, carried \cup {r}}
  /\ outcome = "ok" /\ KindOf[r] = "set" => r \in carried'
  /\ open' = TRUE \/ (open' = FALSE /\ outcome = "error")
  /\ UNCHANGED <<held, ended>>

Refuse(r) ==
  /\ r \in Data /\ ~open
  /\ Settle(r, "refused")
  /\ UNCHANGED <<carried, open, held, ended>>

Park(r) ==
  /\ KindOf[r] = "park" /\ Settle(r, "ok")
  /\ held' = TRUE /\ open' = FALSE
  /\ UNCHANGED <<carried, ended>>

Unpark(r) ==
  /\ KindOf[r] = "unpark" /\ Settle(r, "ok")
  /\ held' = FALSE
  /\ UNCHANGED <<carried, open, ended>>

Connect ==
  /\ ~held /\ ~ended /\ ~open /\ open' = TRUE
  /\ UNCHANGED <<state, told, carried, held, ended>>

Lose ==
  /\ open /\ open' = FALSE
  /\ UNCHANGED <<state, told, carried, held, ended>>

\* Whatever is still pending is dropped: its caller gives up.
End ==
  /\ ~ended /\ ended' = TRUE /\ open' = FALSE
  /\ state' = [r \in Requests |-> IF state[r] = "pending" THEN "settled" ELSE state[r]]
  /\ UNCHANGED <<told, carried, held>>

Next ==
  \/ \E r \in Requests :
       \/ Submit(r) \/ SubmitTooLate(r) \/ Decline(r) \/ HangUp(r)
       \/ GiveUp(r)
       \/ \E outcome \in {"ok", "error"} : Serve(r, outcome)
       \/ Refuse(r) \/ Park(r) \/ Unpark(r)
  \/ Connect \/ Lose \/ End

Spec == Init /\ [][Next]_vars
=============================================================================
