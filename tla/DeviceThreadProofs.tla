------------------------- MODULE DeviceThreadProofs -------------------------
(***************************************************************************)
(* Proofs about DeviceThread, for every set of requests and every          *)
(* MaxSilent.                                                              *)
(*                                                                         *)
(* None of the properties is inductive as it stands.  IInv adds what they  *)
(* rest on: where the thread owns the link (LinkInv), that a request is in *)
(* the channel at most once and is then not settled (QueueInv), which      *)
(* request is in the thread's hands (CurrentInv), and that the instrument  *)
(* has seen settled requests only (CarryInv).                              *)
(*                                                                         *)
(* RInv is about what the registry shows and what the last request to park *)
(* or unpark leaves behind.  Callers may give up on one and send the next, *)
(* so several may be queued: Want is the entry without the one request     *)
(* that is not sent yet, OrderInv says that the last one in the channel,   *)
(* or else the place of the thread, agrees with it, and ShownInv where the *)
(* registry may lag behind the entry.  All three need that no request was  *)
(* marked while another was not sent yet (overtaken).                      *)
(*                                                                         *)
(* Last, the thread implements InstrumentService: with the queue, the      *)
(* waits, the polls and the reconnects left out, every step of the thread, *)
(* its callers and Devices::stop is a step of the contract or changes      *)
(* nothing the contract speaks of.  TakenInv says that a request that was  *)
(* taken is in the thread's hands, so that the end of the thread settles   *)
(* what is pending.                                                        *)
(***************************************************************************)
EXTENDS DeviceThread, FiniteSetTheorems, NaturalsInduction, WellFoundedInduction, TLAPS

LinkInv ==
  /\ link = "open" <=> pc \in {"serve", "busy", "closing"}
  /\ session = "open" <=> link = "open"
  /\ lastCtl = "park" => pc \in {"presence", "parked", "stopped"}
  /\ link = "open" => silent < MaxSilent

QueueInv ==
  /\ \A i \in 1..Len(queue) : queue[i] # Stop => stage[queue[i]] = "queued"
  /\ \A i, j \in 1..Len(queue) : queue[i] = queue[j] /\ queue[i] # Stop => i = j

CurrentInv ==
  /\ pc = "busy" => current \in Data /\ stage[current] = "taken"
  /\ pc = "closing" /\ current # Stop =>
       current \in Control /\ KindOf[current] = "park" /\ stage[current] = "taken"

CarryInv ==
  /\ \A r \in carried : stage[r] = "done"
  /\ \A r \in Requests : told[r] \in {"refused", "gone"} =>
       stage[r] = "done" /\ r \notin carried

JoinInv == handle = "joined" => pc = "stopped" /\ ~reg.listed

IInv == /\ TypeOK /\ LinkInv /\ QueueInv /\ CurrentInv /\ PendingExact
        /\ CarryInv /\ JoinInv

-----------------------------------------------------------------------------
(* Facts about the operators the actions are built from. *)

\* Registry::apply keeps an entry an entry, whatever the event.
LEMMA RegistryApply ==
  ASSUME NEW e \in Registry
  PROVE  /\ OnConnected(e) \in Registry
         /\ OnStatus(e) \in Registry
         /\ \A reason : OnDisconnected(e, reason) \in Registry
         /\ \A present \in {"yes", "no"} : OnParked(e, present) \in Registry
         /\ OnUnparked(e) \in Registry
         /\ [e EXCEPT !.listed = FALSE] \in Registry
         /\ \A parked \in BOOLEAN : Marked(e, parked) \in Registry
<1>1. OnConnected(e) \in Registry
  BY DEF OnConnected, Registry
<1>2. OnStatus(e) \in Registry
  BY DEF OnStatus, Registry
<1>3. \A reason : OnDisconnected(e, reason) \in Registry
  BY DEF OnDisconnected, Registry
<1>4. \A present \in {"yes", "no"} : OnParked(e, present) \in Registry
  BY DEF OnParked, Registry
<1>5. OnUnparked(e) \in Registry
  BY DEF OnUnparked, Registry
<1>6. [e EXCEPT !.listed = FALSE] \in Registry
  BY DEF Registry
<1>7. \A parked \in BOOLEAN : Marked(e, parked) \in Registry
  BY DEF Marked, Registry
<1>. QED
  BY <1>1, <1>2, <1>3, <1>4, <1>5, <1>6, <1>7

\* There are finitely many requests, hence finitely many outstanding ones.
LEMMA OutstandingFinite == IsFiniteSet(Outstanding)
  BY RequestsAssumption, FS_Subset DEF Outstanding, Data

\* The message a receive takes was queued, and what is left behind is not it.
LEMMA ReceiveQueued ==
  ASSUME TypeOK, QueueInv, NEW m \in Requests \cup {Stop}, Receive(m)
  PROVE  /\ queue' \in Seq(Requests \cup {Stop})
         /\ m # Stop => stage[m] = "queued"
         /\ Len(queue') = Len(queue) - 1
         /\ \A i \in 1..Len(queue') :
              i + 1 \in 1..Len(queue) /\ queue'[i] = queue[i + 1]
         /\ m # Stop => \A i \in 1..Len(queue') : queue'[i] # m
<1>1. /\ queue \in Seq(Requests \cup {Stop}) /\ queue # <<>>
      /\ queue' = Tail(queue) /\ m = queue[1] /\ 1 \in 1..Len(queue)
  BY DEF Receive, TypeOK
<1>2. /\ Len(queue') = Len(queue) - 1 /\ queue' \in Seq(Requests \cup {Stop})
      /\ \A i \in 1..Len(queue') : i + 1 \in 1..Len(queue) /\ queue'[i] = queue[i + 1]
  BY <1>1
<1>. QED
  BY <1>1, <1>2 DEF QueueInv

-----------------------------------------------------------------------------
(* The types. *)

\* Every step of the thread, its callers or Devices::stop keeps the types.
LEMMA TypeStep == IInv /\ [Next]_vars => TypeOK'
<1> SUFFICES ASSUME IInv, [Next]_vars PROVE TypeOK'
  OBVIOUS
<1> USE RequestsAssumption, MaxSilentAssumption
    DEF IInv, TypeOK, callerVars, linkVars, parking
<1>a. \A r \in Outstanding : pending - 1 \in Nat
  BY OutstandingFinite, FS_EmptySet, FS_CardinalityType DEF PendingExact
<1>b. /\ OnConnected(reg) \in Registry /\ OnStatus(reg) \in Registry
      /\ OnDisconnected(reg, "lost") \in Registry
      /\ OnDisconnected(reg, "stopped") \in Registry
  BY RegistryApply
<1>1. ASSUME NEW r \in Requests, CountRequest(r) PROVE TypeOK'
  BY <1>1 DEF CountRequest
<1>2. ASSUME NEW r \in Requests, Send(r) PROVE TypeOK'
  <2>1. CASE SendOpen(r)
    BY <1>2, <2>1 DEF Send, SendOpen, Data, ControlKinds
  <2>2. CASE SendClosed(r)
    BY <1>a, <1>2, <2>2 DEF Send, SendClosed, Outstanding
  <2>. QED
    BY <1>2, <2>1, <2>2 DEF Send
<1>3. ASSUME NEW r \in Requests, GiveUp(r) \/ HangUp(r) PROVE TypeOK'
  BY <1>3 DEF GiveUp, HangUp
<1>4. CASE StopDevice
  BY <1>4 DEF StopDevice
<1>5. CASE Joined
  BY <1>5, RegistryApply DEF Joined
<1>6. CASE ConnectOk
  BY <1>6, <1>b DEF ConnectOk
<1>7. CASE ConnectFail
  BY <1>7, RegistryApply DEF ConnectFail
<1>8. ASSUME NEW r \in Requests, WaitRefuse(r) PROVE TypeOK'
  BY <1>a, <1>8, ReceiveQueued DEF WaitRefuse, Answer, Outstanding
<1>9. CASE WaitElapsed
  BY <1>9 DEF WaitElapsed
<1>10. CASE WaitStop
  BY <1>10 DEF WaitStop, ThreadEnds
<1>11. ASSUME NEW r \in Requests, BackoffControl(r) PROVE TypeOK'
  BY <1>11, ReceiveQueued DEF BackoffControl, AnswerControl, Answer, Control, Data
<1>12. ASSUME NEW present \in {"yes", "no"}, CheckPresence(present) PROVE TypeOK'
  BY <1>12, RegistryApply DEF CheckPresence
<1>13. ASSUME NEW r \in Requests, ParkedControl(r) PROVE TypeOK'
  BY <1>13, ReceiveQueued DEF ParkedControl, AnswerControl, Answer, Control, Data
<1>14. CASE Unpark
  BY <1>14, RegistryApply DEF Unpark
<1>15. ASSUME NEW r \in Requests, ServeTake(r) PROVE TypeOK'
  BY <1>a, <1>15, ReceiveQueued DEF ServeTake, Outstanding
<1>16. ASSUME NEW outcome \in {"ok", "error", "io"}, NEW touched \in BOOLEAN,
              Finish(outcome, touched)
       PROVE  TypeOK'
  <2>1. current \in Requests
    BY <1>16 DEF Finish, CurrentInv, Data
  <2>. QED
    BY <1>16, <2>1, <1>b DEF Finish, Answer, LoseLink
<1>17. ASSUME NEW r \in Requests, ServeUnpark(r) PROVE TypeOK'
  BY <1>17, ReceiveQueued DEF ServeUnpark, AnswerControl, Answer, Control, Data
<1>18. ASSUME NEW m \in Requests \cup {Stop}, ServeEnd(m) PROVE TypeOK'
  BY <1>18, ReceiveQueued DEF ServeEnd
<1>19. CASE ClosePark
  BY <1>19 DEF ClosePark, ReleaseSession, AnswerControl, Answer, CurrentInv, ControlKinds
<1>20. CASE CloseStop
  BY <1>20, <1>b DEF CloseStop, ReleaseSession, ThreadEnds
<1>21. CASE PollAnswered
  BY <1>21, <1>b DEF PollAnswered
<1>22. CASE PollSilent
  BY <1>22, <1>b DEF PollSilent, LoseLink, LinkInv
<1>23. CASE PollIo
  BY <1>23, <1>b DEF PollIo, LoseLink
<1>24. CASE UNCHANGED vars
  BY <1>24 DEF vars
<1>25. ASSUME NEW r \in Requests, Mark(r) PROVE TypeOK'
  BY <1>25, RegistryApply DEF Mark
<1>26. ASSUME NEW r \in Requests, SaveFails(r) PROVE TypeOK'
  <2>1. stage' \in [Requests -> {"idle", "begun", "queued", "taken", "done"}]
        /\ told' \in [Requests -> {"nothing", "ok", "error", "refused", "gone", "timeout",
                                   "hung_up"}]
    BY <1>26 DEF SaveFails
  <2>2. entry' \in [parked : BOOLEAN, was : BOOLEAN] /\ reg' \in Registry
    BY <1>26, RegistryApply DEF SaveFails
  <2>. QED
    BY <1>26, <2>1, <2>2 DEF SaveFails
<1>. QED
  BY <1>1, <1>2, <1>3, <1>4, <1>5, <1>6, <1>7, <1>8, <1>9, <1>10, <1>11, <1>12,
     <1>13, <1>14, <1>15, <1>16, <1>17, <1>18, <1>19, <1>20, <1>21, <1>22, <1>23,
     <1>24, <1>25, <1>26 DEF Next, CallerStep, ThreadStep, WaitTakes

-----------------------------------------------------------------------------
(* Who owns the link. *)

\* Every step keeps what pc says about the port and the session.
LEMMA LinkStep == IInv /\ [Next]_vars => LinkInv'
<1> SUFFICES ASSUME IInv, [Next]_vars PROVE LinkInv'
  OBVIOUS
<1> USE MaxSilentAssumption DEF IInv, TypeOK, LinkInv, linkVars, parking
<1>1. CASE UNCHANGED <<pc, linkVars, lastCtl>>
  BY <1>1
<1>2. CASE ConnectOk
  BY <1>2 DEF ConnectOk
<1>3. CASE ConnectFail
  BY <1>3 DEF ConnectFail
<1>4. CASE WaitElapsed
  BY <1>4 DEF WaitElapsed, Waiting
<1>5. CASE WaitStop
  BY <1>5 DEF WaitStop, ThreadEnds, Waiting
<1>6. ASSUME NEW r \in Requests, BackoffControl(r) PROVE LinkInv'
  BY <1>6 DEF BackoffControl, AnswerControl
<1>7. ASSUME NEW present \in {"yes", "no"}, CheckPresence(present) PROVE LinkInv'
  BY <1>7 DEF CheckPresence
<1>8. ASSUME NEW r \in Requests, ParkedControl(r) PROVE LinkInv'
  BY <1>8, RequestsAssumption
     DEF ParkedControl, AnswerControl, Control, Data, ControlKinds
<1>9. CASE Unpark
  <2>1. lastCtl # "park"
    BY <1>9 DEF Unpark
  <2>. QED
    BY <1>9, <2>1 DEF Unpark
<1>10. ASSUME NEW r \in Requests, ServeTake(r) PROVE LinkInv'
  BY <1>10 DEF ServeTake
<1>11. ASSUME NEW outcome \in {"ok", "error", "io"}, NEW touched \in BOOLEAN,
              Finish(outcome, touched)
       PROVE  LinkInv'
  BY <1>11 DEF Finish, LoseLink
<1>12. ASSUME NEW r \in Requests, ServeUnpark(r) PROVE LinkInv'
  BY <1>12 DEF ServeUnpark, AnswerControl
<1>13. ASSUME NEW m \in Requests \cup {Stop}, ServeEnd(m) PROVE LinkInv'
  BY <1>13 DEF ServeEnd
<1>14. CASE ClosePark
  BY <1>14 DEF ClosePark, ReleaseSession, AnswerControl
<1>15. CASE CloseStop
  BY <1>15 DEF CloseStop, ReleaseSession, ThreadEnds
<1>16. CASE PollAnswered
  BY <1>16 DEF PollAnswered
<1>17. CASE PollSilent
  BY <1>17 DEF PollSilent, LoseLink
<1>18. CASE PollIo
  BY <1>18 DEF PollIo, LoseLink
<1>19. ASSUME NEW r \in Requests,
              CountRequest(r) \/ Mark(r) \/ SaveFails(r) \/ HangUp(r) \/ Send(r) \/ GiveUp(r)
                \/ WaitRefuse(r)
       PROVE  LinkInv'
  BY <1>1, <1>19 DEF CountRequest, Mark, SaveFails, HangUp, Send, GiveUp, WaitRefuse
<1>20. CASE StopDevice \/ Joined \/ UNCHANGED vars
  BY <1>1, <1>20 DEF StopDevice, Joined, vars
<1>. QED
  BY <1>2, <1>3, <1>4, <1>5, <1>6, <1>7, <1>8, <1>9, <1>10, <1>11, <1>12, <1>13,
     <1>14, <1>15, <1>16, <1>17, <1>18, <1>19, <1>20
     DEF Next, CallerStep, ThreadStep, WaitTakes

-----------------------------------------------------------------------------
(* The channel and the message in the thread's hands. *)

\* Messages that stay queued may move up, and requests may be settled or taken
\* as long as the ones still in the channel are not.
LEMMA QueueKept ==
  ASSUME IInv, NEW m \in Requests \cup {Stop}, Receive(m),
         \A r \in Requests : r # m => stage'[r] = stage[r]
  PROVE  QueueInv'
<1>1. /\ queue' \in Seq(Requests \cup {Stop})
      /\ \A i \in 1..Len(queue') :
           i + 1 \in 1..Len(queue) /\ queue'[i] = queue[i + 1]
      /\ m # Stop => \A i \in 1..Len(queue') : queue'[i] # m
  BY ReceiveQueued DEF IInv
<1>2. \A i \in 1..Len(queue') : queue'[i] # Stop =>
        queue'[i] \in Requests /\ queue'[i] # m /\ stage'[queue'[i]] = "queued"
  BY <1>1 DEF IInv, QueueInv
<1>3. ASSUME NEW i \in 1..Len(queue'), NEW j \in 1..Len(queue'),
             queue'[i] = queue'[j], queue'[i] # Stop
      PROVE  i = j
  <2>1. queue[i + 1] = queue[j + 1] /\ queue[i + 1] # Stop
    BY <1>1, <1>3
  <2>2. i + 1 \in 1..Len(queue) /\ j + 1 \in 1..Len(queue)
    BY <1>1
  <2>3. i + 1 = j + 1
    BY <2>1, <2>2 DEF IInv, QueueInv
  <2>. QED
    BY <2>3
<1>. QED
  BY <1>2, <1>3 DEF QueueInv

\* Every step keeps each request in the channel at most once, and unsettled there.
LEMMA QueueStep == IInv /\ [Next]_vars => QueueInv'
<1> SUFFICES ASSUME IInv, [Next]_vars PROVE QueueInv'
  OBVIOUS
<1> USE RequestsAssumption DEF IInv, TypeOK, callerVars, linkVars, parking
<1>1. CASE UNCHANGED <<queue, stage>>
  BY <1>1 DEF QueueInv
<1>2. ASSUME NEW r \in Requests, CountRequest(r) \/ Mark(r) \/ SaveFails(r) PROVE QueueInv'
  BY <1>2 DEF CountRequest, Mark, SaveFails, QueueInv
<1>3. ASSUME NEW r \in Requests, Send(r) PROVE QueueInv'
  <2>1. stage[r] # "queued"
    BY <1>3 DEF Send
  <2>2. CASE SendOpen(r)
    <3>1. /\ Len(queue') = Len(queue) + 1 /\ queue'[Len(queue) + 1] = r
          /\ \A i \in 1..Len(queue) : queue'[i] = queue[i] /\ queue[i] # r
      BY <2>1, <2>2 DEF SendOpen, QueueInv
    <3>2. stage' = [stage EXCEPT ![r] = "queued"]
      BY <2>2 DEF SendOpen
    <3>3. \A i \in 1..Len(queue') : i \in 1..Len(queue) \/ i = Len(queue) + 1
      BY <3>1
    <3>4. \A i \in 1..Len(queue') : queue'[i] # Stop => stage'[queue'[i]] = "queued"
      BY <3>1, <3>2, <3>3 DEF QueueInv
    <3>5. \A i, j \in 1..Len(queue') : queue'[i] = queue'[j] /\ queue'[i] # Stop => i = j
      BY <3>1, <3>3 DEF QueueInv
    <3>. QED
      BY <3>4, <3>5 DEF QueueInv
  <2>3. CASE SendClosed(r)
    BY <2>1, <2>3 DEF SendClosed, QueueInv
  <2>. QED
    BY <1>3, <2>2, <2>3 DEF Send
<1>4. CASE StopDevice
  <2>1. /\ Len(queue') = Len(queue) + 1 /\ queue'[Len(queue) + 1] = Stop
        /\ \A i \in 1..Len(queue) : queue'[i] = queue[i]
    BY <1>4 DEF StopDevice
  <2>. QED
    <3> SUFFICES ASSUME NEW i \in 1..Len(queue'), NEW j \in 1..Len(queue')
                 PROVE  /\ queue'[i] # Stop => stage'[queue'[i]] = "queued"
                        /\ queue'[i] = queue'[j] /\ queue'[i] # Stop => i = j
      BY DEF QueueInv
    <3>1. /\ i \in 1..Len(queue) \/ queue'[i] = Stop
          /\ j \in 1..Len(queue) \/ queue'[j] = Stop
      BY <2>1
    <3>2. stage' = stage
      BY <1>4 DEF StopDevice
    <3>. QED
      BY <2>1, <3>1, <3>2 DEF QueueInv
<1>5. ASSUME NEW r \in Requests,
             WaitRefuse(r) \/ BackoffControl(r) \/ ParkedControl(r)
               \/ ServeTake(r) \/ ServeUnpark(r)
      PROVE  QueueInv'
  BY <1>5, QueueKept
     DEF WaitRefuse, BackoffControl, ParkedControl, ServeTake, ServeUnpark, AnswerControl
<1>6. ASSUME NEW m \in Requests \cup {Stop}, ServeEnd(m) PROVE QueueInv'
  BY <1>6, QueueKept DEF ServeEnd
<1>7. CASE WaitStop \/ CloseStop
  BY <1>7 DEF WaitStop, CloseStop, ThreadEnds, QueueInv
<1>8. ASSUME NEW outcome \in {"ok", "error", "io"}, NEW touched \in BOOLEAN,
             Finish(outcome, touched)
      PROVE  QueueInv'
  BY <1>8 DEF Finish, CurrentInv, QueueInv, Data
<1>9. CASE ClosePark
  BY <1>9 DEF ClosePark, AnswerControl, CurrentInv, QueueInv, Control
<1>10. ASSUME NEW r \in Requests, GiveUp(r) \/ HangUp(r) PROVE QueueInv'
  BY <1>1, <1>10 DEF GiveUp, HangUp
<1>11. ASSUME NEW present \in {"yes", "no"}, CheckPresence(present) PROVE QueueInv'
  BY <1>1, <1>11 DEF CheckPresence
<1>12. CASE ConnectOk \/ ConnectFail \/ WaitElapsed \/ Unpark \/ Joined
  BY <1>1, <1>12 DEF ConnectOk, ConnectFail, WaitElapsed, Unpark, Joined
<1>13. CASE PollAnswered \/ PollSilent \/ PollIo \/ UNCHANGED vars
  BY <1>1, <1>13 DEF PollAnswered, PollSilent, PollIo, vars
<1>. QED
  BY <1>2, <1>3, <1>4, <1>5, <1>6, <1>7, <1>8, <1>9, <1>10, <1>11, <1>12, <1>13
     DEF Next, CallerStep, ThreadStep, WaitTakes

\* Every step keeps the message in the thread's hands one that was taken.
LEMMA CurrentStep == IInv /\ [Next]_vars => CurrentInv'
<1> SUFFICES ASSUME IInv, [Next]_vars PROVE CurrentInv'
  OBVIOUS
<1> USE RequestsAssumption DEF IInv, TypeOK, callerVars, linkVars, parking, CurrentInv
<1>1. CASE UNCHANGED <<pc, current, stage>>
  BY <1>1
<1>2. CASE pc' \notin {"busy", "closing"}
  BY <1>2
<1>3. ASSUME NEW r \in Requests, CountRequest(r) \/ Mark(r) \/ SaveFails(r) PROVE CurrentInv'
  BY <1>3 DEF CountRequest, Mark, SaveFails, Data, Control
<1>4. ASSUME NEW r \in Requests, Send(r) PROVE CurrentInv'
  BY <1>4 DEF Send, SendOpen, SendClosed, Data, Control
<1>5. ASSUME NEW r \in Requests, ServeTake(r) PROVE CurrentInv'
  BY <1>5 DEF ServeTake
<1>6. ASSUME NEW m \in Requests \cup {Stop}, ServeEnd(m) PROVE CurrentInv'
  BY <1>6 DEF ServeEnd, Control
<1>7. ASSUME NEW r \in Requests,
             WaitRefuse(r) \/ BackoffControl(r) \/ ParkedControl(r) \/ ServeUnpark(r)
      PROVE  CurrentInv'
  BY <1>2, <1>7 DEF WaitRefuse, BackoffControl, ParkedControl, ServeUnpark, Waiting
<1>8. ASSUME NEW outcome \in {"ok", "error", "io"}, NEW touched \in BOOLEAN,
             Finish(outcome, touched)
      PROVE  CurrentInv'
  BY <1>2, <1>8 DEF Finish, LoseLink
<1>9. ASSUME NEW present \in {"yes", "no"}, CheckPresence(present) PROVE CurrentInv'
  BY <1>2, <1>9 DEF CheckPresence
<1>10. CASE ConnectOk \/ ConnectFail \/ WaitElapsed \/ Unpark \/ WaitStop
  BY <1>2, <1>10 DEF ConnectOk, ConnectFail, WaitElapsed, Unpark, WaitStop, ThreadEnds
<1>11. CASE ClosePark \/ CloseStop
  BY <1>2, <1>11 DEF ClosePark, CloseStop, ThreadEnds
<1>12. CASE PollAnswered \/ PollSilent \/ PollIo
  BY <1>2, <1>12 DEF PollAnswered, PollSilent, PollIo, LoseLink
<1>13. ASSUME NEW r \in Requests, GiveUp(r) \/ HangUp(r) PROVE CurrentInv'
  BY <1>1, <1>13 DEF GiveUp, HangUp
<1>14. CASE StopDevice \/ Joined \/ UNCHANGED vars
  BY <1>1, <1>14 DEF StopDevice, Joined, vars
<1>. QED
  BY <1>3, <1>4, <1>5, <1>6, <1>7, <1>8, <1>9, <1>10, <1>11, <1>12, <1>13, <1>14
     DEF Next, CallerStep, ThreadStep, WaitTakes

-----------------------------------------------------------------------------
(* The request counter. *)

\* The counter follows the outstanding requests when one is added, one is
\* removed, or none changes.
LEMMA CountFollows ==
  ASSUME IInv
  PROVE  /\ /\ Outstanding' = Outstanding /\ pending' = pending
            /\ pc' # "stopped" => pc # "stopped"
            => PendingExact'
         /\ \A r : /\ r \notin Outstanding /\ Outstanding' = Outstanding \cup {r}
                   /\ pending' = pending + 1 /\ pc' = pc
                   => PendingExact'
         /\ \A r : /\ r \in Outstanding /\ Outstanding' = Outstanding \ {r}
                   /\ pending' = pending - 1
                   /\ pc' # "stopped" => pc # "stopped"
                   => PendingExact'
<1> USE DEF IInv, TypeOK, PendingExact
<1>1. IsFiniteSet(Outstanding) /\ Cardinality(Outstanding) \in Nat
  BY OutstandingFinite, FS_CardinalityType
<1>2. \A r : r \notin Outstanding =>
        Cardinality(Outstanding \cup {r}) = Cardinality(Outstanding) + 1
  BY <1>1, FS_AddElement
<1>3. \A r : r \in Outstanding =>
        Cardinality(Outstanding \ {r}) = Cardinality(Outstanding) - 1
  BY <1>1, FS_RemoveElement
<1>. QED
  BY <1>1, <1>2, <1>3

\* Every step keeps the shared request counter exact.
LEMMA CountStep == IInv /\ [Next]_vars => PendingExact'
<1> SUFFICES ASSUME IInv, [Next]_vars PROVE PendingExact'
  OBVIOUS
<1> USE RequestsAssumption DEF IInv, TypeOK, callerVars, linkVars, parking
<1>1. ASSUME Outstanding' = Outstanding, pending' = pending,
             pc' # "stopped" => pc # "stopped"
      PROVE  PendingExact'
  BY <1>1, CountFollows
<1>2. ASSUME UNCHANGED <<stage, pending>>, pc' # "stopped" => pc # "stopped"
      PROVE  PendingExact'
  BY <1>1, <1>2 DEF Outstanding, Data
<1>3. ASSUME NEW r \in Requests, CountRequest(r) PROVE PendingExact'
  <2>1. r \notin Outstanding /\ Outstanding' = Outstanding \cup {r}
    BY <1>3 DEF CountRequest, Outstanding, Data
  <2>. QED
    BY <1>3, <2>1, CountFollows DEF CountRequest
<1>4. ASSUME NEW r \in Requests, Send(r) PROVE PendingExact'
  <2>1. CASE SendOpen(r) \/ (SendClosed(r) /\ r \notin Data)
    <3>1. Outstanding' = Outstanding
      BY <1>4, <2>1 DEF Send, SendOpen, SendClosed, Outstanding, Data
    <3>. QED
      BY <1>1, <1>4, <2>1, <3>1 DEF Send, SendOpen, SendClosed
  <2>2. CASE SendClosed(r) /\ r \in Data
    <3>1. r \in Outstanding /\ Outstanding' = Outstanding \ {r}
      BY <1>4, <2>2 DEF Send, SendClosed, Outstanding, Data
    <3>. QED
      BY <1>4, <2>2, <3>1, CountFollows DEF Send, SendClosed
  <2>. QED
    BY <1>4, <2>1, <2>2 DEF Send
<1>5. ASSUME NEW r \in Requests, WaitRefuse(r) \/ ServeTake(r) PROVE PendingExact'
  <2>1. stage[r] = "queued"
    BY <1>5, ReceiveQueued DEF WaitRefuse, ServeTake
  <2>2. r \in Outstanding /\ Outstanding' = Outstanding \ {r}
    BY <1>5, <2>1 DEF WaitRefuse, ServeTake, Outstanding, Data
  <2>. QED
    BY <1>5, <2>2, CountFollows DEF WaitRefuse, ServeTake, Waiting
<1>6. ASSUME NEW r \in Requests,
             BackoffControl(r) \/ ParkedControl(r) \/ ServeUnpark(r)
      PROVE  PendingExact'
  <2>1. Outstanding' = Outstanding
    BY <1>6 DEF BackoffControl, ParkedControl, ServeUnpark, AnswerControl,
                Outstanding, Control, Data
  <2>. QED
    BY <1>1, <1>6, <2>1 DEF BackoffControl, ParkedControl, ServeUnpark, AnswerControl
<1>7. ASSUME NEW m \in Requests \cup {Stop}, ServeEnd(m) PROVE PendingExact'
  <2>1. Outstanding' = Outstanding
    BY <1>7 DEF ServeEnd, Outstanding, Control, Data
  <2>. QED
    BY <1>1, <1>7, <2>1 DEF ServeEnd
<1>8. ASSUME NEW outcome \in {"ok", "error", "io"}, NEW touched \in BOOLEAN,
             Finish(outcome, touched)
      PROVE  PendingExact'
  <2>1. Outstanding' = Outstanding
    BY <1>8 DEF Finish, CurrentInv, Outstanding, Data
  <2>. QED
    BY <1>1, <1>8, <2>1 DEF Finish, LoseLink
<1>9. CASE ClosePark
  <2>1. Outstanding' = Outstanding
    BY <1>9 DEF ClosePark, AnswerControl, CurrentInv, Outstanding, Control, Data
  <2>. QED
    BY <1>1, <1>9, <2>1 DEF ClosePark
<1>10. CASE WaitStop \/ CloseStop
  <2>1. Outstanding' \subseteq Outstanding /\ pending' = pending /\ pc' = "stopped"
    BY <1>10 DEF WaitStop, CloseStop, ThreadEnds, Outstanding, Data
  <2>2. Cardinality(Outstanding') <= Cardinality(Outstanding)
        /\ Cardinality(Outstanding) \in Nat /\ Cardinality(Outstanding') \in Nat
    BY <2>1, OutstandingFinite, FS_Subset, FS_CardinalityType
  <2>. QED
    BY <2>1, <2>2 DEF PendingExact
<1>15. ASSUME NEW r \in Requests, Mark(r) \/ SaveFails(r) PROVE PendingExact'
  <2>1. Outstanding' = Outstanding
    BY <1>15 DEF Mark, SaveFails, Outstanding, Control, Data
  <2>. QED
    BY <1>1, <1>15, <2>1 DEF Mark, SaveFails
<1>11. ASSUME NEW r \in Requests, GiveUp(r) \/ HangUp(r) PROVE PendingExact'
  BY <1>2, <1>11 DEF GiveUp, HangUp
<1>12. ASSUME NEW present \in {"yes", "no"}, CheckPresence(present) PROVE PendingExact'
  BY <1>2, <1>12 DEF CheckPresence
<1>13. CASE ConnectOk \/ ConnectFail \/ WaitElapsed \/ Unpark \/ StopDevice \/ Joined
  BY <1>2, <1>13 DEF ConnectOk, ConnectFail, WaitElapsed, Unpark, StopDevice, Joined, Waiting
<1>14. CASE PollAnswered \/ PollSilent \/ PollIo \/ UNCHANGED vars
  BY <1>2, <1>14 DEF PollAnswered, PollSilent, PollIo, vars
<1>. QED
  BY <1>3, <1>4, <1>5, <1>6, <1>7, <1>8, <1>9, <1>10, <1>11, <1>12, <1>13, <1>14, <1>15
     DEF Next, CallerStep, ThreadStep, WaitTakes

-----------------------------------------------------------------------------
(* What the instrument has seen, and the registry after a removal. *)

\* Every step keeps refused requests, and unsettled ones, from the instrument.
LEMMA CarryStep == IInv /\ [Next]_vars => CarryInv'
<1> SUFFICES ASSUME IInv, [Next]_vars PROVE CarryInv'
  OBVIOUS
<1> USE RequestsAssumption
    DEF IInv, TypeOK, callerVars, linkVars, parking, CarryInv
<1>1. ASSUME UNCHANGED <<stage, told, carried>> PROVE CarryInv'
  BY <1>1
<1>2. ASSUME NEW r \in Requests, CountRequest(r) \/ Mark(r) \/ SaveFails(r) \/ Send(r)
      PROVE  CarryInv'
  BY <1>2 DEF CountRequest, Mark, SaveFails, Send, SendOpen, SendClosed
<1>3. ASSUME NEW r \in Requests, GiveUp(r) \/ HangUp(r) PROVE CarryInv'
  BY <1>3 DEF GiveUp, HangUp
<1>4. ASSUME NEW r \in Requests, WaitRefuse(r) PROVE CarryInv'
  <2>1. stage[r] = "queued"
    BY <1>4, ReceiveQueued DEF WaitRefuse
  <2>. QED
    BY <1>4, <2>1 DEF WaitRefuse, Answer
<1>5. ASSUME NEW r \in Requests,
             BackoffControl(r) \/ ParkedControl(r) \/ ServeUnpark(r)
      PROVE  CarryInv'
  BY <1>5 DEF BackoffControl, ParkedControl, ServeUnpark, AnswerControl, Answer
<1>6. ASSUME NEW r \in Requests, ServeTake(r) PROVE CarryInv'
  <2>1. stage[r] = "queued"
    BY <1>6, ReceiveQueued DEF ServeTake
  <2>. QED
    BY <1>6, <2>1 DEF ServeTake
<1>7. ASSUME NEW m \in Requests \cup {Stop}, ServeEnd(m) PROVE CarryInv'
  <2>1. m # Stop => stage[m] = "queued"
    BY <1>7, ReceiveQueued DEF ServeEnd
  <2>. QED
    BY <1>7, <2>1 DEF ServeEnd
<1>8. ASSUME NEW outcome \in {"ok", "error", "io"}, NEW touched \in BOOLEAN,
             Finish(outcome, touched)
      PROVE  CarryInv'
  <2>1. current \in Requests /\ stage[current] = "taken"
    BY <1>8 DEF Finish, CurrentInv, Data
  <2>. QED
    BY <1>8, <2>1 DEF Finish, Answer
<1>9. CASE ClosePark
  BY <1>9 DEF ClosePark, AnswerControl, Answer, CurrentInv
<1>10. CASE WaitStop \/ CloseStop
  BY <1>10 DEF WaitStop, CloseStop, ThreadEnds
<1>11. ASSUME NEW present \in {"yes", "no"}, CheckPresence(present) PROVE CarryInv'
  BY <1>1, <1>11 DEF CheckPresence
<1>12. CASE ConnectOk \/ ConnectFail \/ WaitElapsed \/ Unpark \/ StopDevice \/ Joined
  BY <1>1, <1>12 DEF ConnectOk, ConnectFail, WaitElapsed, Unpark, StopDevice, Joined
<1>13. CASE PollAnswered \/ PollSilent \/ PollIo \/ UNCHANGED vars
  BY <1>1, <1>13 DEF PollAnswered, PollSilent, PollIo, vars
<1>. QED
  BY <1>2, <1>3, <1>4, <1>5, <1>6, <1>7, <1>8, <1>9, <1>10, <1>11, <1>12, <1>13
     DEF Next, CallerStep, ThreadStep, WaitTakes

\* No step of the thread is possible once it has ended.
LEMMA EndedIsFinal == ThreadStep => pc # "stopped"
  BY DEF ThreadStep, WaitTakes, ConnectOk, ConnectFail, WaitElapsed, WaitStop, WaitRefuse,
     BackoffControl, ParkedControl, CheckPresence, Unpark, ServeTake, ServeUnpark, Finish,
     ServeEnd, ClosePark, CloseStop, PollAnswered, PollSilent, PollIo, Waiting

\* Every step keeps a removed device's thread ended and its entry out of the registry.
LEMMA JoinStep == IInv /\ [Next]_vars => JoinInv'
<1> SUFFICES ASSUME IInv, [Next]_vars PROVE JoinInv'
  OBVIOUS
<1> USE DEF IInv, JoinInv, callerVars, linkVars, parking
<1>1. CASE ThreadStep
  <2>1. UNCHANGED handle
    BY <1>1 DEF ThreadStep, WaitTakes, ConnectOk, ConnectFail, WaitElapsed, WaitStop,
       WaitRefuse, BackoffControl, ParkedControl, CheckPresence, Unpark, ServeTake,
       ServeUnpark, Finish, ServeEnd, ClosePark, CloseStop, PollAnswered, PollSilent, PollIo
  <2>. QED
    BY <1>1, <2>1, EndedIsFinal
<1>2. ASSUME NEW r \in Requests, CallerStep(r) PROVE JoinInv'
  BY <1>2 DEF CallerStep, CountRequest, Mark, SaveFails, HangUp, Send, GiveUp
<1>3. CASE StopDevice \/ UNCHANGED vars
  BY <1>3 DEF StopDevice, vars
<1>4. CASE Joined
  BY <1>4 DEF Joined, TypeOK, Registry
<1>. QED
  BY <1>1, <1>2, <1>3, <1>4 DEF Next

-----------------------------------------------------------------------------
(* The theorems. *)

\* A thread that starts, parked or not, satisfies the invariant.
LEMMA InitIInv == Init => IInv
<1> SUFFICES ASSUME Init PROVE IInv
  OBVIOUS
<1> USE RequestsAssumption, MaxSilentAssumption DEF Init
<1>1. TypeOK
  <2>1. reg \in Registry /\ entry \in [parked : BOOLEAN, was : BOOLEAN]
    BY DEF Registry
  <2>2. queue \in Seq(Requests \cup {Stop}) /\ pc \in {"connect", "presence"}
    OBVIOUS
  <2>3. /\ stage \in [Requests -> {"idle", "begun", "queued", "taken", "done"}]
        /\ told \in [Requests -> {"nothing", "ok", "error", "refused", "timeout", "gone",
                                  "hung_up"}]
    OBVIOUS
  <2>4. current = Stop /\ pending = 0 /\ carried = {} /\ link = "closed" /\ session = "none"
    OBVIOUS
  <2>5. silent \in 0..MaxSilent /\ seen = "unknown" /\ handle = "held" /\ overtaken = FALSE
    OBVIOUS
  <2>6. lastCtl \in ControlKinds
    BY DEF ControlKinds
  <2>. QED
    BY ONLY <2>1, <2>2, <2>3, <2>4, <2>5, <2>6, Zenon DEF TypeOK
<1>2. LinkInv /\ QueueInv /\ CurrentInv /\ CarryInv /\ JoinInv
  BY DEF LinkInv, QueueInv, CurrentInv, CarryInv, JoinInv
<1>3. PendingExact
  <2>1. Outstanding = {}
    BY DEF Outstanding, Data
  <2>. QED
    BY <2>1, FS_EmptySet DEF PendingExact
<1>. QED
  BY <1>1, <1>2, <1>3 DEF IInv

\* The inductive invariant holds in every behaviour.
LEMMA Invariance == Spec => []IInv
<1>1. IInv /\ [Next]_vars => IInv'
  BY TypeStep, LinkStep, QueueStep, CurrentStep, CountStep, CarryStep, JoinStep DEF IInv
<1>. QED
  BY <1>1, InitIInv, PTL DEF Spec

\* The state keeps its types.  That the counter stays a natural number and that
\* Engine::silent_polls stays within max_silent_polls needs the whole invariant.
THEOREM TypeCorrect == Spec => []TypeOK
  BY Invariance, PTL DEF IInv

\* The shared request counter of DeviceClient::send and the thread never wraps,
\* and is exact while the thread runs.
THEOREM CounterExact == Spec => []PendingExact
  BY Invariance, PTL DEF IInv

\* Between the answer to a park request and the answer to an unpark request the
\* thread owns no port and no session is open (actor.rs run, park).
THEOREM ParkedIsQuiet == Spec => []QuietWhileParked
<1>1. IInv => QuietWhileParked
  BY DEF IInv, LinkInv, QuietWhileParked, TypeOK
<1>. QED
  BY <1>1, Invariance, PTL

\* The thread does not end with an open port or session (Request::Stop in run,
\* Wake::Stop in wait and park).
THEOREM StopReleases == Spec => []StopReleasesSession
<1>1. IInv => StopReleasesSession
  BY DEF IInv, LinkInv, StopReleasesSession, TypeOK
<1>. QED
  BY <1>1, Invariance, PTL

\* A request refused by wait(), or sent to a thread that has ended, never reaches
\* the instrument, not even after a reconnect.
THEOREM RefusedIsSafe == Spec => []RefusedNeverCarried
<1>1. IInv => RefusedNeverCarried
  BY DEF IInv, CarryInv, RefusedNeverCarried
<1>. QED
  BY <1>1, Invariance, PTL

\* Devices::stop joins the thread before it removes the entry, so no later event
\* brings the entry back.
THEOREM RemovalIsFinal == Spec => RemovedStaysRemoved
<1>1. IInv /\ [Next]_vars => [handle = "joined" => ~reg'.listed]_vars
  <2> SUFFICES ASSUME IInv, [Next]_vars, handle = "joined" PROVE ~reg'.listed
    OBVIOUS
  <2>1. JoinInv'
    BY JoinStep
  <2>2. handle' = "joined"
    BY EndedIsFinal DEF IInv, JoinInv, Next, CallerStep, CountRequest, Mark, SaveFails, HangUp, Send, GiveUp,
       StopDevice, Joined, vars, callerVars, linkVars, parking
  <2>. QED
    BY <2>1, <2>2 DEF JoinInv
<1>. QED
  BY <1>1, Invariance, PTL DEF Spec, RemovedStaysRemoved

-----------------------------------------------------------------------------
(* The registry and the last word. *)

\* The thread is not being stopped, and requests were sent in the order they were marked.
Held == handle = "held" /\ ~overtaken

Begun == {r \in Control : stage[r] = "begun"}

\* Parked, or about to be.
Parking == pc \in {"presence", "parked", "closing"}

\* The entry without a request that may still be taken back.
Want == IF Begun = {} THEN entry.parked ELSE entry.was

\* Of the requests that are marked one at most is not sent yet, and the entry is as it says.
BegunInv == Held =>
  /\ \A r, q \in Begun : r = q
  /\ \A r \in Begun : entry.parked <=> KindOf[r] = "park"

\* The thread ends only when it is stopped.
StopInv == Held =>
  /\ pc # "stopped" /\ (pc = "closing" => current # Stop)
  /\ \A i \in 1..Len(queue) : queue[i] # Stop

\* The i-th message is the last to park or unpark.
LastAt(i) ==
  /\ queue[i] \in Control
  /\ \A j \in 1..Len(queue) : queue[j] \in Control => j <= i

NoneQueued == \A i \in 1..Len(queue) : queue[i] \notin Control

OrderInv == Held =>
  /\ \A i \in 1..Len(queue) : LastAt(i) => (KindOf[queue[i]] = "park" <=> Want)
  /\ NoneQueued => (Parking <=> Want)

Underway(kind) == \E r \in Control : KindOf[r] = kind /\ stage[r] \in {"begun", "queued"}

\* The registry agrees with the entry, unless a request is under way that will change it.
ShownInv == Held =>
  /\ pc \in {"connect", "serve", "busy", "backoff"} =>
       (reg.parked <=> entry.parked) \/ Underway("park")
  /\ pc = "parked" \/ (pc = "presence" /\ seen # "unknown") =>
       (reg.parked <=> entry.parked) \/ Underway("unpark")

ConnectedInv ==
  /\ reg.status => reg.connected
  /\ link = "open" => reg.connected
  /\ reg.connected => link = "open" \/ (pc = "presence" /\ seen = "unknown")

RInv == IInv /\ BegunInv /\ StopInv /\ OrderInv /\ ShownInv /\ ConnectedInv

-----------------------------------------------------------------------------
(* Connections. *)

LEMMA ConnectedStep == IInv /\ ConnectedInv /\ [Next]_vars => ConnectedInv'
<1> SUFFICES ASSUME IInv, ConnectedInv, [Next]_vars PROVE ConnectedInv'
  OBVIOUS
<1> USE DEF IInv, TypeOK, Registry, LinkInv, linkVars, callerVars, parking, ConnectedInv
<1>1. CASE UNCHANGED <<pc, reg, link, seen>>
  BY <1>1
<1>2. ASSUME NEW r \in Requests, CallerStep(r) PROVE ConnectedInv'
  <2>1. CASE CountRequest(r) \/ Send(r) \/ GiveUp(r) \/ HangUp(r)
    BY <2>1, <1>1 DEF CountRequest, Send, GiveUp, HangUp
  <2>2. CASE Mark(r) \/ SaveFails(r)
    <3>1. UNCHANGED <<pc, link, seen>> /\ reg'.status = reg.status /\ reg'.connected = reg.connected
      BY <2>2 DEF Mark, SaveFails, Marked
    <3>. QED
      BY <3>1
  <2>. QED
    BY <1>2, <2>1, <2>2 DEF CallerStep
<1>3. CASE StopDevice \/ Joined \/ UNCHANGED vars
  BY <1>3 DEF StopDevice, Joined, vars
<1>4. CASE ConnectOk \/ ConnectFail
  BY <1>4 DEF ConnectOk, ConnectFail, OnConnected, OnDisconnected
<1>5. CASE WaitElapsed \/ WaitStop
  BY <1>5 DEF WaitElapsed, WaitStop, ThreadEnds, Waiting
<1>6. ASSUME NEW r \in Requests, WaitRefuse(r) \/ BackoffControl(r) \/ ParkedControl(r)
      PROVE  ConnectedInv'
  BY <1>6 DEF WaitRefuse, BackoffControl, ParkedControl, Waiting
<1>7. ASSUME NEW present \in {"yes", "no"}, CheckPresence(present) PROVE ConnectedInv'
  BY <1>7 DEF CheckPresence, OnParked
<1>8. CASE Unpark
  BY <1>8 DEF Unpark, OnUnparked
<1>9. ASSUME NEW r \in Requests, ServeTake(r) \/ ServeUnpark(r) PROVE ConnectedInv'
  BY <1>9 DEF ServeTake, ServeUnpark
<1>10. ASSUME NEW m \in Requests \cup {Stop}, ServeEnd(m) PROVE ConnectedInv'
  BY <1>10 DEF ServeEnd
<1>11. ASSUME NEW outcome \in {"ok", "error", "io"}, NEW touched \in BOOLEAN,
              Finish(outcome, touched)
       PROVE  ConnectedInv'
  BY <1>11 DEF Finish, LoseLink, OnDisconnected
<1>12. CASE ClosePark \/ CloseStop
  BY <1>12 DEF ClosePark, CloseStop, ReleaseSession, ThreadEnds, OnDisconnected
<1>13. CASE PollAnswered \/ PollSilent \/ PollIo
  BY <1>13 DEF PollAnswered, PollSilent, PollIo, LoseLink, OnStatus, OnDisconnected
<1>. QED
  BY <1>2, <1>3, <1>4, <1>5, <1>6, <1>7, <1>8, <1>9, <1>10, <1>11, <1>12, <1>13
     DEF Next, ThreadStep, WaitTakes

-----------------------------------------------------------------------------
(* Requests that are not sent yet. *)

\* A request that was sent stays sent.
LEMMA BegunKept ==
  ASSUME TypeOK, NEW r \in Requests, NEW s \in {"queued", "taken", "done"},
         stage[r] # "begun" \/ r \notin Control, stage' = [stage EXCEPT ![r] = s]
  PROVE  Begun' = Begun
  BY DEF TypeOK, Begun, Control, Data

\* Neither is taken back.
LEMMA HeldBefore == [Next]_vars /\ Held' => Held
<1> SUFFICES ASSUME [Next]_vars, Held' PROVE Held
  OBVIOUS
<1>1. handle = "held"
  BY DEF Held, Next, CallerStep, CountRequest, Mark, SaveFails, HangUp, Send, GiveUp,
     StopDevice, Joined, ThreadStep, WaitTakes, ConnectOk, ConnectFail, WaitElapsed, WaitStop,
     WaitRefuse, BackoffControl, ParkedControl, CheckPresence, Unpark, ServeTake, ServeUnpark,
     Finish, ServeEnd, ClosePark, CloseStop, PollAnswered, PollSilent, PollIo, vars, parking
<1>2. (overtaken' = overtaken) \/ \E r \in Requests : Mark(r)
  BY DEF Next, CallerStep, CountRequest, SaveFails, HangUp, Send, GiveUp,
     StopDevice, Joined, ThreadStep, WaitTakes, ConnectOk, ConnectFail, WaitElapsed, WaitStop,
     WaitRefuse, BackoffControl, ParkedControl, CheckPresence, Unpark, ServeTake, ServeUnpark,
     Finish, ServeEnd, ClosePark, CloseStop, AnswerControl, PollAnswered, PollSilent, PollIo,
     vars, parking
<1>3. ASSUME NEW r \in Requests, Mark(r) PROVE ~overtaken
  BY <1>3, Zenon DEF Mark, Held
<1>4. ASSUME overtaken' = overtaken PROVE ~overtaken
  <2>1. ~overtaken'
    BY DEF Held
  <2> QED
    BY <1>4, <2>1
<1> QED
  BY <1>1, <1>2, <1>3, <1>4 DEF Held

LEMMA BegunStep == IInv /\ BegunInv /\ [Next]_vars => BegunInv'
<1> SUFFICES ASSUME IInv, BegunInv, [Next]_vars, Held' PROVE BegunInv'
  BY DEF BegunInv
<1> USE DEF IInv, TypeOK, linkVars, callerVars, parking, BegunInv, Begun, Control
<1>a. Held
  BY HeldBefore
<1>1. CASE UNCHANGED <<stage, entry>>
  BY <1>a, <1>1 DEF Data
<1>2. ASSUME NEW r \in Requests, CountRequest(r) PROVE BegunInv'
  BY <1>a, <1>2 DEF CountRequest, Data
<1>3. ASSUME NEW r \in Requests, Mark(r) PROVE BegunInv'
  <2>1. \A q \in Begun : FALSE
    BY <1>a, <1>3 DEF Mark, Held
  <2> QED
    BY <1>a, <1>3, <2>1 DEF Mark, Data
<1>4. ASSUME NEW r \in Requests, SaveFails(r) PROVE BegunInv'
  BY <1>a, <1>4 DEF SaveFails, Data
<1>5. ASSUME NEW r \in Requests, Send(r) \/ GiveUp(r) \/ HangUp(r) PROVE BegunInv'
  BY <1>a, <1>5 DEF Send, SendOpen, SendClosed, GiveUp, HangUp, Data
<1>6. CASE StopDevice \/ Joined \/ UNCHANGED vars
  BY <1>a, <1>1, <1>6 DEF StopDevice, Joined, vars
<1>7. ASSUME NEW r \in Requests,
             WaitRefuse(r) \/ BackoffControl(r) \/ ParkedControl(r) \/ ServeTake(r)
               \/ ServeUnpark(r)
      PROVE  BegunInv'
  <2>1. Receive(r) /\ r # Stop
    BY <1>a, <1>7, RequestsAssumption
       DEF WaitRefuse, BackoffControl, ParkedControl, ServeTake, ServeUnpark
  <2>2. stage[r] = "queued"
    BY <2>1, ReceiveQueued
  <2>3. /\ \A q \in Requests \ {r} : stage'[q] = stage[q]
        /\ stage'[r] \in {"taken", "done"} /\ entry' = entry
    BY <1>a, <1>7 DEF WaitRefuse, BackoffControl, ParkedControl, ServeTake, ServeUnpark,
                AnswerControl
  <2> QED
    BY <1>a, <2>2, <2>3 DEF Data
<1>8. ASSUME NEW m \in Requests \cup {Stop}, ServeEnd(m) PROVE BegunInv'
  <2>1. m # Stop => stage[m] = "queued"
    BY <1>8, ReceiveQueued DEF ServeEnd
  <2> QED
    BY <1>a, <1>8, <2>1 DEF ServeEnd, Data
<1>9. ASSUME NEW outcome \in {"ok", "error", "io"}, NEW touched \in BOOLEAN,
              Finish(outcome, touched)
       PROVE  BegunInv'
  BY <1>a, <1>9 DEF Finish, Answer, CurrentInv, Data
<1>10. CASE ClosePark
  BY <1>a, <1>10 DEF ClosePark, AnswerControl, Answer, CurrentInv, Data
<1>11. CASE CloseStop \/ WaitStop
  BY <1>a, <1>11 DEF CloseStop, WaitStop, ThreadEnds, Data
<1>12. CASE ConnectOk \/ ConnectFail \/ WaitElapsed \/ Unpark
  BY <1>1, <1>12 DEF ConnectOk, ConnectFail, WaitElapsed, Unpark
<1>13. ASSUME NEW present \in {"yes", "no"}, CheckPresence(present) PROVE BegunInv'
  BY <1>1, <1>13 DEF CheckPresence
<1>14. CASE PollAnswered \/ PollSilent \/ PollIo
  BY <1>1, <1>14 DEF PollAnswered, PollSilent, PollIo
<1>. QED
  BY <1>2, <1>3, <1>4, <1>5, <1>6, <1>7, <1>8, <1>9, <1>10, <1>11, <1>12, <1>13, <1>14
     DEF Next, CallerStep, ThreadStep, WaitTakes

\* The thread ends only after Devices::stop.
LEMMA StopStep == IInv /\ StopInv /\ [Next]_vars => StopInv'
<1> SUFFICES ASSUME IInv, StopInv, [Next]_vars, Held' PROVE StopInv'
  BY DEF StopInv
<1> USE RequestsAssumption DEF IInv, TypeOK, linkVars, callerVars, parking, StopInv, Held
<1>1. Held
  BY HeldBefore
<1>2. CASE UNCHANGED <<pc, current, queue>>
  BY <1>1, <1>2
<1>3. ASSUME NEW r \in Requests, CallerStep(r) PROVE StopInv'
  <2>1. CASE UNCHANGED queue
    BY <1>1, <1>3, <2>1 DEF CallerStep, CountRequest, Mark, SaveFails, HangUp, Send, GiveUp
  <2>2. CASE Send(r) /\ SendOpen(r)
    BY <1>1, <2>2 DEF Send, SendOpen
  <2> QED
    BY <1>3, <2>1, <2>2 DEF CallerStep, CountRequest, Mark, SaveFails, HangUp, Send,
                               SendClosed, GiveUp
<1>4. CASE StopDevice \/ Joined \/ UNCHANGED vars
  BY <1>1, <1>4 DEF StopDevice, Joined, vars
<1>5. ASSUME NEW m \in Requests \cup {Stop}, Receive(m), pc' # "stopped",
             m = Stop \/ pc' # "closing" \/ current' # Stop
      PROVE  StopInv'
  <2>1. m # Stop
    BY <1>1, <1>5 DEF Receive
  <2> QED
    BY <1>1, <1>5, <2>1, ReceiveQueued
<1>6. ASSUME NEW r \in Requests,
             WaitRefuse(r) \/ BackoffControl(r) \/ ParkedControl(r) \/ ServeTake(r)
               \/ ServeUnpark(r)
      PROVE  StopInv'
  BY <1>5, <1>6
     DEF WaitRefuse, BackoffControl, ParkedControl, ServeTake, ServeUnpark, Waiting
<1>7. ASSUME NEW m \in Requests \cup {Stop}, ServeEnd(m) PROVE StopInv'
  BY <1>5, <1>7 DEF ServeEnd
<1>8. CASE WaitStop \/ CloseStop
  BY <1>1, <1>8 DEF WaitStop, CloseStop
<1>9. ASSUME NEW outcome \in {"ok", "error", "io"}, NEW touched \in BOOLEAN,
              Finish(outcome, touched)
       PROVE  StopInv'
  BY <1>1, <1>9 DEF Finish, LoseLink
<1>10. CASE ClosePark \/ ConnectOk \/ ConnectFail \/ WaitElapsed \/ Unpark
  BY <1>1, <1>10 DEF ClosePark, ConnectOk, ConnectFail, WaitElapsed, Unpark
<1>11. ASSUME NEW present \in {"yes", "no"}, CheckPresence(present) PROVE StopInv'
  BY <1>1, <1>11 DEF CheckPresence
<1>12. CASE PollAnswered \/ PollSilent \/ PollIo
  BY <1>1, <1>12 DEF PollAnswered, PollSilent, PollIo, LoseLink
<1>. QED
  BY <1>3, <1>4, <1>6, <1>7, <1>8, <1>9, <1>10, <1>11, <1>12 DEF Next, ThreadStep, WaitTakes

-----------------------------------------------------------------------------
(* The order of the requests to park and unpark. *)

\* Among queued requests to park or unpark one is the last.
LEMMA LastControl ==
  ASSUME TypeOK, ~NoneQueued
  PROVE  \E i \in 1..Len(queue) : LastAt(i)
<1> DEFINE S == {n \in Nat : \E i \in 1..Len(queue) : queue[i] \in Control /\ n = Len(queue) - i}
<1>1. Len(queue) \in Nat
  BY DEF TypeOK
<1>2. S # {}
  <2>1. PICK i \in 1..Len(queue) : queue[i] \in Control
    BY DEF NoneQueued
  <2>2. Len(queue) - i \in Nat
    BY <1>1
  <2> QED
    BY <2>1, <2>2
<1>3. PICK n \in S : \A m \in S : ~(<<m, n>> \in OpToRel(<, Nat))
  BY <1>2, NatLessThanWellFounded, WFMin
<1>4. \A m \in S : ~(m < n)
  BY <1>3 DEF OpToRel
<1>5. PICK i \in 1..Len(queue) : queue[i] \in Control /\ n = Len(queue) - i
  BY <1>3
<1>6. \A j \in 1..Len(queue) : queue[j] \in Control => j <= i
  <2> SUFFICES ASSUME NEW j \in 1..Len(queue), queue[j] \in Control PROVE j <= i
    OBVIOUS
  <2>1. Len(queue) - j \in S
    BY <1>1
  <2>2. ~(Len(queue) - j < n)
    BY <1>4, <2>1
  <2>3. i \in Nat /\ j \in Nat
    BY <1>1
  <2> HIDE DEF S
  <2> QED
    BY <1>1, <1>5, <2>2, <2>3
<1> QED
  BY <1>5, <1>6 DEF LastAt

\* What the thread's place must become when it takes the message m.
LEMMA OrderTaken ==
  ASSUME IInv, OrderInv, Held, NEW m \in Requests \cup {Stop}, Receive(m), Want' = Want,
         m \in Control => (Parking' <=> KindOf[m] = "park"),
         m \notin Control => (Parking' <=> Parking)
  PROVE  OrderInv'
<1>1. /\ queue' \in Seq(Requests \cup {Stop}) /\ Len(queue') = Len(queue) - 1
      /\ \A i \in 1..Len(queue') : i + 1 \in 1..Len(queue) /\ queue'[i] = queue[i + 1]
      /\ Len(queue) \in Nat /\ 1 \in 1..Len(queue) /\ queue[1] = m
  BY ReceiveQueued DEF IInv, Receive, TypeOK
<1>2. \A i \in 1..Len(queue') : LastAt(i)' => LastAt(i + 1)
  <2> SUFFICES ASSUME NEW i \in 1..Len(queue'), LastAt(i)' PROVE LastAt(i + 1)
    OBVIOUS
  <2>1. queue[i + 1] \in Control
    BY <1>1 DEF LastAt, Control, Data
  <2>2. ASSUME NEW j \in 1..Len(queue), queue[j] \in Control PROVE j <= i + 1
    <3>1. CASE j = 1
      BY <3>1, <1>1
    <3>2. CASE j # 1
      <4>1. j - 1 \in 1..Len(queue') /\ queue'[j - 1] = queue[j]
        BY <1>1, <3>2
      <4> QED
        BY <1>1, <2>2, <4>1 DEF LastAt, Control, Data
    <3> QED
      BY <3>1, <3>2
  <2> QED
    BY <2>1, <2>2 DEF LastAt
<1>3. \A i \in 1..Len(queue') : LastAt(i)' => (KindOf[queue'[i]] = "park" <=> Want')
  BY <1>1, <1>2 DEF OrderInv
<1>4. ASSUME NoneQueued' PROVE Parking' <=> Want'
  <2>1. \A j \in 1..Len(queue) : queue[j] \in Control => j <= 1
    <3> SUFFICES ASSUME NEW j \in 1..Len(queue), j # 1 PROVE queue[j] \notin Control
      BY <1>1
    <3>1. j - 1 \in 1..Len(queue') /\ queue'[j - 1] = queue[j]
      BY <1>1
    <3> QED
      BY <1>4, <3>1 DEF NoneQueued, Control, Data
  <2>2. CASE m \in Control
    <3>1. LastAt(1)
      BY <1>1, <2>1, <2>2 DEF LastAt
    <3> QED
      BY <1>1, <2>2, <3>1 DEF OrderInv
  <2>3. CASE m \notin Control
    <3>1. NoneQueued
      BY <1>1, <2>1, <2>3 DEF NoneQueued
    <3> QED
      BY <2>3, <3>1 DEF OrderInv
  <2> QED
    BY <2>2, <2>3
<1> QED
  BY <1>3, <1>4 DEF OrderInv

\* A step that leaves the channel alone.
LEMMA OrderKept ==
  ASSUME OrderInv, Held, UNCHANGED queue, Want' = Want, Parking' <=> Parking
  PROVE  OrderInv'
<1>1. /\ NoneQueued' = NoneQueued
      /\ \A i : LastAt(i)' = LastAt(i)
  BY DEF NoneQueued, LastAt, Control, Data
<1> QED
  BY <1>1 DEF OrderInv

LEMMA OrderSent ==
  ASSUME IInv, BegunInv, OrderInv, Held, pc # "stopped", NEW r \in Requests, Send(r)
  PROVE  OrderInv'
<1>1. /\ stage[r] = "begun" /\ queue' = Append(queue, r) /\ entry' = entry /\ pc' = pc
      /\ stage' = [stage EXCEPT ![r] = "queued"] /\ queue \in Seq(Requests \cup {Stop})
  BY DEF Send, SendOpen, SendClosed, parking, IInv, TypeOK
<1>2. /\ Len(queue') = Len(queue) + 1 /\ Len(queue) \in Nat /\ queue'[Len(queue) + 1] = r
      /\ \A i \in 1..Len(queue) : queue'[i] = queue[i]
  BY <1>1
<1>3. CASE r \in Control
  <2>1. Want' <=> KindOf[r] = "park"
    <3>1. r \in Begun /\ \A q \in Begun : q = r
      BY <1>1, <1>3 DEF Begun, BegunInv
    <3>2. Begun' = {}
      BY <1>1, <3>1 DEF Begun, IInv, TypeOK, Control, Data
    <3> QED
      BY <1>1, <3>1, <3>2 DEF Want, BegunInv
  <2>2. \A i \in 1..Len(queue') : LastAt(i)' => i = Len(queue) + 1
    <3>1. Len(queue) + 1 \in 1..Len(queue') /\ queue'[Len(queue) + 1] \in Control
      BY <1>2, <1>3
    <3> QED
      BY <1>2, <3>1 DEF LastAt, Control, Data
  <2>3. ~NoneQueued'
    BY <1>2, <1>3 DEF NoneQueued, Control, Data
  <2> QED
    BY <1>2, <2>1, <2>2, <2>3 DEF OrderInv
<1>4. CASE r \notin Control
  <2>1. Want' = Want /\ (Parking' <=> Parking)
    BY <1>1, <1>4, BegunKept DEF Want, Parking, IInv
  <2>2. \A i \in 1..Len(queue') : LastAt(i)' => i \in 1..Len(queue) /\ LastAt(i)
    BY <1>2, <1>4 DEF LastAt, Control, Data
  <2>3. NoneQueued' => NoneQueued
    BY <1>2 DEF NoneQueued, Control, Data
  <2> QED
    BY <1>2, <2>1, <2>2, <2>3 DEF OrderInv
<1> QED
  BY <1>3, <1>4

LEMMA OrderStep == IInv /\ BegunInv /\ StopInv /\ OrderInv /\ [Next]_vars => OrderInv'
<1> SUFFICES ASSUME IInv, BegunInv, StopInv, OrderInv, [Next]_vars, Held' PROVE OrderInv'
  BY DEF OrderInv
<1> USE DEF linkVars, callerVars, parking
<1>1. Held /\ pc # "stopped" /\ (pc = "closing" => current # Stop)
  BY HeldBefore DEF StopInv
<1>2. ASSUME UNCHANGED <<stage, entry>> PROVE Want' = Want
  BY <1>2 DEF Want, Begun, Control, Data
<1>3. ASSUME NEW r \in Requests, CountRequest(r) PROVE OrderInv'
  <2>1. Begun' = Begun
    BY <1>3 DEF CountRequest, Begun, Control, Data, IInv, TypeOK
  <2> QED
    BY <1>1, <1>3, <2>1, OrderKept DEF CountRequest, Want, Parking
<1>4. ASSUME NEW r \in Requests, Mark(r) PROVE OrderInv'
  <2>1. Begun = {}
    BY <1>4 DEF Mark, Held, Begun, Control, Data
  <2>2. Begun' # {} /\ entry'.was = entry.parked
    BY <1>4 DEF Mark, Begun, Control, Data, IInv, TypeOK
  <2> QED
    BY <1>1, <1>4, <2>1, <2>2, OrderKept DEF Mark, Want, Parking
<1>5. ASSUME NEW r \in Requests, SaveFails(r) PROVE OrderInv'
  <2>1. r \in Begun
    BY <1>5 DEF SaveFails, Begun
  <2>2. Begun' = {}
    BY <1>1, <1>5, <2>1 DEF SaveFails, Begun, BegunInv, Control, Data, IInv, TypeOK
  <2>3. entry'.parked = entry.was
    BY <1>1, <1>5 DEF SaveFails, Held, IInv, TypeOK
  <2> QED
    BY <1>1, <1>5, <2>1, <2>2, <2>3, OrderKept DEF SaveFails, Want, Parking
<1>6. ASSUME NEW r \in Requests, Send(r) PROVE OrderInv'
  BY <1>1, <1>6, OrderSent
<1>7. ASSUME NEW r \in Requests, GiveUp(r) \/ HangUp(r) PROVE OrderInv'
  BY <1>1, <1>2, <1>7, OrderKept DEF GiveUp, HangUp, Parking
<1>8. CASE StopDevice \/ Joined \/ WaitStop \/ CloseStop
  BY <1>1, <1>8 DEF StopDevice, Joined, Held, WaitStop, CloseStop, StopInv, IInv, TypeOK
<1>9. ASSUME NEW r \in Requests, Receive(r), entry' = entry,
             stage' = [stage EXCEPT ![r] = "taken"] \/ stage' = [stage EXCEPT ![r] = "done"],
             r \in Control => (Parking' <=> KindOf[r] = "park"),
             r \notin Control => (Parking' <=> Parking)
      PROVE  OrderInv'
  <2>1. stage[r] = "queued"
    BY <1>9, ReceiveQueued, RequestsAssumption DEF IInv
  <2>2. Want' = Want
    BY <1>9, <2>1, BegunKept DEF Want, IInv
  <2> QED
    BY <1>1, <1>9, <2>2, OrderTaken
<1>10. ASSUME NEW r \in Requests, WaitRefuse(r) \/ ServeTake(r) PROVE OrderInv'
  BY <1>9, <1>10 DEF WaitRefuse, ServeTake, Control, Parking
<1>11. ASSUME NEW r \in Requests, BackoffControl(r) \/ ParkedControl(r) \/ ServeUnpark(r)
       PROVE  OrderInv'
  BY <1>9, <1>11 DEF BackoffControl, ParkedControl, ServeUnpark, AnswerControl, Parking
<1>12. ASSUME NEW m \in Requests \cup {Stop}, ServeEnd(m) PROVE OrderInv'
  <2>1. m # Stop
    BY <1>1, <1>12 DEF ServeEnd, Receive, StopInv, IInv, TypeOK
  <2> QED
    BY <1>9, <1>12, <2>1 DEF ServeEnd, Parking
<1>13. ASSUME NEW outcome \in {"ok", "error", "io"}, NEW touched \in BOOLEAN,
              Finish(outcome, touched)
       PROVE  OrderInv'
  <2>1. current \in Requests /\ stage[current] = "taken"
    BY <1>13 DEF Finish, IInv, CurrentInv, Data
  <2>2. Want' = Want
    BY <1>13, <2>1, BegunKept DEF Finish, Want, IInv
  <2> QED
    BY <1>1, <1>13, <2>2, OrderKept DEF Finish, LoseLink, Parking
<1>14. CASE ClosePark
  <2>1. current \in Requests /\ stage[current] = "taken"
    BY <1>14 DEF ClosePark, IInv, CurrentInv, Control
  <2>2. Want' = Want
    BY <1>14, <2>1, BegunKept DEF ClosePark, AnswerControl, Want, IInv
  <2> QED
    BY <1>1, <1>14, <2>2, OrderKept DEF ClosePark, Parking
<1>15. CASE ConnectOk \/ ConnectFail \/ WaitElapsed \/ Unpark
  BY <1>1, <1>2, <1>15, OrderKept
     DEF ConnectOk, ConnectFail, WaitElapsed, Unpark, Waiting, Parking
<1>16. ASSUME NEW present \in {"yes", "no"}, CheckPresence(present) PROVE OrderInv'
  BY <1>1, <1>2, <1>16, OrderKept DEF CheckPresence, Parking
<1>17. CASE PollAnswered \/ PollSilent \/ PollIo \/ UNCHANGED vars
  BY <1>1, <1>2, <1>17, OrderKept DEF PollAnswered, PollSilent, PollIo, LoseLink, vars, Parking
<1> QED
  BY <1>3, <1>4, <1>5, <1>6, <1>7, <1>8, <1>10, <1>11, <1>12, <1>13, <1>14, <1>15, <1>16, <1>17
     DEF Next, CallerStep, ThreadStep, WaitTakes

-----------------------------------------------------------------------------
(* What the registry shows. *)

\* Where the thread's place and the requests that were sent say what is wanted.
LEMMA WantedHere ==
  ASSUME IInv, BegunInv, OrderInv, Held
  PROVE  /\ pc \in {"presence", "parked"} => entry.parked \/ Underway("unpark")
         /\ pc \notin {"presence", "parked", "closing"} => ~entry.parked \/ Underway("park")
<1>1. CASE Begun # {}
  <2>1. PICK r \in Begun : TRUE
    BY <1>1
  <2>2. r \in Control /\ stage[r] = "begun" /\ KindOf[r] \in {"park", "unpark"}
    BY RequestsAssumption DEF Begun, Control, Data, ControlKinds
  <2> QED
    BY <2>2, <2>1 DEF BegunInv, Underway
<1>2. CASE Begun = {} /\ NoneQueued
  BY <1>2 DEF OrderInv, Want, Parking
<1>3. CASE Begun = {} /\ ~NoneQueued
  <2>1. PICK i \in 1..Len(queue) : LastAt(i)
    BY <1>3, LastControl DEF IInv
  <2>2. queue[i] \in Control /\ (KindOf[queue[i]] = "park" <=> entry.parked)
    BY <1>3, <2>1 DEF OrderInv, Want, LastAt
  <2>3. stage[queue[i]] = "queued" /\ KindOf[queue[i]] \in {"park", "unpark"}
    BY <2>2, RequestsAssumption DEF IInv, QueueInv, Control, Data, ControlKinds
  <2> QED
    BY <2>2, <2>3 DEF Underway
<1> QED
  BY <1>1, <1>2, <1>3

\* A request under way stays so until the thread takes it.
LEMMA UnderwayKept ==
  ASSUME TypeOK, NEW r \in Requests, NEW s \in {"idle", "begun", "queued", "taken", "done"},
         stage' = [stage EXCEPT ![r] = s], NEW kind,
         \/ s \in {"begun", "queued"} \/ r \notin Control \/ KindOf[r] # kind
         \/ stage[r] \notin {"begun", "queued"}
  PROVE  Underway(kind) => Underway(kind)'
  BY DEF TypeOK, Underway, Control, Data

\* A step that keeps the registry's mark and what is under way.
LEMMA ShownKept ==
  ASSUME ShownInv, Held, UNCHANGED entry, reg'.parked = reg.parked, UNCHANGED seen,
         Underway("park") => Underway("park")', Underway("unpark") => Underway("unpark")',
         \/ pc' = pc
         \/ {pc, pc'} \subseteq {"connect", "serve", "busy", "backoff"}
         \/ pc = "parked" /\ pc' = "presence"
  PROVE  ShownInv'
  BY DEF ShownInv, Held

LEMMA ShownStep ==
  IInv /\ BegunInv /\ StopInv /\ OrderInv /\ ShownInv /\ [Next]_vars => ShownInv'
<1> SUFFICES ASSUME IInv, BegunInv, StopInv, OrderInv, ShownInv, [Next]_vars, Held'
             PROVE  ShownInv'
  BY DEF ShownInv
<1> USE DEF linkVars, callerVars, parking
<1>1. /\ Held /\ pc # "stopped" /\ (pc = "closing" => current # Stop)
      /\ TypeOK /\ reg \in Registry /\ \A i \in 1..Len(queue) : queue[i] # Stop
  BY HeldBefore DEF StopInv, IInv, TypeOK
<1>2. ASSUME UNCHANGED stage, NEW kind PROVE Underway(kind)' <=> Underway(kind)
  BY <1>2 DEF Underway, Control, Data
<1>3. ASSUME NEW r \in Requests, CountRequest(r) \/ Send(r) PROVE ShownInv'
  <2>1. stage' = [stage EXCEPT ![r] = "begun"] \/ stage' = [stage EXCEPT ![r] = "queued"]
    BY <1>1, <1>3 DEF CountRequest, Send, SendOpen, SendClosed
  <2>2. \A kind : Underway(kind) => Underway(kind)'
    BY <1>1, <2>1, UnderwayKept
  <2> QED
    BY <1>1, <1>3, <2>2, ShownKept DEF CountRequest, Send
<1>4. ASSUME NEW r \in Requests, Mark(r) \/ SaveFails(r) PROVE ShownInv'
  <2>1. CASE Mark(r)
    <3>1. reg' = Marked(reg, KindOf[r] = "park") /\ entry'.parked = (KindOf[r] = "park")
      BY <2>1 DEF Mark
    <3>2. reg'.parked = (KindOf[r] = "park")
      BY <1>1, <3>1 DEF Marked, Registry
    <3> QED
      BY <3>1, <3>2 DEF ShownInv
  <2>2. CASE SaveFails(r)
    <3>1. reg' = Marked(reg, entry.was) /\ entry'.parked = entry.was
      BY <1>1, <2>2 DEF SaveFails, Held, TypeOK
    <3>2. reg'.parked = entry.was
      BY <1>1, <3>1 DEF Marked, Registry
    <3> QED
      BY <3>1, <3>2 DEF ShownInv
  <2> QED
    BY <1>4, <2>1, <2>2
<1>5. ASSUME NEW r \in Requests, GiveUp(r) \/ HangUp(r) PROVE ShownInv'
  BY <1>1, <1>2, <1>5, ShownKept DEF GiveUp, HangUp
<1>6. CASE StopDevice \/ Joined \/ WaitStop \/ CloseStop
  BY <1>1, <1>6 DEF StopDevice, Joined, Held, WaitStop, CloseStop, TypeOK
<1>7. CASE ConnectOk \/ ConnectFail \/ WaitElapsed
  <2>1. reg'.parked = reg.parked
    BY <1>1, <1>7 DEF ConnectOk, ConnectFail, WaitElapsed, OnConnected, OnDisconnected, Registry
  <2>2. UNCHANGED <<stage, entry, seen>>
    BY <1>7 DEF ConnectOk, ConnectFail, WaitElapsed
  <2>3. \/ {pc, pc'} \subseteq {"connect", "serve", "busy", "backoff"}
        \/ pc = "parked" /\ pc' = "presence"
    BY <1>7 DEF ConnectOk, ConnectFail, WaitElapsed, Waiting
  <2> QED
    BY <1>1, <1>2, <2>1, <2>2, <2>3, ShownKept
<1>8. ASSUME NEW r \in Requests, WaitRefuse(r) \/ ServeTake(r) PROVE ShownInv'
  <2>1. r \notin Control
    BY <1>8 DEF WaitRefuse, ServeTake, Control
  <2>2. stage' = [stage EXCEPT ![r] = "taken"] \/ stage' = [stage EXCEPT ![r] = "done"]
    BY <1>8 DEF WaitRefuse, ServeTake
  <2>3. \A kind : Underway(kind) => Underway(kind)'
    BY <1>1, <2>1, <2>2, UnderwayKept
  <2> QED
    BY <1>1, <1>8, <2>3, ShownKept DEF WaitRefuse, ServeTake
<1>9. ASSUME NEW r \in Requests, BackoffControl(r) \/ ParkedControl(r) \/ ServeUnpark(r)
      PROVE  ShownInv'
  <2>1. /\ r \in Control /\ stage' = [stage EXCEPT ![r] = "done"] /\ UNCHANGED <<reg, entry>>
        /\ KindOf[r] \in {"park", "unpark"}
    BY <1>9, RequestsAssumption
       DEF BackoffControl, ParkedControl, ServeUnpark, AnswerControl, Control, Data, ControlKinds
  <2>2. \A kind : kind # KindOf[r] => (Underway(kind) => Underway(kind)')
    BY <1>1, <2>1, UnderwayKept
  <2>3. CASE KindOf[r] = "park"
    <3>1. pc' = "presence" /\ ((pc = "parked" /\ seen' = seen) \/ seen' = "unknown")
      BY <1>9, <2>3 DEF BackoffControl, ParkedControl, ServeUnpark
    <3> QED
      BY <1>1, <2>1, <2>2, <2>3, <3>1 DEF ShownInv
  <2>4. CASE KindOf[r] = "unpark"
    <3>1. \/ pc' = "unparking"
          \/ {pc, pc'} \subseteq {"connect", "serve", "busy", "backoff"}
      BY <1>9, <2>4 DEF BackoffControl, ParkedControl, ServeUnpark
    <3> QED
      BY <1>1, <2>1, <2>2, <2>4, <3>1 DEF ShownInv
  <2> QED
    BY <2>1, <2>3, <2>4
<1>10. ASSUME NEW present \in {"yes", "no"}, CheckPresence(present) PROVE ShownInv'
  <2>1. /\ pc = "presence" /\ pc' = "parked" /\ UNCHANGED <<stage, entry>>
        /\ reg' = IF seen = present THEN reg ELSE OnParked(reg, present)
    BY <1>10 DEF CheckPresence
  <2>2. CASE seen = present
    BY <1>1, <1>2, <2>1, <2>2 DEF ShownInv
  <2>3. CASE seen # present
    <3>1. reg'.parked = TRUE
      BY <1>1, <2>1, <2>3 DEF OnParked, Registry
    <3>2. entry.parked \/ Underway("unpark")
      BY <1>1, <2>1, WantedHere
    <3> QED
      BY <1>2, <2>1, <3>1, <3>2 DEF ShownInv
  <2> QED
    BY <2>2, <2>3
<1>11. CASE Unpark
  <2>1. reg'.parked = FALSE /\ pc' = "connect" /\ UNCHANGED <<stage, entry>>
    BY <1>1, <1>11 DEF Unpark, OnUnparked, Registry
  <2>2. ~entry.parked \/ Underway("park")
    BY <1>1, <1>11, WantedHere DEF Unpark
  <2> QED
    BY <1>2, <2>1, <2>2 DEF ShownInv
<1>12. ASSUME NEW m \in Requests \cup {Stop}, ServeEnd(m) PROVE ShownInv'
  BY <1>12 DEF ServeEnd, ShownInv
<1>13. ASSUME NEW outcome \in {"ok", "error", "io"}, NEW touched \in BOOLEAN,
              Finish(outcome, touched)
       PROVE  ShownInv'
  <2>1. current \in Requests /\ stage[current] = "taken"
    BY <1>13 DEF Finish, IInv, CurrentInv, Data
  <2>2. \A kind : Underway(kind) => Underway(kind)'
    BY <1>1, <1>13, <2>1, UnderwayKept DEF Finish
  <2>3. reg'.parked = reg.parked
    BY <1>1, <1>13 DEF Finish, LoseLink, OnDisconnected, Registry
  <2>4. UNCHANGED <<entry, seen>> /\ {pc, pc'} \subseteq {"serve", "busy", "backoff"}
    BY <1>13 DEF Finish, LoseLink
  <2> QED
    BY <1>1, <2>2, <2>3, <2>4, ShownKept
<1>14. CASE ClosePark
  BY <1>14 DEF ClosePark, ShownInv
<1>15. CASE PollAnswered \/ PollSilent \/ PollIo
  <2>1. reg'.parked = reg.parked
    BY <1>1, <1>15
       DEF PollAnswered, PollSilent, PollIo, LoseLink, OnStatus, OnDisconnected, Registry
  <2>2. UNCHANGED <<stage, entry, seen>> /\ {pc, pc'} \subseteq {"serve", "busy", "backoff"}
    BY <1>15 DEF PollAnswered, PollSilent, PollIo, LoseLink
  <2> QED
    BY <1>1, <1>2, <2>1, <2>2, ShownKept
<1>16. CASE UNCHANGED vars
  BY <1>1, <1>2, <1>16, ShownKept DEF vars
<1> QED
  BY <1>3, <1>4, <1>5, <1>6, <1>7, <1>8, <1>9, <1>10, <1>11, <1>12, <1>13, <1>14, <1>15, <1>16
     DEF Next, CallerStep, ThreadStep, WaitTakes

-----------------------------------------------------------------------------

LEMMA InitRInv == Init => RInv
<1> SUFFICES ASSUME Init PROVE RInv
  OBVIOUS
<1>1. Begun = {} /\ NoneQueued /\ Len(queue) = 0
  <2>1. queue = <<>> /\ Len(queue) = 0 /\ \A r \in Requests : stage[r] = "idle"
    BY DEF Init
  <2> QED
    BY <2>1 DEF Begun, NoneQueued, Control
<1>2. BegunInv /\ StopInv /\ OrderInv
  BY <1>1 DEF Init, BegunInv, StopInv, OrderInv, Want, Parking
<1>3. ShownInv /\ ConnectedInv
  BY DEF Init, ShownInv, ConnectedInv
<1> QED
  BY <1>2, <1>3, InitIInv DEF RInv

LEMMA RInvariance == Spec => []RInv
<1>1. RInv /\ IInv' /\ [Next]_vars => RInv'
  BY BegunStep, StopStep, OrderStep, ShownStep, ConnectedStep DEF RInv
<1> QED
  BY <1>1, InitRInv, Invariance, PTL DEF Spec

\* The registry shows readings only with a connection, a connection only while there is
\* one, and a parked thread as parked (Registry::apply, mark_parked and the thread's
\* events, in whatever order they come).
THEOREM RegistryIsTruthful == Spec => []RegistryTruthful
<1>1. RInv => RegistryTruthful
  <2> SUFFICES ASSUME RInv PROVE RegistryTruthful
    OBVIOUS
  <2>1. ASSUME pc = "parked", handle = "held", ~overtaken
        PROVE  reg.parked \/ Underway("unpark")
    BY <2>1, WantedHere DEF RInv, ShownInv, Held
  <2> QED
    BY <2>1 DEF RegistryTruthful, RInv, ConnectedInv, Underway
<1> QED
  BY <1>1, RInvariance, PTL

\* However many park and unpark requests were queued, given up, hung up on or not saved:
\* once they are settled, thread and registry are as the configuration entry says
\* (set_parked), as long as none was marked while another was not sent yet.
THEOREM LastWordCounts == Spec => []LastWordWins
<1>1. RInv => LastWordWins
  <2> SUFFICES ASSUME RInv, pc # "stopped", handle = "held", Settled, ~overtaken
               PROVE  /\ (pc \in {"presence", "parked"}) = entry.parked
                      /\ pc \notin {"presence", "unparking"} => reg.parked = entry.parked
    BY DEF LastWordWins
  <2>1. Held /\ Begun = {} /\ ~Underway("park") /\ ~Underway("unpark")
    BY DEF Held, Begun, Underway, Settled
  <2>2. NoneQueued
    <3> SUFFICES ASSUME NEW i \in 1..Len(queue), queue[i] \in Control PROVE FALSE
      BY DEF NoneQueued
    <3>1. queue[i] # Stop
      BY RequestsAssumption DEF Control
    <3> QED
      BY <3>1 DEF RInv, IInv, QueueInv, Settled
  <2>3. pc # "closing"
    BY <2>1 DEF RInv, IInv, CurrentInv, StopInv, Settled
  <2>4. (pc \in {"presence", "parked"}) <=> entry.parked
    BY <2>1, <2>2, <2>3 DEF RInv, OrderInv, Parking, Want
  <2>5. entry.parked \in BOOLEAN /\ reg.parked \in BOOLEAN
    BY DEF RInv, IInv, TypeOK, Registry
  <2>6. pc \notin {"presence", "unparking"} => (reg.parked <=> entry.parked)
    BY <2>1, <2>3 DEF RInv, ShownInv, IInv, TypeOK
  <2> QED
    BY <2>4, <2>5, <2>6
<1> QED
  BY <1>1, RInvariance, PTL

-----------------------------------------------------------------------------
(* The thread implements the contract. *)

TakenInv ==
  \A r \in Requests : stage[r] = "taken" => pc \in {"busy", "closing"} /\ current = r

State == [r \in Requests |-> StateOf(r)]

-----------------------------------------------------------------------------
(* What is taken is in the thread's hands. *)

LEMMA TakenStep == IInv /\ TakenInv /\ [Next]_vars => TakenInv'
<1> SUFFICES ASSUME IInv, TakenInv, [Next]_vars PROVE TakenInv'
  OBVIOUS
<1> USE RequestsAssumption DEF IInv, TypeOK, callerVars, linkVars, parking, TakenInv
<1>1. CASE UNCHANGED <<pc, current, stage>>
  BY <1>1
<1>2. ASSUME NEW r \in Requests, CountRequest(r) \/ Mark(r) \/ SaveFails(r) PROVE TakenInv'
  BY <1>2 DEF CountRequest, Mark, SaveFails
<1>3. ASSUME NEW r \in Requests, Send(r) PROVE TakenInv'
  BY <1>3 DEF Send, SendOpen, SendClosed
<1>4. ASSUME NEW r \in Requests, ServeTake(r) PROVE TakenInv'
  BY <1>4 DEF ServeTake
<1>5. ASSUME NEW m \in Requests \cup {Stop}, ServeEnd(m) PROVE TakenInv'
  BY <1>5 DEF ServeEnd
<1>6. ASSUME NEW r \in Requests,
             WaitRefuse(r) \/ BackoffControl(r) \/ ParkedControl(r) \/ ServeUnpark(r)
      PROVE  TakenInv'
  BY <1>6 DEF WaitRefuse, BackoffControl, ParkedControl, ServeUnpark, AnswerControl, Waiting
<1>7. ASSUME NEW outcome \in {"ok", "error", "io"}, NEW touched \in BOOLEAN,
             Finish(outcome, touched)
      PROVE  TakenInv'
  BY <1>7 DEF Finish
<1>8. CASE ClosePark
  BY <1>8 DEF ClosePark, AnswerControl
<1>9. CASE WaitStop \/ CloseStop
  BY <1>9 DEF WaitStop, CloseStop, ThreadEnds, Waiting
<1>10. ASSUME NEW present \in {"yes", "no"}, CheckPresence(present) PROVE TakenInv'
  BY <1>10 DEF CheckPresence
<1>11. CASE ConnectOk \/ ConnectFail \/ WaitElapsed \/ Unpark
  BY <1>11 DEF ConnectOk, ConnectFail, WaitElapsed, Unpark, Waiting
<1>12. CASE PollAnswered \/ PollSilent \/ PollIo
  BY <1>12 DEF PollAnswered, PollSilent, PollIo, LoseLink
<1>13. ASSUME NEW r \in Requests, GiveUp(r) \/ HangUp(r) PROVE TakenInv'
  BY <1>1, <1>13 DEF GiveUp, HangUp
<1>14. CASE StopDevice \/ Joined \/ UNCHANGED vars
  BY <1>1, <1>14 DEF StopDevice, Joined, vars
<1>. QED
  BY <1>2, <1>3, <1>4, <1>5, <1>6, <1>7, <1>8, <1>9, <1>10, <1>11, <1>12, <1>13, <1>14
     DEF Next, CallerStep, ThreadStep, WaitTakes

-----------------------------------------------------------------------------
(* How the steps look through the mapping. *)

\* A request that moves from one stage to another.
LEMMA Moves ==
  ASSUME TypeOK, NEW r \in Requests,
         NEW s \in {"idle", "begun", "queued", "taken", "done"},
         stage' = [stage EXCEPT ![r] = s]
  PROVE  /\ s \in {"idle", "begun"} => State' = [State EXCEPT ![r] = "new"]
         /\ s \in {"queued", "taken"} => State' = [State EXCEPT ![r] = "pending"]
         /\ s = "done" => State' = [State EXCEPT ![r] = "settled"]
  BY DEF TypeOK, State, StateOf

\* Where a request is seen.
LEMMA Seen ==
  ASSUME TypeOK, NEW r \in Requests
  PROVE  /\ stage[r] \in {"idle", "begun"} => State[r] = "new"
         /\ stage[r] \in {"queued", "taken"} => State[r] = "pending"
         /\ stage[r] = "done" => State[r] = "settled"
  BY DEF TypeOK, State, StateOf

\* Stages that mean the same.
LEMMA Same ==
  ASSUME TypeOK, NEW r \in Requests,
         NEW s \in {"idle", "begun", "queued", "taken", "done"},
         stage' = [stage EXCEPT ![r] = s],
         \/ {stage[r], s} \subseteq {"idle", "begun"}
         \/ {stage[r], s} \subseteq {"queued", "taken"}
  PROVE  State' = State
  BY DEF TypeOK, State, StateOf

LEMMA Unmoved == stage' = stage => State' = State
  BY DEF State, StateOf

\* The contract's data requests.
LEMMA SameData == Service!Data = Data
  BY DEF Service!Data, Data, DataKinds

Stutters == Service!vars' = Service!vars

\* A step that changes nothing the contract speaks of.
LEMMA Stuttering ==
  ASSUME State' = State, UNCHANGED <<told, carried, link, lastCtl>>,
         pc' = "stopped" <=> pc = "stopped"
  PROVE  Stutters
<1>1. ((link = "open")' = (link = "open")) /\ ((lastCtl = "park")' = (lastCtl = "park"))
  OBVIOUS
<1>2. (pc = "stopped")' = (pc = "stopped")
  OBVIOUS
<1> QED
  BY <1>1, <1>2 DEF Stutters, Service!vars, State

-----------------------------------------------------------------------------
(* The steps of the callers. *)

LEMMA CallerSteps ==
  ASSUME IInv, NEW r \in Requests, CallerStep(r)
  PROVE  Service!Next \/ Stutters
<1> USE DEF callerVars, linkVars, parking
<1>1. TypeOK
  BY DEF IInv
<1>2. CASE CountRequest(r) \/ Mark(r)
  <2>1. State' = State
    BY <1>1, <1>2, Same DEF CountRequest, Mark
  <2>2. UNCHANGED <<told, carried, link, lastCtl, pc>>
    BY <1>2 DEF CountRequest, Mark
  <2> QED
    BY <2>1, <2>2, Stuttering
<1>3. CASE SaveFails(r)
  <2>1. State[r] = "new" /\ State' = [State EXCEPT ![r] = "settled"] /\ r \notin Service!Data
    BY <1>1, <1>3, Seen, Moves, SameData DEF SaveFails, Control
  <2>2. /\ told[r] = "nothing" /\ told' = [told EXCEPT ![r] = "error"]
        /\ UNCHANGED <<carried, link, lastCtl, pc>>
    BY <1>3 DEF SaveFails
  <2>3. Service!Decline(r)
    BY <2>1, <2>2 DEF Service!Decline, State
  <2> QED
    BY <2>3 DEF Service!Next
<1>4. CASE Send(r) /\ SendOpen(r)
  <2>1. State[r] = "new" /\ State' = [State EXCEPT ![r] = "pending"]
    BY <1>1, <1>4, Seen, Moves DEF Send, SendOpen
  <2>2. pc # "stopped" /\ UNCHANGED <<told, carried, link, lastCtl, pc>>
    BY <1>4 DEF Send, SendOpen
  <2>3. Service!Submit(r)
    BY <2>1, <2>2 DEF Service!Submit, State
  <2> QED
    BY <2>3 DEF Service!Next
<1>5. CASE Send(r) /\ SendClosed(r)
  <2>1. State[r] = "new" /\ State' = [State EXCEPT ![r] = "settled"]
    BY <1>1, <1>5, Seen, Moves DEF Send, SendClosed
  <2>2. /\ pc = "stopped" /\ UNCHANGED <<carried, link, lastCtl, pc>>
        /\ told' = [told EXCEPT ![r] = IF @ = "nothing" THEN "gone" ELSE @]
    BY <1>5 DEF Send, SendClosed
  <2>3. Service!SubmitTooLate(r)
    BY <2>1, <2>2 DEF Service!SubmitTooLate, State
  <2> QED
    BY <2>3 DEF Service!Next
<1>6. CASE GiveUp(r)
  <2>1. State[r] # "new" /\ State' = State
    BY <1>1, <1>6, Seen, Unmoved DEF GiveUp
  <2>2. /\ told[r] = "nothing" /\ UNCHANGED <<carried, link, lastCtl, pc>>
        /\ told' = [told EXCEPT ![r] = "timeout"]
    BY <1>6 DEF GiveUp
  <2>3. Service!GiveUp(r)
    BY <2>1, <2>2 DEF Service!GiveUp, State
  <2> QED
    BY <2>3 DEF Service!Next
<1>7. CASE HangUp(r)
  <2>1. State[r] = "new" /\ State' = State /\ r \notin Service!Data
    BY <1>1, <1>7, Seen, Unmoved, SameData DEF HangUp, Control
  <2>2. /\ told[r] = "nothing" /\ UNCHANGED <<carried, link, lastCtl, pc>>
        /\ told' = [told EXCEPT ![r] = "hung_up"]
    BY <1>7 DEF HangUp
  <2>3. Service!HangUp(r)
    BY <2>1, <2>2 DEF Service!HangUp, State
  <2> QED
    BY <2>3 DEF Service!Next
<1> QED
  BY <1>2, <1>3, <1>4, <1>5, <1>6, <1>7 DEF CallerStep, Send

-----------------------------------------------------------------------------
(* The steps of the thread. *)

\* A request that was received is settled: refused, parked or unparked.
LEMMA WaitTakesSteps ==
  ASSUME IInv, NEW r \in Requests, WaitRefuse(r) \/ BackoffControl(r) \/ ParkedControl(r)
  PROVE  Service!Next
<1> USE DEF callerVars, linkVars, parking
<1>1. Receive(r) /\ r # Stop /\ pc \in Waiting
  BY RequestsAssumption DEF WaitRefuse, BackoffControl, ParkedControl, Waiting
<1>2. State[r] = "pending"
  BY <1>1, ReceiveQueued, Seen DEF IInv
<1>3. stage' = [stage EXCEPT ![r] = "done"]
  BY DEF WaitRefuse, BackoffControl, ParkedControl, AnswerControl
<1>4. State' = [State EXCEPT ![r] = "settled"]
  BY <1>3, Moves DEF IInv
<1>5. link = "closed" /\ pc # "stopped"
  BY <1>1 DEF IInv, LinkInv, Waiting, TypeOK
<1>6. UNCHANGED <<link, carried>> /\ pc' # "stopped"
  BY <1>5 DEF WaitRefuse, BackoffControl, ParkedControl
<1>7. CASE WaitRefuse(r)
  <2>1. r \in Service!Data
    BY <1>7, SameData DEF WaitRefuse
  <2>2. Service!Settle(r, "refused")
    BY <1>2, <1>4, <1>7 DEF WaitRefuse, Answer, Service!Settle, State
  <2>3. Service!Refuse(r)
    BY <1>5, <1>6, <1>7, <2>1, <2>2 DEF WaitRefuse, Service!Refuse
  <2> QED
    BY <2>3 DEF Service!Next
<1>8. CASE BackoffControl(r) \/ ParkedControl(r)
  <2>1. r \in Control /\ Answer(r, "ok") /\ lastCtl' = KindOf[r]
    BY <1>8 DEF BackoffControl, ParkedControl, AnswerControl
  <2>2. Service!Settle(r, "ok")
    BY <1>2, <1>4, <2>1 DEF Answer, Service!Settle, State
  <2>3. KindOf[r] \in {"park", "unpark"}
    BY <2>1, RequestsAssumption DEF Control, Data, ControlKinds
  <2>4. CASE KindOf[r] = "park"
    BY <1>5, <1>6, <2>1, <2>2, <2>4 DEF Service!Park, Service!Next
  <2>5. CASE KindOf[r] = "unpark"
    BY <1>5, <1>6, <2>1, <2>2, <2>5 DEF Service!Unpark, Service!Next
  <2> QED
    BY <2>3, <2>4, <2>5
<1> QED
  BY <1>7, <1>8

\* A request that is taken stays pending; one to unpark is answered at once.
LEMMA ServeSteps ==
  ASSUME IInv,
         \/ \E r \in Requests : ServeTake(r) \/ ServeUnpark(r)
         \/ \E m \in Requests \cup {Stop} : ServeEnd(m)
  PROVE  Service!Next \/ Stutters
<1> USE DEF callerVars, linkVars, parking
<1>1. ASSUME NEW r \in Requests, ServeTake(r) \/ ServeEnd(r) PROVE Stutters
  <2>1. Receive(r) /\ r # Stop /\ stage' = [stage EXCEPT ![r] = "taken"] /\ pc = "serve"
    BY <1>1, RequestsAssumption DEF ServeTake, ServeEnd
  <2>2. State' = State
    BY <2>1, ReceiveQueued, Same DEF IInv
  <2>3. UNCHANGED <<told, carried, link, lastCtl>> /\ pc' # "stopped"
    BY <1>1 DEF ServeTake, ServeEnd
  <2> QED
    BY <2>1, <2>2, <2>3, Stuttering
<1>2. ASSUME ServeEnd(Stop) PROVE Stutters
  <2>1. UNCHANGED <<stage, told, carried, link, lastCtl>> /\ pc = "serve" /\ pc' = "closing"
    BY <1>2 DEF ServeEnd
  <2> QED
    BY <2>1, Unmoved, Stuttering
<1>3. ASSUME NEW r \in Requests, ServeUnpark(r) PROVE Service!Next
  <2>1. Receive(r) /\ r # Stop /\ stage' = [stage EXCEPT ![r] = "done"]
    BY <1>3, RequestsAssumption DEF ServeUnpark, AnswerControl
  <2>2. State[r] = "pending" /\ State' = [State EXCEPT ![r] = "settled"]
    BY <2>1, ReceiveQueued, Seen, Moves DEF IInv
  <2>3. Service!Settle(r, "ok")
    BY <1>3, <2>2 DEF ServeUnpark, AnswerControl, Answer, Service!Settle, State
  <2>4. Service!Unpark(r)
    BY <1>3, <2>3 DEF ServeUnpark, AnswerControl, Service!Unpark
  <2> QED
    BY <2>4 DEF Service!Next
<1> QED
  BY <1>1, <1>2, <1>3

\* The answer to a get or set.
LEMMA FinishSteps ==
  ASSUME IInv, NEW outcome \in {"ok", "error", "io"}, NEW touched \in BOOLEAN,
         Finish(outcome, touched)
  PROVE  Service!Next
<1> DEFINE result == IF outcome = "ok" THEN "ok" ELSE "error"
<1>1. current \in Data /\ current \in Requests /\ stage[current] = "taken" /\ pc = "busy"
  BY DEF Finish, IInv, CurrentInv, Data
<1>2. State[current] = "pending" /\ State' = [State EXCEPT ![current] = "settled"]
  BY <1>1, Seen, Moves DEF IInv, Finish
<1>3. Service!Settle(current, result)
  BY <1>2 DEF Finish, Answer, Service!Settle, State
<1>4. /\ carried' \in {carried, carried \cup {current}}
      /\ result = "ok" /\ KindOf[current] = "set" => current \in carried'
  BY DEF Finish
<1>5. /\ link = "open" /\ lastCtl' = lastCtl /\ pc # "stopped" /\ pc' # "stopped"
      /\ link' = "open" \/ (link' = "closed" /\ result = "error")
  BY <1>1 DEF Finish, LoseLink, IInv, LinkInv, parking
<1>6. Service!Serve(current, result)
  BY <1>1, <1>3, <1>4, <1>5, SameData DEF Service!Serve
<1> QED
  BY <1>1, <1>6 DEF Service!Next

\* A park request that was taken, the end of the thread, and the link.
LEMMA ParkSteps ==
  ASSUME IInv, ClosePark
  PROVE  Service!Next
<1>1. /\ current \in Requests /\ KindOf[current] = "park" /\ stage[current] = "taken"
  BY DEF ClosePark, IInv, CurrentInv, Control
<1>2. State[current] = "pending" /\ State' = [State EXCEPT ![current] = "settled"]
  BY <1>1, Seen, Moves DEF IInv, ClosePark, AnswerControl
<1>3. Service!Settle(current, "ok")
  BY <1>2 DEF ClosePark, AnswerControl, Answer, Service!Settle, State
<1>4. Service!Park(current)
  BY <1>1, <1>3 DEF ClosePark, ReleaseSession, AnswerControl, Service!Park
<1> QED
  BY <1>1, <1>4 DEF Service!Next

LEMMA EndSteps ==
  ASSUME IInv, TakenInv, WaitStop \/ CloseStop
  PROVE  Service!Next
<1>1. /\ pc # "stopped" /\ pc' = "stopped" /\ link' = "closed"
      /\ UNCHANGED <<told, carried, lastCtl>>
      /\ stage' = [r \in Requests |-> IF stage[r] = "queued" THEN "done" ELSE stage[r]]
  BY DEF WaitStop, CloseStop, ThreadEnds, ReleaseSession, Waiting, IInv, TypeOK, LinkInv,
         linkVars, parking
<1>2. \A r \in Requests : stage[r] # "taken"
  BY RequestsAssumption DEF WaitStop, CloseStop, TakenInv, Waiting
<1>3. State' = [r \in Requests |-> IF State[r] = "pending" THEN "settled" ELSE State[r]]
  BY <1>1, <1>2 DEF State, StateOf, IInv, TypeOK
<1>4. Service!End
  BY <1>1, <1>3 DEF Service!End, State
<1> QED
  BY <1>4 DEF Service!Next

LEMMA LinkSteps ==
  ASSUME IInv,
         \/ ConnectOk \/ ConnectFail \/ WaitElapsed \/ Unpark \/ PollAnswered \/ PollSilent
         \/ PollIo \/ StopDevice \/ Joined \/ \E present \in {"yes", "no"} : CheckPresence(present)
  PROVE  Service!Next \/ Stutters
<1> USE DEF callerVars, linkVars, parking
<1>1. /\ UNCHANGED <<stage, told, carried, lastCtl>>
      /\ (pc' = "stopped") = (pc = "stopped")
  BY DEF ConnectOk, ConnectFail, WaitElapsed, Unpark, PollAnswered, PollSilent, PollIo, LoseLink,
     StopDevice, Joined, CheckPresence, Waiting
<1>2. State' = State
  BY <1>1, Unmoved
<1>3. CASE ConnectOk
  <2>1. link = "closed" /\ link' = "open" /\ lastCtl # "park" /\ pc # "stopped"
    BY <1>3 DEF ConnectOk, IInv, TypeOK, LinkInv
  <2>2. Service!Connect
    BY <1>1, <1>2, <2>1 DEF Service!Connect, State
  <2> QED
    BY <2>2 DEF Service!Next
<1>4. CASE link = "open" /\ link' = "closed"
  <2>1. Service!Lose
    BY <1>1, <1>2, <1>4 DEF Service!Lose, State
  <2> QED
    BY <2>1 DEF Service!Next
<1>5. CASE link' = link
  BY <1>1, <1>2, <1>5, Stuttering
<1>6. ConnectOk \/ (link = "open" /\ link' = "closed") \/ link' = link
  BY DEF ConnectFail, WaitElapsed, Unpark, PollAnswered, PollSilent, PollIo, LoseLink,
     StopDevice, Joined, CheckPresence, IInv, LinkInv
<1> QED
  BY <1>3, <1>4, <1>5, <1>6

-----------------------------------------------------------------------------

\* The first state of the thread is one of the contract's.
LEMMA InitMaps == Init => Service!Init /\ TakenInv
<1> SUFFICES ASSUME Init PROVE Service!Init /\ TakenInv
  OBVIOUS
<1>1. [r \in Requests |-> StateOf(r)] = [r \in Requests |-> "new"]
  BY DEF Init, StateOf
<1> QED
  BY <1>1 DEF Init, Service!Init, TakenInv

\* Every step of the thread, its callers or Devices::stop is one of the contract's or
\* invisible to it.
LEMMA StepMaps == IInv /\ TakenInv /\ [Next]_vars => [Service!Next]_(Service!vars)
<1> SUFFICES ASSUME IInv, TakenInv, [Next]_vars PROVE Service!Next \/ Stutters
  BY DEF Stutters
<1>1. CASE ThreadStep
  BY <1>1, WaitTakesSteps, ServeSteps, FinishSteps, ParkSteps, EndSteps, LinkSteps
     DEF ThreadStep, WaitTakes
<1>2. CASE (\E r \in Requests : CallerStep(r)) \/ StopDevice \/ Joined
  BY <1>2, CallerSteps, LinkSteps
<1>3. CASE UNCHANGED vars
  BY <1>3, Unmoved, Stuttering DEF vars, callerVars, linkVars, parking
<1> QED
  BY <1>1, <1>2, <1>3 DEF Next

\* The thread with its queue, waits, polls and reconnects (actor.rs) keeps the contract
\* its callers rely on: a request is settled once, it reaches the instrument only over an
\* open link and when it is settled, and while parked the link stays closed.
THEOREM ThreadKeepsContract == Spec => KeepsContract
<1>1. IInv /\ TakenInv /\ [Next]_vars => TakenInv'
  BY TakenStep
<1> QED
  BY <1>1, InitMaps, StepMaps, Invariance, PTL DEF Spec, KeepsContract, Service!Spec
=============================================================================
