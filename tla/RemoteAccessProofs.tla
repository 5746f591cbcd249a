------------------------- MODULE RemoteAccessProofs -------------------------
(***************************************************************************)
(* Proofs about the settings, the listener and the sessions of             *)
(* RemoteAccess, for every set of requests, passwords, ports and           *)
(* addresses, and every limit.                                             *)
(*                                                                         *)
(* Two properties speak of moments when no change is in progress; IInv     *)
(* says what is true on the way there: at which step of a change the file  *)
(* and the listener are behind the settings (FollowInv, with at most one   *)
(* change in progress by AloneInv), and that a session that is no longer   *)
(* current has a change in progress that will end it (SessionInv).  The    *)
(* third is about the limiter: LimitInv says that the failures of the last *)
(* minute, with the sign-ins that have passed the limit and may yet fail,  *)
(* are never too many.                                                     *)
(***************************************************************************)
EXTENDS RemoteAccess, FiniteSetTheorems, WellFoundedInduction, TLAPS

-----------------------------------------------------------------------------
(* Numbers. *)

\* A set of numbers has a least one, if any.
LEMMA Least ==
  ASSUME NEW T \in SUBSET Nat, T # {}
  PROVE  \E m \in T : \A x \in T : m <= x
<1>1. PICK m \in T : \A x \in T : <<x, m>> \notin OpToRel(<, Nat)
  BY NatLessThanWellFounded, WFMin
<1>2. \A x \in T : ~(x < m)
  BY <1>1, Zenon DEF OpToRel
<1>. QED
  BY <1>2

-----------------------------------------------------------------------------
Config == [on : BOOLEAN, port : Ports \cup {Off.port}, control : Maybe, view : Maybe]
Request == [op : {"none", "settings", "password", "view"}, step : Steps, pw : Maybe,
            copy : Config]
SignIn == [step : {"idle", "copy", "verify", "create"}, ip : Addresses \cup {Out.ip},
           control : Maybe, view : Maybe]
Session == [id : Nat, role : {"control", "view"}, by : Maybe, since : Nat, seen : Nat,
            late : BOOLEAN]

\* Types of what the proofs are about; which steps a change has; there is always a
\* password.
Types ==
  /\ settings \in Config /\ file \in Config /\ req \in [Admins -> Request]
  /\ signIn \in [SignIns -> SignIn] /\ sessions \subseteq Session /\ now \in Nat
  /\ mixed \in BOOLEAN /\ unsaved \in BOOLEAN /\ error \in BOOLEAN
  /\ settings.control # None /\ file.control # None
  /\ \A a \in Admins :
       /\ req[a].step = "hash" => req[a].op \in {"password", "view"} /\ req[a].pw # None
       /\ req[a].step = "save" => req[a].copy.control # None
       /\ req[a].step \in {"close", "read", "open"} => req[a].op = "settings"

AloneInv ==
  ~mixed => \A a, b \in Admins : a # b => req[a].step = "idle" \/ req[b].step = "idle"

Closed == listening = 0 /\ open = {} /\ ~error
Known == open = {listening} \ {0}
Served == /\ Known /\ listening = (IF error THEN 0 ELSE Wanted(settings))
          /\ error => Wanted(settings) # 0

\* What holds while a alone changes something, at each of its steps.
OnTheWay(a) ==
  LET r == req[a] IN
  /\ r.step = "hash" => file = settings /\ Served
  /\ r.step = "save" => r.copy = settings /\ Known
  /\ r.step \in {"end", "close", "read", "open"} => file = settings
  /\ r.step \in {"save", "end"} /\ r.op # "settings" => Served
  /\ r.step \in {"end", "close"} => Known
  /\ r.step \in {"read", "open"} => Closed
  /\ r.step = "open" => r.copy = settings /\ Wanted(settings) # 0

FollowInv ==
  ~mixed /\ ~unsaved =>
    /\ Settled => file = settings /\ Served
    /\ \A a \in Admins : OnTheWay(a)

Current(s) == settings.on /\ settings[s.role] = s.by

\* a will end s.
WillEnd(a, s) ==
  /\ req[a].step \in {"save", "end"}
  /\ req[a].op = "settings" => ~req[a].copy.on
  /\ req[a].op = "view" => s.role = "view"

SessionInv ==
  ~unsaved => \A s \in sessions : s.late \/ Current(s) \/ \E a \in Admins : WillEnd(a, s)

IInv == Types /\ AloneInv /\ FollowInv /\ SessionInv

-----------------------------------------------------------------------------
(* IInv is inductive. *)

\* A server starts with its settings saved and followed, and no session.
LEMMA InitInv == Init => IInv
<1> SUFFICES ASSUME Init PROVE IInv
  OBVIOUS
<1>1. Off \in Config /\ Out \in SignIn
  BY DEF Off, Out, Config, SignIn, Maybe
<1>2. PICK p \in Passwords, on \in BOOLEAN : settings = [Off EXCEPT !.on = on, !.control = p]
  BY DEF Init
<1>3. settings \in Config /\ settings.control # None
  BY <1>1, <1>2, NoneAssumption DEF Config, Maybe
<1>4. Done \in Request /\ Done.step = "idle"
  BY <1>1 DEF Done, Request, Steps, Maybe
<1>5. Types
  BY <1>1, <1>3, <1>4 DEF Init, Types
<1>6. AloneInv /\ SessionInv
  BY <1>4 DEF Init, AloneInv, SessionInv
<1>7. Served /\ file = settings
  BY <1>3 DEF Init, Served, Known, Wanted
<1>8. \A a \in Admins : req[a].step = "idle"
  BY <1>4 DEF Init
<1>9. FollowInv
  BY <1>7, <1>8 DEF FollowInv, OnTheWay
<1>. QED
  BY <1>5, <1>6, <1>9 DEF IInv

\* Every step of a request of the app keeps IInv.
LEMMA AdminStep ==
  ASSUME IInv, NEW a \in Admins, Admin(a)
  PROVE  IInv'
<1> USE DEF IInv, signInVars, history
<1>0. Done \in Request /\ Done.step = "idle"
  BY DEF Done, Off, Config, Request, Steps, Maybe
<1>1. ASSUME NEW on \in BOOLEAN, NEW port \in Ports, PutSettings(a, on, port) PROVE IInv'
  <2>1. settings' \in Config /\ settings'.on = on /\ settings'.control = settings.control
        /\ settings'.view = settings.view
    BY <1>1, NoneAssumption DEF PutSettings, Types, Config, Request, Steps, Maybe
  <2>2. /\ req' \in [Admins -> Request] /\ \A b \in Admins \ {a} : req'[b] = req[b]
        /\ req'[a].op = "settings" /\ req'[a].step = "save" /\ req'[a].copy = settings'
    BY <1>1, <2>1 DEF PutSettings, Begin, Types, Config, Request, Steps, Maybe
  <2>3. /\ req[a].step = "idle" /\ (mixed' <=> mixed \/ \E b \in Admins : req[b].step # "idle")
        /\ mixed' \in BOOLEAN
        /\ UNCHANGED <<file, listening, open, error, signIn, sessions, now, unsaved>>
    BY <1>1 DEF PutSettings, Begin, Types
  <2>4. Types'
    BY <2>1, <2>2, <2>3 DEF Types, Config
  <2>5. AloneInv'
    BY <2>1, <2>2, <2>3 DEF Types, AloneInv
  <2>6. FollowInv'
    BY <2>1, <2>2, <2>3 DEF Types, AloneInv, FollowInv, OnTheWay, Settled, Served,
       Known, Closed, Wanted
  <2>7. SessionInv'
    BY <2>1, <2>2, <2>3 DEF Types, SessionInv, Current, WillEnd, Session
  <2>. QED
    BY <2>4, <2>5, <2>6, <2>7
<1>2. ASSUME NEW pw \in Passwords, PutPassword(a, pw) PROVE IInv'
  <2>1. /\ req' \in [Admins -> Request] /\ \A b \in Admins \ {a} : req'[b] = req[b]
        /\ req'[a].op \in {"password", "view"} /\ req'[a].step = "hash" /\ req'[a].pw # None
    BY <1>2, NoneAssumption DEF PutPassword, Begin, Types, Config, Request, Steps, Maybe
  <2>2. /\ req[a].step = "idle" /\ (mixed' <=> mixed \/ \E b \in Admins : req[b].step # "idle")
        /\ mixed' \in BOOLEAN
        /\ UNCHANGED <<settings, file, listening, open, error, signIn, sessions, now, unsaved>>
    BY <1>2 DEF PutPassword, Begin, Types
  <2>3. Types'
    BY <2>1, <2>2 DEF Types, Config
  <2>4. AloneInv'
    BY <2>1, <2>2 DEF Types, AloneInv
  <2>5. FollowInv'
    BY <2>1, <2>2 DEF Types, AloneInv, FollowInv, OnTheWay, Settled, Served, Known,
       Closed, Wanted
  <2>6. SessionInv'
    BY <2>1, <2>2 DEF Types, SessionInv, Current, WillEnd
  <2>. QED
    BY <2>3, <2>4, <2>5, <2>6
<1>3. ASSUME NEW pw \in Passwords, PutViewPassword(a, pw) PROVE IInv'
  <2>1. /\ req' \in [Admins -> Request] /\ \A b \in Admins \ {a} : req'[b] = req[b]
        /\ req'[a].op \in {"password", "view"} /\ req'[a].step = "hash" /\ req'[a].pw # None
    BY <1>3, NoneAssumption DEF PutViewPassword, Begin, Types, Config, Request, Steps, Maybe
  <2>2. /\ req[a].step = "idle" /\ (mixed' <=> mixed \/ \E b \in Admins : req[b].step # "idle")
        /\ mixed' \in BOOLEAN
        /\ UNCHANGED <<settings, file, listening, open, error, signIn, sessions, now, unsaved>>
    BY <1>3 DEF PutViewPassword, Begin, Types
  <2>3. Types'
    BY <2>1, <2>2 DEF Types, Config
  <2>4. AloneInv'
    BY <2>1, <2>2 DEF Types, AloneInv
  <2>5. FollowInv'
    BY <2>1, <2>2 DEF Types, AloneInv, FollowInv, OnTheWay, Settled, Served, Known,
       Closed, Wanted
  <2>6. SessionInv'
    BY <2>1, <2>2 DEF Types, SessionInv, Current, WillEnd
  <2>. QED
    BY <2>3, <2>4, <2>5, <2>6
<1>4. CASE DeleteViewPassword(a)
  <2>1. settings' \in Config /\ settings'.on = settings.on /\ settings'.port = settings.port
        /\ settings'.control = settings.control
    BY <1>4, NoneAssumption DEF DeleteViewPassword, Types, Config, Request, Steps, Maybe
  <2>2. /\ req' \in [Admins -> Request] /\ \A b \in Admins \ {a} : req'[b] = req[b]
        /\ req'[a].op = "view" /\ req'[a].step = "save" /\ req'[a].copy = settings'
    BY <1>4, <2>1 DEF DeleteViewPassword, Begin, Types, Config, Request, Steps, Maybe
  <2>3. /\ req[a].step = "idle" /\ (mixed' <=> mixed \/ \E b \in Admins : req[b].step # "idle")
        /\ mixed' \in BOOLEAN
        /\ UNCHANGED <<file, listening, open, error, signIn, sessions, now, unsaved>>
    BY <1>4 DEF DeleteViewPassword, Begin, Types
  <2>4. Types'
    BY <2>1, <2>2, <2>3 DEF Types, Config
  <2>5. AloneInv'
    BY <2>1, <2>2, <2>3 DEF Types, AloneInv
  <2>6. FollowInv'
    BY <2>1, <2>2, <2>3 DEF Types, AloneInv, FollowInv, OnTheWay, Settled, Served,
       Known, Closed, Wanted
  <2>7. SessionInv'
    BY <2>1, <2>2, <2>3 DEF Types, SessionInv, Current, WillEnd, Session
  <2>. QED
    BY <2>4, <2>5, <2>6, <2>7
<1>5. CASE SetPassword(a)
  <2>1. /\ settings' \in Config /\ settings'.on = settings.on /\ settings'.port = settings.port
        /\ settings'.control # None
        /\ req[a].op = "view" => settings'.control = settings.control
    BY <1>5 DEF SetPassword, Types, Config, Request, Steps, Maybe
  <2>2. /\ req' \in [Admins -> Request] /\ \A b \in Admins \ {a} : req'[b] = req[b]
        /\ req'[a].op = req[a].op /\ req'[a].step = "save" /\ req'[a].copy = settings'
    <3>1. settings' \in Config /\ req[a] \in Request
      BY <2>1 DEF Types
    <3>2. [req[a] EXCEPT !.step = "save", !.copy = settings'] \in Request
      BY <3>1 DEF Request, Steps
    <3>3. req' = [req EXCEPT ![a] = [req[a] EXCEPT !.step = "save", !.copy = settings']]
      BY <1>5 DEF SetPassword
    <3>. QED
      BY <3>1, <3>2, <3>3 DEF Types, Request
  <2>3. /\ req[a].step = "hash" /\ req[a].op \in {"password", "view"}
        /\ UNCHANGED <<file, listening, open, error, signIn, sessions, now, mixed, unsaved>>
    BY <1>5 DEF SetPassword, Types
  <2>4. Types'
    BY <2>1, <2>2, <2>3 DEF Types, Config
  <2>5. AloneInv'
    BY <2>1, <2>2, <2>3 DEF Types, AloneInv
  <2>6. FollowInv'
    BY <2>1, <2>2, <2>3 DEF Types, AloneInv, FollowInv, OnTheWay, Settled, Served,
       Known, Closed, Wanted
  <2>7. SessionInv'
    BY <2>1, <2>2, <2>3 DEF Types, SessionInv, Current, WillEnd, Session
  <2>. QED
    BY <2>4, <2>5, <2>6, <2>7
<1>6. ASSUME Save(a), unsaved' PROVE IInv'
  <2>1. /\ req' \in [Admins -> Request] /\ \A b \in Admins \ {a} : req'[b] = req[b]
        /\ req'[a].step \in {"idle", "end"} /\ file' \in Config /\ file'.control # None
    <3>1. CASE file' = req[a].copy /\ req' = [req EXCEPT ![a].step = "end"]
      BY <1>6, <3>1 DEF Save, Types, Config, Request, Steps, Maybe
    <3>2. CASE UNCHANGED file /\ req' = [req EXCEPT ![a] = Done]
      BY <1>0, <3>2 DEF Types
    <3>. QED
      BY <1>6, <3>1, <3>2 DEF Save
  <2>2. /\ unsaved' /\ unsaved' \in BOOLEAN /\ req[a].step = "save"
        /\ UNCHANGED <<settings, listening, open, error, signIn, sessions, now, mixed>>
    BY <1>6 DEF Save, Types
  <2>3. Types'
    BY <2>1, <2>2 DEF Types, Config
  <2>4. AloneInv'
    BY <2>1, <2>2 DEF Types, AloneInv
  <2>5. FollowInv'
    BY <2>1, <2>2 DEF Types, AloneInv, FollowInv, OnTheWay, Settled, Served, Known,
       Closed, Wanted
  <2>6. SessionInv'
    BY <2>1, <2>2 DEF Types, SessionInv, Current, WillEnd
  <2>. QED
    BY <2>3, <2>4, <2>5, <2>6
<1>7. ASSUME Save(a), ~unsaved' PROVE IInv'
  <2>1. /\ req' \in [Admins -> Request] /\ \A b \in Admins \ {a} : req'[b] = req[b]
        /\ req'[a].op = req[a].op /\ req'[a].step = "end" /\ req'[a].copy = req[a].copy
    BY <1>7 DEF Save, Types, Config, Request, Steps, Maybe
  <2>2. /\ req[a].step = "save" /\ file' = req[a].copy /\ file' \in Config
        /\ ~unsaved /\ unsaved' \in BOOLEAN
        /\ UNCHANGED <<settings, listening, open, error, signIn, sessions, now, mixed>>
    BY <1>7 DEF Save, Types, Request
  <2>3. Types'
    BY <2>1, <2>2 DEF Types, Config
  <2>4. AloneInv'
    BY <2>1, <2>2 DEF Types, AloneInv
  <2>5. FollowInv'
    BY <2>1, <2>2 DEF Types, AloneInv, FollowInv, OnTheWay, Settled, Served, Known,
       Closed, Wanted
  <2>6. SessionInv'
    BY <2>1, <2>2 DEF Types, SessionInv, Current, WillEnd
  <2>. QED
    BY <2>3, <2>4, <2>5, <2>6
<1>8. CASE EndSessions(a)
  <2>1. /\ req' \in [Admins -> Request] /\ \A b \in Admins \ {a} : req'[b] = req[b]
        /\ IF req[a].op = "settings"
           THEN req'[a].op = "settings" /\ req'[a].step = "close"
           ELSE req'[a].step = "idle"
    BY <1>8, <1>0 DEF EndSessions, Types, Config, Request, Steps, Maybe
  <2>2. /\ req[a].step = "end" /\ sessions' = sessions \ Ended(a)
        /\ UNCHANGED <<settings, file, listening, open, error, signIn, now, mixed, unsaved>>
    BY <1>8 DEF EndSessions
  <2>3. \A s \in sessions' : s \in sessions /\ ~WillEnd(a, s)
    BY <2>2 DEF Ended, WillEnd, Types, Config, Request
  <2>4. Types'
    BY <2>1, <2>2, <2>3 DEF Types, Config
  <2>5. AloneInv'
    BY <2>1, <2>2, <2>3 DEF Types, AloneInv
  <2>6. FollowInv'
    BY <2>1, <2>2, <2>3 DEF Types, AloneInv, FollowInv, OnTheWay, Settled, Served,
       Known, Closed, Wanted
  <2>7. SessionInv'
    BY <2>1, <2>2, <2>3 DEF Types, SessionInv, Current, WillEnd
  <2>. QED
    BY <2>4, <2>5, <2>6, <2>7
<1>9. CASE Close(a)
  <2>1. /\ req' \in [Admins -> Request] /\ \A b \in Admins \ {a} : req'[b] = req[b]
        /\ req'[a].op = req[a].op /\ req'[a].step = "read"
    BY <1>9 DEF Close, Types, Config, Request, Steps, Maybe
  <2>2. /\ req[a].step = "close" /\ listening' = 0 /\ open' = open \ {listening}
        /\ error' = FALSE
        /\ UNCHANGED <<settings, file, signIn, sessions, now, mixed, unsaved>>
    BY <1>9 DEF Close
  <2>3. Types'
    BY <2>1, <2>2 DEF Types, Config
  <2>4. AloneInv'
    BY <2>1, <2>2 DEF Types, AloneInv
  <2>5. FollowInv'
    BY <2>1, <2>2 DEF Types, AloneInv, FollowInv, OnTheWay, Settled, Served, Known,
       Closed, Wanted
  <2>6. SessionInv'
    BY <2>1, <2>2 DEF Types, SessionInv, Current, WillEnd
  <2>. QED
    BY <2>3, <2>4, <2>5, <2>6
<1>10. CASE ReadSettings(a)
  <2>1. /\ req' \in [Admins -> Request] /\ \A b \in Admins \ {a} : req'[b] = req[b]
        /\ IF Wanted(settings) = 0 THEN req'[a].step = "idle"
           ELSE /\ req'[a].op = req[a].op /\ req'[a].step = "open"
                /\ req'[a].copy = settings
    <3>1. CASE Wanted(settings) = 0
      BY <1>10, <1>0, <3>1 DEF ReadSettings, Types
    <3>2. CASE Wanted(settings) # 0
      <4>1. settings \in Config /\ req[a] \in Request
        BY DEF Types
      <4>2. [req[a] EXCEPT !.step = "open", !.copy = settings] \in Request
        BY <4>1 DEF Request, Steps
      <4>3. req' = [req EXCEPT ![a] = [req[a] EXCEPT !.step = "open", !.copy = settings]]
        BY <1>10, <3>2 DEF ReadSettings
      <4>. QED
        BY <3>2, <4>1, <4>2, <4>3 DEF Types, Request
    <3>. QED
      BY <3>1, <3>2
  <2>2. /\ req[a].step = "read"
        /\ UNCHANGED <<settings, file, listening, open, error, signIn, sessions, now, mixed,
                       unsaved>>
    BY <1>10 DEF ReadSettings
  <2>3. Types'
    BY <2>1, <2>2 DEF Types, Config
  <2>4. AloneInv'
    BY <2>1, <2>2 DEF Types, AloneInv
  <2>5. FollowInv'
    BY <2>1, <2>2 DEF Types, AloneInv, FollowInv, OnTheWay, Settled, Served, Known,
       Closed, Wanted
  <2>6. SessionInv'
    BY <2>1, <2>2 DEF Types, SessionInv, Current, WillEnd
  <2>. QED
    BY <2>3, <2>4, <2>5, <2>6
<1>11. CASE Open(a)
  <2>1. /\ req' \in [Admins -> Request] /\ \A b \in Admins \ {a} : req'[b] = req[b]
        /\ req'[a].step = "idle"
    BY <1>11, <1>0 DEF Open, Types, Config, Request, Steps, Maybe
  <2>2. /\ req[a].step = "open"
        /\ \/ /\ listening' = req[a].copy.port /\ open' = open \cup {req[a].copy.port}
              /\ error' = FALSE
           \/ error' = TRUE /\ UNCHANGED <<listening, open>>
        /\ UNCHANGED <<settings, file, signIn, sessions, now, mixed, unsaved>>
    BY <1>11 DEF Open
  <2>3. Types'
    BY <2>1, <2>2 DEF Types, Config
  <2>4. AloneInv'
    BY <2>1, <2>2 DEF Types, AloneInv
  <2>5. FollowInv'
    BY <2>1, <2>2 DEF Types, AloneInv, FollowInv, OnTheWay, Settled, Served, Known,
       Closed, Wanted
  <2>6. SessionInv'
    BY <2>1, <2>2 DEF Types, SessionInv, Current, WillEnd
  <2>. QED
    BY <2>3, <2>4, <2>5, <2>6
<1>12. CASE GiveUp(a)
  <2>1. /\ req' \in [Admins -> Request] /\ \A b \in Admins \ {a} : req'[b] = req[b]
        /\ req'[a].step = "idle"
    BY <1>12, <1>0 DEF GiveUp, Types
  <2>2. /\ req[a].step = "hash"
        /\ UNCHANGED <<settings, file, listening, open, error, signIn, sessions, now, mixed,
                       unsaved>>
    BY <1>12 DEF GiveUp
  <2>3. Types'
    BY <2>1, <2>2 DEF Types, Config
  <2>4. AloneInv'
    BY <2>1, <2>2 DEF Types, AloneInv
  <2>5. FollowInv'
    BY <2>1, <2>2 DEF Types, AloneInv, FollowInv, OnTheWay, Settled, Served, Known,
       Closed, Wanted
  <2>6. SessionInv'
    BY <2>1, <2>2 DEF Types, SessionInv, Current, WillEnd
  <2>. QED
    BY <2>3, <2>4, <2>5, <2>6
<1>. QED
  BY <1>1, <1>2, <1>3, <1>4, <1>5, <1>6, <1>7, <1>8, <1>9, <1>10, <1>11, <1>12 DEF Admin

\* A step that leaves the settings, the requests and the listener alone.
LEMMA OtherStep ==
  ASSUME IInv, UNCHANGED <<adminVars, history>>, signIn' \in [SignIns -> SignIn],
         now' \in Nat, sessions' \subseteq Session,
         \A s \in sessions' :
           \/ s.late \/ Current(s)
           \/ \E r \in sessions : r.late = s.late /\ r.role = s.role /\ r.by = s.by
  PROVE  IInv'
<1> USE DEF IInv, adminVars, history
<1>1. Types' /\ AloneInv'
  BY DEF Types, AloneInv
<1>2. FollowInv'
  BY DEF FollowInv, OnTheWay, Settled, Served, Known, Closed, Wanted
<1>3. SessionInv'
  BY DEF SessionInv, Current, WillEnd
<1>. QED
  BY <1>1, <1>2, <1>3

\* Every step of a sign-in keeps IInv: a session is current or late when it is made.
LEMMA VisitStep ==
  ASSUME IInv, NEW v \in SignIns, Visit(v)
  PROVE  IInv'
<1> USE DEF IInv, Types
<1>1. ASSUME NEW ip \in Addresses, CheckLimit(v, ip) PROVE IInv'
  <2>1. [Out EXCEPT !.step = "copy", !.ip = ip] \in SignIn
    BY DEF Out, SignIn, Maybe
  <2>. QED
    BY <1>1, <2>1, OtherStep DEF CheckLimit
<1>2. CASE TakeSlot(v)
  <2>1. Out \in SignIn
    BY DEF Out, SignIn, Maybe
  <2>0. signIn[v] \in SignIn /\ settings.control \in Maybe /\ settings.view \in Maybe
    BY DEF Config
  <2>2. [signIn[v] EXCEPT !.step = "verify", !.control = settings.control,
                          !.view = settings.view] \in SignIn
    BY <2>0 DEF SignIn
  <2>. QED
    BY <1>2, <2>1, <2>2, OtherStep DEF TakeSlot
<1>3. CASE Wrong(v) \/ HangUp(v)
  <2>1. Out \in SignIn
    BY DEF Out, SignIn, Maybe
  <2>. QED
    BY <1>3, <2>1, OtherStep DEF Wrong, HangUp
<1>4. CASE Right(v)
  <2>1. PICK c \in {signIn[v].control, None} :
          signIn' = [signIn EXCEPT ![v].step = "create", ![v].control = c]
    BY <1>4 DEF Right
  <2>2. signIn[v] \in SignIn /\ c \in Maybe
    BY <2>1 DEF SignIn, Maybe
  <2>3. [signIn[v] EXCEPT !.step = "create", !.control = c] \in SignIn
    BY <2>2 DEF SignIn
  <2>4. signIn' \in [SignIns -> SignIn]
    BY <2>1, <2>3
  <2>. QED
    BY <1>4, <2>4, OtherStep DEF Right
<1>5. CASE CreateSession(v)
  <2> DEFINE role == IF signIn[v].control # None THEN "control" ELSE "view"
             by == signIn[v][role]
             late == ~settings.on \/ settings[role] # by
             made(id) == [id |-> id, role |-> role, by |-> by, since |-> now, seen |-> now,
                          late |-> late]
  <2>1. role \in {"control", "view"} /\ by \in Maybe
    BY DEF SignIn
  <2>2. PICK id \in 1..MaxOps :
          sessions' = Room({s \in sessions : Alive(s)}) \cup {made(id)}
    BY <1>5 DEF CreateSession
  <2>. HIDE DEF role, by
  <2>3. made(id) \in Session /\ (made(id).late \/ Current(made(id)))
    <3>1. late \in BOOLEAN /\ (late \/ (settings.on /\ settings[role] = by))
      OBVIOUS
    <3>2. id \in Nat /\ now \in Nat
      OBVIOUS
    <3>. HIDE DEF late
    <3>3. made(id) \in Session
      BY <2>1, <3>1, <3>2 DEF Session
    <3>4. made(id).late = late /\ made(id).role = role /\ made(id).by = by
      OBVIOUS
    <3>. HIDE DEF made
    <3>. QED
      BY <3>1, <3>3, <3>4 DEF Current
  <2>. HIDE DEF made
  <2>4. Room({s \in sessions : Alive(s)}) \subseteq sessions
    BY DEF Room
  <2>5. Out \in SignIn
    BY DEF Out, SignIn, Maybe
  <2>6. signIn' \in [SignIns -> SignIn] /\ UNCHANGED <<adminVars, now, history>>
    BY <1>5, <2>5 DEF CreateSession
  <2>. QED
    BY <2>2, <2>3, <2>4, <2>6, OtherStep
<1>. QED
  BY <1>1, <1>2, <1>3, <1>4, <1>5 DEF Visit

\* Every step keeps IInv.
LEMMA NextStep == IInv /\ [Next]_vars => IInv'
<1> SUFFICES ASSUME IInv, [Next]_vars PROVE IInv'
  OBVIOUS
<1>1. ASSUME NEW a \in Admins, Admin(a) PROVE IInv'
  BY <1>1, AdminStep
<1>2. ASSUME NEW v \in SignIns, Visit(v) PROVE IInv'
  BY <1>2, VisitStep
<1>3. ASSUME NEW s \in sessions, Touch(s) PROVE IInv'
  <2>1. [s EXCEPT !.seen = now] \in Session
    BY DEF IInv, Types, Session
  <2>2. /\ [s EXCEPT !.seen = now].late = s.late /\ [s EXCEPT !.seen = now].role = s.role
        /\ [s EXCEPT !.seen = now].by = s.by
    BY DEF IInv, Types, Session
  <2>3. \A r \in sessions' : r \in sessions \/ r = [s EXCEPT !.seen = now]
    BY <1>3 DEF Touch
  <2>. QED
    BY <1>3, <2>1, <2>2, <2>3, OtherStep DEF Touch, signInVars, IInv, Types
<1>4. ASSUME NEW s \in sessions, Leave(s) PROVE IInv'
  BY <1>4, OtherStep DEF Leave, signInVars, IInv, Types
<1>5. CASE LeaveAll
  BY <1>5, OtherStep DEF LeaveAll, signInVars, IInv, Types
<1>6. CASE Tick
  BY <1>6, OtherStep DEF Tick, signInVars, IInv, Types
<1>7. CASE Restart
  <2>1. Done \in Request /\ Done.step = "idle" /\ Out \in SignIn
    BY DEF Done, Off, Out, Config, Request, SignIn, Steps, Maybe
  <2>2. Types'
    BY <1>7, <2>1 DEF Restart, IInv, Types
  <2>3. AloneInv' /\ SessionInv'
    BY <1>7, <2>1 DEF Restart, AloneInv, SessionInv
  <2>4. FollowInv'
    BY <1>7, <2>1 DEF Restart, FollowInv, OnTheWay, Served, Known, Wanted
  <2>. QED
    BY <2>2, <2>3, <2>4 DEF IInv
<1>8. CASE UNCHANGED vars
  BY <1>8, OtherStep DEF vars, signInVars, IInv, Types
<1>. QED
  BY <1>1, <1>2, <1>3, <1>4, <1>5, <1>6, <1>7, <1>8 DEF Next

\* IInv is an invariant.
LEMMA Invariance == Spec => []IInv
  BY InitInv, NextStep, PTL DEF Spec

-----------------------------------------------------------------------------
(* The theorems. *)

\* Remote::apply and save: after a change that was alone and could be saved, the file is the
\* settings, and the listener is theirs or there is none and an error is shown.
THEOREM ListenerFollows == Spec => []SettingsFollowed
<1>1. IInv => SettingsFollowed
  BY DEF IInv, FollowInv, SettingsFollowed, Served, Known
<1>. QED
  BY <1>1, Invariance, PTL

\* A changed or removed password, and switching off, end the sessions signed in before,
\* whatever changes and sign-ins are in progress together.
THEOREM ChangesEndSessions == Spec => []SessionsCurrent
<1>1. IInv => SessionsCurrent
  BY DEF IInv, SessionInv, SessionsCurrent, Settled, Current, WillEnd
<1>. QED
  BY <1>1, Invariance, PTL

-----------------------------------------------------------------------------
(* The limit of failures.                                                  *)
(* Every sign-in that passed the limiter and is not verified yet may still *)
(* fail: LimitInv counts it as if it had.                                  *)

Guessing == {v \in SignIns : signIn[v].step \in {"copy", "verify"}}

LimitInv ==
  /\ recent \in Seq(Nat)
  /\ Len(InMinute) + Cardinality(Guessing) <= GlobalPerMinute - 1 + Cardinality(SignIns)

Recent(times, t, i) ==
  /\ i \in 1..(Len(times) + 1)
  /\ i <= Len(times) => t - times[i] < Minute
  /\ \A j \in 1..(i - 1) : t - times[j] >= Minute

\* The last minute begins somewhere, and at one place only.
LEMMA BeginsThere ==
  ASSUME NEW times \in Seq(Nat), NEW t \in Nat
  PROVE  /\ Recent(times, t, Begins(times, t))
         /\ \A i : Recent(times, t, i) => i = Begins(times, t)
<1> DEFINE T == {i \in 1..(Len(times) + 1) : i <= Len(times) => t - times[i] < Minute}
           b == Begins(times, t)
<1>1. Len(times) \in Nat /\ Minute \in Nat
  BY BoundsAssumption
<1>2. \A j \in 1..Len(times) : times[j] \in Nat
  OBVIOUS
<1>3. T \in SUBSET Nat /\ Len(times) + 1 \in T
  BY <1>1
<1>4. PICK m \in T : \A x \in T : m <= x
  BY <1>3, Least
<1>5. Recent(times, t, m)
  <2>1. ASSUME NEW j \in 1..(m - 1) PROVE t - times[j] >= Minute
    <3>1. j \in 1..Len(times) /\ j \notin T
      BY <1>1, <1>3, <1>4
    <3>. QED
      BY <3>1, <1>1, <1>2
  <2>. QED
    BY <1>4, <2>1 DEF Recent
<1>6. Recent(times, t, b)
  BY <1>5 DEF Recent, Begins
<1>7. ASSUME NEW i, Recent(times, t, i) PROVE i = b
  <2>1. i \in Nat /\ b \in Nat /\ i >= 1 /\ b >= 1 /\ i <= Len(times) + 1 /\ b <= Len(times) + 1
    BY <1>1, <1>6, <1>7 DEF Recent
  <2>2. ~ (i < b)
    BY <1>1, <1>2, <1>6, <1>7, <2>1 DEF Recent
  <2>3. ~ (b < i)
    BY <1>1, <1>2, <1>6, <1>7, <2>1 DEF Recent
  <2>. HIDE DEF b
  <2>. QED
    BY <2>1, <2>2, <2>3
<1>. QED
  BY <1>6, <1>7

LEMMA BeginsRange ==
  ASSUME NEW times \in Seq(Nat), NEW t \in Nat
  PROVE  /\ Len(times) \in Nat /\ Begins(times, t) \in Nat
         /\ 1 <= Begins(times, t) /\ Begins(times, t) <= Len(times) + 1
<1>1. Begins(times, t) \in 1..(Len(times) + 1)
  BY BeginsThere DEF Recent
<1>. QED
  BY <1>1

\* How many are left, and that leaving out what is old changes nothing.
LEMMA LastMinute ==
  ASSUME NEW times \in Seq(Nat), NEW t \in Nat
  PROVE  LET left == SubSeq(times, Begins(times, t), Len(times)) IN
         /\ left \in Seq(Nat) /\ Len(left) = Len(times) + 1 - Begins(times, t)
         /\ Begins(left, t) = 1 /\ SubSeq(left, 1, Len(left)) = left
<1> DEFINE b == Begins(times, t)
           left == SubSeq(times, b, Len(times))
<1>1. Len(times) \in Nat /\ Minute \in Nat
  BY BoundsAssumption
<1>2. Recent(times, t, b)
  BY BeginsThere
<1>3. b \in Nat /\ b >= 1 /\ b <= Len(times) + 1
  BY <1>1, <1>2 DEF Recent
<1>. HIDE DEF b
<1>4. left \in Seq(Nat) /\ Len(left) = Len(times) + 1 - b
  BY <1>1, <1>3
<1>5. \A i \in 1..Len(left) : left[i] = times[b + i - 1]
  BY <1>1, <1>3
<1>6. Recent(left, t, 1)
  BY <1>1, <1>2, <1>3, <1>4, <1>5 DEF Recent
<1>7. Begins(left, t) = 1
  BY <1>4, <1>6, BeginsThere
<1>8. SubSeq(left, 1, Len(left)) = left
  BY <1>4, SMTT(20)
<1>. QED
  BY <1>4, <1>7, <1>8 DEF b

\* Later the minute begins later; a failure just now is in it.
LEMMA MinuteMoves ==
  ASSUME NEW times \in Seq(Nat), NEW t \in Nat
  PROVE  /\ Begins(times, t) <= Begins(times, t + 1)
         /\ Begins(Append(times, t), t) = Begins(times, t)
<1> DEFINE b == Begins(times, t)
           c == Begins(times, t + 1)
           more == Append(times, t)
<1>1. Len(times) \in Nat /\ Minute \in Nat /\ Minute >= 1
  BY BoundsAssumption
<1>2. Recent(times, t, b) /\ Recent(times, t + 1, c)
  BY BeginsThere
<1>3. \A j \in 1..Len(times) : times[j] \in Nat /\ more[j] = times[j]
  OBVIOUS
<1>4. more \in Seq(Nat) /\ Len(more) = Len(times) + 1 /\ more[Len(times) + 1] = t
  OBVIOUS
<1>. HIDE DEF b, c, more
<1>5. b <= c
  BY <1>1, <1>2, <1>3 DEF Recent
<1>6. Recent(more, t, b)
  <2>0. b \in Nat /\ 1 <= b /\ b <= Len(times) + 1
    BY BeginsRange DEF b
  <2>1. b \in Nat /\ 1 <= b /\ b <= Len(more) /\ b \in 1..(Len(more) + 1)
    BY <1>1, <1>4, <2>0
  <2>2. t - more[b] < Minute
    <3>1. CASE b = Len(times) + 1
      BY <1>1, <1>4, <3>1
    <3>2. CASE b <= Len(times)
      BY <1>1, <1>2, <1>3, <2>1, <3>2 DEF Recent
    <3>. QED
      BY <1>1, <1>4, <2>1, <3>1, <3>2
  <2>3. \A j \in 1..(b - 1) : t - more[j] >= Minute
    <3> SUFFICES ASSUME NEW j \in 1..(b - 1) PROVE t - more[j] >= Minute
      OBVIOUS
    <3>1. t - times[j] >= Minute
      BY <1>2 DEF Recent
    <3>2. j \in 1..Len(times)
      BY <1>1, <2>0
    <3>. QED
      BY <1>3, <3>1, <3>2
  <2>. QED
    BY <2>1, <2>2, <2>3 DEF Recent
<1>7. b = Begins(more, t)
  BY <1>4, <1>6, BeginsThere
<1>. QED
  BY <1>5, <1>7 DEF b, c, more

\* Sign-ins that may fail are sign-ins.
LEMMA GuessingFinite ==
  /\ IsFiniteSet(Guessing) /\ Cardinality(Guessing) \in Nat
  /\ Cardinality(SignIns) \in Nat /\ Cardinality(Guessing) <= Cardinality(SignIns)
  BY SignInsFinite, FS_Subset, FS_CardinalityType DEF Guessing

LEMMA GuessingFinitePrime ==
  /\ IsFiniteSet(Guessing') /\ Cardinality(Guessing') \in Nat
  /\ Cardinality(Guessing') <= Cardinality(SignIns)
  BY SignInsFinite, FS_Subset, FS_CardinalityType DEF Guessing

\* A step that fails nothing and lets no sign-in pass the limiter.
LEMMA LimitKept ==
  ASSUME IInv, LimitInv, recent' = recent, now' \in {now, now + 1}, Guessing' \subseteq Guessing
  PROVE  LimitInv'
<1>1. now \in Nat /\ recent \in Seq(Nat)
  BY DEF IInv, Types, LimitInv
<1>2. Len(InMinute') <= Len(InMinute) /\ Len(InMinute) \in Nat /\ Len(InMinute') \in Nat
  <2>0. now' \in Nat /\ Len(recent) \in Nat
        /\ InMinute' = SubSeq(recent, Begins(recent, now'), Len(recent))
    BY <1>1 DEF InMinute
  <2>1. Begins(recent, now) <= Begins(recent, now')
    <3>1. CASE now' = now
      BY <1>1, <3>1, BeginsThere DEF Recent
    <3>2. CASE now' = now + 1
      BY <1>1, <3>2, MinuteMoves
    <3>. QED
      BY <3>1, <3>2
  <2>2. /\ Begins(recent, now) \in Nat /\ Begins(recent, now) <= Len(recent) + 1
        /\ Begins(recent, now') \in Nat /\ Begins(recent, now') <= Len(recent) + 1
        /\ Len(InMinute) = Len(recent) + 1 - Begins(recent, now)
        /\ Len(InMinute') = Len(recent) + 1 - Begins(recent, now')
    BY <1>1, <2>0, LastMinute, BeginsRange DEF InMinute
  <2>. QED
    BY <1>1, <2>0, <2>1, <2>2
<1>3. Cardinality(Guessing') <= Cardinality(Guessing)
  BY GuessingFinite, FS_Subset
<1>. QED
  BY <1>1, <1>2, <1>3, GuessingFinite, GuessingFinitePrime, BoundsAssumption,
     SMTT(20) DEF LimitInv

LEMMA LimitInit == Init => LimitInv
<1> SUFFICES ASSUME Init PROVE LimitInv
  OBVIOUS
<1>1. recent = <<>> /\ now = 0 /\ \A v \in SignIns : signIn[v].step = "idle"
  BY DEF Init, Out
<1>2. Guessing = {} /\ recent \in Seq(Nat) /\ now \in Nat
  BY <1>1 DEF Guessing
<1>3. Len(InMinute) = 0
  <2>0. Len(recent) = 0
    BY <1>1
  <2>1. Begins(recent, now) = 1
    <3>1. /\ Begins(recent, now) \in Nat /\ 1 <= Begins(recent, now)
          /\ Begins(recent, now) <= Len(recent) + 1
      BY <1>2, BeginsRange
    <3>. QED
      BY <2>0, <3>1
  <2>2. Len(InMinute) = Len(recent) + 1 - Begins(recent, now)
    BY <1>2, LastMinute DEF InMinute
  <2>. QED
    BY <2>0, <2>1, <2>2
<1>. QED
  BY <1>2, <1>3, GuessingFinite, FS_EmptySet, BoundsAssumption, SMTT(20) DEF LimitInv

\* Limiter::check lets one more pass only below the limit.
LEMMA CheckLimitKeeps ==
  ASSUME IInv, LimitInv, NEW v \in SignIns, NEW ip \in Addresses, CheckLimit(v, ip)
  PROVE  LimitInv'
<1>1. now \in Nat /\ recent \in Seq(Nat) /\ now' = now /\ recent' = InMinute
  BY DEF IInv, Types, LimitInv, CheckLimit
<1>2. InMinute \in Seq(Nat) /\ InMinute' = InMinute
  <2>1. /\ InMinute \in Seq(Nat) /\ Begins(InMinute, now) = 1
        /\ SubSeq(InMinute, 1, Len(InMinute)) = InMinute
    BY <1>1, LastMinute DEF InMinute
  <2>2. InMinute' = SubSeq(InMinute, Begins(InMinute, now), Len(InMinute))
    BY <1>1 DEF InMinute
  <2>. QED
    BY <2>1, <2>2
<1>3. Len(InMinute) < GlobalPerMinute /\ Len(InMinute) \in Nat
  BY <1>2 DEF CheckLimit
<1>. QED
  BY <1>1, <1>2, <1>3, GuessingFinite, GuessingFinitePrime, BoundsAssumption,
     SMTT(20) DEF LimitInv

\* Limiter::failed adds the one that was counted.
LEMMA WrongKeeps ==
  ASSUME IInv, LimitInv, NEW v \in SignIns, Wrong(v)
  PROVE  LimitInv'
<1>1. /\ now \in Nat /\ recent \in Seq(Nat) /\ now' = now /\ recent' = Append(recent, now)
      /\ recent' \in Seq(Nat) /\ Len(recent') = Len(recent) + 1 /\ Len(recent) \in Nat
  BY DEF IInv, Types, LimitInv, Wrong
<1>2. Len(InMinute') = Len(InMinute) + 1 /\ Len(InMinute) \in Nat
  <2>1. /\ Len(InMinute) = Len(recent) + 1 - Begins(recent, now)
        /\ Len(InMinute') = Len(recent') + 1 - Begins(recent', now')
    BY <1>1, LastMinute DEF InMinute
  <2>2. Begins(recent', now') = Begins(recent, now)
    BY <1>1, MinuteMoves
  <2>3. Recent(recent, now, Begins(recent, now))
    BY <1>1, BeginsThere
  <2>. QED
    BY <1>1, <2>1, <2>2, <2>3 DEF Recent
<1>3. v \in Guessing /\ Guessing' = Guessing \ {v}
  BY DEF Wrong, Guessing, IInv, Types, Out, SignIn
<1>4. Cardinality(Guessing') = Cardinality(Guessing) - 1
  BY <1>3, GuessingFinite, FS_RemoveElement
<1>. QED
  BY <1>1, <1>2, <1>4, GuessingFinite, GuessingFinitePrime, BoundsAssumption,
     SMTT(20) DEF LimitInv

LEMMA LimitStep == IInv /\ LimitInv /\ [Next]_vars => LimitInv'
<1> SUFFICES ASSUME IInv, LimitInv, [Next]_vars PROVE LimitInv'
  OBVIOUS
<1> USE DEF signInVars
<1>0. now \in Nat
  BY DEF IInv, Types
<1>1. ASSUME NEW a \in Admins, Admin(a) PROVE LimitInv'
  <2>1. recent' = recent /\ now' = now /\ signIn' = signIn
    BY <1>1 DEF Admin, PutSettings, PutPassword, PutViewPassword, DeleteViewPassword, Begin,
       SetPassword, GiveUp, Save, EndSessions, Close, ReadSettings, Open
  <2>. QED
    BY <2>1, LimitKept DEF Guessing
<1>2. ASSUME NEW v \in SignIns, Visit(v) PROVE LimitInv'
  <2>1. ASSUME NEW ip \in Addresses, CheckLimit(v, ip) PROVE LimitInv'
    BY <2>1, CheckLimitKeeps
  <2>2. CASE TakeSlot(v) \/ HangUp(v) \/ Right(v) \/ CreateSession(v)
    <3>1. recent' = recent /\ now' = now
      BY <2>2 DEF TakeSlot, HangUp, Right, CreateSession
    <3>2. \A u \in SignIns \ {v} : signIn'[u] = signIn[u]
      BY <2>2 DEF TakeSlot, HangUp, Right, CreateSession, IInv, Types
    <3>3. signIn'[v].step \in {"copy", "verify"} => signIn[v].step \in {"copy", "verify"}
      BY <2>2 DEF TakeSlot, HangUp, Right, CreateSession, IInv, Types, Out, SignIn
    <3>4. Guessing' \subseteq Guessing
      BY <3>2, <3>3 DEF Guessing
    <3>. QED
      BY <3>1, <3>4, LimitKept
  <2>3. CASE Wrong(v)
    BY <2>3, WrongKeeps
  <2>. QED
    BY <1>2, <2>1, <2>2, <2>3 DEF Visit
<1>3. CASE (\E s \in sessions : Touch(s) \/ Leave(s)) \/ LeaveAll \/ Tick \/ UNCHANGED vars
  <2>1. recent' = recent /\ now' \in {now, now + 1} /\ signIn' = signIn
    BY <1>3 DEF Touch, Leave, LeaveAll, Tick, vars
  <2>. QED
    BY <2>1, LimitKept DEF Guessing
<1>4. CASE Restart
  <2>1. recent' = <<>> /\ now' = now /\ \A v \in SignIns : signIn'[v].step = "idle"
    BY <1>4 DEF Restart, Out
  <2>2. Guessing' = {} /\ recent' \in Seq(Nat)
    BY <2>1 DEF Guessing
  <2>3. Len(InMinute') = 0
    <3>0. Len(recent') = 0 /\ now' \in Nat
      BY <1>0, <2>1
    <3>1. Begins(recent', now') = 1
      <4>1. /\ Begins(recent', now') \in Nat /\ 1 <= Begins(recent', now')
            /\ Begins(recent', now') <= Len(recent') + 1
        BY <2>2, <3>0, BeginsRange
      <4>. QED
        BY <3>0, <4>1
    <3>2. Len(InMinute') = Len(recent') + 1 - Begins(recent', now')
      BY <1>0, <2>1, <2>2, LastMinute DEF InMinute
    <3>. QED
      BY <3>0, <3>1, <3>2
  <2>. QED
    BY <2>2, <2>3, GuessingFinite, GuessingFinitePrime, FS_EmptySet, BoundsAssumption,
       SMTT(20) DEF LimitInv
<1>. QED
  BY <1>1, <1>2, <1>3, <1>4 DEF Next

\* Limiter::check and failed: sign-ins that passed the limiter together may all fail, and
\* nothing else goes over the limit of a minute, from however many addresses.
THEOREM FailuresAreLimited == Spec => []FailuresBounded
<1>1. IInv /\ LimitInv => FailuresBounded
  <2> SUFFICES ASSUME IInv, LimitInv PROVE FailuresBounded
    OBVIOUS
  <2> DEFINE b == Begins(recent, now)
             S == {i \in DOMAIN recent : now - recent[i] < Minute}
  <2>1. /\ now \in Nat /\ recent \in Seq(Nat) /\ Len(recent) \in Nat
        /\ Minute \in Nat /\ \A i \in 1..Len(recent) : recent[i] \in Nat
    BY BoundsAssumption, SMTT(20) DEF IInv, Types, LimitInv
  <2>2. Recent(recent, now, b) /\ Len(InMinute) = Len(recent) + 1 - b
    BY <2>1, BeginsThere, LastMinute DEF InMinute
  <2>. HIDE DEF b
  <2>3. S \subseteq b..Len(recent)
    BY <2>1, <2>2 DEF Recent
  <2>0. b \in Nat /\ 1 <= b /\ b <= Len(recent) + 1
    BY <2>1, BeginsRange DEF b
  <2>4. IsFiniteSet(b..Len(recent)) /\ Cardinality(b..Len(recent)) = Len(recent) - b + 1
    <3>1. /\ IsFiniteSet(b..Len(recent))
          /\ Cardinality(b..Len(recent)) = IF b > Len(recent) THEN 0 ELSE Len(recent) - b + 1
      <4>1. b \in Int /\ Len(recent) \in Int
        BY <2>0, <2>1
      <4>. QED
        BY <4>1, FS_Interval
    <3>. QED
      BY <2>0, <2>1, <3>1
  <2>5. Cardinality(S) <= Len(InMinute) /\ Cardinality(S) \in Nat
    BY <2>0, <2>1, <2>2, <2>3, <2>4, FS_Subset, FS_CardinalityType
  <2>. HIDE DEF S
  <2>6. Len(InMinute) \in Nat
    BY <2>0, <2>1, <2>2
  <2>7. Cardinality(S) <= GlobalPerMinute - 1 + Cardinality(SignIns)
    BY <2>5, <2>6, GuessingFinite, BoundsAssumption DEF LimitInv
  <2>. QED
    BY <2>7 DEF FailuresBounded, S
<1>. QED
  BY <1>1, LimitInit, LimitStep, Invariance, PTL DEF Spec
=============================================================================
