--------------------------- MODULE RemoteAccess ----------------------------
(***************************************************************************)
(* Remote access (bm-server remote/): its settings and remote.json, the    *)
(* network listener that follows them, the sessions, and the sign-ins with *)
(* their limiter.                                                          *)
(*                                                                         *)
(* No lock is held over a whole request: settings are changed, saved, then *)
(* sessions ended, then the listener closed and opened again; a password   *)
(* is verified on another thread with copies of the hashes.  A password's  *)
(* hash is the password; what a session may do (scope.rs) is not modelled  *)
(* here.                                                                   *)
(***************************************************************************)
EXTENDS Naturals, FiniteSets, Sequences

CONSTANTS
  Admins,      \* requests of the app on this computer that may be in progress
  SignIns,     \* sign-in requests that may be in progress
  Passwords,
  None,        \* no password
  Ports,
  Addresses,
  FreeTries, MaxWait, GlobalPerMinute, Minute, \* limiter.rs; time is in ticks
  Slots,       \* password checks at a time
  Idle, MaxAge, MaxSessions, \* sessions.rs
  MaxOps,      \* bound: requests and sign-ins
  MaxTime      \* bound: ticks

ASSUME SignInsFinite == IsFiniteSet(SignIns)
ASSUME NoneAssumption == None \notin Passwords
ASSUME BoundsAssumption ==
  /\ {FreeTries, GlobalPerMinute, Minute, Slots, Idle, MaxAge, MaxSessions} \subseteq Nat \ {0}
  /\ Ports \subseteq Nat \ {0} /\ {MaxOps, MaxTime, MaxWait} \subseteq Nat

VARIABLES
  settings,  \* Remote.settings: on, port, control and view (passwords)
  file,      \* remote.json
  listening, \* Remote.listening: the port of the listener it knows, or 0
  open,      \* sockets that are open
  error,     \* Listening.error: it could not listen
  req,       \* what each admin request is doing: op, step, its copy of the settings
  signIn,    \* what each sign-in is doing: step, address, copies of the passwords
  sessions,  \* role, by (the password), since, seen, late: see CreateSession
  fails,     \* Limiter.per_address: failures and until when it waits
  recent,    \* Limiter.recent: when sign-ins failed
  now, ops,
  mixed,     \* history: admin requests have been in progress at once
  unsaved    \* history: settings could not be saved

adminVars == <<settings, file, listening, open, error, req>>
signInVars == <<signIn, fails, recent>>
history == <<mixed, unsaved>>
vars == <<adminVars, signInVars, sessions, now, ops, history>>

Off == [on |-> FALSE, port |-> CHOOSE p \in Ports : TRUE, control |-> None, view |-> None]
Done == [op |-> "none", step |-> "idle", pw |-> None, copy |-> Off]
Out == [step |-> "idle", ip |-> CHOOSE a \in Addresses : TRUE, control |-> None, view |-> None]
Clean == [n |-> 0, until |-> 0]

\* Remote::apply listens when it is on and has a password.
Wanted(s) == IF s.on /\ s.control # None THEN s.port ELSE 0

Init ==
  /\ \E p \in Passwords, on \in BOOLEAN :
       settings = [Off EXCEPT !.on = on, !.control = p]
  /\ file = settings
  /\ error \in BOOLEAN /\ (error => Wanted(settings) # 0)
  /\ listening = (IF error THEN 0 ELSE Wanted(settings)) /\ open = {listening} \ {0}
  /\ req = [a \in Admins |-> Done] /\ signIn = [v \in SignIns |-> Out]
  /\ sessions = {} /\ fails = [i \in Addresses |-> Clean] /\ recent = <<>>
  /\ now = 0 /\ ops = 0 /\ mixed = FALSE /\ unsaved = FALSE

-----------------------------------------------------------------------------
(* Requests of the app: the settings are changed under their lock. *)

Begin(a, op, step, pw) ==
  /\ req[a].step = "idle" /\ ops < MaxOps
  /\ ops' = ops + 1
  /\ req' = [req EXCEPT ![a] = [op |-> op, step |-> step, pw |-> pw, copy |-> settings']]
  /\ mixed' = (mixed \/ \E b \in Admins : req[b].step # "idle")
  /\ UNCHANGED <<file, listening, open, error, signInVars, sessions, now, unsaved>>

PutSettings(a, on, port) ==
  /\ on => settings.control # None
  /\ settings' = [settings EXCEPT !.on = on, !.port = port]
  /\ Begin(a, "settings", "save", None)

\* Hashed on another thread, unless it is the other password.
PutPassword(a, pw) ==
  /\ pw # settings.view
  /\ UNCHANGED settings
  /\ Begin(a, "password", "hash", pw)

\* Mutant of PutViewPassword: it is not compared with the other one.
PutViewPasswordAny(a, pw) ==
  /\ settings.control # None
  /\ UNCHANGED settings
  /\ Begin(a, "view", "hash", pw)

PutViewPassword(a, pw) ==
  /\ settings.control \notin {None, pw}
  /\ UNCHANGED settings
  /\ Begin(a, "view", "hash", pw)

DeleteViewPassword(a) ==
  /\ settings' = [settings EXCEPT !.view = None]
  /\ Begin(a, "view", "save", None)

\* Remote::set_password, set_view_password
SetPassword(a) ==
  /\ req[a].step = "hash"
  /\ settings' = IF req[a].op = "view" THEN [settings EXCEPT !.view = req[a].pw]
                 ELSE [settings EXCEPT !.control = req[a].pw]
  /\ req' = [req EXCEPT ![a].step = "save", ![a].copy = settings']
  /\ UNCHANGED <<file, listening, open, error, signInVars, sessions, now, ops, history>>

\* The client hangs up while its password is hashed.
GiveUp(a) ==
  /\ req[a].step = "hash" /\ req' = [req EXCEPT ![a] = Done]
  /\ UNCHANGED <<settings, file, listening, open, error, signInVars, sessions, now, ops, history>>

\* The copy is written; when it cannot be, the request ends here.
Save(a) ==
  /\ req[a].step = "save"
  /\ \/ /\ file' = req[a].copy /\ req' = [req EXCEPT ![a].step = "end"]
        /\ UNCHANGED unsaved
     \/ req' = [req EXCEPT ![a] = Done] /\ unsaved' = TRUE /\ UNCHANGED file
  /\ UNCHANGED <<settings, listening, open, error, signInVars, sessions, now, ops, mixed>>

\* Mutant of Ended: a new view-only password ends nobody's session.
EndedNotView(a) ==
  CASE req[a].op = "settings" -> IF req[a].copy.on THEN {} ELSE sessions
    [] req[a].op = "view"     -> {}
    [] OTHER                  -> sessions

\* The sessions a change ends.
Ended(a) ==
  CASE req[a].op = "settings" -> IF req[a].copy.on THEN {} ELSE sessions
    [] req[a].op = "view"     -> {s \in sessions : s.role = "view"}
    [] OTHER                  -> sessions

EndSessions(a) ==
  /\ req[a].step = "end"
  /\ sessions' = sessions \ Ended(a)
  /\ req' = [req EXCEPT ![a] = IF @.op = "settings" THEN [@ EXCEPT !.step = "close"] ELSE Done]
  /\ UNCHANGED <<settings, file, listening, open, error, signInVars, now, ops, history>>

\* Mutant of Close: the listener is forgotten, its socket not closed.
CloseForgets(a) ==
  /\ req[a].step = "close"
  /\ listening' = 0 /\ error' = FALSE /\ UNCHANGED open
  /\ req' = [req EXCEPT ![a].step = "read"]
  /\ UNCHANGED <<settings, file, signInVars, sessions, now, ops, history>>

\* Remote::apply: the listener it knows is closed, the settings read, the new one bound.
Close(a) ==
  /\ req[a].step = "close"
  /\ listening' = 0 /\ open' = open \ {listening} /\ error' = FALSE
  /\ req' = [req EXCEPT ![a].step = "read"]
  /\ UNCHANGED <<settings, file, signInVars, sessions, now, ops, history>>

ReadSettings(a) ==
  /\ req[a].step = "read"
  /\ req' = [req EXCEPT ![a] = IF Wanted(settings) = 0 THEN Done
                              ELSE [@ EXCEPT !.step = "open", !.copy = settings]]
  /\ UNCHANGED <<settings, file, listening, open, error, signInVars, sessions, now, ops, history>>

\* A port in use is waited for, 2 s at most.  Without a certificate, or when the port cannot
\* be bound, only the error is noted.
Open(a) ==
  LET port == req[a].copy.port IN
  /\ req[a].step = "open"
  /\ \/ /\ port \notin open
        /\ listening' = port /\ open' = open \cup {port} /\ error' = FALSE
     \/ error' = TRUE /\ UNCHANGED <<listening, open>>
  /\ req' = [req EXCEPT ![a] = Done]
  /\ UNCHANGED <<settings, file, signInVars, sessions, now, ops, history>>

\* DELETE /remote/sessions[/id], and signing out.
Leave(s) ==
  /\ s \in sessions /\ sessions' = sessions \ {s}
  /\ UNCHANGED <<adminVars, signInVars, now, ops, history>>

LeaveAll ==
  /\ sessions # {} /\ sessions' = {}
  /\ UNCHANGED <<adminVars, signInVars, now, ops, history>>

-----------------------------------------------------------------------------
(* Sign-in: the limiter, copies of the passwords, the check, the session. *)

\* What is older than a minute at time t is taken off the front, up to the first.
Begins(times, t) == CHOOSE i \in 1..(Len(times) + 1) :
  /\ i <= Len(times) => t - times[i] < Minute
  /\ \A j \in 1..(i - 1) : t - times[j] >= Minute
InMinute == SubSeq(recent, Begins(recent, now), Len(recent))

\* Mutant of CheckLimit: the limit of all addresses together is not looked at.
CheckLimitOwn(v, ip) ==
  /\ signIn[v].step = "idle" /\ ops < MaxOps
  /\ ops' = ops + 1
  /\ recent' = InMinute
  /\ fails[ip].until <= now
  /\ signIn' = [signIn EXCEPT ![v] = [Out EXCEPT !.step = "copy", !.ip = ip]]
  /\ UNCHANGED <<adminVars, fails, sessions, now, history>>

\* Limiter::check
CheckLimit(v, ip) ==
  /\ signIn[v].step = "idle" /\ ops < MaxOps
  /\ ops' = ops + 1
  /\ recent' = InMinute
  /\ Len(InMinute) < GlobalPerMinute /\ fails[ip].until <= now
  /\ signIn' = [signIn EXCEPT ![v] = [Out EXCEPT !.step = "copy", !.ip = ip]]
  /\ UNCHANGED <<adminVars, fails, sessions, now, history>>

Checking == {v \in SignIns : signIn[v].step \in {"verify", "create"}}

\* Not set up, or all slots taken: the sign-in ends.
TakeSlot(v) ==
  /\ signIn[v].step = "copy"
  /\ signIn' = [signIn EXCEPT ![v] =
       IF settings.control = None \/ Cardinality(Checking) >= Slots THEN Out
       ELSE [@ EXCEPT !.step = "verify", !.control = settings.control, !.view = settings.view]]
  /\ UNCHANGED <<adminVars, fails, recent, sessions, now, ops, history>>

Min2(a, b) == IF a < b THEN a ELSE b
Wait(n) == Min2(2^(n - FreeTries), MaxWait)

\* Limiter::failed
Wrong(v) ==
  LET ip == signIn[v].ip n == fails[ip].n + 1 IN
  /\ signIn[v].step = "verify"
  /\ recent' = Append(recent, now)
  /\ fails' = [fails EXCEPT ![ip] =
       [n |-> n, until |-> IF n >= FreeTries THEN now + Wait(n) ELSE @.until]]
  /\ signIn' = [signIn EXCEPT ![v] = Out]
  /\ UNCHANGED <<adminVars, sessions, now, ops, history>>

\* The client hangs up while its password is verified: the slot is free, nothing is counted.
HangUp(v) ==
  /\ signIn[v].step = "verify" /\ signIn' = [signIn EXCEPT ![v] = Out]
  /\ UNCHANGED <<adminVars, fails, recent, sessions, now, ops, history>>

\* The remote access password is tried first, then the view-only one.
Right(v) ==
  /\ signIn[v].step = "verify"
  /\ \E role \in {"control", "view"} :
       /\ signIn[v][role] # None
       /\ role = "view" => signIn[v].view # signIn[v].control
       /\ signIn' = [signIn EXCEPT ![v].step = "create",
            ![v].control = IF role = "control" THEN @ ELSE None]
  /\ fails' = [fails EXCEPT ![signIn[v].ip] = Clean]
  /\ UNCHANGED <<adminVars, recent, sessions, now, ops, history>>

Alive(s) == now - s.seen < Idle /\ now - s.since < MaxAge
Oldest(S) == CHOOSE s \in S : \A t \in S : s.since <= t.since

\* Mutant of Room: the oldest is ended only when there are more than fit.
RoomLate(S) == IF Cardinality(S) > MaxSessions THEN S \ {Oldest(S)} ELSE S

\* There is room for one more: the oldest is ended when all are in use.
Room(S) == IF Cardinality(S) >= MaxSessions THEN S \ {Oldest(S)} ELSE S

\* A session is `late` when its password is no longer one, or remote access is off, when
\* the session is made: its sign-in began before the change and ends after it.
CreateSession(v) ==
  LET role == IF signIn[v].control # None THEN "control" ELSE "view"
      by == signIn[v][role]
  IN
  /\ signIn[v].step = "create"
  /\ \E id \in 1..MaxOps :
       /\ \A s \in sessions : s.id # id
       /\ \A j \in 1..(id - 1) : \E s \in sessions : s.id = j
       /\ sessions' = Room({s \in sessions : Alive(s)}) \cup
            {[id |-> id, role |-> role, by |-> by, since |-> now, seen |-> now,
              late |-> ~settings.on \/ settings[role] # by]}
  /\ signIn' = [signIn EXCEPT ![v] = Out]
  /\ UNCHANGED <<adminVars, fails, recent, now, ops, history>>

\* A request with a session's cookie (Sessions::touch).
Touch(s) ==
  /\ s \in sessions /\ s.seen # now
  /\ sessions' = (sessions \ {s}) \cup IF Alive(s) THEN {[s EXCEPT !.seen = now]} ELSE {}
  /\ UNCHANGED <<adminVars, signInVars, now, ops, history>>

Tick ==
  /\ now < MaxTime /\ now' = now + 1
  /\ UNCHANGED <<adminVars, signInVars, sessions, ops, history>>

\* The server ends and starts again: sessions are kept in memory only.
Restart ==
  /\ ops < MaxOps /\ ops' = ops + 1
  /\ settings' = file /\ UNCHANGED file
  /\ error' \in BOOLEAN /\ (error' => Wanted(file) # 0)
  /\ listening' = (IF error' THEN 0 ELSE Wanted(file)) /\ open' = {listening'} \ {0}
  /\ req' = [a \in Admins |-> Done] /\ signIn' = [v \in SignIns |-> Out]
  /\ sessions' = {} /\ fails' = [i \in Addresses |-> Clean] /\ recent' = <<>>
  /\ unsaved' = FALSE
  /\ UNCHANGED <<now, mixed>>

-----------------------------------------------------------------------------

Admin(a) ==
  \/ \E on \in BOOLEAN, port \in Ports : PutSettings(a, on, port)
  \/ \E pw \in Passwords : PutPassword(a, pw) \/ PutViewPassword(a, pw)
  \/ DeleteViewPassword(a)
  \/ SetPassword(a) \/ GiveUp(a) \/ Save(a) \/ EndSessions(a)
  \/ Close(a) \/ ReadSettings(a) \/ Open(a)

Visit(v) ==
  \/ \E ip \in Addresses : CheckLimit(v, ip)
  \/ TakeSlot(v) \/ Wrong(v) \/ HangUp(v) \/ Right(v) \/ CreateSession(v)

Next ==
  \/ \E a \in Admins : Admin(a)
  \/ \E v \in SignIns : Visit(v)
  \/ \E s \in sessions : Touch(s) \/ Leave(s)
  \/ LeaveAll \/ Tick \/ Restart

Spec == Init /\ [][Next]_vars
-----------------------------------------------------------------------------
(* Properties *)

Maybe == Passwords \cup {None}
Settings == [on : BOOLEAN, port : Ports, control : Maybe, view : Maybe]
Steps == {"idle", "hash", "save", "end", "close", "read", "open"}

\* Types; no more sessions than MAX_SESSIONS, no more checks than there are slots.
TypeOK ==
  /\ settings \in Settings /\ file \in Settings
  /\ listening \in Ports \cup {0} /\ open \subseteq Ports /\ error \in BOOLEAN
  /\ req \in [Admins -> [op : {"none", "settings", "password", "view"}, step : Steps,
                         pw : Maybe, copy : Settings]]
  /\ signIn \in [SignIns -> [step : {"idle", "copy", "verify", "create"}, ip : Addresses,
                             control : Maybe, view : Maybe]]
  /\ sessions \subseteq [id : 1..MaxOps, role : {"control", "view"}, by : Passwords,
                         since : 0..MaxTime, seen : 0..MaxTime, late : BOOLEAN]
  /\ fails \in [Addresses -> [n : 0..MaxOps, until : 0..(MaxTime + MaxWait)]]
  /\ now \in 0..MaxTime /\ ops \in 0..MaxOps /\ mixed \in BOOLEAN /\ unsaved \in BOOLEAN
  /\ Cardinality(sessions) <= MaxSessions /\ Cardinality(Checking) <= Slots

Settled == \A a \in Admins : req[a].step = "idle"

\* When no change is in progress, what is saved and what is listened on is what the
\* settings say: off is off, a restart changes nothing, and a port that cannot be listened on
\* is shown as an error with no other one open (Remote::apply, save).  Two changes at once
\* break it, and so does one that cannot be saved.
SettingsFollowed ==
  Settled /\ ~mixed /\ ~unsaved =>
    /\ file = settings
    /\ error => Wanted(settings) # 0
    /\ listening = (IF error THEN 0 ELSE Wanted(settings)) /\ open = {listening} \ {0}

\* A change of a password, its removal, or switching off leaves no session that was signed
\* in before it (REMOTE_ACCESS.md).  A sign-in that is being verified meanwhile
\* makes a late one.
SessionsCurrent ==
  Settled /\ ~unsaved =>
    \A s \in sessions : s.late \/ (settings.on /\ settings[s.role] = s.by)

\* The two passwords tell the roles apart, unless two are set at once.
PasswordsDiffer ==
  ~mixed => settings.view = None \/ settings.view # settings.control

\* At most GLOBAL_PER_MINUTE sign-ins fail in a minute, but for those that were checked
\* before the last of them failed (Limiter::check and failed are two calls).
FailuresBounded ==
  Cardinality({i \in DOMAIN recent : now - recent[i] < Minute})
    <= GlobalPerMinute - 1 + Cardinality(SignIns)
=============================================================================
