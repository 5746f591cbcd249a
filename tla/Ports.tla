------------------------------- MODULE Ports -------------------------------
(***************************************************************************)
(* Which instrument is on which port: the port lock, the search for a      *)
(* configured instrument by its identity, and Detect (bm-transport lock.rs,*)
(* identity.rs, lib.rs, presence.rs; bm-server detect.rs, devices.rs).     *)
(*                                                                         *)
(* Instruments are plugged in and pulled out at any moment; ports are      *)
(* listed once and opened later.  A definition's probe is a member of      *)
(* Probes, its reply the instrument that sent it.                          *)
(***************************************************************************)
EXTENDS Naturals, Sequences, SequencesExt, FiniteSets

CONSTANTS
  Instruments,
  Paths, Locations,
  Entries,      \* configured instruments
  Owners,       \* which instruments the entries are configured for: functions of Entries
  ByPort,       \* which entries have a port and no identity: sets of entries
  Chip,         \* [Instruments -> the vid, pid and revision of its USB interface]
  Serial,       \* [Instruments -> the serial number of its USB interface, or Nothing]
  IdnSerial,    \* the instruments whose identify reply has a serial number (each its own)
  Models,       \* [Instruments -> the instruments its definition has a model for]
  Probes,       \* the probe groups of a kind of port, in order: a sequence
  Understands,  \* [Instruments -> the probes it answers]
  Known,        \* [Instruments -> the probes whose definitions know its reply]
  Nothing,
  MaxPlugs      \* bound: instruments plugged in or pulled out

ASSUME PortsAssumption ==
  /\ IsFiniteSet(Paths) /\ Nothing \notin Paths /\ Nothing \notin Instruments
  /\ Owners \subseteq [Entries -> Instruments] /\ ByPort \subseteq SUBSET Entries
  \* a serial number occurs once among equal interfaces
  /\ \A i, j \in Instruments :
       Chip[i] = Chip[j] /\ Serial[i] = Serial[j] /\ Serial[i] # Nothing => i = j

VARIABLES
  at,       \* what is attached to each path
  location, \* the physical port behind each path
  owner,    \* the instrument each entry was configured for
  match,    \* match[e]: the location, last known path and certainty of e's identity, and the
            \* instruments that were attached when Detect made it; certainty "none": a path only
  parked,   \* entries that are parked
  held,     \* HELD: the paths with an open transport
  session,  \* session[e]: the connection of e's thread
  job,      \* Job, with what it read when it started
  scan,     \* scan[p]: what Detect does on p
  stuck,    \* abandoned probes that still hold their port: path and instrument
  plugs     \* bound

portsVars == <<at, location, owner, match, parked, held, session, job, scan, stuck, plugs>>

Attached == {p \in Paths : at[p] # Nothing}
PathOf(i) == CHOOSE p \in Paths : at[p] = i

Offline == [step |-> "offline", left |-> <<>>, path |-> Nothing, instrument |-> Nothing,
            seen |-> Nothing]
NoScan == [step |-> "off", probe |-> 0, instrument |-> Nothing]

\* UsbMatch::matches: everything but the location; an identity without a serial number fits any.
Matches(e, i) ==
  i # Nothing /\ Chip[i] = Chip[owner[e]] /\ Serial[owner[e]] \in {Nothing, Serial[i]}

\* Identity::certainty, among the instruments attached when e was configured; key() has the
\* serial number, so an equal chip that has one is not counted.
Certainty(i, attached) ==
  CASE i \in IdnSerial -> "instrument"
    [] i \notin IdnSerial /\ Serial[i] # Nothing -> "adapter"
    [] OTHER -> IF \A j \in attached : Chip[j] = Chip[i] /\ Serial[j] = Nothing => j = i
                THEN "chip" ELSE "position"

Identified(e) == match[e].certainty # "none"

\* Detect made each entry's identity while its instrument was attached (Identity::of); an
\* entry without one may name any port.
PortsInit ==
  /\ owner \in Owners
  /\ at \in {f \in [Paths -> Instruments \cup {Nothing}] :
       /\ \A p, q \in Paths : f[p] = f[q] /\ f[p] # Nothing => p = q
       /\ \A e \in Entries : \E p \in Paths : f[p] = owner[e]}
  /\ location \in {f \in [Paths -> Locations] : \A p, q \in Paths : f[p] = f[q] => p = q}
  /\ \E fixed \in ByPort, port \in [Entries -> Paths] :
       /\ \A e \in Entries \ fixed : port[e] = PathOf(owner[e])
       /\ match = [e \in Entries |->
            [location |-> location[PathOf(owner[e])], hint |-> port[e],
             among |-> {at[p] : p \in Attached},
             certainty |-> IF e \in fixed THEN "none"
                           ELSE Certainty(owner[e], {at[p] : p \in Attached})]]
  /\ parked = {} /\ held = {} /\ stuck = {} /\ plugs = 0
  /\ session = [e \in Entries |-> Offline]
  /\ job = [running |-> FALSE, ports |-> at, parked |-> {}, connected |-> [e \in Entries |-> Nothing]]
  /\ scan = [p \in Paths |-> NoScan]

-----------------------------------------------------------------------------
(* The bench. *)

Plug(i, p, l) ==
  /\ plugs < MaxPlugs /\ plugs' = plugs + 1
  /\ at[p] = Nothing /\ \A q \in Paths : at[q] # i
  /\ \A q \in Attached : location[q] # l
  /\ at' = [at EXCEPT ![p] = i] /\ location' = [location EXCEPT ![p] = l]
  /\ UNCHANGED <<owner, match, parked, held, session, job, scan, stuck>>

Pull(p) ==
  /\ plugs < MaxPlugs /\ plugs' = plugs + 1
  /\ at[p] # Nothing /\ at' = [at EXCEPT ![p] = Nothing]
  /\ UNCHANGED <<location, owner, match, parked, held, session, job, scan, stuck>>

-----------------------------------------------------------------------------
(* The thread of a device connects (attempts, connect_any). *)

\* Identity::candidates: free ports that match; the same location first, then the last path,
\* then as the system lists them.
Candidates(e) ==
  LET fits == {p \in Paths : Matches(e, at[p]) /\ p \notin held}
      rank(p) == IF location[p] = match[e].location THEN 0
                 ELSE IF p = match[e].hint THEN 1 ELSE 2
  IN  {c \in SetToSeqs({<<p, at[p]>> : p \in fits}) :
         \A n, k \in DOMAIN c : n < k => rank(c[n][1]) <= rank(c[k][1])}

\* attempts: the fixed path whatever is there, or the candidates.
Attempts(e) ==
  IF Identified(e) THEN Candidates(e) ELSE {<<<<match[e].hint, at[match[e].hint]>>>>}

Search(e) ==
  /\ e \notin parked /\ session[e].step = "offline"
  /\ \E c \in Attempts(e) \ {<<>>} :
       session' = [session EXCEPT ![e] = [Offline EXCEPT !.step = "trying", !.left = c]]
  /\ UNCHANGED <<at, location, owner, match, parked, held, job, scan, stuck, plugs>>

NextAttempt(s) == IF s.left = <<>> THEN Offline ELSE [Offline EXCEPT !.step = "trying", !.left = s.left]

\* lock::acquire, then the port itself.
Open(e) ==
  LET s == session[e]
      p == Head(s.left)[1]
      rest == [s EXCEPT !.left = Tail(@)]
  IN
  /\ s.step = "trying"
  /\ IF p \in held \/ at[p] = Nothing
     THEN /\ session' = [session EXCEPT ![e] = NextAttempt(rest)] /\ UNCHANGED held
     ELSE /\ held' = held \cup {p}
          /\ session' = [session EXCEPT ![e] = [rest EXCEPT !.step = "open", !.path = p,
               !.instrument = at[p], !.seen = Head(s.left)[2]]]
  /\ UNCHANGED <<at, location, owner, match, parked, job, scan, stuck, plugs>>

\* Mutant: the serial number is not compared.
CheckIdnAny(e, i) == TRUE

\* Identity::check_idn: the serial number of the identity, if it has one, is in the reply.
CheckIdn(e, i) == Identified(e) /\ owner[e] \in IdnSerial => i = owner[e]

Identify(e) ==
  LET s == session[e]
      ok == at[s.path] = s.instrument /\ s.instrument \in Models[owner[e]] /\ CheckIdn(e, s.instrument)
  IN
  /\ s.step = "open"
  /\ session' = [session EXCEPT ![e] = IF ok THEN [s EXCEPT !.step = "connected", !.left = <<>>]
                                           ELSE NextAttempt(s)]
  /\ held' = IF ok THEN held ELSE held \ {s.path}
  /\ UNCHANGED <<at, location, owner, match, parked, job, scan, stuck, plugs>>

\* The next exchange fails, and the transport is dropped.
Lost(e) ==
  LET s == session[e] IN
  /\ s.step = "connected" /\ at[s.path] # s.instrument
  /\ session' = [session EXCEPT ![e] = Offline] /\ held' = held \ {s.path}
  /\ UNCHANGED <<at, location, owner, match, parked, job, scan, stuck, plugs>>

\* A thread takes Park between two commands.
Park(e) ==
  LET s == session[e] IN
  /\ e \notin parked /\ s.step \in {"offline", "connected"} /\ parked' = parked \cup {e}
  /\ session' = [session EXCEPT ![e] = Offline] /\ held' = held \ {s.path}
  /\ UNCHANGED <<at, location, owner, match, job, scan, stuck, plugs>>

Unpark(e) ==
  /\ e \in parked /\ parked' = parked \ {e}
  /\ UNCHANGED <<at, location, owner, match, held, session, job, scan, stuck, plugs>>

-----------------------------------------------------------------------------
(* Detect. *)

ConnectedAt(e) == IF session[e].step = "connected" THEN session[e].path ELSE Nothing

\* A run in progress is not restarted.  run(): the entries and the registry, then the ports.
StartDetect ==
  /\ ~job.running
  /\ job' = [running |-> TRUE, ports |-> at, parked |-> parked,
             connected |-> [e \in Entries |-> ConnectedAt(e)]]
  /\ scan' = [p \in Paths |-> IF at[p] = Nothing THEN NoScan ELSE [NoScan EXCEPT !.step = "queued"]]
  /\ UNCHANGED <<at, location, owner, match, parked, held, session, stuck, plugs>>

\* The entries that name a port and are not connected, by what the job read; the order in
\* which the entries are configured is any.
FirstOf(S) == CHOOSE x \in S : TRUE
Naming(p) == {e \in Entries : job.connected[e] = Nothing /\ match[e].hint = p}

\* Mutant: a parked device is only looked for on its last known port.
ConfiguredOnHint(p) ==
  \/ \E e \in Entries : job.connected[e] = p
  \/ \E e \in job.parked : match[e].hint = p

\* configured_on, with what the job read: reported without a byte.  A port that several
\* entries name is that of the first of them, parked or not.
ConfiguredOn(p) ==
  \/ \E e \in Entries : job.connected[e] = p
  \/ \E e \in job.parked : Identified(e) /\ Matches(e, job.ports[p])
  \/ Naming(p) # {} /\ FirstOf(Naming(p)) \in job.parked

Finish(p) == scan' = [scan EXCEPT ![p] = [NoScan EXCEPT !.step = "done"]]

PortBegins(p) ==
  /\ scan[p].step = "queued"
  /\ IF ConfiguredOn(p) \/ p \in held \/ Probes = <<>>
     THEN Finish(p)
     ELSE scan' = [scan EXCEPT ![p] = [@ EXCEPT !.step = "probing", !.probe = 1]]
  /\ UNCHANGED <<at, location, owner, match, parked, held, session, job, stuck, plugs>>

\* A port that cannot be opened ends its scan: no other probe can help.
ProbeOpens(p) ==
  /\ scan[p].step = "probing"
  /\ IF p \in held \/ at[p] = Nothing
     THEN Finish(p) /\ UNCHANGED held
     ELSE /\ held' = held \cup {p}
          /\ scan' = [scan EXCEPT ![p] = [@ EXCEPT !.step = "sent", !.instrument = at[p]]]
  /\ UNCHANGED <<at, location, owner, match, parked, session, job, stuck, plugs>>

\* A reply some definition of the group knows ends the scan; no reply, or one that none
\* knows, goes on with the next probe.
ProbeReturns(p) ==
  LET s == scan[p]
      found == at[p] = s.instrument /\ Probes[s.probe] \in Understands[s.instrument] \cap Known[s.instrument]
  IN
  /\ s.step = "sent" /\ held' = held \ {p}
  /\ IF found \/ s.probe = Len(Probes)
     THEN Finish(p)
     ELSE scan' = [scan EXCEPT ![p] = [NoScan EXCEPT !.step = "probing", !.probe = s.probe + 1]]
  /\ UNCHANGED <<at, location, owner, match, parked, session, job, stuck, plugs>>

\* Mutant: a given-up probe's port is free at once.
ProbeAbandonedFrees(p) ==
  /\ scan[p].step = "sent"
  /\ stuck' = stuck \cup {<<p, scan[p].instrument>>} /\ held' = held \ {p} /\ Finish(p)
  /\ UNCHANGED <<at, location, owner, match, parked, session, job, plugs>>

\* bounded: the probe's thread is given up, and keeps its port until it returns.
ProbeAbandoned(p) ==
  /\ scan[p].step = "sent"
  /\ stuck' = stuck \cup {<<p, scan[p].instrument>>} /\ Finish(p)
  /\ UNCHANGED <<at, location, owner, match, parked, held, session, job, plugs>>

AbandonedReturns(s) ==
  /\ s \in stuck /\ stuck' = stuck \ {s} /\ held' = held \ {s[1]}
  /\ UNCHANGED <<at, location, owner, match, parked, session, job, scan, plugs>>

DetectEnds ==
  /\ job.running /\ \A p \in Paths : scan[p].step \in {"off", "done"}
  /\ job' = [running |-> FALSE, ports |-> at, parked |-> {}, connected |-> [e \in Entries |-> Nothing]]
  /\ scan' = [p \in Paths |-> NoScan]
  /\ UNCHANGED <<at, location, owner, match, parked, held, session, stuck, plugs>>

-----------------------------------------------------------------------------
PortsNext ==
  \/ \E i \in Instruments, p \in Paths, l \in Locations : Plug(i, p, l)
  \/ \E p \in Paths : Pull(p)
  \/ \E e \in Entries : Search(e) \/ Open(e) \/ Identify(e) \/ Lost(e) \/ Park(e) \/ Unpark(e)
  \/ StartDetect \/ DetectEnds
  \/ \E p \in Paths : PortBegins(p) \/ ProbeOpens(p) \/ ProbeReturns(p) \/ ProbeAbandoned(p)
  \/ \E s \in stuck : AbandonedReturns(s)

PortsSpec == PortsInit /\ [][PortsNext]_portsVars

-----------------------------------------------------------------------------
\* A device with an identity is connected to its own instrument, however the bench was replugged and whoever
\* else searched: always when its identify reply carries a serial number; with a USB serial
\* number, unless the port was replugged between listing and opening; as the only one with its
\* chip, unless an equal interface came later or has a serial number.
OwnInstrument ==
  \A e \in Entries :
    LET i == session[e].instrument
        certainty == match[e].certainty
    IN  (session[e].step = "connected" /\ i # owner[e]) =>
          /\ certainty # "instrument"
          /\ session[e].seen = i => certainty # "adapter"
          /\ session[e].seen = i /\ certainty = "chip" => i \notin match[e].among \/ Serial[i] # Nothing

\* Two conversations with one instrument are never open at once: of two devices, of a device
\* and a probe, or of an abandoned probe that did not return and the next one.
OneConversation ==
  LET Conversations ==
        {<<"device", e, session[e].path, session[e].instrument>> :
           e \in {d \in Entries : session[d].step \in {"open", "connected"}}}
        \cup {<<"probe", p, p, scan[p].instrument>> : p \in {q \in Paths : scan[q].step = "sent"}}
        \cup {<<"stuck", s, s[1], s[2]>> : s \in stuck}
  IN  \A c, d \in Conversations : (c # d /\ c[4] = d[4]) => ~(at[c[3]] = c[4] /\ at[d[3]] = d[4])

\* Detect sends nothing to an instrument that was parked when it started, wherever it is
\* plugged in, unless the port was replugged since the ports were listed; nor, when only its
\* port is known, to that port, unless another entry names the same.
ParkedNotProbed ==
  \A p \in Paths, e \in job.parked :
    scan[p].step = "sent" =>
      IF Identified(e) THEN scan[p].instrument = owner[e] => job.ports[p] # owner[e]
      ELSE match[e].hint = p => \E d \in Entries \ {e} : match[d].hint = p
=============================================================================
