--------------------------- MODULE ServicesProofs ---------------------------
(***************************************************************************)
(* Proofs about the services that share no state with the instruments'     *)
(* model: Ports, Updates, ScpiSession, FlowFiles, Assistant, Mcp,          *)
(* SeriesRange, Autostart and Framing, each a specification of its own.    *)
(***************************************************************************)
EXTENDS Updates, Ports, ScpiSession, Autostart, FlowFiles, Assistant, Mcp, SeriesRange, Framing,
        SequenceTheorems, FiniteSetTheorems, WellFoundedInduction, TLAPS

-----------------------------------------------------------------------------
(* Ports: for every set of instruments, ports, configured devices and      *)
(* probes, however often the bench is replugged.  A port has one holder at *)
(* most (HoldInv), so a conversation cannot meet another one on its port,  *)
(* and an instrument is on one port.  What a session was opened with was   *)
(* listed as fitting (FitInv), and what Detect probes was not configured   *)
(* when it listed the ports (ProbeInv).                                    *)

SomeUnit == Instruments \cup {Nothing}
Talking == {"open", "connected"}

SessionType == [step : {"offline", "trying"} \cup Talking, left : Seq(Paths \X SomeUnit),
            path : Paths \cup {Nothing}, instrument : SomeUnit, seen : SomeUnit]
ScanType == [step : {"off", "queued", "probing", "sent", "done"}, probe : Nat, instrument : SomeUnit]

PortsTypes ==
  /\ at \in [Paths -> SomeUnit] /\ owner \in [Entries -> Instruments]
  /\ session \in [Entries -> SessionType] /\ scan \in [Paths -> ScanType]
  /\ stuck \subseteq Paths \X SomeUnit /\ held \subseteq Paths
  /\ job.ports \in [Paths -> SomeUnit]

\* An instrument is on one port.
AtInv == \A p, q \in Paths : at[p] = at[q] /\ at[p] # Nothing => p = q

\* Every open transport is held, by one of a device, a probe and an abandoned probe.
HoldInv ==
  /\ \A e \in Entries : session[e].step \notin Talking => session[e].path = Nothing
  /\ \A e \in Entries : session[e].step \in Talking =>
       /\ session[e].path \in held /\ session[e].instrument # Nothing
       /\ scan[session[e].path].step # "sent"
       /\ \A d \in Entries : session[d].step \in Talking /\ session[d].path = session[e].path => d = e
       /\ \A s \in stuck : s[1] # session[e].path
  /\ \A p \in Paths : scan[p].step = "sent" =>
       p \in held /\ scan[p].instrument # Nothing /\ \A s \in stuck : s[1] # p
  /\ \A s, t \in stuck : s[1] \in held /\ s[2] # Nothing /\ (s[1] = t[1] => s = t)

\* What a session of an entry with an identity tries, or was opened with, was listed as
\* matching; what it is connected with passed the check of the identify reply.
MayBe(e, i) == Identified(e) => Matches(e, i)

Fits(e, s) ==
  /\ s.step = "trying" => s.left # <<>>
  /\ \A k \in 1..Len(s.left) : MayBe(e, s.left[k][2])
  /\ s.step \in Talking => MayBe(e, s.seen)
  /\ s.step = "connected" => CheckIdn(e, s.instrument)

FitInv ==
  /\ \A e \in Entries :
       /\ match[e].hint \in Paths
       /\ match[e].certainty \in {"none", Certainty(owner[e], match[e].among)}
  /\ \A e \in Entries : Fits(e, session[e])

ProbeInv == \A p \in Paths : scan[p].step \in {"probing", "sent"} => ~ConfiguredOn(p)

PortsInv == PortsTypes /\ AtInv /\ HoldInv /\ FitInv /\ ProbeInv

-----------------------------------------------------------------------------
(* Steps of the bench, of Detect and of parking that leave most things alone. *)

LEMMA ConfiguredKept ==
  ASSUME NEW p \in Paths, UNCHANGED <<owner, match, job>>
  PROVE  ConfiguredOn(p)' <=> ConfiguredOn(p)
<1>1. Naming(p)' = Naming(p)
  BY DEF Naming
<1>2. FirstOf(Naming(p)') = FirstOf(Naming(p))
  BY <1>1
<1> QED
  BY <1>1, <1>2 DEF ConfiguredOn, Identified, Matches

LEMMA PortsStart == PortsInit => PortsInv
<1> SUFFICES ASSUME PortsInit PROVE PortsInv
  OBVIOUS
<1>1. Offline \in SessionType /\ Offline.step = "offline" /\ Offline.path = Nothing /\ Offline.left = <<>>
  BY DEF Offline, SessionType, SomeUnit
<1>2. NoScan \in ScanType /\ NoScan.step = "off"
  BY DEF NoScan, ScanType, SomeUnit
<1>3. PortsTypes
  BY PortsAssumption, <1>1, <1>2 DEF PortsInit, PortsTypes, SomeUnit
<1>4. AtInv
  BY DEF PortsInit, AtInv
<1>5. HoldInv
  <2>1. \A e \in Entries : session[e] = Offline
    BY DEF PortsInit
  <2>2. \A p \in Paths : scan[p] = NoScan
    BY DEF PortsInit
  <2>3. held = {} /\ stuck = {}
    BY DEF PortsInit
  <2> QED
    BY <1>1, <1>2, <2>1, <2>2, <2>3 DEF HoldInv, Talking
<1>6. FitInv
  <2>1. \A e \in Entries : session[e] = Offline
    BY DEF PortsInit
  <2>2. \A e \in Entries : /\ match[e].hint \in Paths
                           /\ match[e].certainty \in {"none", Certainty(owner[e], match[e].among)}
    <3>1. PICK fixed \in ByPort, port \in [Entries -> Paths] :
            match = [e \in Entries |->
              [location |-> location[PathOf(owner[e])], hint |-> port[e],
               among |-> {at[p] : p \in Attached},
               certainty |-> IF e \in fixed THEN "none"
                             ELSE Certainty(owner[e], {at[p] : p \in Attached})]]
      BY DEF PortsInit
    <3> QED
      BY <3>1
  <2> QED
    BY <1>1, <2>1, <2>2 DEF FitInv, Fits, Talking
<1>7. ProbeInv
  BY <1>2 DEF PortsInit, ProbeInv
<1> QED
  BY <1>3, <1>4, <1>5, <1>6, <1>7 DEF PortsInv

LEMMA BenchStep ==
  ASSUME PortsInv,
         \/ \E i \in Instruments, p \in Paths, l \in Locations : Plug(i, p, l)
         \/ \E p \in Paths : Pull(p)
         \/ \E e \in Entries : Unpark(e)
  PROVE  PortsInv'
<1>1. UNCHANGED <<owner, match, held, session, job, scan, stuck>>
  BY DEF Plug, Pull, Unpark
<1>2. at' \in [Paths -> SomeUnit] /\ AtInv'
  <2>1. CASE \E i \in Instruments, p \in Paths, l \in Locations : Plug(i, p, l)
    BY <2>1 DEF Plug, PortsInv, PortsTypes, AtInv, SomeUnit
  <2>2. CASE \E p \in Paths : Pull(p)
    BY <2>2 DEF Pull, PortsInv, PortsTypes, AtInv, SomeUnit
  <2>3. CASE at' = at
    BY <2>3 DEF PortsInv, PortsTypes, AtInv
  <2> QED
    BY <2>1, <2>2, <2>3 DEF Unpark
<1>3. PortsTypes'
  BY <1>1, <1>2 DEF PortsInv, PortsTypes
<1>4. HoldInv' /\ FitInv'
  BY <1>1 DEF PortsInv, HoldInv, FitInv, Fits, MayBe, Identified, Matches, CheckIdn
<1>5. ProbeInv'
  BY <1>1, ConfiguredKept DEF PortsInv, ProbeInv
<1> QED
  BY <1>2, <1>3, <1>4, <1>5 DEF PortsInv
-----------------------------------------------------------------------------
(* The thread of a device. *)

LEMMA AttemptsFit ==
  ASSUME PortsInv, NEW e \in Entries, NEW c \in Attempts(e)
  PROVE  c \in Seq(Paths \X SomeUnit) /\ \A k \in 1..Len(c) : MayBe(e, c[k][2])
<1>1. CASE ~Identified(e)
  <2>1. c = <<<<match[e].hint, at[match[e].hint]>>>>
    BY <1>1 DEF Attempts
  <2>2. <<match[e].hint, at[match[e].hint]>> \in Paths \X SomeUnit
    BY DEF PortsInv, PortsTypes, FitInv
  <2>3. c \in Seq(Paths \X SomeUnit)
    BY <2>1, <2>2
  <2> QED
    BY <1>1, <2>3 DEF MayBe
<1>2. CASE Identified(e)
  <2> DEFINE fits == {p \in Paths : Matches(e, at[p]) /\ p \notin held}
             pairs == {<<p, at[p]>> : p \in fits}
             pair == [p \in fits |-> <<p, at[p]>>]
  <2>1. IsFiniteSet(fits)
    BY PortsAssumption, FS_Subset
  <2>2. pair \in Surjection(fits, pairs)
    BY DEF Surjection
  <2>3. Cardinality(pairs) \in Nat
    BY <2>1, <2>2, FS_Surjection, FS_CardinalityType
  <2>4. c \in [1..Cardinality(pairs) -> pairs]
    BY <1>2 DEF Attempts, Candidates, SetToSeqs
  <2>5. pairs \subseteq Paths \X SomeUnit /\ \A x \in pairs : Matches(e, x[2])
    BY DEF PortsInv, PortsTypes
  <2> HIDE DEF pairs
  <2>6. c \in Seq(pairs) /\ Len(c) = Cardinality(pairs)
    BY <2>3, <2>4
  <2>7. \A k \in 1..Len(c) : c[k] \in pairs
    BY <2>4, <2>6
  <2>8. c \in Seq(Paths \X SomeUnit)
    BY <2>3, <2>4, <2>5
  <2> QED
    BY <2>5, <2>7, <2>8 DEF MayBe
<1> QED
  BY <1>1, <1>2

\* What a thread does without opening a port: it searches, tries the next port, or lets go of
\* the port it has.
LEMMA LetsGo ==
  ASSUME PortsInv, NEW e \in Entries, NEW s \in SessionType,
         s.step \in {"offline", "trying"}, s.path = Nothing, Fits(e, s),
         session' = [session EXCEPT ![e] = s], held' = held \ {session[e].path},
         UNCHANGED <<at, owner, match, job, scan, stuck>>
  PROVE  PortsInv'
<1>1. session'[e] = s /\ \A d \in Entries \ {e} : session'[d] = session[d]
  BY DEF PortsInv, PortsTypes
<1>2. PortsTypes'
  BY DEF PortsInv, PortsTypes
<1>3. AtInv'
  BY DEF PortsInv, AtInv
<1>4. HoldInv'
  <2>1. CASE session[e].step \in Talking
    BY <1>1, <2>1 DEF PortsInv, HoldInv, Talking
  <2>2. CASE session[e].step \notin Talking
    <3>1. held' = held
      BY PortsAssumption, <2>2 DEF PortsInv, HoldInv, PortsTypes
    <3> QED
      BY <1>1, <2>2, <3>1 DEF PortsInv, HoldInv, Talking
  <2> QED
    BY <2>1, <2>2
<1>5. FitInv'
  BY <1>1 DEF PortsInv, FitInv, Fits, MayBe, Identified, Matches, CheckIdn
<1>6. ProbeInv'
  BY ConfiguredKept DEF PortsInv, ProbeInv
<1> QED
  BY <1>2, <1>3, <1>4, <1>5, <1>6 DEF PortsInv

\* The next port of a list that fits.
LEMMA NextFits ==
  ASSUME NEW e \in Entries, NEW s \in SessionType, \A k \in 1..Len(s.left) : MayBe(e, s.left[k][2])
  PROVE  /\ NextAttempt(s) \in SessionType /\ NextAttempt(s).step \in {"offline", "trying"}
         /\ NextAttempt(s).path = Nothing /\ Fits(e, NextAttempt(s))
<1>1. CASE s.left = <<>>
  BY <1>1 DEF NextAttempt, Offline, SessionType, SomeUnit, Fits, Talking
<1>2. CASE s.left # <<>>
  BY <1>2 DEF NextAttempt, Offline, SessionType, SomeUnit, Fits, Talking
<1> QED
  BY <1>1, <1>2

LEMMA TailFits ==
  ASSUME NEW e \in Entries, NEW s \in SessionType, s.left # <<>>,
         \A k \in 1..Len(s.left) : MayBe(e, s.left[k][2])
  PROVE  /\ Head(s.left) \in Paths \X SomeUnit /\ MayBe(e, Head(s.left)[2])
         /\ Tail(s.left) \in Seq(Paths \X SomeUnit)
         /\ \A k \in 1..Len(Tail(s.left)) : MayBe(e, Tail(s.left)[k][2])
<1>1. s.left \in Seq(Paths \X SomeUnit)
  BY DEF SessionType
<1>2. Len(s.left) \in Nat /\ Len(s.left) > 0 /\ Head(s.left) = s.left[1]
  BY <1>1
<1>3. /\ Tail(s.left) \in Seq(Paths \X SomeUnit) /\ Len(Tail(s.left)) = Len(s.left) - 1
      /\ \A k \in 1..Len(Tail(s.left)) : Tail(s.left)[k] = s.left[k + 1]
  BY <1>1, <1>2
<1>4. \A k \in 1..Len(Tail(s.left)) : k + 1 \in 1..Len(s.left)
  BY <1>2, <1>3
<1> QED
  BY <1>1, <1>2, <1>3, <1>4

LEMMA SearchStep ==
  ASSUME PortsInv, NEW e \in Entries, Search(e)
  PROVE  PortsInv'
<1>1. PICK c \in Attempts(e) \ {<<>>} :
        session' = [session EXCEPT ![e] = [Offline EXCEPT !.step = "trying", !.left = c]]
  BY Zenon DEF Search
<1> DEFINE s == [Offline EXCEPT !.step = "trying", !.left = c]
<1>2. c \in Seq(Paths \X SomeUnit) /\ \A k \in 1..Len(c) : MayBe(e, c[k][2])
  BY AttemptsFit
<1>3. s \in SessionType /\ s.step = "trying" /\ s.path = Nothing /\ s.left = c
  BY <1>2 DEF Offline, SessionType, SomeUnit
<1>4. Fits(e, s)
  BY <1>1, <1>2, <1>3 DEF Fits, Talking
<1>5. held' = held \ {session[e].path}
  BY PortsAssumption DEF Search, PortsInv, HoldInv, PortsTypes, Talking
<1> QED
  BY <1>1, <1>3, <1>4, <1>5, LetsGo DEF Search

LEMMA OpenStep ==
  ASSUME PortsInv, NEW e \in Entries, Open(e)
  PROVE  PortsInv'
<1> DEFINE s == session[e]
           p == Head(s.left)[1]
           rest == [s EXCEPT !.left = Tail(@)]
           open == [rest EXCEPT !.step = "open", !.path = p, !.instrument = at[p],
                                !.seen = Head(s.left)[2]]
<1>1. s \in SessionType /\ s.step = "trying" /\ s.left # <<>> /\ s.path = Nothing /\ Fits(e, s)
  BY DEF Open, PortsInv, PortsTypes, FitInv, Fits, HoldInv, Talking
<1>2. /\ Head(s.left) \in Paths \X SomeUnit /\ MayBe(e, Head(s.left)[2])
      /\ Tail(s.left) \in Seq(Paths \X SomeUnit)
      /\ \A k \in 1..Len(Tail(s.left)) : MayBe(e, Tail(s.left)[k][2])
  BY <1>1, TailFits DEF Fits
<1>3. rest \in SessionType /\ rest.left = Tail(s.left)
  BY <1>1, <1>2 DEF SessionType
<1>4. CASE p \in held \/ at[p] = Nothing
  <2>1. /\ NextAttempt(rest) \in SessionType /\ NextAttempt(rest).step \in {"offline", "trying"}
        /\ NextAttempt(rest).path = Nothing /\ Fits(e, NextAttempt(rest))
    BY <1>2, <1>3, NextFits
  <2>2. session' = [session EXCEPT ![e] = NextAttempt(rest)] /\ held' = held
    BY <1>4 DEF Open
  <2>3. held' = held \ {session[e].path}
    BY PortsAssumption, <1>1, <2>2 DEF PortsInv, PortsTypes
  <2> QED
    BY <2>1, <2>2, <2>3, LetsGo DEF Open
<1>5. CASE p \notin held /\ at[p] # Nothing
  <2>1. session' = [session EXCEPT ![e] = open] /\ held' = held \cup {p}
    BY <1>5 DEF Open
  <2>2. p \in Paths /\ at[p] \in SomeUnit
    BY <1>2 DEF PortsInv, PortsTypes
  <2>3. /\ open \in SessionType /\ open.step = "open" /\ open.path = p /\ open.instrument = at[p]
        /\ open.seen = Head(s.left)[2] /\ open.left = Tail(s.left)
    BY <1>1, <1>2, <1>3, <2>2 DEF SessionType, Talking
  <2>4. UNCHANGED <<at, owner, match, job, scan, stuck>>
    BY DEF Open
  <2> HIDE DEF open, p
  <2>5. session'[e] = open /\ \A d \in Entries \ {e} : session'[d] = session[d]
    BY <2>1 DEF PortsInv, PortsTypes
  <2>6. PortsTypes'
    BY <2>1, <2>2, <2>3, <2>4 DEF PortsInv, PortsTypes
  <2>7. AtInv'
    BY <2>4 DEF PortsInv, AtInv
  <2>8. HoldInv'
    BY <1>5, <2>1, <2>2, <2>3, <2>4, <2>5 DEF PortsInv, HoldInv, Talking
  <2>9. Fits(e, open)
    BY <1>2, <2>3 DEF Fits
  <2>10. FitInv'
    BY <2>4, <2>5, <2>9 DEF PortsInv, FitInv, Fits, MayBe, Identified, Matches, CheckIdn
  <2>11. ProbeInv'
    BY <2>4, ConfiguredKept DEF PortsInv, ProbeInv
  <2> QED
    BY <2>6, <2>7, <2>8, <2>10, <2>11 DEF PortsInv
<1> QED
  BY <1>4, <1>5

LEMMA IdentifyStep ==
  ASSUME PortsInv, NEW e \in Entries, Identify(e)
  PROVE  PortsInv'
<1> DEFINE s == session[e]
           ok == at[s.path] = s.instrument /\ s.instrument \in Models[owner[e]]
                 /\ CheckIdn(e, s.instrument)
           done == [s EXCEPT !.step = "connected", !.left = <<>>]
<1>1. s \in SessionType /\ s.step = "open" /\ Fits(e, s)
  BY DEF Identify, PortsInv, PortsTypes, FitInv
<1>2. UNCHANGED <<at, owner, match, job, scan, stuck>>
  BY DEF Identify
<1>3. CASE ~ok
  <2>1. session' = [session EXCEPT ![e] = NextAttempt(s)] /\ held' = held \ {s.path}
    BY <1>3 DEF Identify
  <2>2. /\ NextAttempt(s) \in SessionType /\ NextAttempt(s).step \in {"offline", "trying"}
        /\ NextAttempt(s).path = Nothing /\ Fits(e, NextAttempt(s))
    BY <1>1, NextFits DEF Fits
  <2> QED
    BY <1>2, <2>1, <2>2, LetsGo
<1>4. CASE ok
  <2>1. session' = [session EXCEPT ![e] = done] /\ held' = held
    BY <1>4 DEF Identify
  <2>2. /\ done \in SessionType /\ done.step = "connected" /\ done.path = s.path
        /\ done.instrument = s.instrument /\ done.seen = s.seen /\ done.left = <<>>
    <3>1. <<>> \in Seq(Paths \X SomeUnit)
      OBVIOUS
    <3> QED
      BY <1>1, <3>1 DEF SessionType, Talking
  <2>3. session'[e] = done /\ \A d \in Entries \ {e} : session'[d] = session[d]
    BY <2>1 DEF PortsInv, PortsTypes
  <2> HIDE DEF done
  <2>4. PortsTypes'
    BY <1>2, <2>1, <2>2 DEF PortsInv, PortsTypes
  <2>5. AtInv'
    BY <1>2 DEF PortsInv, AtInv
  <2>6. HoldInv'
    BY <1>1, <1>2, <2>1, <2>2, <2>3 DEF PortsInv, HoldInv, Talking
  <2>7. Fits(e, done)
    BY <1>1, <1>4, <2>2 DEF Fits, Talking
  <2>8. FitInv'
    BY <1>2, <2>3, <2>7 DEF PortsInv, FitInv, Fits, MayBe, Identified, Matches, CheckIdn
  <2>9. ProbeInv'
    BY <1>2, ConfiguredKept DEF PortsInv, ProbeInv
  <2> QED
    BY <2>4, <2>5, <2>6, <2>8, <2>9 DEF PortsInv
<1> QED
  BY <1>3, <1>4

LEMMA ThreadEnds ==
  ASSUME PortsInv, NEW e \in Entries, Lost(e) \/ Park(e)
  PROVE  PortsInv'
<1>1. /\ Offline \in SessionType /\ Offline.step = "offline" /\ Offline.path = Nothing
      /\ Fits(e, Offline)
  BY DEF Offline, SessionType, SomeUnit, Fits, Talking
<1>2. /\ session' = [session EXCEPT ![e] = Offline] /\ held' = held \ {session[e].path}
      /\ UNCHANGED <<at, owner, match, job, scan, stuck>>
  BY DEF Lost, Park
<1> QED
  BY <1>1, <1>2, LetsGo
-----------------------------------------------------------------------------
(* Detect. *)

LEMMA ScanValues ==
  /\ NoScan \in ScanType /\ NoScan.step = "off"
  /\ [NoScan EXCEPT !.step = "queued"] \in ScanType /\ [NoScan EXCEPT !.step = "queued"].step = "queued"
  /\ [NoScan EXCEPT !.step = "done"] \in ScanType /\ [NoScan EXCEPT !.step = "done"].step = "done"
BY DEF NoScan, ScanType, SomeUnit

LEMMA DetectStep ==
  ASSUME PortsInv, StartDetect \/ DetectEnds
  PROVE  PortsInv'
<1>1. UNCHANGED <<at, owner, match, held, session, stuck>> /\ job'.ports = at
  BY DEF StartDetect, DetectEnds
<1>2. scan' \in [Paths -> ScanType] /\ \A p \in Paths : scan'[p].step \in {"off", "queued"}
  <2>1. CASE StartDetect
    <3> DEFINE s(p) == IF at[p] = Nothing THEN NoScan ELSE [NoScan EXCEPT !.step = "queued"]
    <3>1. scan' = [p \in Paths |-> s(p)]
      BY <2>1 DEF StartDetect
    <3>2. \A p \in Paths : s(p) \in ScanType /\ s(p).step \in {"off", "queued"}
      BY ScanValues
    <3> HIDE DEF s
    <3> QED
      BY <3>1, <3>2
  <2>2. CASE DetectEnds
    <3>1. scan' = [p \in Paths |-> NoScan]
      BY <2>2 DEF DetectEnds
    <3> QED
      BY <3>1, ScanValues
  <2> QED
    BY <2>1, <2>2
<1>3. PortsTypes'
  BY <1>1, <1>2 DEF PortsInv, PortsTypes
<1>4. AtInv'
  BY <1>1 DEF PortsInv, AtInv
<1>5. HoldInv'
  <2>1. \A e \in Entries : session[e].step \in Talking => session[e].path \in Paths
    BY DEF PortsInv, HoldInv, PortsTypes
  <2> QED
    BY <1>1, <1>2, <2>1 DEF PortsInv, HoldInv
<1>6. FitInv'
  BY <1>1 DEF PortsInv, FitInv, Fits, MayBe, Identified, Matches, CheckIdn
<1>7. ProbeInv'
  BY <1>2 DEF ProbeInv
<1> QED
  BY <1>3, <1>4, <1>5, <1>6, <1>7 DEF PortsInv

\* A port's scan goes on without holding the port.
LEMMA ScanMoves ==
  ASSUME PortsInv, NEW p \in Paths, NEW s \in ScanType,
         s.step # "sent", s.step = "probing" => ~ConfiguredOn(p),
         scan' = [scan EXCEPT ![p] = s],
         held' = IF scan[p].step = "sent" THEN held \ {p} ELSE held,
         UNCHANGED <<at, owner, match, session, job, stuck>>
  PROVE  PortsInv'
<1>1. scan'[p] = s /\ \A q \in Paths \ {p} : scan'[q] = scan[q]
  BY DEF PortsInv, PortsTypes
<1>2. PortsTypes'
  BY DEF PortsInv, PortsTypes
<1>3. AtInv'
  BY DEF PortsInv, AtInv
<1>4. HoldInv'
  <2>1. \A e \in Entries : session[e].step \in Talking => session[e].path \in Paths
    BY DEF PortsInv, HoldInv, PortsTypes
  <2>2. \A t \in stuck : t[1] \in Paths
    BY DEF PortsInv, HoldInv, PortsTypes
  <2>3. CASE scan[p].step = "sent"
    BY <1>1, <2>1, <2>2, <2>3 DEF PortsInv, HoldInv
  <2>4. CASE scan[p].step # "sent"
    BY <1>1, <2>1, <2>2, <2>4 DEF PortsInv, HoldInv
  <2> QED
    BY <2>3, <2>4
<1>5. FitInv'
  BY DEF PortsInv, FitInv, Fits, MayBe, Identified, Matches, CheckIdn
<1>6. ProbeInv'
  BY <1>1, ConfiguredKept DEF PortsInv, ProbeInv
<1> QED
  BY <1>2, <1>3, <1>4, <1>5, <1>6 DEF PortsInv

LEMMA ScanStep ==
  ASSUME PortsInv, NEW p \in Paths, PortBegins(p) \/ ProbeReturns(p)
  PROVE  PortsInv'
<1> DEFINE following == [NoScan EXCEPT !.step = "probing", !.probe = scan[p].probe + 1]
           first == [scan[p] EXCEPT !.step = "probing", !.probe = 1]
           end == [NoScan EXCEPT !.step = "done"]
<1>1. scan[p] \in ScanType
  BY DEF PortsInv, PortsTypes
<1>2. /\ following \in ScanType /\ following.step = "probing"
      /\ first \in ScanType /\ first.step = "probing"
      /\ end \in ScanType /\ end.step = "done"
  <2>1. following \in ScanType /\ following.step = "probing"
    <3>1. scan[p].probe + 1 \in Nat
      BY <1>1 DEF ScanType
    <3>2. NoScan \in ScanType
      BY ScanValues
    <3> QED
      BY <3>1, <3>2 DEF ScanType
  <2>2. first \in ScanType /\ first.step = "probing"
    BY <1>1 DEF ScanType, SomeUnit
  <2> QED
    BY <2>1, <2>2, ScanValues
<1>3. UNCHANGED <<at, owner, match, session, job, stuck>>
  BY DEF PortBegins, ProbeReturns
<1> HIDE DEF following, first, end
<1>4. CASE PortBegins(p)
  <2>1. scan[p].step = "queued" /\ held' = held
    BY <1>4 DEF PortBegins
  <2>2. \/ scan' = [scan EXCEPT ![p] = end]
        \/ scan' = [scan EXCEPT ![p] = first] /\ ~ConfiguredOn(p)
    BY <1>1, <1>4 DEF PortBegins, Finish, end, first
  <2> QED
    BY <1>2, <1>3, <2>1, <2>2, ScanMoves
<1>5. CASE ProbeReturns(p)
  <2>1. scan[p].step = "sent" /\ held' = held \ {p}
    BY <1>5 DEF ProbeReturns
  <2>2. scan' = [scan EXCEPT ![p] = end] \/ scan' = [scan EXCEPT ![p] = following]
    BY <1>1, <1>5 DEF ProbeReturns, Finish, end, following
  <2>3. ~ConfiguredOn(p)
    BY <2>1 DEF PortsInv, ProbeInv
  <2> QED
    BY <1>2, <1>3, <2>1, <2>2, <2>3, ScanMoves
<1> QED
  BY <1>4, <1>5

LEMMA ProbeOpensStep ==
  ASSUME PortsInv, NEW p \in Paths, ProbeOpens(p)
  PROVE  PortsInv'
<1> DEFINE asked == [scan[p] EXCEPT !.step = "sent", !.instrument = at[p]]
           end == [NoScan EXCEPT !.step = "done"]
<1>1. scan[p] \in ScanType /\ scan[p].step = "probing" /\ at[p] \in SomeUnit
  BY DEF ProbeOpens, PortsInv, PortsTypes
<1>2. /\ asked \in ScanType /\ asked.step = "sent" /\ asked.instrument = at[p]
      /\ end \in ScanType /\ end.step = "done"
  BY <1>1 DEF NoScan, ScanType, SomeUnit
<1>3. UNCHANGED <<at, owner, match, session, job, stuck>>
  BY DEF ProbeOpens
<1>4. CASE p \in held \/ at[p] = Nothing
  <2>1. scan' = [scan EXCEPT ![p] = end] /\ held' = held
    BY <1>4 DEF ProbeOpens, Finish
  <2> QED
    BY <1>1, <1>2, <1>3, <2>1, ScanMoves
<1>5. CASE p \notin held /\ at[p] # Nothing
  <2>1. scan' = [scan EXCEPT ![p] = asked] /\ held' = held \cup {p}
    BY <1>1, <1>5 DEF ProbeOpens
  <2> HIDE DEF asked
  <2>2. scan'[p] = asked /\ \A q \in Paths \ {p} : scan'[q] = scan[q]
    BY <2>1 DEF PortsInv, PortsTypes
  <2>3. PortsTypes'
    BY <1>2, <1>3, <2>1 DEF PortsInv, PortsTypes
  <2>4. AtInv'
    BY <1>3 DEF PortsInv, AtInv
  <2>5. HoldInv'
    <3>1. \A e \in Entries : session[e].step \in Talking =>
            session[e].path \in Paths /\ session[e].path # p
      BY <1>5 DEF PortsInv, HoldInv, PortsTypes
    <3>2. \A t \in stuck : t[1] # p
      BY <1>5 DEF PortsInv, HoldInv
    <3> QED
      BY <1>2, <1>3, <1>5, <2>1, <2>2, <3>1, <3>2 DEF PortsInv, HoldInv
  <2>6. FitInv'
    BY <1>3 DEF PortsInv, FitInv, Fits, MayBe, Identified, Matches, CheckIdn
  <2>7. ProbeInv'
    BY <1>1, <1>3, <2>2, ConfiguredKept DEF PortsInv, ProbeInv
  <2> QED
    BY <2>3, <2>4, <2>5, <2>6, <2>7 DEF PortsInv
<1> QED
  BY <1>4, <1>5

LEMMA AbandonedStep ==
  ASSUME PortsInv, NEW p \in Paths, ProbeAbandoned(p)
  PROVE  PortsInv'
<1> DEFINE end == [NoScan EXCEPT !.step = "done"]
           new == <<p, scan[p].instrument>>
<1>1. end \in ScanType /\ end.step = "done"
  BY DEF NoScan, ScanType, SomeUnit
<1>2. /\ scan[p].step = "sent" /\ scan' = [scan EXCEPT ![p] = end] /\ stuck' = stuck \cup {new}
      /\ UNCHANGED <<at, owner, match, held, session, job>>
  BY DEF ProbeAbandoned, Finish
<1>3. scan'[p] = end /\ \A q \in Paths \ {p} : scan'[q] = scan[q]
  BY <1>2 DEF PortsInv, PortsTypes
<1>4. new \in Paths \X SomeUnit /\ new[1] = p /\ new[2] # Nothing
  BY <1>2 DEF PortsInv, PortsTypes, ScanType, HoldInv
<1> HIDE DEF end, new
<1>5. PortsTypes'
  BY <1>1, <1>2, <1>4 DEF PortsInv, PortsTypes
<1>6. AtInv'
  BY <1>2 DEF PortsInv, AtInv
<1>7. HoldInv'
  <2>1. \A e \in Entries : session[e].step \in Talking =>
          session[e].path \in Paths /\ session[e].path # p
    BY <1>2 DEF PortsInv, HoldInv, PortsTypes
  <2>2. p \in held /\ \A t \in stuck : t[1] # p
    BY <1>2 DEF PortsInv, HoldInv
  <2> QED
    BY <1>1, <1>2, <1>3, <1>4, <2>1, <2>2 DEF PortsInv, HoldInv
<1>8. FitInv'
  BY <1>2 DEF PortsInv, FitInv, Fits, MayBe, Identified, Matches, CheckIdn
<1>9. ProbeInv'
  BY <1>1, <1>2, <1>3, ConfiguredKept DEF PortsInv, ProbeInv
<1> QED
  BY <1>5, <1>6, <1>7, <1>8, <1>9 DEF PortsInv

LEMMA AbandonedReturnsStep ==
  ASSUME PortsInv, NEW s \in stuck, AbandonedReturns(s)
  PROVE  PortsInv'
<1>1. /\ stuck' = stuck \ {s} /\ held' = held \ {s[1]}
      /\ UNCHANGED <<at, owner, match, session, job, scan>>
  BY DEF AbandonedReturns
<1>2. PortsTypes' /\ AtInv'
  BY <1>1 DEF PortsInv, PortsTypes, AtInv
<1>3. HoldInv'
  BY <1>1 DEF PortsInv, HoldInv
<1>4. FitInv' /\ ProbeInv'
  BY <1>1, ConfiguredKept DEF PortsInv, FitInv, Fits, MayBe, Identified, Matches, CheckIdn, ProbeInv
<1> QED
  BY <1>2, <1>3, <1>4 DEF PortsInv

-----------------------------------------------------------------------------
(* The invariant, and what follows from it. *)

LEMMA PortsStep == PortsInv /\ [PortsNext]_portsVars => PortsInv'
<1> SUFFICES ASSUME PortsInv, [PortsNext]_portsVars PROVE PortsInv'
  OBVIOUS
<1>1. CASE \/ \E i \in Instruments, p \in Paths, l \in Locations : Plug(i, p, l)
           \/ \E p \in Paths : Pull(p)
           \/ \E e \in Entries : Unpark(e)
  BY <1>1, BenchStep
<1>2. CASE \E e \in Entries : Search(e) \/ Open(e) \/ Identify(e) \/ Lost(e) \/ Park(e)
  BY <1>2, SearchStep, OpenStep, IdentifyStep, ThreadEnds
<1>3. CASE StartDetect \/ DetectEnds
  BY <1>3, DetectStep
<1>4. CASE \E p \in Paths : PortBegins(p) \/ ProbeOpens(p) \/ ProbeReturns(p) \/ ProbeAbandoned(p)
  BY <1>4, ScanStep, ProbeOpensStep, AbandonedStep
<1>5. CASE \E s \in stuck : AbandonedReturns(s)
  BY <1>5, AbandonedReturnsStep
<1>6. CASE UNCHANGED portsVars
  <2>1. UNCHANGED <<at, owner, match, held, session, job, scan, stuck>>
    BY <1>6 DEF portsVars
  <2> QED
    BY <2>1, ConfiguredKept DEF PortsInv, PortsTypes, AtInv, HoldInv, FitInv, Fits, ProbeInv, MayBe, Identified, Matches, CheckIdn
<1> QED
  BY <1>1, <1>2, <1>3, <1>4, <1>5, <1>6 DEF PortsNext

LEMMA PortsInductive == PortsSpec => []PortsInv
<1>1. PortsInit => PortsInv
  BY PortsStart
<1>2. PortsInv /\ [PortsNext]_portsVars => PortsInv'
  BY PortsStep
<1> QED
  BY <1>1, <1>2, PTL DEF PortsSpec

\* No two conversations with one instrument are open at once, whether a device, a probe or an
\* abandoned probe holds them (lock.rs): for every bench, however often it is replugged.
THEOREM OneAtATime == PortsSpec => []OneConversation
<1>1. PortsInv => OneConversation
  <2> SUFFICES ASSUME PortsInv PROVE OneConversation
    OBVIOUS
  <2> DEFINE Holding == {<<"device", e, session[e].path, session[e].instrument>> :
                           e \in {d \in Entries : session[d].step \in Talking}}
             Probing == {<<"probe", p, p, scan[p].instrument>> : p \in {q \in Paths : scan[q].step = "sent"}}
             Left == {<<"stuck", s, s[1], s[2]>> : s \in stuck}
             All == Holding \cup Probing \cup Left
  <2>1. \A c \in All : c[3] \in Paths /\ c[4] # Nothing
    BY DEF PortsInv, PortsTypes, HoldInv
  <2>2. \A c, d \in All : c[3] = d[3] => c = d
    <3>1. \A c \in Holding, d \in All : c[3] = d[3] => c = d
      BY DEF PortsInv, HoldInv
    <3>2. \A c \in Probing, d \in Probing \cup Left : c[3] = d[3] => c = d
      BY DEF PortsInv, HoldInv
    <3>3. \A c, d \in Left : c[3] = d[3] => c = d
      BY DEF PortsInv, HoldInv
    <3> QED
      BY <3>1, <3>2, <3>3
  <2> HIDE DEF All
  <2>3. \A c, d \in All : (c # d /\ c[4] = d[4]) => ~(at[c[3]] = c[4] /\ at[d[3]] = d[4])
    BY <2>1, <2>2 DEF PortsInv, AtInv
  <2> QED
    BY <2>3 DEF OneConversation, All, Talking
<1>2. PortsSpec => []PortsInv
  BY PortsInductive
<1> QED
  BY <1>1, <1>2, PTL

\* A parked entry has no connection, so what Detect reads when it starts names the port of
\* every entry that is parked.
ParkInv ==
  /\ parked \subseteq Entries /\ job.parked \subseteq Entries
  /\ \A e \in parked : session[e].step = "offline"
  /\ \A e \in job.parked : job.connected[e] = Nothing

LEMMA ParkStep == PortsInv /\ ParkInv /\ [PortsNext]_portsVars => ParkInv'
<1> SUFFICES ASSUME PortsInv, ParkInv, [PortsNext]_portsVars PROVE ParkInv'
  OBVIOUS
<1>1. \A e \in Entries : \A s : session' = [session EXCEPT ![e] = s] =>
        session'[e] = s /\ \A d \in Entries \ {e} : session'[d] = session[d]
  BY DEF PortsInv, PortsTypes
<1>2. CASE UNCHANGED <<parked, session, job>>
  BY <1>2 DEF ParkInv
<1>3. ASSUME NEW e \in Entries, Search(e) \/ Open(e) \/ Identify(e) \/ Lost(e) PROVE ParkInv'
  <2>1. e \notin parked
    <3>1. CASE Search(e)
      BY <3>1 DEF Search
    <3>2. CASE session[e].step \in {"trying", "open", "connected"}
      BY <3>2 DEF ParkInv
    <3> QED
      BY <1>3, <3>1, <3>2 DEF Open, Identify, Lost
  <2>2. parked' = parked /\ job' = job /\ \A d \in Entries \ {e} : session'[d] = session[d]
    <3>1. CASE Search(e)
      BY <1>1, <3>1 DEF Search
    <3>2. CASE Open(e)
      BY <1>1, <3>2 DEF Open
    <3>3. CASE Identify(e) \/ Lost(e)
      BY <1>1, <3>3 DEF Identify, Lost
    <3> QED
      BY <1>3, <3>1, <3>2, <3>3
  <2> QED
    BY <2>1, <2>2 DEF ParkInv
<1>4. ASSUME NEW e \in Entries, Park(e) PROVE ParkInv'
  <2>1. parked' = parked \cup {e} /\ job' = job /\ session' = [session EXCEPT ![e] = Offline]
    BY <1>4 DEF Park
  <2>2. Offline.step = "offline"
    BY DEF Offline
  <2>3. session'[e] = Offline /\ \A d \in Entries \ {e} : session'[d] = session[d]
    BY <1>1, <2>1
  <2> QED
    BY <2>1, <2>2, <2>3 DEF ParkInv
<1>5. ASSUME NEW e \in Entries, Unpark(e) PROVE ParkInv'
  BY <1>5 DEF Unpark, ParkInv
<1>6. CASE StartDetect
  <2>1. /\ parked' = parked /\ session' = session /\ job'.parked = parked
        /\ \A e \in Entries : job'.connected[e] = ConnectedAt(e)
    BY <1>6 DEF StartDetect
  <2> QED
    BY <2>1 DEF ParkInv, ConnectedAt
<1>7. CASE DetectEnds
  BY <1>7 DEF DetectEnds, ParkInv
<1>8. CASE PortsNext
  <2>1. CASE \/ \E i \in Instruments, p \in Paths, l \in Locations : Plug(i, p, l)
             \/ \E p \in Paths : Pull(p)
             \/ \E p \in Paths : PortBegins(p) \/ ProbeOpens(p) \/ ProbeReturns(p) \/ ProbeAbandoned(p)
             \/ \E s \in stuck : AbandonedReturns(s)
    <3>1. UNCHANGED <<parked, session, job>>
      BY <2>1, Zenon DEF Plug, Pull, PortBegins, ProbeOpens, ProbeReturns, ProbeAbandoned, AbandonedReturns
    <3> QED
      BY <1>2, <3>1
  <2> QED
    BY <1>3, <1>4, <1>5, <1>6, <1>7, <1>8, <2>1 DEF PortsNext
<1> QED
  BY <1>2, <1>8 DEF portsVars

\* Detect sends nothing to an instrument that was parked when it listed the ports, nor to the
\* port that a parked entry without an identity names, unless another entry names it too
\* (configured_on, bm-server detect.rs).
THEOREM ParkedIsLeftAlone == PortsSpec => []ParkedNotProbed
<1>1. PortsInit => ParkInv
  BY DEF PortsInit, ParkInv
<1>2. PortsSpec => []PortsInv
  BY PortsInductive
<1>3. PortsSpec => []ParkInv
  BY <1>1, <1>2, ParkStep, PTL DEF PortsSpec
<1>4. PortsInv /\ ParkInv => ParkedNotProbed
  <2> SUFFICES ASSUME PortsInv, ParkInv, NEW p \in Paths, NEW e \in job.parked, scan[p].step = "sent"
               PROVE  IF Identified(e) THEN scan[p].instrument = owner[e] => job.ports[p] # owner[e]
                      ELSE match[e].hint = p => \E d \in Entries \ {e} : match[d].hint = p
    BY DEF ParkedNotProbed
  <2>1. ~ConfiguredOn(p) /\ scan[p].instrument # Nothing
    BY DEF PortsInv, ProbeInv, HoldInv
  <2>2. CASE Identified(e)
    BY <2>1, <2>2 DEF ConfiguredOn, Matches
  <2>3. CASE ~Identified(e) /\ match[e].hint = p
    <3>1. e \in Naming(p)
      BY <2>3 DEF ParkInv, Naming
    <3>2. PICK d \in Naming(p) : d = FirstOf(Naming(p))
      BY <3>1 DEF FirstOf
    <3>3. d \notin job.parked
      BY <2>1, <3>1, <3>2 DEF ConfiguredOn
    <3>4. d \in Entries /\ match[d].hint = p
      BY <3>2 DEF Naming
    <3>5. d # e
      BY <3>3
    <3> QED
      BY <2>3, <3>4, <3>5, Zenon
  <2> QED
    BY <2>2, <2>3
<1> QED
  BY <1>2, <1>3, <1>4, PTL

\* A device is connected to its own instrument, as far as its identity can tell
\* (UsbMatch::matches, check_idn and certainty, bm-transport identity.rs).
THEOREM OwnIsConnected == PortsSpec => []OwnInstrument
<1>1. PortsInv => OwnInstrument
  <2> SUFFICES ASSUME PortsInv, NEW e \in Entries, session[e].step = "connected",
                      session[e].instrument # owner[e], Identified(e)
               PROVE  /\ match[e].certainty # "instrument"
                      /\ session[e].seen = session[e].instrument => match[e].certainty # "adapter"
                      /\ session[e].seen = session[e].instrument /\ match[e].certainty = "chip" =>
                           session[e].instrument \notin match[e].among
                           \/ Serial[session[e].instrument] # Nothing
    BY DEF OwnInstrument, Identified
  <2> DEFINE i == session[e].instrument
  <2>1. /\ match[e].certainty = Certainty(owner[e], match[e].among)
        /\ Matches(e, session[e].seen) /\ CheckIdn(e, i)
        /\ i \in SomeUnit /\ i # Nothing /\ owner[e] \in Instruments
    BY DEF PortsInv, PortsTypes, SessionType, HoldInv, FitInv, Fits, MayBe, Identified, Talking
  <2>2. owner[e] \notin IdnSerial
    BY <2>1 DEF CheckIdn
  <2>3. Serial[owner[e]] # Nothing => match[e].certainty = "adapter"
    BY <2>1, <2>2 DEF Certainty
  <2>4. Serial[owner[e]] = Nothing => match[e].certainty \in {"chip", "position"}
    BY <2>1, <2>2 DEF Certainty
  <2>5. match[e].certainty = "chip" =>
          \A j \in match[e].among : Chip[j] = Chip[owner[e]] /\ Serial[j] = Nothing => j = owner[e]
    BY <2>1, <2>2, <2>3 DEF Certainty
  <2>6. session[e].seen = i /\ Serial[owner[e]] # Nothing => FALSE
    BY PortsAssumption, <2>1 DEF Matches, SomeUnit
  <2> QED
    BY <2>1, <2>3, <2>4, <2>5, <2>6 DEF Matches
<1>2. PortsSpec => []PortsInv
  BY PortsInductive
<1> QED
  BY <1>1, <1>2, PTL

-----------------------------------------------------------------------------
(* Updates: for every kind of installation, number of releases, and number *)
(* of checks and downloads at once.                                        *)

ProgramFiles == {NoFile} \cup {<<p>> : p \in [version : Nat, whole : BOOLEAN]}
DownloadedFiles == {NoFile} \cup {<<f>> : f \in [by : Downloads, whole : BOOLEAN]}
TaskStates == {Idle} \cup [step : {"asking", "writing", "written", "verified", "renamed"}, version : Versions]

UpdatesTypes ==
  /\ released \in 0..MaxRelease /\ latest \in 0..MaxRelease /\ running \in Nat /\ faults \in Nat
  /\ target \in ProgramFiles /\ previous \in ProgramFiles /\ tmp \in ProgramFiles
  /\ staged \in {<<>>} \cup {<<v>> : v \in Versions}
  /\ part \in [Versions -> DownloadedFiles] /\ file \in [Versions -> DownloadedFiles]
  /\ task \in [Downloads -> TaskStates] /\ check \in [CheckTasks -> BOOLEAN]
  /\ proc \in {"copy", "helper"} => staged # <<>>
  /\ proc = "helper" => kind = "nsis"
  /\ kind = "nsis" => Runs(target) /\ proc \in {"up", "stopping", "helper", "off"}

\* Where the whole program is, as long as one operation at most has failed.
WholeInv ==
  faults < 2 =>
    /\ proc \in {"up", "stopping", "copy", "clear", "aside", "helper"} => Runs(target)
    /\ proc \in {"place", "put back", "start"} => Runs(previous)
    /\ proc = "put back" => faults = 1
    /\ ProgramSurvives

\* Without overlapping checks there is one check or one download at most, and what a download
\* has verified is whole.
OneTaskInv ==
  ~overlapped =>
    /\ \A c \in CheckTasks : check[c] => phase = "checking"
    /\ \A c, d \in CheckTasks : check[c] /\ check[d] => c = d
    /\ \A t \in Downloads : task[t] # Idle => phase = "downloading" /\ ~command /\ staged = <<>>
    /\ \A t, u \in Downloads : task[t] # Idle /\ task[u] # Idle => t = u
    /\ \A t \in Downloads : task[t].step = "verified" => Runs(part[task[t].version])
    /\ \A t \in Downloads : task[t].step = "renamed" => Runs(file[task[t].version])
    /\ staged # <<>> => phase = "installing"
    /\ StagedIsWhole

UpdatesInv == UpdatesTypes /\ WholeInv /\ OneTaskInv

LEMMA AFile == \A x : <<x>> # NoFile /\ (Runs(<<x>>) <=> x.whole)
BY DEF NoFile, Runs

LEMMA UpdatesStart == UpdatesInit => UpdatesInv
<1> SUFFICES ASSUME UpdatesInit PROVE UpdatesInv
  OBVIOUS
<1>1. UpdatesTypes
  <2>1. Program(0, TRUE) \in ProgramFiles /\ Runs(Program(0, TRUE))
    BY AFile DEF ProgramFiles, Program, NoFile
  <2>2. NoFile \in ProgramFiles /\ NoFile \in DownloadedFiles /\ Idle \in TaskStates
    BY DEF ProgramFiles, DownloadedFiles, TaskStates
  <2> QED
    <3>1. released \in 0..MaxRelease /\ latest \in 0..MaxRelease /\ running \in Nat /\ faults \in Nat
      BY UpdatesAssumption DEF UpdatesInit, Fresh
    <3>2. check \in [CheckTasks -> BOOLEAN]
      BY DEF UpdatesInit, Fresh
    <3>3. /\ task \in [Downloads -> TaskStates]
          /\ part \in [Versions -> DownloadedFiles] /\ file \in [Versions -> DownloadedFiles]
      BY <2>2 DEF UpdatesInit, Fresh
    <3>4. target \in ProgramFiles /\ previous \in ProgramFiles /\ tmp \in ProgramFiles /\ Runs(target)
      BY <2>1, <2>2 DEF UpdatesInit
    <3> QED
      BY <3>1, <3>2, <3>3, <3>4 DEF UpdatesInit, UpdatesTypes, Fresh
<1>2. WholeInv
  BY DEF UpdatesInit, WholeInv, ProgramSurvives, Runs, Program, NoFile
<1>3. OneTaskInv
  BY DEF UpdatesInit, Fresh, OneTaskInv, StagedIsWhole, Idle
<1> QED
  BY <1>1, <1>2, <1>3 DEF UpdatesInv

\* Steps that leave the program's files and the tasks alone.
LEMMA AsideSteps ==
  ASSUME UpdatesInv, Publish \/ FlowStarts \/ FlowEnds \/ Stop \/ RefuseInstall
                     \/ \E r \in {"restart", "shutdown", "install"} : Ask(r) \/ Request(r)
  PROVE  UpdatesInv'
<1>1. /\ UNCHANGED <<kind, running, latest, phase, command, staged, check, task, part, file, target,
                     previous, tmp, faults, overlapped>>
      /\ released' \in 0..MaxRelease
      /\ proc' = proc \/ (proc = "up" /\ proc' = "stopping")
  BY UpdatesAssumption DEF UpdatesInv, UpdatesTypes, Publish, FlowStarts, FlowEnds, Stop, RefuseInstall, Ask, Request,
        updater, downloads, swap, bounds, Go
<1>2. UpdatesTypes'
  BY <1>1 DEF UpdatesInv, UpdatesTypes, Versions, Runs
<1>3. WholeInv'
  BY <1>1 DEF UpdatesInv, WholeInv, ProgramSurvives, Runs
<1>4. OneTaskInv'
  BY <1>1 DEF UpdatesInv, OneTaskInv, StagedIsWhole, Runs, Versions
<1> QED
  BY <1>2, <1>3, <1>4 DEF UpdatesInv

\* A step of the server leaves the program's files alone.
LEMMA ServesOn ==
  ASSUME UpdatesInv, UNCHANGED <<kind, released, running, proc, swap, faults>>,
         staged' = staged \/ staged' \in {<<v>> : v \in Versions}
  PROVE  WholeInv' /\ (proc' \in {"copy", "helper"} => staged' # <<>>)
<1>1. \A v : <<v>> # <<>>
  OBVIOUS
<1> QED
  BY <1>1 DEF UpdatesInv, UpdatesTypes, WholeInv, ProgramSurvives, Runs, swap

LEMMA CheckSteps ==
  ASSUME UpdatesInv, NEW c \in CheckTasks, CheckStarts(c) \/ CheckEnds(c) \/ CheckFails(c) \/ CheckDropped(c)
  PROVE  UpdatesInv'
<1>1. /\ UNCHANGED <<kind, released, running, command, staged, task, part, file, proc, swap, faults>>
      /\ latest' \in {latest, released}
      /\ check' = [check EXCEPT ![c] = check'[c]] /\ check'[c] \in BOOLEAN
  BY DEF CheckStarts, CheckEnds, CheckFails, CheckDropped, updater, UpdatesInv, UpdatesTypes, bounds
<1>2. UpdatesTypes'
  BY <1>1, ServesOn DEF UpdatesInv, UpdatesTypes, Versions, Runs, swap
<1>3. OneTaskInv'
  <2> SUFFICES ASSUME ~overlapped' PROVE OneTaskInv'
    BY DEF OneTaskInv
  <2>1. ~overlapped
    BY DEF CheckStarts, CheckEnds, CheckFails, CheckDropped, updater, bounds
  <2>2. \A t \in Downloads : task[t] = Idle
    BY <2>1 DEF CheckStarts, CheckEnds, CheckFails, CheckDropped, updater, UpdatesInv, OneTaskInv
  <2>3. \A d \in CheckTasks : check'[d] => d = c /\ phase' = "checking"
    <3>1. CASE CheckStarts(c)
      BY <3>1 DEF CheckStarts, UpdatesInv, UpdatesTypes
    <3>2. CASE CheckEnds(c) \/ CheckFails(c) \/ CheckDropped(c)
      BY <2>1, <3>2 DEF CheckEnds, CheckFails, CheckDropped, updater, UpdatesInv, UpdatesTypes, OneTaskInv
    <3> QED
      BY <3>1, <3>2
  <2>4. staged = <<>>
    BY <2>1 DEF CheckStarts, CheckEnds, CheckFails, CheckDropped, updater, UpdatesInv, OneTaskInv
  <2> QED
    BY <1>1, <2>1, <2>2, <2>3, <2>4 DEF OneTaskInv, UpdatesInv, StagedIsWhole, Runs, Idle, Versions
<1> QED
  BY <1>1, <1>2, <1>3, ServesOn DEF UpdatesInv

LEMMA InstallStarts ==
  ASSUME UpdatesInv, NEW t \in Downloads, StartInstall(t)
  PROVE  UpdatesInv'
<1>1. /\ UNCHANGED <<kind, released, running, latest, staged, check, part, file, proc, swap, faults, overlapped>>
      /\ phase' = "downloading" /\ command' = FALSE /\ phase \notin {"downloading", "installing", "checking"}
  BY DEF StartInstall, CanStartInstall, bounds
<1>2. latest \in Versions
  BY UpdatesAssumption DEF StartInstall, CanStartInstall, UpdatesInv, UpdatesTypes, Versions
<1>3. /\ task' = [task EXCEPT ![t] = [step |-> "asking", version |-> latest]]
      /\ [step |-> "asking", version |-> latest] \in TaskStates
  BY <1>2 DEF StartInstall, TaskStates
<1>4. UpdatesTypes'
  BY <1>1, <1>3, ServesOn DEF UpdatesInv, UpdatesTypes, Versions, Runs, swap
<1>5. OneTaskInv'
  <2> SUFFICES ASSUME ~overlapped' PROVE OneTaskInv'
    BY DEF OneTaskInv
  <2>1. (\A u \in Downloads : task[u] = Idle) /\ (\A c \in CheckTasks : ~check[c]) /\ staged = <<>>
    BY <1>1 DEF UpdatesInv, OneTaskInv
  <2>2. \A u \in Downloads : task'[u] # Idle => u = t
    BY <2>1, <1>3 DEF UpdatesInv, UpdatesTypes
  <2>3. \A u \in Downloads : task'[u].step \notin {"verified", "renamed"}
    BY <2>1, <1>3 DEF UpdatesInv, UpdatesTypes, Idle
  <2> QED
    BY <1>1, <2>1, <2>2, <2>3 DEF OneTaskInv, StagedIsWhole
<1> QED
  BY <1>1, <1>4, <1>5, ServesOn DEF UpdatesInv

\* What a step of a download leaves alone.
LEMMA DownloadSteps ==
  ASSUME UpdatesInv, NEW t \in Downloads,
         OpenPart(t) \/ WriteAll(t) \/ Verify(t) \/ RenamePart(t) \/ DownloadFails(t) \/ Stage(t)
  PROVE  UpdatesInv'
<1> DEFINE v == task[t].version
<1>1. /\ UNCHANGED <<kind, released, running, latest, check, proc, swap, faults, overlapped>>
      /\ task[t] \in TaskStates /\ task[t] # Idle /\ v \in Versions
  <2>1. UNCHANGED <<kind, released, running, latest, check, proc, swap, faults, overlapped>>
    BY DEF OpenPart, WriteAll, Verify, RenamePart, DownloadFails, Stage, updater, bounds
  <2>2. task[t].step \in {"asking", "writing", "written", "verified", "renamed"}
    BY DEF OpenPart, WriteAll, Verify, RenamePart, DownloadFails, Stage, At
  <2>3. task[t] \in TaskStates /\ task[t] # Idle
    BY <2>2 DEF UpdatesInv, UpdatesTypes, Idle
  <2> QED
    BY <2>1, <2>3 DEF TaskStates
<1>2. task' = [task EXCEPT ![t] = task'[t]] /\ task'[t] \in TaskStates
  <2>1. \A step \in {"asking", "writing", "written", "verified", "renamed"} :
          [task[t] EXCEPT !.step = step] \in TaskStates
    BY <1>1 DEF TaskStates
  <2>2. Idle \in TaskStates
    BY DEF TaskStates
  <2>3. \/ task' = [task EXCEPT ![t] = Idle]
        \/ \E step \in {"writing", "written", "verified", "renamed"} : task' = [task EXCEPT ![t].step = step]
    BY DEF OpenPart, WriteAll, Verify, RenamePart, DownloadFails, Stage, To
  <2> QED
    BY <2>1, <2>2, <2>3 DEF UpdatesInv, UpdatesTypes
<1>3. /\ \E p \in DownloadedFiles : part' = [part EXCEPT ![v] = p]
      /\ \E f \in DownloadedFiles : file' = [file EXCEPT ![v] = f]
  <2>1. NoFile \in DownloadedFiles /\ \A whole \in BOOLEAN : Written(t, whole) \in DownloadedFiles
    BY DEF DownloadedFiles, Written
  <2>2. /\ part[v] \in DownloadedFiles /\ part = [part EXCEPT ![v] = part[v]]
        /\ file[v] \in DownloadedFiles /\ file = [file EXCEPT ![v] = file[v]]
    BY <1>1 DEF UpdatesInv, UpdatesTypes
  <2>3. CASE OpenPart(t)
    BY <2>1, <2>2, <2>3 DEF OpenPart
  <2>4. CASE WriteAll(t)
    BY <2>1, <2>2, <2>4 DEF WriteAll
  <2>5. CASE RenamePart(t)
    BY <2>1, <2>2, <2>5 DEF RenamePart
  <2>6. CASE Verify(t) \/ DownloadFails(t) \/ Stage(t)
    BY <2>1, <2>2, <2>6 DEF Verify, DownloadFails, Stage
  <2> QED
    BY <2>3, <2>4, <2>5, <2>6
<1>4. staged' = staged \/ staged' \in {<<w>> : w \in Versions}
  BY <1>1 DEF OpenPart, WriteAll, Verify, RenamePart, DownloadFails, Stage, updater
<1>5. UpdatesTypes'
  BY <1>1, <1>2, <1>3, <1>4, ServesOn DEF UpdatesInv, UpdatesTypes, Versions, Runs, swap
<1>6. OneTaskInv'
  <2> SUFFICES ASSUME ~overlapped PROVE OneTaskInv'
    BY <1>1 DEF OneTaskInv
  <2>1. /\ phase = "downloading" /\ ~command /\ staged = <<>>
        /\ \A u \in Downloads \ {t} : task[u] = Idle
        /\ \A c \in CheckTasks : ~check[c]
    BY <1>1 DEF UpdatesInv, OneTaskInv
  <2>2. \A u \in Downloads \ {t} : task'[u] = Idle
    BY <1>2, <2>1 DEF UpdatesInv, UpdatesTypes
  <2>3. ASSUME task'[t] = Idle, ~command', staged' = <<>> PROVE OneTaskInv'
    BY <1>1, <2>1, <2>2, <2>3 DEF OneTaskInv, StagedIsWhole, Idle
  <2>4. ASSUME task'[t].step \in {"writing", "written", "verified", "renamed"}, task'[t].version = v,
               UNCHANGED updater,
               task'[t].step = "verified" => Runs(part'[v]), task'[t].step = "renamed" => Runs(file'[v])
        PROVE  OneTaskInv'
    BY <1>1, <2>1, <2>2, <2>4 DEF OneTaskInv, StagedIsWhole, Idle, updater
  <2>5. CASE OpenPart(t) \/ WriteAll(t)
    <3>1. task'[t].step \in {"writing", "written"} /\ task'[t].version = v /\ UNCHANGED updater
      <4>1. \E step \in {"writing", "written"} : task' = [task EXCEPT ![t].step = step]
        BY <2>5 DEF OpenPart, WriteAll, To
      <4>2. UNCHANGED updater
        BY <2>5 DEF OpenPart, WriteAll
      <4> QED
        BY <1>1, <4>1, <4>2 DEF UpdatesInv, UpdatesTypes, TaskStates
    <3> QED
      BY <3>1, <2>4
  <2>6. CASE Verify(t)
    <3>1. /\ task'[t].step = "verified" /\ task'[t].version = v /\ UNCHANGED updater
          /\ Runs(part[v]) /\ part' = part
      BY <1>1, <2>6 DEF Verify, To, UpdatesInv, UpdatesTypes, TaskStates
    <3> QED
      BY <3>1, <2>4
  <2>7. CASE RenamePart(t)
    <3>1. /\ task'[t].step = "renamed" /\ task'[t].version = v /\ UNCHANGED updater
          /\ file'[v] = part[v] /\ task[t].step = "verified"
      BY <1>1, <2>7 DEF RenamePart, At, To, UpdatesInv, UpdatesTypes, TaskStates
    <3>2. Runs(file'[v])
      BY <3>1 DEF UpdatesInv, OneTaskInv
    <3> QED
      BY <3>1, <3>2, <2>4
  <2>8. CASE DownloadFails(t)
    BY <2>1, <2>3, <2>8 DEF DownloadFails, UpdatesInv, UpdatesTypes
  <2>9. CASE Stage(t)
    <3>1. task'[t] = Idle /\ task[t].step = "renamed" /\ file' = file
      BY <2>9 DEF Stage, At, UpdatesInv, UpdatesTypes
    <3>2. Runs(file[v])
      BY <3>1 DEF UpdatesInv, OneTaskInv
    <3>3. \/ ~command' /\ staged' = <<>>
          \/ ~command' /\ staged' = <<v>> /\ phase' = "installing"
          \/ command' /\ staged' = <<>>
      BY <2>1, <2>9 DEF Stage
    <3>4. CASE ~command' /\ staged' = <<>>
      BY <3>1, <3>4, <2>3
    <3>5. CASE ~command' /\ staged' = <<v>> /\ phase' = "installing"
      BY <1>1, <2>1, <2>2, <3>1, <3>2, <3>5 DEF OneTaskInv, StagedIsWhole, Idle
    <3>6. CASE command' /\ staged' = <<>>
      BY <1>1, <2>1, <2>2, <3>1, <3>2, <3>6 DEF OneTaskInv, StagedIsWhole, Idle
    <3> QED
      BY <3>3, <3>4, <3>5, <3>6
  <2> QED
    BY <2>5, <2>6, <2>7, <2>8, <2>9
<1> QED
  BY <1>1, <1>4, <1>5, <1>6, ServesOn DEF UpdatesInv

-----------------------------------------------------------------------------
(* The process stops, installs and starts. *)

\* A server that has just started has no task and nothing staged.
LEMMA RestartSteps ==
  ASSUME UpdatesInv, Restarted, UNCHANGED <<kind, released, part, file>>
  PROVE  /\ OneTaskInv'
         /\ UpdatesTypes' <=> /\ running' \in Nat /\ faults' \in Nat
                              /\ target' \in ProgramFiles /\ previous' \in ProgramFiles /\ tmp' \in ProgramFiles
                              /\ proc' \notin {"copy", "helper"}
                              /\ proc' = "helper" => kind = "nsis"
                              /\ kind = "nsis" => Runs(target)' /\ proc' \in {"up", "stopping", "helper", "off"}
<1>1. /\ \A c \in CheckTasks : ~check'[c]
      /\ \A t \in Downloads : task'[t] = Idle
      /\ staged' = <<>> /\ command' = FALSE
  BY DEF Restarted
<1>2. OneTaskInv'
  BY <1>1 DEF OneTaskInv, StagedIsWhole, Idle
<1>3. check' \in [CheckTasks -> BOOLEAN] /\ task' \in [Downloads -> TaskStates]
  BY DEF Restarted, TaskStates
<1>4. latest' \in 0..MaxRelease
  BY UpdatesAssumption DEF Restarted
<1> QED
  BY <1>1, <1>2, <1>3, <1>4 DEF UpdatesInv, UpdatesTypes, Versions

LEMMA NewFile ==
  ASSUME UpdatesInv, staged # <<>>
  PROVE  New \in ProgramFiles
<1>1. staged[1] \in Versions /\ Versions \subseteq Nat
  BY DEF UpdatesInv, UpdatesTypes, Versions
<1>2. file[staged[1]] \in DownloadedFiles
  BY <1>1 DEF UpdatesInv, UpdatesTypes
<1>3. file[staged[1]] # NoFile => file[staged[1]][1].whole \in BOOLEAN
  BY <1>2 DEF DownloadedFiles
<1> QED
  BY <1>1, <1>3 DEF New, ProgramFiles, Program

LEMMA ProgramTypes ==
  /\ NoFile \in ProgramFiles
  /\ \A p \in ProgramFiles : Runs(p) => p[1].version \in Nat
  /\ \A v \in Nat, whole \in BOOLEAN : Program(v, whole) \in ProgramFiles
<1>1. NoFile \in ProgramFiles
  BY DEF ProgramFiles
<1>2. ASSUME NEW p \in ProgramFiles, Runs(p) PROVE p[1].version \in Nat
  BY <1>2, AFile DEF ProgramFiles, NoFile, Runs
<1>3. ASSUME NEW v \in Nat, NEW whole \in BOOLEAN PROVE Program(v, whole) \in ProgramFiles
  BY DEF ProgramFiles, Program
<1> QED
  BY <1>1, <1>2, <1>3

\* A step of the installation that goes on.
LEMMA GoesOn ==
  ASSUME UpdatesInv, Unmoved, running' = running, faults' \in Nat, kind # "nsis",
         target' \in ProgramFiles, previous' \in ProgramFiles, tmp' \in ProgramFiles,
         proc' \in {"clear", "aside", "place", "put back", "start"}
  PROVE  UpdatesTypes' /\ OneTaskInv'
<1>1. UNCHANGED <<kind, released, phase, latest, command, staged, check, task, part, file, overlapped>>
  BY DEF Unmoved, updater, downloads
<1>2. faults \in Nat /\ running \in Nat
  BY DEF UpdatesInv, UpdatesTypes
<1>3. UpdatesTypes'
  BY <1>1, <1>2 DEF UpdatesInv, UpdatesTypes
<1>4. OneTaskInv'
  BY <1>1 DEF UpdatesInv, OneTaskInv, StagedIsWhole, Runs, Versions
<1> QED
  BY <1>3, <1>4

\* A step of the installation that ends it.
LEMMA EndsThere ==
  ASSUME UpdatesInv, Restarted, UNCHANGED <<kind, released, part, file>>, running' \in Nat,
         faults' \in Nat, kind # "nsis",
         target' \in ProgramFiles, previous' \in ProgramFiles, tmp' \in ProgramFiles, proc' \in {"up", "off"}
  PROVE  UpdatesTypes' /\ OneTaskInv'
BY RestartSteps DEF UpdatesInv, UpdatesTypes

LEMMA StopSteps ==
  ASSUME UpdatesInv, Stopped
  PROVE  UpdatesInv'
<1>1. proc = "stopping" /\ UNCHANGED <<kind, released, part, file, target, previous, tmp, faults>>
  BY DEF Stopped, Again, swap
<1>2. CASE action = "update" /\ staged # <<>>
  <2>1. /\ UNCHANGED <<running, phase, latest, command, staged, overlapped>>
        /\ task' = [t \in Downloads |-> Idle] /\ check' = [c \in CheckTasks |-> FALSE]
        /\ proc' = IF kind = "nsis" THEN "helper" ELSE "copy"
    BY <1>2 DEF Stopped, updater
  <2>2. check' \in [CheckTasks -> BOOLEAN] /\ task' \in [Downloads -> TaskStates]
    BY <2>1 DEF TaskStates
  <2>3. UpdatesTypes'
    BY <1>1, <1>2, <2>1, <2>2 DEF UpdatesInv, UpdatesTypes, Runs
  <2>4. WholeInv'
    BY <1>1, <2>1 DEF UpdatesInv, WholeInv, ProgramSurvives, Runs
  <2>5. OneTaskInv'
    BY <1>1, <2>1 DEF UpdatesInv, OneTaskInv, StagedIsWhole, Runs, Versions, Idle
  <2> QED
    BY <2>3, <2>4, <2>5 DEF UpdatesInv
<1>3. CASE ~(action = "update" /\ staged # <<>>)
  <2>1. Restarted /\ UNCHANGED running /\ proc' \in {"up", "off"}
    BY <1>3 DEF Stopped, Again
  <2>2. UpdatesTypes' /\ OneTaskInv'
    BY <1>1, <2>1, RestartSteps DEF UpdatesInv, UpdatesTypes, Runs
  <2>3. WholeInv'
    BY <1>1, <2>1 DEF UpdatesInv, WholeInv, ProgramSurvives, Runs
  <2> QED
    BY <2>2, <2>3 DEF UpdatesInv
<1> QED
  BY <1>2, <1>3

\* A failed step that lets the program run again finds it whole.
LEMMA CopySteps ==
  ASSUME UpdatesInv, Copy \/ Clear
  PROVE  UpdatesInv'
<1>1. /\ proc \in {"copy", "clear"} /\ kind # "nsis" /\ target' = target
      /\ faults' \in Nat /\ faults <= faults'
  <2>1. proc \in {"copy", "clear"} /\ target' = target
    BY DEF Copy, Clear
  <2>2. Works \/ Fails
    BY DEF Copy, Clear
  <2>3. kind # "nsis"
    BY <2>1 DEF UpdatesInv, UpdatesTypes
  <2>4. faults' \in Nat /\ faults <= faults'
    <3>1. faults \in Nat
      BY DEF UpdatesInv, UpdatesTypes
    <3> QED
      BY <2>2, <3>1 DEF Works, Fails
  <2> QED
    BY <2>1, <2>3, <2>4
<1>2. /\ target \in ProgramFiles /\ previous \in ProgramFiles /\ tmp \in ProgramFiles
      /\ running \in Nat /\ faults \in Nat
  BY DEF UpdatesInv, UpdatesTypes
<1>3. previous' \in ProgramFiles /\ tmp' \in ProgramFiles
  <2>1. CASE Clear
    BY <1>2, <2>1, ProgramTypes DEF Clear
  <2>2. CASE Copy
    <3>1. staged # <<>>
      BY <2>2 DEF Copy, UpdatesInv, UpdatesTypes
    <3>2. staged[1] \in Nat
      BY <3>1 DEF UpdatesInv, UpdatesTypes, Versions
    <3> QED
      BY <1>2, <2>2, <3>1, <3>2, NewFile, ProgramTypes DEF Copy
  <2> QED
    BY <2>1, <2>2
<1>4. \/ Unmoved /\ running' = running /\ proc' \in {"clear", "aside"}
      \/ Again
  BY DEF Copy, Clear, Go
<1>5. UpdatesTypes' /\ OneTaskInv'
  <2>1. CASE Unmoved /\ running' = running /\ proc' \in {"clear", "aside"}
    BY <1>1, <1>2, <1>3, <2>1, GoesOn
  <2>2. CASE Again
    BY <1>1, <1>2, <1>3, <2>2, EndsThere DEF Again
  <2> QED
    BY <1>4, <2>1, <2>2
<1>6. WholeInv'
  <2>1. proc' \in {"clear", "aside", "up", "off"}
    BY <1>4 DEF Again
  <2>2. faults' < 2 => faults < 2
    BY <1>1, <1>2
  <2>3. faults < 2 => Runs(target)
    BY <1>1 DEF UpdatesInv, WholeInv
  <2>4. Runs(target)' <=> Runs(target)
    BY <1>1 DEF Runs
  <2> QED
    BY <2>1, <2>2, <2>3, <2>4 DEF WholeInv, ProgramSurvives
<1> QED
  BY <1>5, <1>6 DEF UpdatesInv

LEMMA AsideStep ==
  ASSUME UpdatesInv, Aside
  PROVE  UpdatesInv'
<1>1. /\ proc = "aside" /\ kind # "nsis" /\ tmp' = tmp
      /\ faults' = faults \/ faults' = faults + 1
      /\ faults' \in Nat
  BY DEF Aside, Works, Fails, UpdatesInv, UpdatesTypes
<1>2. /\ target \in ProgramFiles /\ previous \in ProgramFiles /\ tmp \in ProgramFiles
      /\ running \in Nat /\ faults \in Nat /\ NoFile \in ProgramFiles
  BY ProgramTypes DEF UpdatesInv, UpdatesTypes
<1>3. CASE proc' = "place" /\ previous' = target /\ target' = NoFile /\ Unmoved /\ UNCHANGED running
  BY <1>1, <1>2, <1>3, GoesOn DEF UpdatesInv, WholeInv, ProgramSurvives
<1>4. CASE UNCHANGED <<target, previous>> /\ Again
  <2>1. UpdatesTypes' /\ OneTaskInv'
    BY <1>1, <1>2, <1>4, EndsThere DEF Again
  <2>2. WholeInv'
    BY <1>1, <1>2, <1>4 DEF UpdatesInv, WholeInv, ProgramSurvives, Again, Runs
  <2> QED
    BY <2>1, <2>2 DEF UpdatesInv
<1> QED
  BY <1>3, <1>4 DEF Aside, Go

LEMMA PlaceSteps ==
  ASSUME UpdatesInv, Place \/ PutBack
  PROVE  UpdatesInv'
<1>1. /\ proc \in {"place", "put back"} /\ kind # "nsis"
      /\ faults' \in Nat /\ (faults' < 2 => faults < 2)
  <2>1. proc \in {"place", "put back"}
    BY DEF Place, PutBack
  <2>2. Works \/ Fails
    BY DEF Place, PutBack
  <2>3. kind # "nsis"
    BY <2>1 DEF UpdatesInv, UpdatesTypes
  <2>4. faults' \in Nat /\ (faults' < 2 => faults < 2)
    <3>1. faults \in Nat
      BY DEF UpdatesInv, UpdatesTypes
    <3> QED
      BY <2>2, <3>1 DEF Works, Fails
  <2> QED
    BY <2>1, <2>3, <2>4
<1>2. /\ target \in ProgramFiles /\ previous \in ProgramFiles /\ tmp \in ProgramFiles
      /\ running \in Nat /\ faults \in Nat /\ NoFile \in ProgramFiles
  BY ProgramTypes DEF UpdatesInv, UpdatesTypes
<1>3. target' \in ProgramFiles /\ previous' \in ProgramFiles /\ tmp' \in ProgramFiles
  BY <1>2 DEF Place, PutBack
<1>4. CASE Place
  <2>1. Unmoved /\ running' = running /\ proc' \in {"start", "put back"}
    BY <1>4 DEF Place, Go
  <2>2. WholeInv'
    <3>1. Runs(previous)' <=> Runs(previous)
      BY <1>4 DEF Place, Runs
    <3>2. faults' < 2 => Runs(previous)'
      <4>1. faults < 2 => Runs(previous)
        BY <1>4 DEF Place, UpdatesInv, WholeInv
      <4> QED
        BY <1>1, <3>1, <4>1
    <3>3. CASE Fails /\ Go("put back")
      <4>1. proc' = "put back" /\ faults' = faults + 1
        BY <3>3 DEF Fails, Go
      <4>2. faults' < 2 => faults' = 1
        <5>1. faults \in Nat
          BY <1>2
        <5>2. faults' = faults + 1
          BY <4>1
        <5> QED
          BY <5>1, <5>2
      <4> QED
        BY <3>2, <4>1, <4>2 DEF WholeInv, ProgramSurvives
    <3>4. CASE Go("start")
      BY <3>2, <3>4 DEF Go, WholeInv, ProgramSurvives
    <3> QED
      BY <1>4, <3>3, <3>4 DEF Place
  <2> QED
    BY <1>1, <1>3, <2>1, <2>2, GoesOn DEF UpdatesInv
<1>5. CASE PutBack
  <2>1. Restarted /\ running' = running /\ proc' \in {"up", "off"} /\ UNCHANGED <<kind, released, part, file>>
    BY <1>5 DEF PutBack
  <2>2. WholeInv'
    <3>1. CASE Works /\ target' = previous
      <4>1. faults' = faults /\ (Runs(target)' <=> Runs(previous))
        BY <3>1 DEF Works, Runs
      <4>2. faults < 2 => Runs(previous)
        BY <1>5 DEF PutBack, UpdatesInv, WholeInv
      <4> QED
        BY <2>1, <4>1, <4>2 DEF WholeInv, ProgramSurvives
    <3>2. CASE Fails
      <4>1. proc = "put back" /\ faults' = faults + 1
        BY <1>5, <3>2 DEF PutBack, Fails
      <4>2. faults < 2 => faults = 1
        BY <4>1 DEF UpdatesInv, WholeInv
      <4>3. ~(faults' < 2)
        <5>1. faults \in Nat
          BY <1>2
        <5>2. faults' = faults + 1
          BY <4>1
        <5> QED
          BY <4>2, <5>1, <5>2
      <4> QED
        BY <4>3 DEF WholeInv
    <3> QED
      BY <1>5, <3>1, <3>2 DEF PutBack
  <2> QED
    BY <1>1, <1>2, <1>3, <2>1, <2>2, EndsThere DEF UpdatesInv
<1> QED
  BY <1>4, <1>5

LEMMA StartSteps ==
  ASSUME UpdatesInv, Start \/ Kill \/ Launch
  PROVE  UpdatesInv'
<1>1. /\ UNCHANGED <<kind, released, part, file, target, previous, tmp, faults>>
      /\ proc' \in {"up", "off"} /\ (proc' = "up" => Runs(target))
      /\ Runs(target)' <=> Runs(target)
  BY DEF Start, Kill, Launch, swap, bounds, downloads, Go, Runs
<1>2. running' \in Nat
  BY ProgramTypes DEF Start, Kill, Launch, UpdatesInv, UpdatesTypes
<1>3. WholeInv'
  <2>1. faults < 2 => ProgramSurvives
    BY DEF UpdatesInv, WholeInv
  <2> QED
    BY <1>1, <2>1 DEF WholeInv, ProgramSurvives, Runs
<1>4. UpdatesTypes' /\ OneTaskInv'
  <2>1. CASE Start \/ Kill
    <3>1. Restarted
      BY <2>1 DEF Start, Kill
    <3> QED
      BY <1>1, <1>2, <3>1, RestartSteps DEF UpdatesInv, UpdatesTypes
  <2>2. CASE Launch
    <3>1. UNCHANGED <<phase, latest, command, staged, check, task, overlapped>>
      BY <2>2 DEF Launch, updater, downloads, bounds
    <3>2. UpdatesTypes'
      BY <1>1, <1>2, <3>1 DEF UpdatesInv, UpdatesTypes
    <3>3. OneTaskInv'
      BY <1>1, <3>1 DEF UpdatesInv, OneTaskInv, StagedIsWhole, Runs, Versions
    <3> QED
      BY <3>2, <3>3
  <2> QED
    BY <2>1, <2>2
<1> QED
  BY <1>3, <1>4 DEF UpdatesInv

LEMMA HelperStep ==
  ASSUME UpdatesInv, Helper
  PROVE  UpdatesInv'
<1>1. /\ UNCHANGED <<kind, released, part, file, previous, tmp, faults, overlapped>>
      /\ Restarted /\ proc' = "up" /\ staged # <<>> /\ Runs(target)
  BY DEF Helper, bounds, UpdatesInv, UpdatesTypes
<1>2. target' \in ProgramFiles /\ Runs(target')
  BY <1>1, NewFile DEF Helper, UpdatesInv, UpdatesTypes
<1>3. running' \in Nat /\ Runs(target)'
  BY <1>2, ProgramTypes DEF Helper, Runs
<1>4. UpdatesTypes' /\ OneTaskInv'
  BY <1>1, <1>2, <1>3, RestartSteps DEF UpdatesInv, UpdatesTypes
<1>5. WholeInv'
  BY <1>1, <1>3 DEF WholeInv, ProgramSurvives
<1> QED
  BY <1>4, <1>5 DEF UpdatesInv

LEMMA UpdatesInductive == UpdatesSpec => []UpdatesInv
<1>1. UpdatesInv /\ [UpdatesNext]_updatesVars => UpdatesInv'
  <2> SUFFICES ASSUME UpdatesInv, [UpdatesNext]_updatesVars PROVE UpdatesInv'
    OBVIOUS
  <2>1. CASE UNCHANGED updatesVars
    BY <2>1 DEF updatesVars, updater, downloads, swap, bounds, UpdatesInv, UpdatesTypes, WholeInv, OneTaskInv,
                ProgramSurvives, StagedIsWhole, Runs, Versions
  <2>2. CASE \/ Publish \/ FlowStarts \/ FlowEnds \/ Stop \/ RefuseInstall
             \/ \E r \in {"restart", "shutdown", "install"} : Ask(r) \/ Request(r)
    BY <2>2, AsideSteps
  <2>3. CASE \E c \in CheckTasks : CheckStarts(c) \/ CheckEnds(c) \/ CheckFails(c) \/ CheckDropped(c)
    BY <2>3, CheckSteps
  <2>4. CASE \E t \in Downloads : StartInstall(t) \/ OpenPart(t) \/ WriteAll(t) \/ Verify(t)
                                  \/ RenamePart(t) \/ DownloadFails(t) \/ Stage(t)
    BY <2>4, InstallStarts, DownloadSteps
  <2>5. CASE Stopped \/ Copy \/ Clear \/ Aside \/ Place \/ PutBack
    BY <2>5, StopSteps, CopySteps, AsideStep, PlaceSteps
  <2>6. CASE Start \/ Helper \/ Kill \/ Launch
    BY <2>6, StartSteps, HelperStep
  <2> QED
    BY <2>1, <2>2, <2>3, <2>4, <2>5, <2>6 DEF UpdatesNext
<1> QED
  BY UpdatesStart, <1>1, PTL DEF UpdatesSpec

\* A whole program stays on the disk through every installation, wherever it is killed and
\* whichever one of its operations fails (swap_appimage, swap_mac_app of system/update.rs).
THEOREM ProgramStays == UpdatesSpec => []ProgramSurvives
<1>1. UpdatesInv => ProgramSurvives
  BY DEF UpdatesInv, WholeInv, ProgramSurvives
<1> QED
  BY UpdatesInductive, <1>1, PTL

\* What an installation would install, or the page offers, is whole, however requests, checks,
\* downloads, restarts and kills interleave, unless two checks overlapped (start_install and
\* download of system/update.rs).
THEOREM StagedStaysWhole == UpdatesSpec => []StagedIsWhole
<1>1. UpdatesInv => StagedIsWhole
  BY DEF UpdatesInv, OneTaskInv, StagedIsWhole
<1> QED
  BY UpdatesInductive, <1>1, PTL

-----------------------------------------------------------------------------
(* ScpiSession: for any instruments, commands and failures, and any size   *)
(* of the error queue.                                                     *)

ErrorsInv == errors \in Seq(ToSet(errors)) /\ ErrorsNotLost

\* What a step makes of the errors: it adds one, drops them all, tells the first, or leaves them.
Told == errors # <<>> /\ errors' = Tail(errors) /\ (lost' => lost /\ Head(errors) # Overflow)
Dropped == errors' = <<>> /\ ~lost'
ErrorsKept == UNCHANGED errors /\ (lost' => lost)
ErrorStep == (\E e : PushError(e)) \/ Told \/ Dropped \/ ErrorsKept

LEMMA ToldKeeps ==
  ASSUME ErrorsInv, Told
  PROVE  ErrorsInv'
<1> DEFINE E == ToSet(errors)
<1>1. errors \in Seq(E) /\ errors # <<>>
  BY DEF ErrorsInv, Told
<1> HIDE DEF E
<1>2. /\ Len(errors) \in Nat /\ Len(errors) > 0 /\ DOMAIN errors = 1..Len(errors)
      /\ errors' \in Seq(E) /\ DOMAIN errors' = 1..Len(errors) - 1
      /\ \A i \in 1..Len(errors) - 1 : errors'[i] = errors[i + 1]
      /\ Head(errors) = errors[1]
  BY <1>1 DEF Told
<1>3. errors' \in Seq(ToSet(errors'))
  BY <1>2 DEF ToSet
<1>4. ASSUME lost' PROVE Overflow \in ToSet(errors')
  <2>1. PICK i \in 1..Len(errors) : errors[i] = Overflow
    BY <1>2, <1>4 DEF ErrorsInv, ErrorsNotLost, ToSet, Told
  <2>2. i # 1
    BY <1>2, <1>4, <2>1 DEF Told
  <2>3. i - 1 \in 1..Len(errors) - 1 /\ errors'[i - 1] = Overflow
    BY <1>2, <2>1, <2>2
  <2> QED
    BY <1>2, <2>3 DEF ToSet
<1> QED
  BY <1>3, <1>4 DEF ErrorsInv, ErrorsNotLost

LEMMA PushKeeps ==
  ASSUME ErrorsInv, NEW e, PushError(e)
  PROVE  ErrorsInv'
<1> DEFINE E == ToSet(errors) \cup {e, Overflow}
<1>1. errors \in Seq(E) /\ e \in E /\ Overflow \in E /\ Len(errors) \in Nat
      /\ DOMAIN errors = 1..Len(errors)
  BY DEF ErrorsInv
<1> HIDE DEF E
<1>2. CASE Len(errors) >= MaxErrors
  <2> DEFINE f == Front(errors)
  <2>1. f \in Seq(E)
    BY <1>1, <1>2, ScpiAssumption DEF Front
  <2>2. errors' = Append(f, Overflow)
    BY <1>2 DEF PushError, Pushed
  <2> HIDE DEF f
  <2>3. errors' \in Seq(E) /\ Len(f) \in Nat /\ DOMAIN errors' = 1..Len(f) + 1 /\ errors'[Len(f) + 1] = Overflow
    BY <1>1, <2>1, <2>2
  <2>4. Overflow \in ToSet(errors') /\ errors' \in Seq(ToSet(errors'))
    BY <2>3 DEF ToSet
  <2> QED
    BY <2>4 DEF ErrorsInv, ErrorsNotLost
<1>3. CASE ~(Len(errors) >= MaxErrors)
  <2>1. errors' = Append(errors, e) /\ lost' = (lost \/ Len(errors) >= MaxErrors)
    BY <1>3 DEF PushError, Pushed
  <2>2. /\ errors' \in Seq(E) /\ DOMAIN errors' = 1..Len(errors) + 1
        /\ \A i \in 1..Len(errors) : errors'[i] = errors[i]
    BY <1>1, <2>1
  <2>3. errors' \in Seq(ToSet(errors')) /\ ToSet(errors) \subseteq ToSet(errors')
    BY <1>1, <2>2 DEF ToSet
  <2> QED
    BY <1>3, <2>1, <2>3 DEF ErrorsInv, ErrorsNotLost
<1> QED
  BY <1>2, <1>3

LEMMA ErrorStepKeeps ==
  ASSUME ErrorsInv, ErrorStep
  PROVE  ErrorsInv'
<1>1. CASE Dropped
  BY <1>1 DEF Dropped, ErrorsInv, ErrorsNotLost, ToSet
<1>2. CASE ErrorsKept
  BY <1>2 DEF ErrorsKept, ErrorsInv, ErrorsNotLost
<1> QED
  BY <1>1, <1>2, ToldKeeps, PushKeeps DEF ErrorStep

\* What a command does to the errors.
LEMMA UnitSteps == Unit \/ SetAnswered => ErrorStep
<1>1. ASSUME NEW code, UnitFailed(code) PROVE ErrorStep
  BY <1>1 DEF UnitFailed, ErrorStep
<1>2. ASSUME UNCHANGED <<errors, lost>> PROVE ErrorStep
  BY <1>2 DEF ErrorStep, ErrorsKept
<1>3. ASSUME NEW u, NotParsed(u) PROVE ErrorStep
  BY <1>3 DEF NotParsed, ErrorStep
<1>4. ASSUME NEW u, NEW t, Local(u, t) PROVE ErrorStep
  BY <1>4, <1>2 DEF Local, ErrorStep, Told, Dropped, ErrorsKept
<1>5. ASSUME NEW u, Fetch(u) PROVE ErrorStep
  BY <1>1, <1>2, <1>5 DEF Fetch
<1>6. ASSUME NEW u, Query(u) PROVE ErrorStep
  BY <1>1, <1>2, <1>6 DEF Query
<1>7. ASSUME NEW u, Set(u) PROVE ErrorStep
  BY <1>1, <1>2, <1>7 DEF Set
<1>8. ASSUME SetAnswered PROVE ErrorStep
  BY <1>1, <1>2, <1>8 DEF SetAnswered
<1>9. ASSUME Unit PROVE ErrorStep
  <2> DEFINE u == Head(message.units)
             t == Resolve(dev, u)
  <2>1. \/ NotParsed(u) \/ UnitFailed(241) \/ UnitFailed(t.channel)
        \/ Fetch(u) \/ Query(u) \/ Set(u) \/ Local(u, t)
    BY <1>9 DEF Unit
  <2> HIDE DEF u, t
  <2> QED
    BY <1>1, <1>3, <1>4, <1>5, <1>6, <1>7, <2>1
<1> QED
  BY <1>8, <1>9

LEMMA SessionSteps == [ScpiNext]_scpiVars => ErrorStep
<1>1. BenchChanges => ErrorStep
  BY DEF BenchChanges, ErrorStep, Dropped, ErrorsKept
<1>2. Connect => ErrorStep
  BY DEF Connect, ErrorStep, ErrorsKept
<1>3. ASSUME Disconnect PROVE ErrorStep
  <2>1. CASE clients = 1
    <3>1. errors' = <<>> /\ lost' = (lost /\ clients > 1)
      BY <1>3, <2>1, Zenon DEF Disconnect
    <3>2. ~(clients > 1)
      BY <2>1
    <3>3. ~lost'
      BY <3>1, <3>2, Zenon
    <3> QED
      BY <3>1, <3>3 DEF ErrorStep, Dropped
  <2>2. CASE clients # 1
    <3>1. errors' = errors /\ (lost' => lost)
      BY <1>3, <2>2 DEF Disconnect
    <3> QED
      BY <3>1 DEF ErrorStep, ErrorsKept
  <2> QED
    BY <2>1, <2>2
<1>4. ASSUME UNCHANGED <<errors, lost>> PROVE ErrorStep
  BY <1>4 DEF ErrorStep, ErrorsKept
<1>5. ASSUME NEW units, Receive(units) PROVE ErrorStep
  BY <1>4, <1>5 DEF Receive
<1>6. Reply \/ UNCHANGED scpiVars => ErrorStep
  BY <1>4 DEF Reply, scpiVars
<1> QED
  BY <1>1, <1>2, <1>3, <1>5, <1>6, UnitSteps DEF ScpiNext

\* A client is never left believing that it read every error when one did not fit: while one is
\* missing and it has not been told, a -350 waits for it (Session::push, SYSTem:ERRor?).
THEOREM OverflowIsTold == ScpiSpec => []ErrorsNotLost
<1>1. ScpiInit => ErrorsInv
  BY DEF ScpiInit, ErrorsInv, ErrorsNotLost, ToSet
<1>2. ErrorsInv /\ [ScpiNext]_scpiVars => ErrorsInv'
  BY SessionSteps, ErrorStepKeeps
<1>3. ErrorsInv => ErrorsNotLost
  BY DEF ErrorsInv
<1> QED
  BY <1>1, <1>2, <1>3, PTL DEF ScpiSpec

-----------------------------------------------------------------------------
(* The dialect: what SYSTem:HELP:HEADers? lists, and what the parser makes  *)
(* of it.  A class is told from the common commands by its code            *)
(* (ScpiAssumption, from validate.rs); that no operation is called what    *)
(* the parser takes for a channel or for FETCh is nowhere checked, so the  *)
(* theorem is about the vocabularies of which it is true (Plain).          *)

Plain(d) == \A c \in Classes(d) : Operations(d, c) \cap (Channels \cup {"FETC"}) = {}
Named(d) == Classes(d) \cap {"*IDN", "*CLS", "*OPC", "*WAI", "*RST", "SYST"} = {}
FetchWord == {"FETC"}

\* The channel a suffix of a header stands for.
ChannelAt(ch) == IF ch = <<>> THEN 1 ELSE ChannelOf(ch[1])

\* How the parser takes a command's header apart: class, channel, whether FETCh is there, name.
Takes(d, cmd, c, k, n, f) ==
  LET r == Skip(cmd.header, Classes(d))
      s == Skip(r, Channels)
  IN  /\ cmd.header[1] = c /\ Head(cmd.header) = c /\ r # cmd.header
      /\ k = IF s # r THEN ChannelOf(Head(r)) ELSE 1
      /\ Skip(s, FetchWord) = <<n>>
      /\ f <=> s # <<n>>

\* What a vocabulary lists, command by command.
LEMMA Listed ==
  ASSUME NEW d, NEW cmd
  PROVE  cmd \in Help(d) <=>
           \E c \in Classes(d) : \E ch \in Suffix(d, c) :
             \/ \E o \in Operations(d, c) : \E q \in Ways(d, c, o) : cmd = AsOperation(c, ch, o, q)
             \/ \E f \in d[c].fields : cmd = AsField(c, ch, f)
<1>1. cmd \in Help(d) <=> \E c \in Classes(d) : \E ch \in Suffix(d, c) : cmd \in HelpAt(d, c, ch)
  BY DEF Help
<1>2. ASSUME NEW c, NEW ch
      PROVE  cmd \in HelpAt(d, c, ch) <=>
               \/ \E o \in Operations(d, c) : \E q \in Ways(d, c, o) : cmd = AsOperation(c, ch, o, q)
               \/ \E f \in d[c].fields : cmd = AsField(c, ch, f)
  BY DEF HelpAt
<1> QED
  BY <1>1, <1>2

\* Sequences of known length, and the headers of the shapes that are listed.
LEMMA TuplesOf ==
  ASSUME NEW S, NEW s \in Seq(S)
  PROVE  /\ Len(s) = 1 => s = <<s[1]>>
         /\ Len(s) = 2 => s = <<s[1], s[2]>>
         /\ Len(s) = 3 => s = <<s[1], s[2], s[3]>>
         /\ Len(s) = 4 => s = <<s[1], s[2], s[3], s[4]>>
OBVIOUS

LEMMA Headers ==
  /\ \A c, o : <<c>> \o <<>> \o <<o>> = <<c, o>>
  /\ \A c, w, o : <<c>> \o <<w>> \o <<o>> = <<c, w, o>>
  /\ \A c, f, o : <<c>> \o <<>> \o <<f, o>> = <<c, f, o>>
  /\ \A c, w, f, o : <<c>> \o <<w>> \o <<f, o>> = <<c, w, f, o>>
<1>1. ASSUME NEW a
      PROVE  <<a>> \o <<>> = <<a>>
  <2> DEFINE S == {a}
             t == <<a>> \o <<>>
  <2>1. <<a>> \in Seq(S) /\ <<>> \in Seq(S)
    OBVIOUS
  <2> HIDE DEF S
  <2>2. t \in Seq(S) /\ Len(t) = 1 /\ t[1] = a
    BY <2>1
  <2> HIDE DEF t
  <2>3. t = <<a>>
    BY <2>2, TuplesOf
  <2> QED
    BY <2>3 DEF t
<1>2. ASSUME NEW a, NEW b
      PROVE  <<a>> \o <<b>> = <<a, b>>
  <2> DEFINE S == {a, b}
             t == <<a>> \o <<b>>
  <2>1. <<a>> \in Seq(S) /\ <<b>> \in Seq(S)
    OBVIOUS
  <2> HIDE DEF S
  <2>2. t \in Seq(S) /\ Len(t) = 2 /\ t[1] = a /\ t[2] = b
    BY <2>1
  <2> HIDE DEF t
  <2>3. t = <<a, b>>
    BY <2>2, TuplesOf
  <2> QED
    BY <2>3 DEF t
<1>3. ASSUME NEW a, NEW b, NEW e
      PROVE  <<a>> \o <<b, e>> = <<a, b, e>>
  <2> DEFINE S == {a, b, e}
             t == <<a>> \o <<b, e>>
  <2>1. <<a>> \in Seq(S) /\ <<b, e>> \in Seq(S)
    OBVIOUS
  <2> HIDE DEF S
  <2>2. t \in Seq(S) /\ Len(t) = 3 /\ t[1] = a /\ t[2] = b /\ t[3] = e
    BY <2>1
  <2> HIDE DEF t
  <2>3. t = <<a, b, e>>
    BY <2>2, TuplesOf
  <2> QED
    BY <2>3 DEF t
<1>4. ASSUME NEW a, NEW b, NEW e
      PROVE  <<a, b>> \o <<e>> = <<a, b, e>>
  <2> DEFINE S == {a, b, e}
             t == <<a, b>> \o <<e>>
  <2>1. <<a, b>> \in Seq(S) /\ <<e>> \in Seq(S)
    OBVIOUS
  <2> HIDE DEF S
  <2>2. t \in Seq(S) /\ Len(t) = 3 /\ t[1] = a /\ t[2] = b /\ t[3] = e
    BY <2>1
  <2> HIDE DEF t
  <2>3. t = <<a, b, e>>
    BY <2>2, TuplesOf
  <2> QED
    BY <2>3 DEF t
<1>5. ASSUME NEW a, NEW b, NEW e, NEW g
      PROVE  <<a, b>> \o <<e, g>> = <<a, b, e, g>>
  <2> DEFINE S == {a, b, e, g}
             t == <<a, b>> \o <<e, g>>
  <2>1. <<a, b>> \in Seq(S) /\ <<e, g>> \in Seq(S)
    OBVIOUS
  <2> HIDE DEF S
  <2>2. t \in Seq(S) /\ Len(t) = 4 /\ t[1] = a /\ t[2] = b /\ t[3] = e /\ t[4] = g
    BY <2>1
  <2> HIDE DEF t
  <2>3. t = <<a, b, e, g>>
    BY <2>2, TuplesOf
  <2> QED
    BY <2>3 DEF t
<1>6. ASSUME NEW c, NEW o PROVE <<c>> \o <<>> \o <<o>> = <<c, o>>
  BY <1>1, <1>2
<1>7. ASSUME NEW c, NEW w, NEW o PROVE <<c>> \o <<w>> \o <<o>> = <<c, w, o>>
  <2>1. <<c>> \o <<w>> = <<c, w>>
    BY <1>2
  <2>2. <<c, w>> \o <<o>> = <<c, w, o>>
    BY <1>4
  <2> QED
    BY <2>1, <2>2
<1>8. ASSUME NEW c, NEW f, NEW o PROVE <<c>> \o <<>> \o <<f, o>> = <<c, f, o>>
  <2>1. <<c>> \o <<>> = <<c>>
    BY <1>1
  <2>2. <<c>> \o <<f, o>> = <<c, f, o>>
    BY <1>3
  <2> QED
    BY <2>1, <2>2
<1>9. ASSUME NEW c, NEW w, NEW f, NEW o PROVE <<c>> \o <<w>> \o <<f, o>> = <<c, w, f, o>>
  <2>1. <<c>> \o <<w>> = <<c, w>>
    BY <1>2
  <2>2. <<c, w>> \o <<f, o>> = <<c, w, f, o>>
    BY <1>5
  <2> QED
    BY <2>1, <2>2
<1> QED
  BY <1>6, <1>7, <1>8, <1>9

\* A listed suffix is empty or one channel word, and stands for a channel of the class.
LEMMA SuffixIs ==
  ASSUME NEW d, NEW c, NEW ch \in Suffix(d, c), d[c].channels \in Nat \ {0}
  PROVE  /\ ch = <<>> \/ \E w \in Channels : ch = <<w>>
         /\ ~(ChannelAt(ch) > d[c].channels) /\ ChannelAt(ch) \in Nat
BY DEF Suffix, ChannelAt, Channels, ChannelOf

LEMMA One == \A x : Cardinality({x}) = 1
BY FS_Singleton

\* Skip drops the first word if it is one of those asked for.
LEMMA Skips ==
  ASSUME NEW W
  PROVE  /\ \A a : Skip(<<a>>, W) = IF a \in W THEN <<>> ELSE <<a>>
         /\ \A a, b : Skip(<<a, b>>, W) = IF a \in W THEN <<b>> ELSE <<a, b>>
         /\ \A a, b, e : Skip(<<a, b, e>>, W) = IF a \in W THEN <<b, e>> ELSE <<a, b, e>>
         /\ \A a, b, e, g : Skip(<<a, b, e, g>>, W) = IF a \in W THEN <<b, e, g>> ELSE <<a, b, e, g>>
<1>1. ASSUME NEW a, NEW b, NEW e, NEW g
      PROVE  /\ <<a>> # <<>> /\ <<a, b>> # <<>> /\ <<a, b, e>> # <<>> /\ <<a, b, e, g>> # <<>>
             /\ Head(<<a>>) = a /\ Head(<<a, b>>) = a /\ Head(<<a, b, e>>) = a /\ Head(<<a, b, e, g>>) = a
  OBVIOUS
<1>2. ASSUME NEW a, NEW b, NEW e, NEW g
      PROVE  /\ Tail(<<a>>) = <<>> /\ Tail(<<a, b>>) = <<b>> /\ Tail(<<a, b, e>>) = <<b, e>>
             /\ Tail(<<a, b, e, g>>) = <<b, e, g>>
  OBVIOUS
<1> QED
  BY <1>1, <1>2 DEF Skip

LEMMA Stays ==
  ASSUME NEW W, NEW a, NEW b, a \notin W
  PROVE  Skip(<<a, b>>, W) = <<a, b>>
<1>1. Head(<<a, b>>) = a
  OBVIOUS
<1> QED
  BY <1>1 DEF Skip

LEMMA Apart ==
  /\ \A a : <<a>> # <<>> /\ <<a>>[1] = a /\ Len(<<a>>) = 1 /\ Head(<<a>>) = a
  /\ \A a, b : <<b>> # <<a, b>> /\ <<a, b>> # <<b>> /\ <<a, b>>[1] = a /\ Head(<<a, b>>) = a
  /\ \A a, b, e : <<b, e>> # <<a, b, e>> /\ <<a, b, e>>[1] = a /\ Head(<<a, b, e>>) = a
  /\ \A a, b, e, g : <<b, e, g>> # <<a, b, e, g>> /\ <<a, b, e, g>>[1] = a /\ Head(<<a, b, e, g>>) = a
OBVIOUS

\* Resolve, of a header that has been taken apart.
LEMMA Parsed ==
  ASSUME NEW d, NEW cmd, NEW c \in Classes(d), NEW k, NEW n, NEW f \in BOOLEAN,
         Named(d), ~(k > d[c].channels), Takes(d, cmd, c, k, n, f)
  PROVE  Resolve(d, cmd) = IF f THEN Field(d, cmd, c, k, n) ELSE Operation(d, cmd, c, k, n)
<1> DEFINE h == cmd.header
           afterClass == Skip(h, Classes(d))
           afterChannel == Skip(afterClass, Channels)
           rest == Skip(afterChannel, FetchWord)
           fetch == rest # afterChannel
           channel == IF afterChannel # afterClass THEN ChannelOf(Head(afterClass)) ELSE 1
           classes == IF afterClass # h THEN {Head(h)} ELSE Knowing(d, fetch, rest[1])
<1>1. Resolve(d, cmd) =
        IF h[1] \in {"*IDN", "*CLS", "*OPC", "*WAI", "*RST"} THEN Common(h, cmd.query)
        ELSE IF h[1] = "SYST" THEN System(h, cmd.query)
        ELSE IF Len(rest) # 1 \/ Cardinality(classes) # 1 THEN Fail(113)
        ELSE LET x == CHOOSE y \in classes : TRUE IN
             IF channel > d[x].channels THEN Fail(114)
             ELSE IF fetch THEN Field(d, cmd, x, channel, rest[1])
             ELSE Operation(d, cmd, x, channel, rest[1])
  BY DEF Resolve, FetchWord
<1>2. h[1] = c /\ classes = {c} /\ channel = k /\ rest = <<n>>
  BY DEF Takes
<1>3. f <=> fetch
  BY DEF Takes
<1> HIDE DEF h, afterClass, afterChannel, rest, fetch, channel, classes
<1>4. Cardinality(classes) = 1 /\ (CHOOSE y \in classes : TRUE) = c
  BY <1>2, One
<1>5. Len(rest) = 1 /\ rest[1] = n
  BY <1>2, Apart
<1>6. c \notin {"*IDN", "*CLS", "*OPC", "*WAI", "*RST", "SYST"}
  BY DEF Named
<1> QED
  BY <1>1, <1>2, <1>3, <1>4, <1>5, <1>6

\* The parser takes a header that is whole apart into its class, its channel, FETCh and its name.
LEMMA OfOperation ==
  ASSUME NEW d, NEW cmd, NEW c \in Classes(d), NEW ch \in Suffix(d, c), NEW n,
         Named(d), d[c].channels \in Nat \ {0}, n \notin Channels, n \notin FetchWord,
         cmd.header = <<c>> \o ch \o <<n>>
  PROVE  Resolve(d, cmd) = Operation(d, cmd, c, ChannelAt(ch), n)
<1>1. ~(ChannelAt(ch) > d[c].channels) /\ ChannelAt(ch) \in Nat
  BY SuffixIs
<1>2. Skip(<<n>>, Channels) = <<n>> /\ Skip(<<n>>, FetchWord) = <<n>>
  BY Skips
<1>3. CASE ch = <<>>
  <2>1. cmd.header = <<c, n>>
    BY <1>3, Headers
  <2>2. Skip(<<c, n>>, Classes(d)) = <<n>> /\ <<c, n>>[1] = c /\ Head(<<c, n>>) = c /\ <<n>> # <<c, n>>
    BY Skips, Apart
  <2>3. ChannelAt(ch) = 1
    BY <1>3 DEF ChannelAt
  <2>4. Takes(d, cmd, c, ChannelAt(ch), n, FALSE)
    BY <1>2, <2>1, <2>2, <2>3 DEF Takes
  <2> QED
    BY <1>1, <2>4, Parsed
<1>4. ASSUME NEW w \in Channels, ch = <<w>>
      PROVE  Resolve(d, cmd) = Operation(d, cmd, c, ChannelAt(ch), n)
  <2>1. cmd.header = <<c, w, n>>
    BY <1>4, Headers
  <2>2. /\ Skip(<<c, w, n>>, Classes(d)) = <<w, n>> /\ <<c, w, n>>[1] = c /\ Head(<<c, w, n>>) = c
        /\ <<w, n>> # <<c, w, n>> /\ Skip(<<w, n>>, Channels) = <<n>> /\ <<n>> # <<w, n>>
        /\ Head(<<w, n>>) = w
    BY Skips, Apart
  <2>3. ChannelAt(ch) = ChannelOf(w)
    BY <1>4, Apart DEF ChannelAt
  <2>4. Takes(d, cmd, c, ChannelAt(ch), n, FALSE)
    BY <1>2, <2>1, <2>2, <2>3 DEF Takes
  <2> QED
    BY <1>1, <2>4, Parsed
<1> QED
  BY <1>3, <1>4, SuffixIs

LEMMA OfField ==
  ASSUME NEW d, NEW cmd, NEW c \in Classes(d), NEW ch \in Suffix(d, c), NEW n, NEW F, F \in FetchWord,
         Named(d), d[c].channels \in Nat \ {0},
         cmd.header = <<c>> \o ch \o <<F, n>>
  PROVE  Resolve(d, cmd) = Field(d, cmd, c, ChannelAt(ch), n)
<1>1. ~(ChannelAt(ch) > d[c].channels) /\ ChannelAt(ch) \in Nat
  BY SuffixIs
<1>2. /\ Skip(<<F, n>>, Channels) = <<F, n>> /\ Skip(<<F, n>>, FetchWord) = <<n>>
      /\ <<F, n>> # <<n>>
  <2>1. F \notin Channels
    BY DEF Channels, FetchWord
  <2>2. Skip(<<F, n>>, Channels) = <<F, n>>
    BY <2>1, Stays
  <2>3. Skip(<<F, n>>, FetchWord) = <<n>>
    BY Skips
  <2>4. <<F, n>> # <<n>>
    BY Apart
  <2> QED
    BY <2>2, <2>3, <2>4
<1>3. CASE ch = <<>>
  <2>1. cmd.header = <<c, F, n>>
    BY <1>3, Headers
  <2>2. /\ Skip(<<c, F, n>>, Classes(d)) = <<F, n>> /\ <<c, F, n>>[1] = c
        /\ Head(<<c, F, n>>) = c /\ <<F, n>> # <<c, F, n>>
    BY Skips, Apart
  <2>3. ChannelAt(ch) = 1
    BY <1>3 DEF ChannelAt
  <2>4. /\ Skip(cmd.header, Classes(d)) = <<F, n>>
        /\ Skip(Skip(cmd.header, Classes(d)), Channels) = <<F, n>>
        /\ cmd.header[1] = c /\ Head(cmd.header) = c /\ Skip(cmd.header, Classes(d)) # cmd.header
    BY <1>2, <2>1, <2>2
  <2>5. Takes(d, cmd, c, ChannelAt(ch), n, TRUE)
    BY <1>2, <2>3, <2>4 DEF Takes
  <2> QED
    BY <1>1, <2>5, Parsed
<1>4. ASSUME NEW w \in Channels, ch = <<w>>
      PROVE  Resolve(d, cmd) = Field(d, cmd, c, ChannelAt(ch), n)
  <2>1. cmd.header = <<c, w, F, n>>
    BY <1>4, Headers
  <2>2. /\ Skip(<<c, w, F, n>>, Classes(d)) = <<w, F, n>> /\ <<c, w, F, n>>[1] = c
        /\ Head(<<c, w, F, n>>) = c /\ <<w, F, n>> # <<c, w, F, n>>
        /\ Skip(<<w, F, n>>, Channels) = <<F, n>> /\ <<F, n>> # <<w, F, n>>
        /\ Head(<<w, F, n>>) = w
    BY Skips, Apart
  <2>3. ChannelAt(ch) = ChannelOf(w)
    BY <1>4, Apart DEF ChannelAt
  <2>4. /\ Skip(cmd.header, Classes(d)) = <<w, F, n>>
        /\ Skip(Skip(cmd.header, Classes(d)), Channels) = <<F, n>>
        /\ Skip(Skip(cmd.header, Classes(d)), Channels) # Skip(cmd.header, Classes(d))
        /\ Head(Skip(cmd.header, Classes(d))) = w
        /\ cmd.header[1] = c /\ Head(cmd.header) = c /\ Skip(cmd.header, Classes(d)) # cmd.header
    BY <1>2, <2>1, <2>2
  <2>5. Takes(d, cmd, c, ChannelAt(ch), n, TRUE)
    BY <1>2, <2>3, <2>4 DEF Takes
  <2> QED
    BY <1>1, <2>5, Parsed
<1> QED
  BY <1>3, <1>4, SuffixIs

\* A listed command of an operation is one it has: a query of a get, a value for a set.
LEMMA OperationIs ==
  ASSUME NEW d, NEW c, NEW ch, NEW o \in Operations(d, c), NEW q \in Ways(d, c, o), NEW k
  PROVE  Operation(d, AsOperation(c, ch, o, q), c, k, o) = On(IF q THEN "query" ELSE "set", c, k, o)
<1> DEFINE cmd == AsOperation(c, ch, o, q)
<1>1. cmd.query = q /\ cmd.arg = ~q
  BY DEF AsOperation
<1>2. q \in BOOLEAN /\ (IF q THEN d[c].operations[o].get ELSE d[c].operations[o].set)
  BY DEF Ways
<1> HIDE DEF cmd
<1>3. CASE q
  <2>1. cmd.query /\ d[c].operations[o].get
    BY <1>1, <1>2, <1>3
  <2>2. Operation(d, cmd, c, k, o) = On("query", c, k, o)
    BY <2>1 DEF Operation
  <2> QED
    BY <1>3, <2>2 DEF cmd
<1>4. CASE ~q
  <2>1. ~cmd.query /\ d[c].operations[o].set /\ cmd.arg
    BY <1>1, <1>2, <1>4
  <2>2. Operation(d, cmd, c, k, o) = On("set", c, k, o)
    BY <2>1 DEF Operation
  <2> QED
    BY <1>4, <2>2 DEF cmd
<1> QED
  BY <1>2, <1>3, <1>4 DEF cmd

\* What is listed resolves to the operation or the field, on the channel, it was listed for.
LEMMA ListedResolves ==
  ASSUME NEW d, NEW c \in Classes(d), NEW ch \in Suffix(d, c),
         Named(d), Plain(d), d[c].channels \in Nat \ {0}
  PROVE  /\ \A o \in Operations(d, c) : \A q \in Ways(d, c, o) :
              Resolve(d, AsOperation(c, ch, o, q)) = On(IF q THEN "query" ELSE "set", c, ChannelAt(ch), o)
         /\ \A f \in d[c].fields : Resolve(d, AsField(c, ch, f)) = On("fetch", c, ChannelAt(ch), f)
<1>1. ASSUME NEW o \in Operations(d, c), NEW q \in Ways(d, c, o)
      PROVE  Resolve(d, AsOperation(c, ch, o, q)) = On(IF q THEN "query" ELSE "set", c, ChannelAt(ch), o)
  <2>1. o \notin Channels /\ o \notin FetchWord
    BY DEF Plain, FetchWord
  <2>2. AsOperation(c, ch, o, q).header = <<c>> \o ch \o <<o>>
    BY DEF AsOperation
  <2>3. Resolve(d, AsOperation(c, ch, o, q)) = Operation(d, AsOperation(c, ch, o, q), c, ChannelAt(ch), o)
    BY <2>1, <2>2, OfOperation
  <2> QED
    BY <2>3, OperationIs
<1>2. ASSUME NEW f \in d[c].fields
      PROVE  Resolve(d, AsField(c, ch, f)) = On("fetch", c, ChannelAt(ch), f)
  <2>1. PICK F : F \in FetchWord /\ AsField(c, ch, f).header = <<c>> \o ch \o <<F, f>>
    BY Zenon DEF AsField, FetchWord
  <2>2. Resolve(d, AsField(c, ch, f)) = Field(d, AsField(c, ch, f), c, ChannelAt(ch), f)
    BY <2>1, OfField
  <2> QED
    BY <2>2 DEF Field, AsField
<1> QED
  BY <1>1, <1>2

\* What resolves is an operation or a field of one of the classes, on a channel the class has.
LEMMA ResolvesTo ==
  ASSUME NEW d, NEW cmd, Resolve(d, cmd).kind \in {"query", "set", "fetch"}
  PROVE  \E c \in Classes(d) : \E n : \E k \in 1..3 :
           /\ ~(k > d[c].channels)
           /\ \/ n \in d[c].fields /\ Resolve(d, cmd) = On("fetch", c, k, n)
              \/ /\ n \in Operations(d, c)
                 /\ \E q \in Ways(d, c, n) : Resolve(d, cmd) = On(IF q THEN "query" ELSE "set", c, k, n)
<1> DEFINE h == cmd.header
           afterClass == Skip(h, Classes(d))
           afterChannel == Skip(afterClass, Channels)
           rest == Skip(afterChannel, FetchWord)
           fetch == rest # afterChannel
           channel == IF afterChannel # afterClass THEN ChannelOf(Head(afterClass)) ELSE 1
           classes == IF afterClass # h THEN {Head(h)} ELSE Knowing(d, fetch, rest[1])
           x == CHOOSE y \in classes : TRUE
<1>1. Resolve(d, cmd) =
        IF h[1] \in {"*IDN", "*CLS", "*OPC", "*WAI", "*RST"} THEN Common(h, cmd.query)
        ELSE IF h[1] = "SYST" THEN System(h, cmd.query)
        ELSE IF Len(rest) # 1 \/ Cardinality(classes) # 1 THEN Fail(113)
        ELSE IF channel > d[x].channels THEN Fail(114)
             ELSE IF fetch THEN Field(d, cmd, x, channel, rest[1])
             ELSE Operation(d, cmd, x, channel, rest[1])
  BY DEF Resolve, FetchWord
<1>2. Common(h, cmd.query).kind \notin {"query", "set", "fetch"}
  BY DEF Common, Target, Fail
<1>3. System(h, cmd.query).kind \notin {"query", "set", "fetch"}
  BY DEF System, Target, Fail
<1>4. \A e : Fail(e).kind \notin {"query", "set", "fetch"}
  BY DEF Target, Fail
<1>5. channel \in 1..3
  BY DEF Skip, Channels, ChannelOf
<1>6. classes \subseteq Classes(d)
  BY DEF Knowing, Skip
<1> HIDE DEF h, afterClass, afterChannel, rest, fetch, channel, classes
<1>7. /\ Cardinality(classes) = 1 /\ ~(channel > d[x].channels)
      /\ Resolve(d, cmd) = IF fetch THEN Field(d, cmd, x, channel, rest[1])
                           ELSE Operation(d, cmd, x, channel, rest[1])
  BY <1>1, <1>2, <1>3, <1>4
<1>8. x \in Classes(d)
  <2>1. classes # {}
    BY <1>7, FS_EmptySet
  <2> QED
    BY <2>1, <1>6
<1> HIDE DEF x
<1>9. CASE fetch
  <2>1. Resolve(d, cmd) = Field(d, cmd, x, channel, rest[1])
    BY <1>7, <1>9
  <2>2. rest[1] \in d[x].fields /\ Resolve(d, cmd) = On("fetch", x, channel, rest[1])
    BY <2>1, <1>4 DEF Field
  <2> QED
    BY <2>2, <1>5, <1>7, <1>8
<1>10. CASE ~fetch
  <2>1. Resolve(d, cmd) = Operation(d, cmd, x, channel, rest[1])
    BY <1>7, <1>10
  <2>2. rest[1] \in Operations(d, x)
    BY <2>1, <1>4 DEF Operation
  <2>3. \E q \in Ways(d, x, rest[1]) : Resolve(d, cmd) = On(IF q THEN "query" ELSE "set", x, channel, rest[1])
    <3> DEFINE op == d[x].operations[rest[1]]
    <3>1. CASE cmd.query /\ op.get
      <4>1. Resolve(d, cmd) = On("query", x, channel, rest[1])
        BY <2>1, <2>2, <3>1 DEF Operation
      <4>2. TRUE \in Ways(d, x, rest[1])
        BY <3>1 DEF Ways
      <4> QED
        BY <4>1, <4>2
    <3>2. CASE ~cmd.query /\ op.set /\ cmd.arg
      <4>1. Resolve(d, cmd) = On("set", x, channel, rest[1])
        BY <2>1, <2>2, <3>2 DEF Operation
      <4>2. FALSE \in Ways(d, x, rest[1])
        BY <3>2 DEF Ways
      <4> QED
        BY <4>1, <4>2
    <3>3. CASE ~(cmd.query /\ op.get) /\ ~(~cmd.query /\ op.set /\ cmd.arg)
      <4>1. \E e : Resolve(d, cmd) = Fail(e)
        BY <2>1, <2>2, <3>3 DEF Operation
      <4> QED
        BY <4>1, <1>4
    <3> QED
      BY <3>1, <3>2, <3>3
  <2> QED
    BY <2>2, <2>3, <1>5, <1>7, <1>8
<1> QED
  BY <1>9, <1>10

\* A suffix is listed for every channel a class has.
LEMMA SuffixOf ==
  ASSUME NEW d, NEW c, NEW k \in 1..3, ~(k > d[c].channels), d[c].channels \in Nat \ {0}
  PROVE  \E ch \in Suffix(d, c) : ChannelAt(ch) = k
<1>1. CASE d[c].channels > 1
  <2>1. PICK w \in Channels : ChannelOf(w) = k
    <3>1. /\ "CH1" \in Channels /\ ChannelOf("CH1") = 1 /\ "CH2" \in Channels /\ ChannelOf("CH2") = 2
          /\ "CH3" \in Channels /\ ChannelOf("CH3") = 3
      BY DEF Channels, ChannelOf
    <3> QED
      BY <3>1
  <2>2. <<w>> \in Suffix(d, c)
    BY <1>1, <2>1 DEF Suffix
  <2>3. ChannelAt(<<w>>) = k
    BY <2>1, Apart DEF ChannelAt
  <2> QED
    BY <2>2, <2>3
<1>2. CASE ~(d[c].channels > 1)
  BY <1>2 DEF Suffix, ChannelAt
<1> QED
  BY <1>1, <1>2

\* Both halves of HelpIsTrue, for one vocabulary.
LEMMA HelpOf ==
  ASSUME NEW d, Named(d), Plain(d), \A c \in Classes(d) : d[c].channels \in Nat \ {0}
  PROVE  /\ \A cmd \in Help(d) : Resolve(d, cmd).kind \in {"query", "set", "fetch"}
         /\ \A u : Resolve(d, u).kind \in {"query", "set", "fetch"} =>
              \E cmd \in Help(d) : Resolve(d, cmd) = Resolve(d, u)
<1>1. ASSUME NEW cmd \in Help(d)
      PROVE  Resolve(d, cmd).kind \in {"query", "set", "fetch"}
  <2>0. PICK c \in Classes(d) : \E ch \in Suffix(d, c) :
          \/ \E o \in Operations(d, c) : \E q \in Ways(d, c, o) : cmd = AsOperation(c, ch, o, q)
          \/ \E f \in d[c].fields : cmd = AsField(c, ch, f)
    BY Listed
  <2>1. PICK ch \in Suffix(d, c) :
          \/ \E o \in Operations(d, c) : \E q \in Ways(d, c, o) : cmd = AsOperation(c, ch, o, q)
          \/ \E f \in d[c].fields : cmd = AsField(c, ch, f)
    BY <2>0
  <2>2. \A o, q : On(IF q THEN "query" ELSE "set", c, ChannelAt(ch), o).kind \in {"query", "set", "fetch"}
    BY DEF On
  <2>3. \A f : On("fetch", c, ChannelAt(ch), f).kind \in {"query", "set", "fetch"}
    BY DEF On
  <2> QED
    BY <2>1, <2>2, <2>3, ListedResolves
<1>2. ASSUME NEW u, Resolve(d, u).kind \in {"query", "set", "fetch"}
      PROVE  \E cmd \in Help(d) : Resolve(d, cmd) = Resolve(d, u)
  <2>0. PICK c \in Classes(d) : \E n : \E k \in 1..3 :
           /\ ~(k > d[c].channels)
           /\ \/ n \in d[c].fields /\ Resolve(d, u) = On("fetch", c, k, n)
              \/ /\ n \in Operations(d, c)
                 /\ \E q \in Ways(d, c, n) : Resolve(d, u) = On(IF q THEN "query" ELSE "set", c, k, n)
    BY <1>2, ResolvesTo
  <2>1. PICK n : \E k \in 1..3 :
           /\ ~(k > d[c].channels)
           /\ \/ n \in d[c].fields /\ Resolve(d, u) = On("fetch", c, k, n)
              \/ /\ n \in Operations(d, c)
                 /\ \E q \in Ways(d, c, n) : Resolve(d, u) = On(IF q THEN "query" ELSE "set", c, k, n)
    BY <2>0
  <2>2. PICK k \in 1..3 :
           /\ ~(k > d[c].channels)
           /\ \/ n \in d[c].fields /\ Resolve(d, u) = On("fetch", c, k, n)
              \/ /\ n \in Operations(d, c)
                 /\ \E q \in Ways(d, c, n) : Resolve(d, u) = On(IF q THEN "query" ELSE "set", c, k, n)
    BY <2>1
  <2>3. PICK ch \in Suffix(d, c) : ChannelAt(ch) = k
    BY <2>2, SuffixOf
  <2>4. CASE n \in d[c].fields /\ Resolve(d, u) = On("fetch", c, k, n)
    <3>1. Resolve(d, AsField(c, ch, n)) = Resolve(d, u)
      BY <2>3, <2>4, ListedResolves
    <3>2. AsField(c, ch, n) \in Help(d)
      BY <2>4, Listed
    <3> QED
      BY <3>1, <3>2
  <2>5. ASSUME n \in Operations(d, c), NEW q \in Ways(d, c, n), Resolve(d, u) = On(IF q THEN "query" ELSE "set", c, k, n)
        PROVE  \E cmd \in Help(d) : Resolve(d, cmd) = Resolve(d, u)
    <3>1. Resolve(d, AsOperation(c, ch, n, q)) = Resolve(d, u)
      BY <2>3, <2>5, ListedResolves
    <3>2. AsOperation(c, ch, n, q) \in Help(d)
      BY <2>5, Listed
    <3> QED
      BY <3>1, <3>2
  <2> QED
    BY <2>2, <2>4, <2>5
<1> QED
  BY <1>1, <1>2

\* The instrument of a port is one of those the instance is about, from its start.
LEMMA SameInstrument == ScpiSpec => [](dev \in Devices)
<1>1. ScpiInit => dev \in Devices
  BY DEF ScpiInit
<1>2. dev \in Devices /\ [ScpiNext]_scpiVars => (dev \in Devices)'
  BY DEF ScpiNext, scpiVars, BenchChanges, Connect, Disconnect, Receive, Unit, SetAnswered, Reply,
         instrument, NotParsed, UnitFailed, Fetch, Query, Set, Local
<1> QED
  BY <1>1, <1>2, PTL DEF ScpiSpec

\* Every header SYSTem:HELP:HEADers? lists resolves to an operation or a field of the instrument,
\* and everything a client's command can reach is listed, for every vocabulary without an operation
\* named like a channel or FETC (dialect.rs headers, resolve).
THEOREM HelpIsHonest == ScpiSpec => [](Plain(dev) => HelpIsTrue)
<1>1. dev \in Devices /\ Plain(dev) => HelpIsTrue
  <2> SUFFICES ASSUME dev \in Devices, Plain(dev) PROVE HelpIsTrue
    OBVIOUS
  <2>1. Named(dev) /\ \A c \in Classes(dev) : dev[c].channels \in Nat \ {0}
    BY ScpiAssumption DEF Named, Classes
  <2> QED
    BY <2>1, HelpOf DEF HelpIsTrue
<1> QED
  BY <1>1, SameInstrument, PTL

-----------------------------------------------------------------------------
(* FlowFiles: for any documents and names, any number of requests at once, *)
(* failures and kills.                                                     *)

FlowFile == {NoFlow} \cup {<<f>> : f \in [doc : Docs, whole : BOOLEAN]}
Saving == [step : {"write", "writing", "rename"}, doc : {Flow(d) : d \in Docs}, id : Ids, new : BOOLEAN]

FlowTypes ==
  /\ files \in [Ids -> FlowFile] /\ tmpOf \in [Ids -> FlowFile] /\ kept \in [Ids -> SUBSET FlowFile]
  /\ save \in [SaveTasks -> {NoSave} \cup Saving]

Cut(d) == <<[doc |-> d, whole |-> FALSE]>>
Whole(f) == f = NoFlow \/ f[1].whole

\* Of an id that two requests never wrote at once: the file is whole and what was answered,
\* the temporary file is the one request's, and a new flow's id is still free.
IdInv(id) ==
  /\ files[id] \in kept[id] /\ Whole(files[id]) /\ id \notin replaced \ unread
  /\ \A r, s \in Writing(id) : r = s
  /\ \A r \in Writing(id) :
       /\ save[r].step = "writing" => tmpOf[id] = Cut(save[r].doc[1].doc)
       /\ save[r].step = "rename" => tmpOf[id] \in {NoFlow, save[r].doc}
       /\ save[r].new => files[id] = NoFlow \/ id \in unread

FlowsInv == FlowTypes /\ \A id \in Ids \ mixed : IdInv(id)

LEMMA WholeFlow ==
  /\ \A d : Flow(d) # NoFlow /\ Flow(d)[1].whole /\ Flow(d)[1].doc = d /\ Whole(Flow(d)) /\ Flow(d) # Cut(d)
  /\ \A d \in Docs : Flow(d) \in FlowFile /\ Cut(d) \in FlowFile
<1>1. \A d : Flow(d) # NoFlow /\ Flow(d)[1].whole /\ Flow(d)[1].doc = d /\ Whole(Flow(d)) /\ Flow(d) # Cut(d)
  BY DEF Flow, NoFlow, Whole, Cut
<1>2. ASSUME NEW d \in Docs PROVE Flow(d) \in FlowFile /\ Cut(d) \in FlowFile
  BY DEF Flow, Cut, FlowFile
<1> QED
  BY <1>1, <1>2

LEMMA NoSaveIsNone == NoSave.step = "none"
BY DEF NoSave

LEMMA FlowsStart == FlowFilesInit => FlowsInv
<1> SUFFICES ASSUME FlowFilesInit PROVE FlowsInv
  OBVIOUS
<1>1. FlowTypes
  <2>1. NoFlow \in FlowFile /\ \A d \in Docs \ Erroneous : Flow(d) \in FlowFile
    BY WholeFlow DEF FlowFile
  <2>2. files \in [Ids -> FlowFile]
    BY <2>1 DEF FlowFilesInit
  <2> QED
    BY <2>1, <2>2 DEF FlowFilesInit, FlowTypes
<1>2. \A id \in Ids : Writing(id) = {}
  BY NoSaveIsNone DEF FlowFilesInit, Writing
<1>3. \A id \in Ids : Whole(files[id])
  BY WholeFlow DEF FlowFilesInit, Whole
<1> QED
  BY <1>1, <1>2, <1>3 DEF FlowFilesInit, FlowsInv, IdInv

\* A set of numbers has a least one, if any.
LEMMA Least ==
  ASSUME NEW T \in SUBSET Nat, T # {}
  PROVE  \E m \in T : \A x \in T : m <= x
<1>1. PICK m \in T : \A x \in T : <<x, m>> \notin OpToRel(<, Nat)
  BY NatLessThanWellFounded, WFMin
<1>2. \A x \in T : ~(x < m)
  BY <1>1, Zenon DEF OpToRel
<1>. QED
  BY <1>2

\* The id of a new flow is one whose file is no flow, or was not read.
LEMMA NewIdIsFree ==
  ASSUME NEW d \in Docs, NEW bad, NEW id \in NewId(d, bad)
  PROVE  id \in Ids /\ Get(id, bad) = NoFlow
<1> DEFINE free == {n \in Numbers : Get(<<NameOf[d], n>>, bad) = NoFlow}
<1>1. free # {} /\ id = <<NameOf[d], Min(free)>>
  BY DEF NewId
<1>2. PICK m \in free : \A n \in free : m <= n
  BY <1>1, Least, FlowFilesAssumption
<1>3. Min(free) \in free
  BY <1>2 DEF Min
<1> QED
  BY <1>1, <1>3 DEF Ids

LEMMA SaveStarts ==
  ASSUME FlowsInv, NEW r \in SaveTasks, NEW d \in Docs, NEW id \in Ids, NEW new \in BOOLEAN,
         Save(r, d, id, new), unread \subseteq unread',
         new => Get(id, {}) = NoFlow \/ id \in unread'
  PROVE  FlowsInv'
<1> DEFINE s == [step |-> "write", doc |-> Flow(d), id |-> id, new |-> new]
<1>1. /\ save' = [save EXCEPT ![r] = s] /\ UNCHANGED <<files, tmpOf, kept, replaced>>
      /\ save[r].step = "none"
  BY NoSaveIsNone DEF Save
<1>2. FlowTypes'
  <2>1. s \in Saving
    BY DEF Saving
  <2> QED
    BY <1>1, <2>1 DEF FlowsInv, FlowTypes
<1>3. ASSUME NEW i \in Ids \ mixed' PROVE IdInv(i)'
  <2>1. i \notin mixed /\ IdInv(i)
    BY DEF Save, FlowsInv
  <2>2. CASE i = id
    <3>1. Writing(i) = {}
      BY <2>2 DEF Save
    <3>2. \A q \in Writing(i)' : q = r
      BY <1>1, <3>1 DEF FlowsInv, FlowTypes, Writing
    <3>3. save'[r] = s
      BY <1>1 DEF FlowsInv, FlowTypes
    <3>4. new => files[i] = NoFlow \/ i \in unread'
      BY <2>1, <2>2 DEF IdInv, Whole, Get
    <3> QED
      BY <1>1, <2>1, <3>2, <3>3, <3>4 DEF IdInv
  <2>3. CASE i # id
    <3>1. Writing(i)' = Writing(i) /\ r \notin Writing(i)
      BY <1>1, <2>3 DEF FlowsInv, FlowTypes, Writing
    <3>2. \A q \in Writing(i) : save'[q] = save[q]
      BY <1>1, <3>1 DEF FlowsInv, FlowTypes, Writing
    <3> QED
      BY <1>1, <2>1, <3>1, <3>2 DEF IdInv
  <2> QED
    BY <2>2, <2>3
<1> QED
  BY <1>2, <1>3 DEF FlowsInv

\* A step of a request concerns its id only.
LEMMA OtherIds ==
  ASSUME FlowsInv, NEW r \in SaveTasks, NEW s, save' = [save EXCEPT ![r] = s],
         save[r].step # "none", s.step = "none" \/ s.id = save[r].id, UNCHANGED <<mixed, unread>>,
         NEW id \in Ids \ mixed, id # save[r].id, replaced' \subseteq replaced \cup {save[r].id},
         UNCHANGED <<files[id], tmpOf[id], kept[id]>>
  PROVE  IdInv(id)'
<1>1. IdInv(id)
  BY DEF FlowsInv
<1>2. Writing(id)' = Writing(id) /\ r \notin Writing(id)
  BY DEF FlowsInv, FlowTypes, Writing
<1>3. \A q \in Writing(id) : save'[q] = save[q]
  BY <1>2 DEF FlowsInv, FlowTypes, Writing
<1> QED
  BY <1>1, <1>2, <1>3 DEF IdInv

\* A request that goes on, with the file it writes.
LEMMA SaveGoesOn ==
  ASSUME FlowsInv, NEW r \in SaveTasks, NEW step \in {"writing", "rename"},
         \/ OpenTmp(r) /\ step = "writing"
         \/ WriteTmp(r) /\ step = "rename"
  PROVE  FlowsInv'
<1> DEFINE id == save[r].id
           d == save[r].doc[1].doc
<1>1. /\ save' = [save EXCEPT ![r].step = step] /\ save[r].step # "none"
      /\ UNCHANGED <<kept, mixed, replaced, unread>>
  BY DEF OpenTmp, WriteTmp
<1>2. save[r] \in Saving /\ id \in Ids /\ d \in Docs /\ save[r].doc = Flow(d)
  <2>1. save[r] \in Saving
    BY <1>1, NoSaveIsNone DEF FlowsInv, FlowTypes
  <2>2. PICK e \in Docs : save[r].doc = Flow(e)
    BY <2>1 DEF Saving
  <2>3. d = e
    BY <2>2, WholeFlow
  <2> QED
    BY <2>1, <2>2, <2>3 DEF Saving
<1>3. /\ save' = [save EXCEPT ![r] = save'[r]]
      /\ save'[r] \in Saving /\ save'[r].id = id /\ save'[r].step = step
      /\ save'[r].doc = save[r].doc /\ save'[r].new = save[r].new
  BY <1>1, <1>2 DEF FlowsInv, FlowTypes, Saving
<1>4. \E t \in FlowFile : tmpOf' = [tmpOf EXCEPT ![id] = t]
  <2>1. CASE OpenTmp(r)
    BY <1>2, <2>1, WholeFlow DEF OpenTmp, Cut
  <2>2. CASE WriteTmp(r)
    BY <1>2, <2>2, WholeFlow DEF WriteTmp, FlowsInv, FlowTypes
  <2> QED
    BY <2>1, <2>2
<1>5. \E f \in FlowFile : files' = [files EXCEPT ![id] = f]
  <2>1. files = [files EXCEPT ![id] = files[id]] /\ files[id] \in FlowFile
    BY <1>2 DEF FlowsInv, FlowTypes
  <2>2. CASE OpenTmp(r)
    BY <2>1, <2>2 DEF OpenTmp
  <2>3. CASE WriteTmp(r)
    BY <1>2, <2>1, <2>3, WholeFlow DEF WriteTmp
  <2> QED
    BY <2>2, <2>3
<1>6. FlowTypes'
  BY <1>1, <1>3, <1>4, <1>5 DEF FlowsInv, FlowTypes
<1>7. ASSUME NEW i \in Ids \ mixed' PROVE IdInv(i)'
  <2>1. CASE i # id
    <3>1. UNCHANGED <<files[i], tmpOf[i], kept[i]>>
      BY <1>1, <1>4, <1>5, <2>1 DEF FlowsInv, FlowTypes
    <3> QED
      BY <1>1, <1>2, <1>3, <2>1, <3>1, OtherIds
  <2>2. CASE i = id
    <3>1. IdInv(id) /\ r \in Writing(id)
      BY <1>1, <2>2 DEF FlowsInv, Writing
    <3>2. Writing(id)' = {r}
      BY <1>3, <2>2, <3>1 DEF IdInv, Writing, FlowsInv, FlowTypes
    <3>3. /\ step = "writing" => tmpOf'[id] = Cut(d)
          /\ step = "rename" => tmpOf'[id] = save[r].doc
      <4>1. CASE OpenTmp(r) /\ step = "writing"
        BY <1>2, <4>1 DEF OpenTmp, Cut, FlowsInv, FlowTypes
      <4>2. CASE WriteTmp(r) /\ step = "rename"
        <5>1. tmpOf[id] = Cut(d)
          BY <3>1, <4>2 DEF IdInv, WriteTmp
        <5> QED
          BY <1>2, <4>2, <5>1 DEF WriteTmp, Cut, FlowsInv, FlowTypes
      <4> QED
        BY <4>1, <4>2
    <3>4. files'[id] = files[id]
      <4>1. CASE OpenTmp(r)
        BY <4>1 DEF OpenTmp
      <4>2. CASE WriteTmp(r)
        <5>1. tmpOf[id] = Cut(d)
          BY <3>1, <4>2 DEF IdInv, WriteTmp
        <5> QED
          BY <1>2, <4>2, <5>1 DEF WriteTmp, Cut, FlowsInv, FlowTypes
      <4> QED
        BY <4>1, <4>2
    <3>5. save[r].new => files[id] = NoFlow \/ id \in unread
      BY <3>1 DEF IdInv
    <3> QED
      BY <1>1, <1>3, <2>2, <3>1, <3>2, <3>3, <3>4, <3>5 DEF IdInv
  <2> QED
    BY <2>1, <2>2
<1> QED
  BY <1>6, <1>7 DEF FlowsInv

LEMMA SaveEnds ==
  ASSUME FlowsInv, NEW r \in SaveTasks, RenameTmp(r) \/ SaveFails(r)
  PROVE  FlowsInv'
<1> DEFINE id == save[r].id
<1>1. save' = [save EXCEPT ![r] = NoSave] /\ save[r].step # "none" /\ UNCHANGED <<mixed, unread>>
  BY DEF RenameTmp, SaveFails
<1>2. save[r] \in Saving /\ id \in Ids
  <2>1. save[r] \in Saving
    BY <1>1, NoSaveIsNone DEF FlowsInv, FlowTypes
  <2> QED
    BY <2>1 DEF Saving
<1>3. save[r].doc \in FlowFile /\ Whole(save[r].doc) /\ save[r].doc # NoFlow
  BY <1>2, WholeFlow DEF Saving
<1>4. \/ UNCHANGED <<files, tmpOf, kept, replaced>>
      \/ /\ RenameTmp(r)
         /\ files' = [files EXCEPT ![id] = tmpOf[id]] /\ tmpOf' = [tmpOf EXCEPT ![id] = NoFlow]
         /\ kept' = [kept EXCEPT ![id] = {save[r].doc}] /\ replaced' \subseteq replaced \cup {id}
  BY DEF RenameTmp, SaveFails
<1>5. FlowTypes'
  BY <1>1, <1>2, <1>3, <1>4 DEF FlowsInv, FlowTypes, FlowFile
<1>6. ASSUME NEW i \in Ids \ mixed' PROVE IdInv(i)'
  <2>1. CASE i # id
    <3>1. UNCHANGED <<files[i], tmpOf[i], kept[i]>> /\ replaced' \subseteq replaced \cup {id}
      BY <1>4, <2>1 DEF FlowsInv, FlowTypes
    <3> QED
      BY <1>1, <1>2, <2>1, <3>1, OtherIds, NoSaveIsNone
  <2>2. CASE i = id
    <3>1. IdInv(id) /\ r \in Writing(id)
      BY <1>1, <2>2 DEF FlowsInv, Writing
    <3>2. Writing(i)' = {}
      <4>1. \A q \in SaveTasks : save'[q] = IF q = r THEN NoSave ELSE save[q]
        BY <1>1 DEF FlowsInv, FlowTypes
      <4>2. ASSUME NEW q \in SaveTasks, save'[q].step # "none", save'[q].id = i PROVE FALSE
        <5>1. q # r /\ save'[q] = save[q]
          BY <4>1, <4>2, NoSaveIsNone
        <5>2. q \in Writing(id)
          BY <2>2, <4>2, <5>1 DEF Writing
        <5> QED
          BY <3>1, <5>1, <5>2 DEF IdInv
      <4> QED
        BY <4>2 DEF Writing
    <3>3. CASE UNCHANGED <<files, tmpOf, kept, replaced>>
      <4>1. files[i] \in kept[i] /\ Whole(files[i]) /\ i \notin replaced \ unread
        BY <2>2, <3>1 DEF IdInv
      <4>2. files'[i] \in kept'[i] /\ Whole(files'[i]) /\ i \notin replaced' \ unread'
        BY <1>1, <3>3, <4>1
      <4> QED
        BY <3>2, <4>2, Zenon DEF IdInv
    <3>4. CASE RenameTmp(r)
      <4>1. tmpOf[id] = save[r].doc /\ (save[r].new => files[id] = NoFlow \/ id \in unread)
        BY <3>1, <3>4 DEF RenameTmp, IdInv
      <4>2. files'[id] = save[r].doc /\ kept'[id] = {save[r].doc}
            /\ (replaced' = replaced \/ id \in unread)
        BY <1>2, <3>4, <4>1 DEF RenameTmp, FlowsInv, FlowTypes
      <4>3. id \notin replaced \ unread
        BY <3>1 DEF IdInv
      <4>4. files'[i] \in kept'[i] /\ Whole(files'[i]) /\ i \notin replaced' \ unread'
        BY <1>1, <1>3, <2>2, <4>2, <4>3
      <4> QED
        BY <3>2, <4>4, Zenon DEF IdInv
    <3> QED
      BY <1>4, <3>3, <3>4
  <2> QED
    BY <2>1, <2>2
<1> QED
  BY <1>5, <1>6 DEF FlowsInv

LEMMA FlowDeleted ==
  ASSUME FlowsInv, NEW id \in Ids, DeleteFlow(id)
  PROVE  FlowsInv'
<1>1. /\ files' = [files EXCEPT ![id] = NoFlow] /\ kept' = [kept EXCEPT ![id] = {NoFlow}]
      /\ UNCHANGED <<tmpOf, save, mixed, replaced, unread>>
  BY DEF DeleteFlow
<1>2. FlowTypes'
  BY <1>1 DEF FlowsInv, FlowTypes, FlowFile
<1>3. ASSUME NEW i \in Ids \ mixed' PROVE IdInv(i)'
  BY <1>1 DEF FlowsInv, FlowTypes, IdInv, Writing, Whole
<1> QED
  BY <1>2, <1>3 DEF FlowsInv

LEMMA FlowsSurviveCrash ==
  ASSUME FlowsInv, FlowsCrash
  PROVE  FlowsInv'
<1>1. /\ save' = [r \in SaveTasks |-> NoSave] /\ UNCHANGED <<files, tmpOf, mixed, replaced, unread>>
      /\ kept' = [id \in Ids |-> kept[id] \cup {save[r].doc : r \in Writing(id)}]
  BY DEF FlowsCrash
<1>2. \A id \in Ids : \A r \in Writing(id) : save[r].doc \in FlowFile
  BY WholeFlow, NoSaveIsNone DEF Writing, FlowsInv, FlowTypes, Saving
<1>3. FlowTypes'
  BY <1>1, <1>2 DEF FlowsInv, FlowTypes
<1>4. \A id \in Ids : Writing(id)' = {}
  BY <1>1, NoSaveIsNone DEF Writing
<1>5. ASSUME NEW i \in Ids \ mixed' PROVE IdInv(i)'
  BY <1>1, <1>4 DEF FlowsInv, IdInv
<1> QED
  BY <1>3, <1>5 DEF FlowsInv

LEMMA FlowsInductive == FlowFilesSpec => []FlowsInv
<1>1. FlowsInv /\ [FlowFilesNext]_flowFileVars => FlowsInv'
  <2> SUFFICES ASSUME FlowsInv, [FlowFilesNext]_flowFileVars PROVE FlowsInv'
    OBVIOUS
  <2>1. CASE UNCHANGED flowFileVars
    BY <2>1 DEF flowFileVars, FlowsInv, FlowTypes, IdInv, Writing
  <2>2. ASSUME NEW r \in SaveTasks, CreateFlow(r) \/ PutFlow(r) PROVE FlowsInv'
    <3>1. CASE PutFlow(r)
      BY <3>1, SaveStarts DEF PutFlow
    <3>2. CASE CreateFlow(r)
      <4>0. PICK d \in Docs, bad \in {{}} \cup {{i} : i \in Ids} :
              \E id \in NewId(d, bad) : Save(r, d, id, TRUE) /\ unread' = unread \cup (bad \cap {id})
        BY <3>2 DEF CreateFlow
      <4>1. PICK id \in NewId(d, bad) : Save(r, d, id, TRUE) /\ unread' = unread \cup (bad \cap {id})
        BY <4>0
      <4>2. id \in Ids /\ Get(id, bad) = NoFlow
        BY <4>1, NewIdIsFree
      <4>3. Get(id, {}) = NoFlow \/ id \in unread'
        BY <4>1, <4>2 DEF Get
      <4>. QED
        BY <4>1, <4>2, <4>3, SaveStarts
    <3>. QED
      BY <2>2, <3>1, <3>2
  <2>3. ASSUME NEW r \in SaveTasks, OpenTmp(r) \/ WriteTmp(r) PROVE FlowsInv'
    <3>1. CASE OpenTmp(r)
      BY <3>1, SaveGoesOn
    <3>2. CASE WriteTmp(r)
      BY <3>2, SaveGoesOn
    <3> QED
      BY <2>3, <3>1, <3>2
  <2>4. ASSUME NEW r \in SaveTasks, RenameTmp(r) \/ SaveFails(r) PROVE FlowsInv'
    BY <2>4, SaveEnds
  <2> QED
    BY <2>1, <2>2, <2>3, <2>4, FlowDeleted, FlowsSurviveCrash DEF FlowFilesNext
<1> QED
  BY FlowsStart, <1>1, PTL DEF FlowFilesSpec

\* A saved flow is never lost, cut short or replaced by a new one, wherever its request fails or
\* the process is killed, unless two requests wrote one id at once, or its file could not be read
\* when a new flow's id was chosen (Flows::put, new_id).
THEOREM FlowsAreKept == FlowFilesSpec => []FlowsKept
<1>1. FlowsInv => FlowsKept
  BY DEF FlowsInv, IdInv, FlowsKept, Get, Whole
<1> QED
  BY FlowsInductive, <1>1, PTL

-----------------------------------------------------------------------------
(* Assistant: for any providers, keys and endpoints, any number of         *)
(* conversations and changes, failed writes and kills.                     *)

Texts == {Empty} \cup {b.model : b \in Bodies} \cup {b.url : b \in Bodies} \cup {b.key : b \in Bodies}
Texted == [Providers -> Texts]
Settings == [provider : Providers, models : Texted, urls : Texted, keys : Texted, mcp : {"off", "read", "control"}]

AssistantTypes ==
  /\ current \in Settings /\ disk \in Settings
  /\ update \in [step : {"none", "write", "written"}, next : Settings]
  /\ chat \in [Chats -> [step : {"none", "ask", "sent"}, settings : Settings, attempts : Nat]]
  /\ sent \in [Chats -> [provider : Providers \cup {None}, url : Texts, key : Texts]]
  /\ strayed \in BOOLEAN

\* Settings keep every key under the provider it was typed for, and every endpoint unless one strayed.
OwnKeys(s) == \A p \in Providers : s.keys[p] # Empty => For[s.keys[p]] = p
OwnUrls(s) == \A p \in Providers : s.urls[p] # Empty => For[s.urls[p]] = p
Own(s) == OwnKeys(s) /\ (~strayed => OwnUrls(s))

AllOwn == Own(current) /\ Own(disk) /\ Own(update.next) /\ \A c \in Chats : Own(chat[c].settings)
AssistantInv == AssistantTypes /\ AllOwn /\ RequestsMatch

LEMMA DefaultIsOwn == Default \in Settings /\ OwnKeys(Default) /\ OwnUrls(Default)
BY AssistantAssumption DEF Default, Settings, Texted, Texts, OwnKeys, OwnUrls

LEMMA EmptyOnes ==
  /\ NoUpdate \in [step : {"none", "write", "written"}, next : Settings] /\ NoUpdate.next = Default
  /\ NoChat \in [step : {"none", "ask", "sent"}, settings : Settings, attempts : Nat]
  /\ NoChat.settings = Default
  /\ NothingSent \in [provider : Providers \cup {None}, url : Texts, key : Texts]
  /\ NothingSent.key = Empty /\ NothingSent.url = Empty
BY DefaultIsOwn DEF NoUpdate, NoChat, NothingSent, Texts

LEMMA AssistantStart == AssistantInit => AssistantInv
<1> SUFFICES ASSUME AssistantInit PROVE AssistantInv
  OBVIOUS
<1>1. AssistantTypes
  BY DefaultIsOwn, EmptyOnes DEF AssistantInit, AssistantTypes
<1>2. AllOwn
  BY DefaultIsOwn, EmptyOnes DEF AssistantInit, AllOwn, Own
<1>3. RequestsMatch
  BY EmptyOnes DEF AssistantInit, RequestsMatch
<1> QED
  BY <1>1, <1>2, <1>3 DEF AssistantInv

\* What a PUT makes of the settings: the key and the endpoint go to the provider it names.
LEMMA BodyIsOwn ==
  ASSUME NEW s \in Settings, NEW b \in Bodies, OwnKeys(s)
  PROVE  /\ WithBody(s, b) \in Settings /\ OwnKeys(WithBody(s, b))
         /\ OwnUrls(s) /\ (b.url \notin {None, Empty} => For[b.url] = WithBody(s, b).provider)
              => OwnUrls(WithBody(s, b))
<1> DEFINE p == IF b.provider = None THEN s.provider ELSE b.provider
           t == WithBody(s, b)
<1>1. p \in Providers /\ b.model \in Texts /\ b.url \in Texts /\ b.key \in Texts
  BY AssistantAssumption DEF Settings, Texts
<1>2. /\ t.provider = p /\ t.mcp = s.mcp
      /\ t.models = IF b.model = None THEN s.models ELSE [s.models EXCEPT ![p] = b.model]
      /\ t.urls = IF b.url = None THEN s.urls ELSE [s.urls EXCEPT ![p] = b.url]
      /\ t.keys = IF b.key = None THEN s.keys ELSE [s.keys EXCEPT ![p] = b.key]
      /\ t = [provider |-> t.provider, models |-> t.models, urls |-> t.urls, keys |-> t.keys, mcp |-> t.mcp]
  BY DEF WithBody
<1> HIDE DEF t, p
<1>3. t \in Settings
  <2>1. s.models \in Texted /\ s.urls \in Texted /\ s.keys \in Texted /\ s.mcp \in {"off", "read", "control"}
    BY DEF Settings
  <2>2. t.models \in Texted /\ t.urls \in Texted /\ t.keys \in Texted
    BY <1>1, <1>2, <2>1 DEF Texted
  <2> QED
    BY <1>1, <1>2, <2>1, <2>2 DEF Settings
<1>4. OwnKeys(t)
  <2>1. b.key \notin {None, Empty} => For[b.key] = p
    BY AssistantAssumption DEF p
  <2> QED
    BY <1>1, <1>2, <2>1 DEF OwnKeys, Settings, Texted
<1>5. OwnUrls(s) /\ (b.url \notin {None, Empty} => For[b.url] = p) => OwnUrls(t)
  BY <1>1, <1>2 DEF OwnUrls, Settings, Texted
<1> QED
  BY <1>2, <1>3, <1>4, <1>5 DEF t

LEMMA SettingsBegin ==
  ASSUME AssistantInv, NEW s \in Settings, Begin(s), OwnKeys(s),
         strayed' \in BOOLEAN, strayed => strayed', ~strayed' => OwnUrls(s)
  PROVE  AssistantInv'
<1>1. update' = [step |-> "write", next |-> s] /\ UNCHANGED <<current, disk, chat, sent>>
  BY DEF Begin
<1> QED
  BY <1>1 DEF AssistantInv, AssistantTypes, AllOwn, Own, OwnKeys, OwnUrls, RequestsMatch

LEMMA PutSteps ==
  ASSUME AssistantInv,
         (\E b \in Bodies : PutAssistant(b)) \/ (\E a \in {"off", "read", "control"} : PutMcpAccess(a))
  PROVE  AssistantInv'
<1>1. current \in Settings /\ OwnKeys(current) /\ (~strayed => OwnUrls(current)) /\ strayed \in BOOLEAN
  BY DEF AssistantInv, AssistantTypes, AllOwn, Own
<1>2. ASSUME NEW b \in Bodies, PutAssistant(b) PROVE AssistantInv'
  <2> DEFINE new == WithBody(current, b)
  <2>1. Begin(new) /\ strayed' = (strayed \/ (b.url \notin {None, Empty} /\ For[b.url] # new.provider))
    BY <1>2 DEF PutAssistant
  <2>2. new \in Settings /\ OwnKeys(new)
    BY <1>1, BodyIsOwn
  <2>3. ~strayed' => OwnUrls(new)
    BY <1>1, <2>1, BodyIsOwn
  <2>4. strayed' \in BOOLEAN /\ (strayed => strayed')
    BY <1>1, <2>1
  <2> HIDE DEF new
  <2> QED
    BY <2>1, <2>2, <2>3, <2>4, SettingsBegin
<1>3. ASSUME NEW a \in {"off", "read", "control"}, PutMcpAccess(a) PROVE AssistantInv'
  <2> DEFINE new == [current EXCEPT !.mcp = a]
  <2>1. new \in Settings /\ new.keys = current.keys /\ new.urls = current.urls
    BY <1>1 DEF Settings
  <2>2. Begin(new) /\ UNCHANGED strayed
    BY <1>3 DEF PutMcpAccess
  <2> HIDE DEF new
  <2>3. OwnKeys(new) /\ (~strayed' => OwnUrls(new))
    BY <1>1, <2>1, <2>2 DEF OwnKeys, OwnUrls
  <2> QED
    BY <1>1, <2>1, <2>2, <2>3, SettingsBegin
<1> QED
  BY <1>2, <1>3

LEMMA DiskSteps ==
  ASSUME AssistantInv, WritePrivate \/ WriteFails \/ Updated \/ SettingsCrash
  PROVE  AssistantInv'
<1>1. CASE WritePrivate
  BY <1>1 DEF WritePrivate, AssistantInv, AssistantTypes, AllOwn, Own, RequestsMatch
<1>2. CASE WriteFails
  BY <1>2, DefaultIsOwn, EmptyOnes DEF WriteFails, AssistantInv, AssistantTypes, AllOwn, Own, RequestsMatch
<1>3. CASE Updated
  BY <1>3, DefaultIsOwn, EmptyOnes DEF Updated, AssistantInv, AssistantTypes, AllOwn, Own, RequestsMatch
<1>4. CASE SettingsCrash
  BY <1>4, DefaultIsOwn, EmptyOnes DEF SettingsCrash, AssistantInv, AssistantTypes, AllOwn, Own, RequestsMatch
<1> QED
  BY <1>1, <1>2, <1>3, <1>4

LEMMA ChatSteps ==
  ASSUME AssistantInv, NEW c \in Chats,
         AssistFlow(c) \/ Complete(c) \/ NotSubmitted(c) \/ \E wrong \in BOOLEAN : Submitted(c, wrong)
  PROVE  AssistantInv'
<1>1. UNCHANGED <<current, disk, update, strayed>>
  BY DEF AssistFlow, Complete, NotSubmitted, Submitted
<1>2. ASSUME NEW q \in [step : {"none", "ask", "sent"}, settings : Settings, attempts : Nat], Own(q.settings),
             chat' = [chat EXCEPT ![c] = q],
             NEW r \in [provider : Providers \cup {None}, url : Texts, key : Texts],
             sent' = [sent EXCEPT ![c] = r],
             r.key # Empty => For[r.key] = r.provider, r.url # Empty /\ ~strayed => For[r.url] = r.provider
      PROVE  AssistantInv'
  <2>1. \A d \in Chats : chat'[d] = IF d = c THEN q ELSE chat[d]
    BY <1>2 DEF AssistantInv, AssistantTypes
  <2>2. \A d \in Chats : sent'[d] = IF d = c THEN r ELSE sent[d]
    BY <1>2 DEF AssistantInv, AssistantTypes
  <2>3. AssistantTypes'
    BY <1>1, <1>2 DEF AssistantInv, AssistantTypes
  <2>4. AllOwn'
    BY <1>1, <1>2, <2>1 DEF AssistantInv, AllOwn, Own
  <2>5. RequestsMatch'
    BY <1>1, <1>2, <2>2 DEF AssistantInv, RequestsMatch
  <2> QED
    BY <2>3, <2>4, <2>5 DEF AssistantInv
<1>3. /\ sent = [sent EXCEPT ![c] = sent[c]]
      /\ sent[c] \in [provider : Providers \cup {None}, url : Texts, key : Texts]
      /\ sent[c].key # Empty => For[sent[c].key] = sent[c].provider
      /\ sent[c].url # Empty /\ ~strayed => For[sent[c].url] = sent[c].provider
  BY DEF AssistantInv, AssistantTypes, RequestsMatch
<1>4. /\ chat[c] \in [step : {"none", "ask", "sent"}, settings : Settings, attempts : Nat]
      /\ Own(chat[c].settings) /\ chat[c].settings \in Settings /\ chat[c].attempts \in Nat
  BY DEF AssistantInv, AssistantTypes, AllOwn
<1>5. ASSUME chat' = [chat EXCEPT ![c] = NoChat], UNCHANGED sent PROVE AssistantInv'
  BY <1>2, <1>3, <1>5, DefaultIsOwn, EmptyOnes DEF Own
<1>6. CASE AssistFlow(c)
  <2> DEFINE q == [step |-> "ask", settings |-> current, attempts |-> 0]
  <2>1. q \in [step : {"none", "ask", "sent"}, settings : Settings, attempts : Nat] /\ Own(q.settings)
    BY DEF AssistantInv, AssistantTypes, AllOwn
  <2>2. chat' = [chat EXCEPT ![c] = q] /\ sent' = [sent EXCEPT ![c] = NothingSent]
    BY <1>6 DEF AssistFlow
  <2> HIDE DEF q
  <2> QED
    BY <1>2, <2>1, <2>2, EmptyOnes
<1>7. CASE Complete(c)
  <2> DEFINE s == chat[c].settings
             q == [step |-> "sent", settings |-> s, attempts |-> chat[c].attempts + 1]
             r == [provider |-> s.provider, url |-> s.urls[s.provider], key |-> s.keys[s.provider]]
  <2>1. CASE chat' = [chat EXCEPT ![c] = NoChat] /\ UNCHANGED sent
    BY <1>5, <2>1
  <2>2. CASE chat' = [chat EXCEPT ![c] = q] /\ sent' = [sent EXCEPT ![c] = r]
    <3>1. q \in [step : {"none", "ask", "sent"}, settings : Settings, attempts : Nat] /\ Own(q.settings)
      BY <1>4
    <3>2. s.provider \in Providers /\ s.urls[s.provider] \in Texts /\ s.keys[s.provider] \in Texts
      BY <1>4 DEF Settings, Texted
    <3>3. /\ r \in [provider : Providers \cup {None}, url : Texts, key : Texts]
          /\ r.key # Empty => For[r.key] = r.provider
          /\ r.url # Empty /\ ~strayed => For[r.url] = r.provider
      BY <1>4, <3>2 DEF Own, OwnKeys, OwnUrls
    <3> HIDE DEF q, r
    <3> QED
      BY <1>2, <2>2, <3>1, <3>3
  <2> QED
    BY <1>7, <2>1, <2>2 DEF Complete, Ends
<1>8. CASE NotSubmitted(c)
  BY <1>5, <1>8 DEF NotSubmitted, Ends
<1>9. ASSUME NEW wrong \in BOOLEAN, Submitted(c, wrong) PROVE AssistantInv'
  <2> DEFINE q == [chat[c] EXCEPT !.step = "ask"]
  <2>1. CASE chat' = [chat EXCEPT ![c] = NoChat]
    BY <1>5, <1>9, <2>1 DEF Submitted
  <2>2. CASE chat' = [chat EXCEPT ![c].step = "ask"]
    <3>1. q \in [step : {"none", "ask", "sent"}, settings : Settings, attempts : Nat]
          /\ q.settings = chat[c].settings
      BY <1>4
    <3>2. chat' = [chat EXCEPT ![c] = q] /\ sent' = sent
      BY <1>9, <2>2 DEF Submitted
    <3> HIDE DEF q
    <3> QED
      BY <1>2, <1>3, <1>4, <3>1, <3>2
  <2> QED
    BY <1>9, <2>1, <2>2 DEF Submitted, Ends
<1> QED
  BY <1>6, <1>7, <1>8, <1>9

\* What a request to a provider carries was typed for that provider, through every switch, failed
\* write and restart (put_assistant, SettingsFile::update, assist.rs complete).
THEOREM RequestsAreOwn == AssistantSpec => []RequestsMatch
<1>1. AssistantInv /\ [AssistantNext]_assistantVars => AssistantInv'
  <2> SUFFICES ASSUME AssistantInv, [AssistantNext]_assistantVars PROVE AssistantInv'
    OBVIOUS
  <2>1. CASE UNCHANGED assistantVars
    BY <2>1 DEF assistantVars, AssistantInv, AssistantTypes, AllOwn, Own, RequestsMatch
  <2>2. CASE AssistantNext
    BY <2>2, PutSteps, DiskSteps, ChatSteps DEF AssistantNext
  <2> QED
    BY <2>1, <2>2
<1>2. AssistantInv => RequestsMatch
  BY DEF AssistantInv
<1> QED
  BY AssistantStart, <1>1, <1>2, PTL DEF AssistantSpec

-----------------------------------------------------------------------------
(* Mcp: for any clients and batches, and any number of runs. *)

\* A call that waits for its run, unless another run replaced it, waits for the runner's; a run
\* that finished is counted as one.
WaitsForOwn == \A c \in Clients \ overtaken : request[c].step = "waiting" => request[c].id = run.id
FinishedCounts == run.state = "finished" => run.id \in ended
Call(calls, step, id) == [calls |-> calls, step |-> step, id |-> id]
McpShapes ==
  /\ run = [id |-> run.id, state |-> run.state]
  /\ request = [c \in Clients |-> Call(request[c].calls, request[c].step, request[c].id)]
  /\ DOMAIN reply = Clients /\ reply = [c \in Clients |-> reply[c]]
McpInv == McpShapes /\ WaitsForOwn /\ FinishedCounts

Becomes(c, calls, step, id) == request' = [request EXCEPT ![c] = Call(calls, step, id)]

LEMMA McpStart == McpInit => McpInv
BY DEF McpInit, McpInv, McpShapes, WaitsForOwn, FinishedCounts, NoRequest, Call

LEMMA CallChanges ==
  ASSUME McpShapes, NEW c \in Clients, NEW calls, NEW step, NEW id,
         Becomes(c, calls, step, id)
  PROVE  /\ request' = [d \in Clients |-> Call(request'[d].calls, request'[d].step, request'[d].id)]
         /\ request'[c].step = step /\ request'[c].id = id
         /\ \A d \in Clients \ {c} : request'[d] = request[d]
<1>1. \A d \in Clients : request'[d] = IF d = c THEN Call(calls, step, id) ELSE request[d]
  BY DEF McpShapes, Becomes
<1>2. Call(calls, step, id).calls = calls /\ Call(calls, step, id).step = step /\ Call(calls, step, id).id = id
  BY DEF Call
<1>3. \A d \in Clients : request'[d] = Call(request'[d].calls, request'[d].step, request'[d].id)
  <2>1. \A d \in Clients : request[d] = Call(request[d].calls, request[d].step, request[d].id)
    BY DEF McpShapes
  <2> QED
    BY <1>1, <1>2, <2>1
<1>4. request' = [d \in Clients |-> request'[d]]
  BY DEF McpShapes, Becomes
<1> QED
  BY <1>1, <1>2, <1>3, <1>4

\* What an answered call leaves: the next one of its batch, or nothing.
LEMMA AfterAnswer ==
  ASSUME McpShapes, NEW c \in Clients, NEW r, CallAnswered(c, r)
  PROVE  /\ request' = [d \in Clients |-> Call(request'[d].calls, request'[d].step, request'[d].id)]
         /\ DOMAIN reply' = Clients /\ reply' = [d \in Clients |-> reply'[d]]
         /\ request'[c].step # "waiting" /\ reply'[c] = r
         /\ \A d \in Clients \ {c} : request'[d] = request[d]
<1> DEFINE q == request[c]
           left == IF Len(q.calls) = 1 THEN NoRequest ELSE Call(Tail(q.calls), "next", 0)
<1>1. reply' = [reply EXCEPT ![c] = r] /\ request' = [request EXCEPT ![c] = left]
  BY DEF CallAnswered, Call
<1>2. \E calls, step, id : left = Call(calls, step, id) /\ step # "waiting"
  <2>1. NoRequest = Call(<<>>, "none", 0)
    BY DEF NoRequest, Call
  <2> QED
    BY <2>1
<1>3. DOMAIN reply' = Clients /\ reply' = [d \in Clients |-> reply'[d]] /\ reply'[c] = r
  BY <1>1 DEF McpShapes
<1> HIDE DEF left
<1>4. PICK calls, step, id : left = Call(calls, step, id) /\ step # "waiting"
  BY <1>2
<1>5. Becomes(c, calls, step, id)
  BY <1>1, <1>4 DEF Becomes
<1> QED
  BY <1>3, <1>4, <1>5, CallChanges

\* A call that is answered, where no other run took the place of the one that others wait for.
LEMMA CallSteps ==
  ASSUME McpInv, NEW c \in Clients, NEW r, CallAnswered(c, r), overtaken \ {c} \subseteq overtaken',
         UNCHANGED ended, run'.id = run.id, run' = [id |-> run'.id, state |-> run'.state],
         run'.state # "finished" \/ run' = run
  PROVE  McpInv'
BY AfterAnswer DEF McpInv, McpShapes, WaitsForOwn, FinishedCounts

\* A run that starts replaces the one the calls were waiting for.
LEMMA RunStarts ==
  ASSUME McpInv, StartedRun
  PROVE  /\ run' = [id |-> run.id + 1, state |-> "running"]
         /\ overtaken \subseteq overtaken'
         /\ \A c \in Clients \ overtaken' : request[c].step # "waiting"
BY DEF McpInv, WaitsForOwn, StartedRun

LEMMA PageSteps ==
  ASSUME McpInv, (\E a \in {"off", "read", "control"} : PutMcp(a)) \/ PageStarts \/ PageContinues \/ RunGoesOn
  PROVE  McpInv'
<1>1. CASE \E a \in {"off", "read", "control"} : PutMcp(a)
  BY <1>1 DEF PutMcp, mcpBench, McpInv, McpShapes, WaitsForOwn, FinishedCounts
<1>2. CASE PageStarts
  <2>1. StartedRun /\ UNCHANGED <<request, reply>>
    BY <1>2 DEF PageStarts
  <2> QED
    BY <2>1, RunStarts DEF McpInv, McpShapes, WaitsForOwn, FinishedCounts
<1>3. CASE PageContinues
  BY <1>3 DEF PageContinues, McpInv, McpShapes, WaitsForOwn, FinishedCounts
<1>4. CASE RunGoesOn
  <2>1. PICK new : /\ run' = [run EXCEPT !.state = new]
                    /\ ended' = IF new = "finished" THEN ended \cup {run.id} ELSE ended
    BY <1>4 DEF RunGoesOn
  <2>2. run' = [id |-> run.id, state |-> new]
    BY <2>1 DEF McpInv, McpShapes
  <2> QED
    BY <1>4, <2>1, <2>2 DEF RunGoesOn, McpInv, McpShapes, WaitsForOwn, FinishedCounts
<1> QED
  BY <1>1, <1>2, <1>3, <1>4

LEMMA ClientSteps ==
  ASSUME McpInv, NEW c \in Clients,
         \/ \E calls \in Batches : Post(c, calls)
         \/ Check(c) \/ Read(c) \/ AbortRun(c) \/ ContinueRun(c) \/ SetInstrument(c) \/ WaitRun(c)
         \/ RunFlow(c) \/ SaveFlow(c) \/ StartRecording(c) \/ StopRecording(c)
  PROVE  McpInv'
<1>1. CASE \E calls \in Batches : Post(c, calls)
  <2>1. PICK calls \in Batches : Post(c, calls)
    BY <1>1
  <2>4. Becomes(c, calls, "next", 0)
    BY <2>1 DEF Post, Becomes, Call
  <2>2. UNCHANGED <<run, ended, overtaken, reply>>
    BY <1>1 DEF Post, mcpBench
  <2> QED
    BY <2>2, <2>4, CallChanges DEF McpInv, McpShapes, WaitsForOwn, FinishedCounts
<1>2. ASSUME NEW r, CallAnswered(c, r), UNCHANGED <<run, ended, overtaken>> PROVE McpInv'
  BY <1>2, CallSteps DEF McpInv, McpShapes
<1>3. CASE Check(c)
  <2>1. CASE \E r \in {"refused"} : CallAnswered(c, r)
    BY <1>2, <1>3, <2>1 DEF Check, mcpBench
  <2>2. CASE request' = [request EXCEPT ![c].step = "call"] /\ UNCHANGED reply
    <3>1. request[c] = Call(request[c].calls, request[c].step, request[c].id)
      BY DEF McpInv, McpShapes
    <3>4. ASSUME NEW p, p = [request[c] EXCEPT !.step = "call"]
          PROVE  p = Call(request[c].calls, "call", request[c].id)
      <4>1. request[c] \in [calls : {request[c].calls}, step : {request[c].step, "call"}, id : {request[c].id}]
        BY <3>1 DEF Call
      <4>2. /\ p \in [calls : {request[c].calls}, step : {request[c].step, "call"}, id : {request[c].id}]
            /\ p.step = "call"
        BY <3>4, <4>1
      <4> QED
        BY <4>2 DEF Call
    <3>2. Becomes(c, request[c].calls, "call", request[c].id)
      BY <2>2, <3>4 DEF Becomes
    <3>3. UNCHANGED <<run, ended, overtaken, reply>>
      BY <1>3, <2>2 DEF Check, mcpBench
    <3> QED
      BY <3>2, <3>3, CallChanges DEF McpInv, McpShapes, WaitsForOwn, FinishedCounts
  <2> QED
    BY <1>3, <2>1, <2>2 DEF Check
<1>4. CASE Read(c) \/ AbortRun(c) \/ SaveFlow(c) \/ StartRecording(c) \/ StopRecording(c)
  BY <1>2, <1>4 DEF Read, AbortRun, SaveFlow, StartRecording, StopRecording, mcpBench
<1>5. CASE ContinueRun(c)
  <2>1. run' = run \/ run' = [id |-> run.id, state |-> "running"]
    BY <1>5 DEF ContinueRun, McpInv, McpShapes
  <2> QED
    BY <1>5, <2>1, CallSteps DEF ContinueRun, McpInv, McpShapes
<1>6. ASSUME StartedRun, UNCHANGED ended, NEW r, CallAnswered(c, r) PROVE McpInv'
  BY <1>6, RunStarts, AfterAnswer DEF McpInv, McpShapes, WaitsForOwn, FinishedCounts
<1>7. CASE SetInstrument(c)
  <2>1. CASE \E r \in {"error"} : CallAnswered(c, r) /\ UNCHANGED <<run, overtaken>>
    BY <1>2, <1>7, <2>1 DEF SetInstrument
  <2>2. CASE /\ StartedRun /\ UNCHANGED reply
             /\ request' = [request EXCEPT ![c] = [calls |-> @.calls, step |-> "waiting", id |-> run.id + 1]]
    <3>1. request[c] = Call(request[c].calls, request[c].step, request[c].id)
      BY DEF McpInv, McpShapes
    <3>2. Becomes(c, request[c].calls, "waiting", run.id + 1)
      BY <2>2 DEF Becomes, Call
    <3>3. /\ request' = [d \in Clients |-> Call(request'[d].calls, request'[d].step, request'[d].id)]
          /\ request'[c].id = run.id + 1 /\ \A d \in Clients \ {c} : request'[d] = request[d]
      BY <3>2, CallChanges DEF McpInv
    <3>4. /\ run' = [id |-> run.id + 1, state |-> "running"]
          /\ \A d \in Clients \ overtaken' : request[d].step # "waiting"
      BY <2>2, RunStarts
    <3>5. WaitsForOwn'
      BY <3>3, <3>4 DEF WaitsForOwn
    <3>6. FinishedCounts'
      BY <3>4 DEF FinishedCounts
    <3>7. McpShapes'
      <4>1. run' = [id |-> run'.id, state |-> run'.state]
        BY <3>4
      <4>2. DOMAIN reply' = Clients /\ reply' = [d \in Clients |-> reply'[d]]
        BY <2>2 DEF McpInv, McpShapes
      <4> QED
        BY <3>3, <4>1, <4>2 DEF McpShapes
    <3> QED
      BY <3>5, <3>6, <3>7 DEF McpInv
  <2> QED
    BY <1>7, <2>1, <2>2 DEF SetInstrument
<1>8. CASE WaitRun(c)
  BY <1>8, CallSteps DEF WaitRun, mcpBench, McpInv, McpShapes
<1>9. CASE RunFlow(c)
  BY <1>2, <1>6, <1>9 DEF RunFlow
<1> QED
  BY <1>1, <1>3, <1>4, <1>5, <1>7, <1>8, <1>9

LEMMA McpInductive == McpSpec => []McpInv
<1>1. McpInv /\ [McpNext]_mcpVars => McpInv'
  <2> SUFFICES ASSUME McpInv, [McpNext]_mcpVars PROVE McpInv'
    OBVIOUS
  <2>1. CASE UNCHANGED mcpVars
    BY <2>1 DEF mcpVars, McpInv, McpShapes, WaitsForOwn, FinishedCounts
  <2>2. CASE McpNext
    BY <2>2, PageSteps, ClientSteps DEF McpNext
  <2> QED
    BY <2>1, <2>2
<1> QED
  BY McpStart, <1>1, PTL DEF McpSpec

\* Only wait_run ends a call that waits, and it confirms only a run that finished.
LEMMA ConfirmsOwn ==
  ASSUME McpInv, [McpNext]_mcpVars, NEW c \in Clients \ overtaken, Confirms(c)
  PROVE  Done(c)
<1>1. request[c].step = "waiting" /\ request'[c] # request[c] /\ reply'[c] = "confirmed"
  BY DEF Confirms
<1>2. ASSUME UNCHANGED request PROVE FALSE
  BY <1>1, <1>2
<1>3. PICK d \in Clients :
         \/ \E calls \in Batches : Post(d, calls)
         \/ Check(d) \/ Read(d) \/ AbortRun(d) \/ ContinueRun(d) \/ SetInstrument(d) \/ WaitRun(d)
         \/ RunFlow(d) \/ SaveFlow(d) \/ StartRecording(d) \/ StopRecording(d)
  BY <1>2 DEF McpNext, mcpVars, PutMcp, PageStarts, PageContinues, RunGoesOn
<1>4. d = c
  <2>1. ASSUME d # c, NEW r, CallAnswered(d, r) PROVE FALSE
    BY <1>1, <2>1, AfterAnswer DEF McpInv
  <2>2. ASSUME d # c, NEW q, request' = [request EXCEPT ![d] = q] PROVE FALSE
    BY <1>1, <2>2 DEF McpInv, McpShapes
  <2>3. CASE (\E calls \in Batches : Post(d, calls)) \/ Check(d) \/ SetInstrument(d)
    BY <2>1, <2>2, <2>3 DEF Post, Check, SetInstrument
  <2>4. CASE Read(d) \/ AbortRun(d) \/ ContinueRun(d) \/ WaitRun(d) \/ RunFlow(d)
    BY <2>1, <2>4 DEF Read, AbortRun, ContinueRun, WaitRun, RunFlow
  <2>5. CASE SaveFlow(d) \/ StartRecording(d) \/ StopRecording(d)
    BY <2>1, <2>5 DEF SaveFlow, StartRecording, StopRecording
  <2> QED
    BY <1>3, <2>3, <2>4, <2>5
<1>5. WaitRun(c)
  <2>1. ASSUME \E calls \in Batches : Post(c, calls) PROVE FALSE
    BY <1>1, <2>1 DEF Post, NoRequest
  <2>2. ASSUME Check(c) \/ Read(c) \/ AbortRun(c) \/ ContinueRun(c) \/ SetInstrument(c) PROVE FALSE
    BY <1>1, <2>2 DEF Check, Read, AbortRun, ContinueRun, SetInstrument, Calling
  <2>3. ASSUME RunFlow(c) \/ SaveFlow(c) \/ StartRecording(c) \/ StopRecording(c) PROVE FALSE
    BY <1>1, <2>3 DEF RunFlow, SaveFlow, StartRecording, StopRecording, Calling
  <2> QED
    BY <1>3, <1>4, <2>1, <2>2, <2>3
<1>6. run.state = "finished"
  BY <1>1, <1>5, AfterAnswer DEF WaitRun, McpInv
<1> QED
  BY <1>1, <1>6 DEF McpInv, WaitsForOwn, FinishedCounts, Done

\* set_instrument tells its caller that the instrument confirmed only if its own run finished,
\* unless another run replaced that one while the call waited (mcp.rs wait_run, Runner::start).
THEOREM ConfirmedIsDone == McpSpec => ConfirmedMeansDone
<1>1. McpInv /\ [McpNext]_mcpVars => [\A c \in Clients \ overtaken : Confirms(c) => Done(c)]_mcpVars
  BY ConfirmsOwn
<1> QED
  BY McpInductive, <1>1, PTL DEF McpSpec, ConfirmedMeansDone

-----------------------------------------------------------------------------
(* SeriesRange: for any rows in the order of their time, and any number of *)
(* points.                                                                 *)

Row == [t : Int, v : Int]
InOrder(r) == r \in Seq(Row) /\ \A i, j \in 1..Len(r) : i < j => r[i].t < r[j].t
Length(r) == r[Len(r)].t - r[1].t + 1

\* BucketOf, of k buckets of the rows r.
Slot(r, k, x) == ((x.t - r[1].t) * k) \div Length(r)

LEMMA Quotient ==
  ASSUME NEW a \in Nat, NEW s \in Nat \ {0}
  PROVE  a \div s \in Nat /\ (a \div s) * s <= a /\ a < (a \div s) * s + s
OBVIOUS

LEMMA Products ==
  ASSUME NEW d \in Int, NEW e \in Int, NEW k \in Nat \ {0}
  PROVE  /\ (d - e) * k = d * k - e * k /\ (d + 1) * k = d * k + k
         /\ d <= e => d * k <= e * k
         /\ d * k < e * k => d < e
         /\ d * k \in Int
OBVIOUS

LEMMA Offsets ==
  ASSUME NEW r, InOrder(r), NEW i \in 1..Len(r)
  PROVE  /\ Length(r) \in Nat \ {0} /\ r[i] \in Row /\ r[i].t \in Int /\ r[i].v \in Int /\ r[1].t \in Int
         /\ r[i].t - r[1].t \in Nat /\ r[i].t - r[1].t < Length(r)
<1>1. r \in Seq(Row) /\ \A x \in Row : x.t \in Int /\ x.v \in Int
  BY DEF InOrder, Row
<1>2. /\ Len(r) \in Nat /\ 1 \in 1..Len(r) /\ Len(r) \in 1..Len(r)
      /\ \A j \in 1..Len(r) : r[j] \in Row /\ r[j].t \in Int /\ r[j].v \in Int
  BY <1>1
<1>3. i = 1 \/ r[1].t < r[i].t
  BY <1>2 DEF InOrder
<1>4. i = Len(r) \/ r[i].t < r[Len(r)].t
  BY <1>2 DEF InOrder
<1>5. PICK a \in Int, b \in Int, z \in Int : a = r[1].t /\ b = r[i].t /\ z = r[Len(r)].t
  BY <1>2
<1>6. a <= b /\ b <= z
  BY <1>3, <1>4, <1>5
<1>7. Length(r) = z - a + 1
  BY <1>5 DEF Length
<1>8. z - a + 1 \in Nat \ {0} /\ b - a \in Nat /\ b - a < z - a + 1
  BY <1>6
<1> QED
  BY <1>2, <1>5, <1>7, <1>8

\* The slot of a row, and what it says of the row's time.
LEMMA SlotOfRow ==
  ASSUME NEW r, InOrder(r), NEW i \in 1..Len(r), NEW k \in Nat \ {0}
  PROVE  LET s == Slot(r, k, r[i])
             d == r[i].t - r[1].t
         IN  /\ s \in 0..k - 1
             /\ s * Length(r) <= d * k /\ d * k < s * Length(r) + Length(r)
<1> DEFINE s == Slot(r, k, r[i])
           d == r[i].t - r[1].t
           n == Length(r)
<1>1. n \in Nat \ {0} /\ d \in Nat /\ d < n
  BY Offsets
<1>2. s = (d * k) \div n
  BY DEF Slot
<1> HIDE DEF s, d, n
<1>3. d * k \in Nat
  BY <1>1
<1>4. s \in Nat /\ s * n <= d * k /\ d * k < s * n + n
  BY <1>1, <1>2, <1>3, Quotient
<1>5. d * k < k * n
  <2>1. (d + 1) * k <= n * k
    BY <1>1, Products
  <2>2. (d + 1) * k = d * k + k /\ n * k = k * n
    BY <1>1, Products
  <2> QED
    BY <1>1, <1>3, <2>1, <2>2
<1>6. s * n < k * n
  <2>1. s * n \in Int /\ k * n \in Int
    BY <1>1, <1>4
  <2> QED
    BY <1>3, <1>4, <1>5, <2>1
<1>7. s < k
  BY <1>1, <1>4, <1>6, Products
<1>8. s \in 0..k - 1
  BY <1>4, <1>7
<1> QED
  BY <1>4, <1>8 DEF s, d, n

LEMMA SlotsRise ==
  ASSUME NEW r, InOrder(r), NEW i \in 1..Len(r), NEW j \in 1..Len(r), NEW k \in Nat \ {0},
         r[i].t <= r[j].t
  PROVE  Slot(r, k, r[i]) <= Slot(r, k, r[j])
<1> DEFINE s == Slot(r, k, r[i])
           q == Slot(r, k, r[j])
           n == Length(r)
           d == r[i].t - r[1].t
           e == r[j].t - r[1].t
<1>1. n \in Nat \ {0} /\ d \in Int /\ e \in Int /\ d <= e
  <2>1. r[i].t \in Int /\ r[j].t \in Int /\ r[1].t \in Int /\ n \in Nat \ {0}
    BY Offsets
  <2> QED
    BY <2>1
<1>2. s \in Nat /\ s * n <= d * k /\ q \in Nat /\ e * k < q * n + n
  BY SlotOfRow
<1> HIDE DEF s, q, n, d, e
<1>3. d * k <= e * k /\ d * k \in Int /\ e * k \in Int
  BY <1>1, Products
<1>4. s * n \in Int /\ q * n \in Int /\ (q + 1) * n = q * n + n
  BY <1>1, <1>2, Products
<1>5. s * n < (q + 1) * n
  BY <1>1, <1>2, <1>3, <1>4
<1>6. s < q + 1
  BY <1>1, <1>2, <1>5, Products
<1>7. s <= q
  BY <1>2, <1>6
<1> QED
  BY <1>7 DEF s, q

LEMMA SlotsTell ==
  ASSUME NEW r, InOrder(r), NEW i \in 1..Len(r), NEW j \in 1..Len(r), NEW k \in Nat \ {0},
         Slot(r, k, r[i]) < Slot(r, k, r[j])
  PROVE  r[i].t < r[j].t
<1>1. r[i].t \in Int /\ r[j].t \in Int
  BY Offsets
<1>2. Slot(r, k, r[i]) \in Nat /\ Slot(r, k, r[j]) \in Nat
  BY SlotOfRow
<1>3. ~(r[j].t <= r[i].t)
  <2>1. ~(Slot(r, k, r[j]) <= Slot(r, k, r[i]))
    BY <1>2
  <2> QED
    BY <2>1, SlotsRise
<1> QED
  BY <1>1, <1>3

\* Two rows of one slot are less than a bucket's length apart.
LEMMA SlotIsShort ==
  ASSUME NEW r, InOrder(r), NEW i \in 1..Len(r), NEW j \in 1..Len(r), NEW k \in Nat \ {0},
         Slot(r, k, r[i]) = Slot(r, k, r[j])
  PROVE  (r[i].t - r[j].t) * k \in (-Length(r))..Length(r)
<1> DEFINE s == Slot(r, k, r[i])
           n == Length(r)
           d == r[i].t - r[1].t
           e == r[j].t - r[1].t
<1>1. n \in Nat \ {0} /\ d \in Int /\ e \in Int /\ d - e = r[i].t - r[j].t
  <2>1. r[i].t \in Int /\ r[j].t \in Int /\ r[1].t \in Int /\ n \in Nat \ {0}
    BY Offsets
  <2> QED
    BY <2>1
<1>2. /\ s \in Nat /\ s * n <= d * k /\ d * k < s * n + n
      /\ s * n <= e * k /\ e * k < s * n + n
  <2>1. s \in 0..k - 1 /\ s * n <= d * k /\ d * k < s * n + n
    BY SlotOfRow
  <2>2. Slot(r, k, r[j]) * n <= e * k /\ e * k < Slot(r, k, r[j]) * n + n
    BY SlotOfRow
  <2>3. s = Slot(r, k, r[j])
    OBVIOUS
  <2> HIDE DEF s, n, d, e
  <2> QED
    BY <2>1, <2>2, <2>3
<1> HIDE DEF s, n, d, e
<1>3. d * k \in Int /\ e * k \in Int /\ s * n \in Int /\ (d - e) * k = d * k - e * k
  <2>1. d * k \in Int /\ e * k \in Int /\ (d - e) * k = d * k - e * k
    BY <1>1, Products
  <2>2. s * n \in Int
    BY <1>1, <1>2, Products
  <2> QED
    BY <2>1, <2>2
<1>4. (d - e) * k \in (-n)..n
  BY <1>1, <1>2, <1>3
<1> QED
  BY <1>1, <1>4 DEF n

\* A point of the row's slot is as low as the row, and one as high.
HasPeaks(r, k, ps, j) ==
  \E a, b \in 1..Len(ps) :
    /\ Slot(r, k, ps[a]) = Slot(r, k, r[j]) /\ ps[a].v <= r[j].v
    /\ Slot(r, k, ps[b]) = Slot(r, k, r[j]) /\ ps[b].v >= r[j].v

\* The points stand for the first n rows of the slots below m.
Covers(r, k, n, ps, m) ==
  /\ ps \in Seq(Row) /\ Len(ps) <= 2 * m
  /\ \A a \in 1..Len(ps) : \E j \in 1..n : ps[a] = r[j] /\ Slot(r, k, r[j]) < m
  /\ \A a, b \in 1..Len(ps) : a < b => ps[a].t < ps[b].t
  /\ \A j \in 1..n : Slot(r, k, r[j]) < m => HasPeaks(r, k, ps, j)

\* The bucket holds the extremes of its slot, the last one that the first n rows reach.
Holds(r, k, n, b) ==
  /\ b \in [number : 0..k - 1, lo : Row, hi : Row]
  /\ \E j \in 1..n : b.lo = r[j]
  /\ \E j \in 1..n : b.hi = r[j]
  /\ Slot(r, k, b.lo) = b.number /\ Slot(r, k, b.hi) = b.number
  /\ \A j \in 1..n :
       /\ Slot(r, k, r[j]) <= b.number
       /\ Slot(r, k, r[j]) = b.number => b.lo.v <= r[j].v /\ r[j].v <= b.hi.v

\* flush gives both extremes of the bucket, in the order of their times.
LEMMA ExtremesOfBucket ==
  ASSUME NEW r, InOrder(r), NEW k \in Nat \ {0}, NEW n \in 1..Len(r), NEW b, Holds(r, k, n, b)
  PROVE  LET es == Extremes(b)
         IN  /\ es \in Seq(Row) /\ Len(es) \in 1..2
             /\ \A c \in 1..Len(es) : es[c] = b.lo \/ es[c] = b.hi
             /\ \E c \in 1..Len(es) : es[c] = b.lo
             /\ \E c \in 1..Len(es) : es[c] = b.hi
             /\ \A c, d \in 1..Len(es) : c < d => es[c].t < es[d].t
<1>1. b.lo \in Row /\ b.hi \in Row /\ b.lo.t \in Int /\ b.hi.t \in Int
  BY DEF Holds, Row
<1>2. CASE b.lo.t = b.hi.t
  <2>1. PICK i \in 1..n, j \in 1..n : b.lo = r[i] /\ b.hi = r[j]
    BY DEF Holds
  <2>2. Len(r) \in Nat /\ r[i].t \in Int /\ r[j].t \in Int
    BY <1>1, <2>1 DEF InOrder
  <2>3. i \in 1..Len(r) /\ j \in 1..Len(r)
    BY <2>2
  <2>4. ~(i < j) /\ ~(j < i)
    BY <1>2, <2>1, <2>2, <2>3 DEF InOrder
  <2>5. b.lo = b.hi
    BY <2>1, <2>3, <2>4
  <2>6. Extremes(b) = <<b.lo>>
    BY <1>2 DEF Extremes
  <2> QED
    BY <1>1, <2>5, <2>6
<1>3. CASE b.lo.t < b.hi.t
  <2>1. Extremes(b) = <<b.lo, b.hi>>
    BY <1>1, <1>3 DEF Extremes
  <2> QED
    BY <1>1, <1>3, <2>1
<1>4. CASE b.hi.t < b.lo.t
  <2>1. Extremes(b) = <<b.hi, b.lo>>
    BY <1>1, <1>4 DEF Extremes
  <2> QED
    BY <1>1, <1>4, <2>1
<1> QED
  BY <1>1, <1>2, <1>3, <1>4

\* flush adds the bucket's slot to what the points stand for.
LEMMA FlushCovers ==
  ASSUME NEW r, InOrder(r), NEW k \in Nat \ {0}, NEW n \in 1..Len(r), NEW b, Holds(r, k, n, b),
         NEW ps, Covers(r, k, n, ps, b.number), NEW m \in Nat, b.number < m
  PROVE  Covers(r, k, n, ps \o Extremes(b), m)
<1> DEFINE es == Extremes(b)
           qs == ps \o es
           z == Len(ps)
<1>1. /\ es \in Seq(Row) /\ Len(es) \in 1..2
      /\ \A c \in 1..Len(es) : es[c] = b.lo \/ es[c] = b.hi
      /\ \E c \in 1..Len(es) : es[c] = b.lo
      /\ \E c \in 1..Len(es) : es[c] = b.hi
      /\ \A c, d \in 1..Len(es) : c < d => es[c].t < es[d].t
  BY ExtremesOfBucket
<1>2. /\ ps \in Seq(Row) /\ z \in Nat /\ z <= 2 * b.number /\ b.number \in Nat
      /\ \A a \in 1..z : ps[a] \in Row
  BY DEF Covers, Holds
<1> HIDE DEF es
<1>3. /\ qs \in Seq(Row) /\ Len(qs) = z + Len(es)
      /\ \A a \in 1..z : qs[a] = ps[a]
      /\ \A c \in 1..Len(es) : qs[z + c] = es[c]
      /\ \A a \in 1..Len(qs) : a \in 1..z \/ (a - z \in 1..Len(es) /\ qs[a] = es[a - z])
  <2>1. /\ qs \in Seq(Row) /\ Len(qs) = z + Len(es) /\ Len(es) \in Nat
        /\ \A a \in 1..z : qs[a] = ps[a]
        /\ \A c \in 1..Len(es) : qs[z + c] = es[c]
    BY <1>1, <1>2
  <2>2. ASSUME NEW a \in 1..Len(qs), a \notin 1..z PROVE a - z \in 1..Len(es) /\ z + (a - z) = a
    BY <1>2, <2>1, <2>2
  <2> QED
    BY <2>1, <2>2
<1> HIDE DEF qs, z
<1>4. /\ \A a \in 1..z : a \in 1..Len(qs)
      /\ \A c \in 1..Len(es) : z + c \in 1..Len(qs)
  <2>1. Len(qs) = z + Len(es) /\ z \in Nat /\ Len(es) \in Nat
    BY <1>1, <1>2, <1>3
  <2> QED
    BY <2>1
<1>5. Len(qs) <= 2 * m
  <2> DEFINE f == b.number
  <2>3. Len(es) \in Nat /\ Len(es) <= 2
    BY <1>1
  <2>1. Len(qs) = z + Len(es) /\ z \in Nat /\ Len(es) \in Nat /\ Len(es) <= 2
    BY <1>2, <1>3, <2>3
  <2>2. f \in Nat /\ z <= 2 * f /\ f < m
    BY <1>2
  <2> HIDE DEF f
  <2> QED
    BY <2>1, <2>2
<1>6. ASSUME NEW a \in 1..Len(qs) PROVE \E j \in 1..n : qs[a] = r[j] /\ Slot(r, k, r[j]) < m
  <2>1. CASE a \in 1..z
    <3>1. PICK j \in 1..n : ps[a] = r[j] /\ Slot(r, k, r[j]) < b.number
      BY <2>1 DEF Covers, z
    <3>2. Slot(r, k, r[j]) \in Int
      <4>1. j \in 1..Len(r)
        BY DEF InOrder
      <4> QED
        BY <4>1, SlotOfRow
    <3> QED
      BY <1>2, <1>3, <2>1, <3>1, <3>2
  <2>2. CASE a - z \in 1..Len(es) /\ qs[a] = es[a - z]
    BY <1>1, <2>2 DEF Holds
  <2> QED
    BY <1>3, <2>1, <2>2
<1>7. ASSUME NEW a \in 1..z, NEW c \in 1..Len(es) PROVE ps[a].t < es[c].t
  <2>1. PICK j \in 1..n : ps[a] = r[j] /\ Slot(r, k, r[j]) < b.number
    BY DEF Covers, z
  <2>2. PICK i \in 1..n : es[c] = r[i] /\ Slot(r, k, r[i]) = b.number
    BY <1>1 DEF Holds
  <2>3. i \in 1..Len(r) /\ j \in 1..Len(r)
    BY DEF InOrder
  <2> QED
    BY <2>1, <2>2, <2>3, SlotsTell
<1>8. ASSUME NEW a \in 1..Len(qs), NEW d \in 1..Len(qs), a < d PROVE qs[a].t < qs[d].t
  <2>1. CASE a \in 1..z /\ d \in 1..z
    BY <1>3, <1>8, <2>1 DEF Covers, z
  <2>2. CASE a \in 1..z /\ d - z \in 1..Len(es) /\ qs[d] = es[d - z]
    BY <1>3, <1>7, <2>2
  <2>3. CASE a - z \in 1..Len(es) /\ qs[a] = es[a - z] /\ d - z \in 1..Len(es) /\ qs[d] = es[d - z]
    <3>1. a - z < d - z
      BY <1>2, <1>8
    <3> QED
      BY <1>1, <2>3, <3>1
  <2>4. ~(a - z \in 1..Len(es) /\ d \in 1..z)
    BY <1>1, <1>2, <1>8
  <2> QED
    BY <1>3, <2>1, <2>2, <2>3, <2>4
<1>9. ASSUME NEW j \in 1..n, Slot(r, k, r[j]) < m PROVE HasPeaks(r, k, qs, j)
  <2>1. Slot(r, k, r[j]) \in Int /\ Slot(r, k, r[j]) <= b.number
    <3>1. j \in 1..Len(r)
      BY DEF InOrder
    <3>2. Slot(r, k, r[j]) \in 0..k - 1
      BY <3>1, SlotOfRow
    <3> QED
      BY <3>2 DEF Holds
  <2>2. CASE Slot(r, k, r[j]) = b.number
    <3>1. PICK c \in 1..Len(es) : es[c] = b.lo
      BY <1>1
    <3>2. PICK d \in 1..Len(es) : es[d] = b.hi
      BY <1>1
    <3>3. /\ Slot(r, k, b.lo) = b.number /\ Slot(r, k, b.hi) = b.number
          /\ b.lo.v <= r[j].v /\ r[j].v <= b.hi.v /\ r[j].v \in Int /\ b.hi.v \in Int
      <4>1. j \in 1..Len(r)
        BY DEF InOrder
      <4> QED
        BY <2>2, <4>1, Offsets DEF Holds, Row
    <3>4. qs[z + c] = b.lo /\ qs[z + d] = b.hi /\ z + c \in 1..Len(qs) /\ z + d \in 1..Len(qs)
      BY <1>3, <1>4, <3>1, <3>2
    <3>5. b.hi.v >= r[j].v
      BY <3>3
    <3> QED
      BY <2>2, <3>3, <3>4, <3>5 DEF HasPeaks
  <2>3. CASE Slot(r, k, r[j]) < b.number
    <3>1. PICK c \in 1..z, d \in 1..z :
             /\ Slot(r, k, ps[c]) = Slot(r, k, r[j]) /\ ps[c].v <= r[j].v
             /\ Slot(r, k, ps[d]) = Slot(r, k, r[j]) /\ ps[d].v >= r[j].v
      BY <2>3 DEF Covers, HasPeaks, z
    <3> QED
      BY <1>3, <1>4, <3>1 DEF HasPeaks
  <2> QED
    BY <1>2, <2>1, <2>2, <2>3
<1>10. Covers(r, k, n, qs, m)
  BY <1>3, <1>5, <1>6, <1>8, <1>9 DEF Covers
<1> QED
  BY <1>10 DEF qs, es

\* Another row of a later slot changes nothing.
LEMMA LaterRow ==
  ASSUME NEW r, NEW k, NEW n \in Nat, NEW ps, NEW m \in Nat, Covers(r, k, n, ps, m),
         Slot(r, k, r[n + 1]) \in Nat, m <= Slot(r, k, r[n + 1])
  PROVE  Covers(r, k, n + 1, ps, m)
<1>1. \A j \in 1..n + 1 : j \in 1..n \/ j = n + 1
  OBVIOUS
<1>2. \A j \in 1..n : j \in 1..n + 1
  OBVIOUS
<1>3. ~(Slot(r, k, r[n + 1]) < m)
  OBVIOUS
<1> QED
  BY <1>1, <1>2, <1>3 DEF Covers

\* Half of the points asked for.
Half(q) == IF q \div 2 > 1 THEN q \div 2 ELSE 1

LEMMA HalfOf == \A q \in Nat \ {0, 1} : Half(q) \in Nat \ {0} /\ 2 * Half(q) <= q
BY DEF Half
\* The points cover what the bucket does not hold yet.
Reducing ==
  \/ next = 1 /\ bucket = <<>> /\ points = <<>>
  \/ \E b : /\ next \in 2..Len(rows) + 1 /\ bucket = <<b>>
            /\ Holds(rows, Half(most), next - 1, b)
            /\ Covers(rows, Half(most), next - 1, points, b.number)
  \/ /\ next = Len(rows) + 1 /\ bucket = <<>>
     /\ Covers(rows, Half(most), Len(rows), points, Half(most))

Copying == bucket = <<>> /\ ((next = 1 /\ points = <<>>) \/ (next = Len(rows) + 1 /\ points = rows))

SeriesInv ==
  /\ rows \in Rows /\ most \in MaxPoints
  /\ IF Len(rows) > most THEN Reducing ELSE Copying

LEMMA SeriesTypes ==
  ASSUME rows \in Rows, most \in MaxPoints
  PROVE  /\ InOrder(rows) /\ Len(rows) \in Nat /\ most \in Nat \ {0, 1}
         /\ Half(most) \in Nat \ {0} /\ 2 * Half(most) <= most
         /\ Buckets = Half(most) /\ Span = Length(rows)
         /\ \A x : BucketOf(x) = Slot(rows, Half(most), x)
<1>1. InOrder(rows)
  <2>1. rows \in Seq(Row) /\ DOMAIN rows = 1..Len(rows)
    BY SeriesAssumption DEF Row
  <2> QED
    BY <2>1, SeriesAssumption DEF InOrder
<1>2. most \in Nat \ {0, 1}
  BY SeriesAssumption
<1>3. Buckets = Half(most) /\ Span = Length(rows)
  BY DEF Buckets, Half, Span, Length
<1>4. \A x : BucketOf(x) = Slot(rows, Half(most), x)
  BY <1>3 DEF BucketOf, Slot
<1> QED
  BY <1>1, <1>2, <1>3, <1>4, HalfOf DEF InOrder

\* The slot of the row that is looked at, and what the rows before it say of it.
LEMMA NextSlot ==
  ASSUME NEW r, InOrder(r), NEW k \in Nat \ {0}, NEW n \in Nat, n + 1 <= Len(r)
  PROVE  /\ n + 1 \in 1..Len(r) /\ r[n + 1] \in Row
         /\ Slot(r, k, r[n + 1]) \in 0..k - 1
         /\ \A j \in 1..n : /\ j \in 1..Len(r) /\ Slot(r, k, r[j]) \in 0..k - 1
                            /\ Slot(r, k, r[j]) <= Slot(r, k, r[n + 1])
<1>1. Len(r) \in Nat
  BY DEF InOrder
<1>2. n + 1 \in 1..Len(r) /\ \A j \in 1..n : j \in 1..Len(r) /\ j < n + 1
  BY <1>1
<1>3. \A j \in 1..n : r[j].t <= r[n + 1].t
  BY <1>2, Offsets DEF InOrder
<1> QED
  BY <1>2, <1>3, Offsets, SlotOfRow, SlotsRise

\* A bucket of one row, where no row before it reaches its slot.
LEMMA HoldsOne ==
  ASSUME NEW r, InOrder(r), NEW k \in Nat \ {0}, NEW n \in Nat, n + 1 <= Len(r),
         \A j \in 1..n : Slot(r, k, r[j]) < Slot(r, k, r[n + 1])
  PROVE  Holds(r, k, n + 1, [number |-> Slot(r, k, r[n + 1]), lo |-> r[n + 1], hi |-> r[n + 1]])
<1> DEFINE s == Slot(r, k, r[n + 1])
<1>1. n + 1 \in 1..Len(r) /\ r[n + 1] \in Row /\ s \in 0..k - 1
  BY NextSlot
<1>2. r[n + 1].v \in Int
  BY <1>1 DEF Row
<1>3. \A j \in 1..n + 1 : j \in 1..n \/ j = n + 1
  OBVIOUS
<1>4. \A j \in 1..n : Slot(r, k, r[j]) <= s /\ Slot(r, k, r[j]) # s
  BY NextSlot
<1> QED
  BY <1>1, <1>2, <1>3, <1>4 DEF Holds

\* A row of the bucket's slot.
LEMMA HoldsMore ==
  ASSUME NEW r, InOrder(r), NEW k \in Nat \ {0}, NEW n \in Nat, n + 1 <= Len(r),
         NEW b, Holds(r, k, n, b), Slot(r, k, r[n + 1]) = b.number,
         NEW c \in [number : {b.number}, lo : {b.lo, r[n + 1]}, hi : {b.hi, r[n + 1]}],
         c.lo = IF r[n + 1].v < b.lo.v THEN r[n + 1] ELSE b.lo,
         c.hi = IF r[n + 1].v > b.hi.v THEN r[n + 1] ELSE b.hi
  PROVE  Holds(r, k, n + 1, c)
<1>1. n + 1 \in 1..Len(r) /\ r[n + 1] \in Row /\ r[n + 1].v \in Int
  BY NextSlot DEF Row
<1>2. b.lo \in Row /\ b.hi \in Row /\ b.lo.v \in Int /\ b.hi.v \in Int /\ b.number \in 0..k - 1
  BY DEF Holds, Row
<1>3. \A j \in 1..n : j \in 1..n + 1
  OBVIOUS
<1>4. \A j \in 1..n + 1 : j \in 1..n \/ j = n + 1
  OBVIOUS
<1>5. \A j \in 1..n : r[j].v \in Int /\ j \in 1..Len(r)
  BY NextSlot, Offsets
<1>6. c \in [number : 0..k - 1, lo : Row, hi : Row] /\ c.number = b.number
  BY <1>1, <1>2
<1>7. (\E j \in 1..n + 1 : c.lo = r[j]) /\ (\E j \in 1..n + 1 : c.hi = r[j])
  BY <1>3 DEF Holds
<1>8. Slot(r, k, c.lo) = b.number /\ Slot(r, k, c.hi) = b.number
  BY DEF Holds
<1>9. /\ c.lo.v <= b.lo.v /\ c.lo.v <= r[n + 1].v /\ b.hi.v <= c.hi.v /\ r[n + 1].v <= c.hi.v
      /\ c.lo.v \in Int /\ c.hi.v \in Int
  BY <1>1, <1>2
<1>10. ASSUME NEW j \in 1..n + 1
       PROVE  /\ Slot(r, k, r[j]) <= b.number
              /\ Slot(r, k, r[j]) = b.number => c.lo.v <= r[j].v /\ r[j].v <= c.hi.v
  <2>1. CASE j = n + 1
    BY <1>2, <1>9, <2>1
  <2>2. CASE j \in 1..n
    <3>1. /\ Slot(r, k, r[j]) <= b.number
          /\ Slot(r, k, r[j]) = b.number => b.lo.v <= r[j].v /\ r[j].v <= b.hi.v
      BY <2>2 DEF Holds
    <3>2. r[j].v \in Int
      BY <1>5, <2>2
    <3> QED
      BY <1>2, <1>9, <3>1, <3>2
  <2> QED
    BY <1>4, <2>1, <2>2
<1> QED
  BY <1>6, <1>7, <1>8, <1>10 DEF Holds

LEMMA LookSteps ==
  ASSUME SeriesInv, Look
  PROVE  SeriesInv'
<1> DEFINE k == Half(most)
           n == next - 1
           row == rows[next]
           s == Slot(rows, k, row)
<1>1. /\ Len(rows) > most /\ next <= Len(rows) /\ next' = next + 1 /\ UNCHANGED <<rows, most>>
      /\ SameBucket(row) \/ NewBucket(row)
  BY DEF Look, Reduces
<1>2. /\ InOrder(rows) /\ Len(rows) \in Nat /\ k \in Nat \ {0} /\ most \in Nat
      /\ BucketOf(row) = s
  BY SeriesTypes DEF SeriesInv
<1>3. Reducing
  BY <1>1 DEF SeriesInv
<1> HIDE DEF k
<1>4. next \in Nat /\ n \in Nat /\ n + 1 = next /\ n + 1 <= Len(rows) /\ row = rows[n + 1]
  BY <1>1, <1>2, <1>3 DEF Reducing
<1>5. s \in 0..k - 1 /\ \A j \in 1..n : Slot(rows, k, rows[j]) \in 0..k - 1 /\ Slot(rows, k, rows[j]) <= s
  BY <1>2, <1>4, NextSlot
<1>6. SUFFICES Reducing'
  BY <1>1 DEF SeriesInv
<1>7. SUFFICES \E b : /\ bucket' = <<b>> /\ Holds(rows, k, n + 1, b)
                      /\ Covers(rows, k, n + 1, points', b.number)
  BY <1>1, <1>2, <1>4 DEF Reducing, k
<1>8. CASE next = 1 /\ bucket = <<>> /\ points = <<>>
  <2>1. n = 0
    BY <1>8
  <2> DEFINE b == [number |-> s, lo |-> row, hi |-> row]
  <2>2. bucket' = <<b>> /\ points' = <<>>
    BY <1>1, <1>2, <1>8 DEF SameBucket, NewBucket, Flushed
  <2>3. Holds(rows, k, n + 1, b)
    BY <1>2, <1>4, <2>1, HoldsOne
  <2>4. Covers(rows, k, 0, <<>>, s)
    BY <1>5 DEF Covers
  <2>5. Covers(rows, k, n + 1, <<>>, s)
    BY <1>4, <1>5, <2>1, <2>4, LaterRow
  <2> QED
    BY <2>2, <2>3, <2>5
<1>9. ASSUME NEW b, bucket = <<b>>, n \in 1..Len(rows), Holds(rows, k, n, b), Covers(rows, k, n, points, b.number)
      PROVE  \E c : bucket' = <<c>> /\ Holds(rows, k, n + 1, c) /\ Covers(rows, k, n + 1, points', c.number)
  <2>1. b \in [number : 0..k - 1, lo : Row, hi : Row] /\ b.number \in Nat
    BY <1>9 DEF Holds
  <2>2. CASE SameBucket(row)
    <3>1. b.number = s /\ points' = points
      BY <1>2, <1>9, <2>2 DEF SameBucket
    <3> DEFINE c == [b EXCEPT !.lo = IF row.v < @.v THEN row ELSE @, !.hi = IF row.v > @.v THEN row ELSE @]
    <3>2. bucket' = <<c>>
      BY <1>9, <2>2 DEF SameBucket
    <3>3. /\ c \in [number : {b.number}, lo : {b.lo, row}, hi : {b.hi, row}]
          /\ c.lo = IF row.v < b.lo.v THEN row ELSE b.lo
          /\ c.hi = IF row.v > b.hi.v THEN row ELSE b.hi
      BY <2>1
    <3> HIDE DEF c
    <3>4. Holds(rows, k, n + 1, c) /\ c.number = s
      BY <1>2, <1>4, <1>9, <3>1, <3>3, HoldsMore
    <3>5. Covers(rows, k, n + 1, points', c.number)
      BY <1>4, <1>5, <1>9, <3>1, <3>4, LaterRow
    <3> QED
      BY <3>2, <3>4, <3>5
  <2>3. CASE NewBucket(row)
    <3> DEFINE c == [number |-> s, lo |-> row, hi |-> row]
    <3>1. b.number # s /\ points' = points \o Extremes(b) /\ bucket' = <<c>>
      BY <1>2, <1>9, <2>3 DEF NewBucket, Flushed
    <3>2. b.number < s
      BY <1>5, <1>9, <2>1, <3>1 DEF Holds
    <3>3. \A j \in 1..n : Slot(rows, k, rows[j]) < s
      BY <1>5, <1>9, <2>1, <3>2 DEF Holds
    <3>4. Holds(rows, k, n + 1, c)
      BY <1>2, <1>4, <3>3, HoldsOne
    <3>5. Covers(rows, k, n, points', s)
      BY <1>2, <1>5, <1>9, <3>1, <3>2, FlushCovers
    <3>7. s \in Nat /\ s <= Slot(rows, k, rows[n + 1]) /\ Slot(rows, k, rows[n + 1]) \in Nat
      BY <1>4, <1>5
    <3> HIDE DEF s, n
    <3>6. Covers(rows, k, n + 1, points', s)
      BY <1>4, <3>5, <3>7, LaterRow
    <3> QED
      BY <3>1, <3>4, <3>6
  <2> QED
    BY <1>1, <2>2, <2>3
<1> QED
  BY <1>1, <1>3, <1>4, <1>8, <1>9 DEF Reducing, k

LEMMA FlushSteps ==
  ASSUME SeriesInv, FlushLast
  PROVE  SeriesInv'
<1> DEFINE k == Half(most)
<1>1. /\ Len(rows) > most /\ next = Len(rows) + 1 /\ bucket # <<>>
      /\ points' = Flushed /\ bucket' = <<>> /\ UNCHANGED <<rows, most, next>>
  BY DEF FlushLast, Reduces
<1>2. InOrder(rows) /\ Len(rows) \in Nat /\ k \in Nat \ {0} /\ most \in Nat
  BY SeriesTypes DEF SeriesInv
<1>3. PICK b : /\ bucket = <<b>> /\ Holds(rows, k, Len(rows), b)
               /\ Covers(rows, k, Len(rows), points, b.number)
  BY <1>1, <1>2 DEF SeriesInv, Reducing
<1> HIDE DEF k
<1>4. b.number \in Nat /\ b.number < k /\ Len(rows) \in 1..Len(rows)
  BY <1>1, <1>2, <1>3 DEF Holds
<1>5. Covers(rows, k, Len(rows), points \o Extremes(b), k)
  BY <1>2, <1>3, <1>4, FlushCovers
<1>6. points' = points \o Extremes(b)
  BY <1>1, <1>3 DEF Flushed
<1> QED
  BY <1>1, <1>5, <1>6 DEF SeriesInv, Reducing, k

LEMMA SeriesInductive == SeriesSpec => []SeriesInv
<1>1. SeriesInit => SeriesInv
  <2> SUFFICES ASSUME SeriesInit PROVE SeriesInv
    OBVIOUS
  <2>1. rows \in Rows /\ most \in MaxPoints /\ next = 1 /\ bucket = <<>> /\ points = <<>>
    BY DEF SeriesInit
  <2> QED
    BY <2>1 DEF SeriesInv, Reducing, Copying
<1>2. SeriesInv /\ [SeriesNext]_seriesVars => SeriesInv'
  <2> SUFFICES ASSUME SeriesInv, [SeriesNext]_seriesVars PROVE SeriesInv'
    OBVIOUS
  <2>1. CASE AsTheyAre
    <3>1. ~(Len(rows) > most)
      BY <2>1, SeriesTypes DEF AsTheyAre, SeriesInv
    <3> QED
      BY <2>1, <3>1 DEF AsTheyAre, SeriesInv, Copying
  <2>2. CASE UNCHANGED seriesVars
    BY <2>2 DEF seriesVars, SeriesInv, Reducing, Copying
  <2> QED
    BY <2>1, <2>2, LookSteps, FlushSteps DEF SeriesNext
<1> QED
  BY <1>1, <1>2, PTL DEF SeriesSpec

\* What a plot shows keeps the peaks of any series: at most as many points as it asked for, in
\* the order of time, and near every sample one as low and one as high (Store::range, flush).
THEOREM PeaksAreKept == SeriesSpec => []PeaksSurvive
<1>1. ASSUME SeriesInv PROVE PeaksSurvive
  <2> SUFFICES ASSUME Reduced PROVE
        /\ Len(points) <= most
        /\ \A i, j \in DOMAIN points : i < j => points[i].t < points[j].t
        /\ Points \subseteq {rows[i] : i \in DOMAIN rows}
        /\ \A i \in DOMAIN rows :
             /\ \E p \in Points : (p.t - rows[i].t) * Buckets \in (-Span)..Span /\ p.v <= rows[i].v
             /\ \E p \in Points : (p.t - rows[i].t) * Buckets \in (-Span)..Span /\ p.v >= rows[i].v
    BY DEF PeaksSurvive
  <2> DEFINE k == Half(most)
  <2>1. /\ InOrder(rows) /\ Len(rows) \in Nat /\ most \in Nat /\ k \in Nat \ {0} /\ 2 * k <= most
        /\ Buckets = k /\ Span = Length(rows) /\ DOMAIN rows = 1..Len(rows)
    BY <1>1, SeriesTypes DEF SeriesInv, InOrder
  <2>2. next = Len(rows) + 1 /\ bucket = <<>>
    BY DEF Reduced
  <2> HIDE DEF k
  <2>3. CASE Len(rows) > most
    <3>1. Covers(rows, k, Len(rows), points, k)
      BY <1>1, <2>1, <2>2, <2>3 DEF SeriesInv, Reducing, k
    <3>2. points \in Seq(Row) /\ Len(points) <= 2 * k /\ DOMAIN points = 1..Len(points) /\ Len(points) \in Nat
      BY <3>1 DEF Covers
    <3>3. Len(points) <= most
      BY <2>1, <3>2
    <3>4. \A i, j \in DOMAIN points : i < j => points[i].t < points[j].t
      BY <3>1, <3>2 DEF Covers
    <3>5. Points \subseteq {rows[i] : i \in DOMAIN rows}
      BY <2>1, <3>1, <3>2 DEF Covers, Points
    <3>6. ASSUME NEW i \in DOMAIN rows
          PROVE  /\ \E p \in Points : (p.t - rows[i].t) * Buckets \in (-Span)..Span /\ p.v <= rows[i].v
                 /\ \E p \in Points : (p.t - rows[i].t) * Buckets \in (-Span)..Span /\ p.v >= rows[i].v
      <4>1. Slot(rows, k, rows[i]) < k
        BY <2>1, SlotOfRow
      <4>2. PICK a \in 1..Len(points), b \in 1..Len(points) :
               /\ Slot(rows, k, points[a]) = Slot(rows, k, rows[i]) /\ points[a].v <= rows[i].v
               /\ Slot(rows, k, points[b]) = Slot(rows, k, rows[i]) /\ points[b].v >= rows[i].v
        BY <2>1, <3>1, <4>1 DEF Covers, HasPeaks
      <4>3. PICK c \in 1..Len(rows), d \in 1..Len(rows) : points[a] = rows[c] /\ points[b] = rows[d]
        BY <3>1 DEF Covers
      <4>4. /\ (rows[c].t - rows[i].t) * k \in (-Length(rows))..Length(rows)
            /\ (rows[d].t - rows[i].t) * k \in (-Length(rows))..Length(rows)
        BY <2>1, <4>2, <4>3, SlotIsShort
      <4>5. points[a] \in Points /\ points[b] \in Points
        BY <3>2 DEF Points
      <4> QED
        BY <2>1, <4>2, <4>3, <4>4, <4>5
    <3> QED
      BY <3>3, <3>4, <3>5, <3>6
  <2>4. CASE ~(Len(rows) > most)
    <3>1. points = rows \/ (rows = <<>> /\ points = <<>>)
      BY <1>1, <2>1, <2>2, <2>4 DEF SeriesInv, Copying, InOrder
    <3>2. Len(points) <= most /\ DOMAIN points = 1..Len(points) /\ points = rows
      BY <2>1, <2>4, <3>1
    <3>3. \A i, j \in DOMAIN points : i < j => points[i].t < points[j].t
      BY <2>1, <3>2 DEF InOrder
    <3>4. Points \subseteq {rows[i] : i \in DOMAIN rows}
      BY <3>2 DEF Points
    <3>5. ASSUME NEW i \in DOMAIN rows
          PROVE  \E p \in Points : /\ (p.t - rows[i].t) * Buckets \in (-Span)..Span
                                   /\ p.v <= rows[i].v /\ p.v >= rows[i].v
      <4>1. rows[i] \in Points
        BY <3>2 DEF Points
      <4>2. rows[i].t \in Int /\ rows[i].v \in Int /\ Length(rows) \in Nat \ {0}
        BY <2>1, Offsets
      <4>3. (rows[i].t - rows[i].t) * k = 0
        BY <2>1, <4>2
      <4> QED
        BY <2>1, <4>1, <4>2, <4>3
    <3> QED
      BY <3>2, <3>3, <3>4, <3>5
  <2> QED
    BY <2>3, <2>4
<1> QED
  BY SeriesInductive, <1>1, PTL

-----------------------------------------------------------------------------
(* Autostart: for any command lines, requests and mishaps, as far as what  *)
(* a system reads back is what was written: that the quoting round-trips   *)
(* is a fold over the characters, and stays with TLC.                      *)

\* The steps of a request, on each system, that switches the start on or off.
StepsOn(sys) ==
  CASE sys = "linux"   -> {"write", "reload, link", "link"}
    [] sys = "macos"   -> {"write"}
    [] sys = "windows" -> {"add"}
    [] sys = "other"   -> {}
StepsOff(sys) ==
  CASE sys = "linux"   -> {"unlink", "remove, reload", "reload"}
    [] sys = "macos"   -> {"remove"}
    [] sys = "windows" -> {"query", "delete"}
    [] sys = "other"   -> {}
StepsOf(sys, enabled) ==
  {"done", "refused"} \cup IF enabled THEN StepsOn(sys) ELSE StepsOff(sys)

StepNames == {"none", "write", "reload, link", "link", "unlink", "remove, reload", "remove", "reload",
             "add", "query", "delete", "done", "refused"}
PutTypes ==
  /\ system \in Systems /\ put \in [PutTasks -> [enabled : BOOLEAN, step : StepNames, alone : BOOLEAN]]
  /\ \A r \in PutTasks : put[r].step = "none" \/ put[r].step \in StepsOf(system, put[r].enabled)
  /\ system = "other" => entry = NoEntry

\* What a request that no other one overlapped has reached.
Entire == <<[text |-> EntryText, whole |-> TRUE]>>
SwitchedOn == entry = Entire /\ (system = "linux" => linked)
Reached(enabled, step) ==
  /\ step \in {"reload, link", "link"} => entry = Entire
  /\ step = "reload" => entry = NoEntry
  /\ step = "done" => IF enabled THEN system # "other" /\ SwitchedOn ELSE blind \/ entry = NoEntry
AloneInv ==
  \A r \in PutTasks : put[r].alone =>
    /\ Reached(put[r].enabled, put[r].step)
    /\ \A q \in PutTasks \ {r} : put[q].step = "none"

\* An answer stands until the next request.
ToldInv ==
  /\ told # "nothing" => \A r \in PutTasks : put[r].step = "none"
  /\ told = "on" => SwitchedOn
  /\ told = "off" => blind \/ entry = NoEntry

AutostartInv == PutTypes /\ AloneInv /\ ToldInv

LEMMA AutostartStart == AutostartInit => AutostartInv
<1> SUFFICES ASSUME AutostartInit PROVE AutostartInv
  OBVIOUS
<1>1. put = [r \in PutTasks |-> NoPut] /\ entry = NoEntry /\ system \in Systems /\ told = "nothing"
  BY DEF AutostartInit
<1>2. NoPut \in [enabled : BOOLEAN, step : StepNames, alone : BOOLEAN] /\ NoPut.step = "none" /\ ~NoPut.alone
  BY DEF NoPut, StepNames
<1> QED
  BY <1>1, <1>2 DEF AutostartInv, PutTypes, AloneInv, ToldInv

\* A request that goes on to another step, or is refused.
LEMMA PutGoesOn ==
  ASSUME AutostartInv, NEW r \in PutTasks, put[r].step # "none", NEW on, on = put[r].enabled,
         NEW step \in StepsOf(system, on), Then(r, step), UNCHANGED <<system, launch, told>>,
         Reached(on, step)' \/ ~put[r].alone,
         system = "other" => entry' = NoEntry
  PROVE  AutostartInv'
<1>1. /\ put[r] \in [enabled : BOOLEAN, step : StepNames, alone : BOOLEAN] /\ put[r].enabled \in BOOLEAN
      /\ put' = [put EXCEPT ![r].step = step] /\ system \in Systems
  BY DEF AutostartInv, PutTypes, Then
<1>2. step \in StepNames /\ step # "none"
  BY <1>1, AutostartAssumption DEF StepsOf, StepsOn, StepsOff, StepNames
<1>3. /\ put' \in [PutTasks -> [enabled : BOOLEAN, step : StepNames, alone : BOOLEAN]]
      /\ put'[r].step = step /\ put'[r].enabled = put[r].enabled /\ put'[r].alone = put[r].alone
      /\ \A q \in PutTasks \ {r} : put'[q] = put[q]
  BY <1>1, <1>2 DEF AutostartInv, PutTypes
<1>4. PutTypes'
  BY <1>1, <1>3 DEF AutostartInv, PutTypes
<1>5. AloneInv'
  <2>1. \A q \in PutTasks \ {r} : ~put[q].alone
    BY DEF AutostartInv, AloneInv
  <2>2. put[r].alone => \A q \in PutTasks \ {r} : put[q].step = "none"
    BY DEF AutostartInv, AloneInv
  <2> QED
    BY <1>3, <2>1, <2>2 DEF AloneInv
<1>6. ToldInv'
  BY DEF AutostartInv, ToldInv
<1> QED
  BY <1>4, <1>5, <1>6 DEF AutostartInv

\* What the steps of a request find.
LEMMA PutFinds ==
  ASSUME AutostartInv, NEW r \in PutTasks, put[r].step # "none"
  PROVE  /\ put[r].step \in StepsOf(system, put[r].enabled)
         /\ system \in {"linux", "macos", "windows", "other"}
         /\ put[r].enabled \in BOOLEAN /\ put[r].alone \in BOOLEAN
         /\ put[r].alone => Reached(put[r].enabled, put[r].step)
         /\ system = "other" => entry = NoEntry
         /\ UNCHANGED <<system, launch>> => UNCHANGED Entire
BY AutostartAssumption DEF AutostartInv, PutTypes, AloneInv, EntryText, Entire

\* A request that is refused, wherever it was.
LEMMA PutRefused ==
  ASSUME AutostartInv, NEW r \in PutTasks, put[r].step # "none", Then(r, "refused"),
         UNCHANGED <<system, launch, told>>, system = "other" => entry' = NoEntry
  PROVE  AutostartInv'
<1>1. PICK on \in BOOLEAN : on = put[r].enabled
  BY PutFinds
<1>2. "refused" \in StepsOf(system, on)
  BY DEF StepsOf
<1>3. Reached(on, "refused")'
  BY DEF Reached
<1> QED
  BY <1>1, <1>2, <1>3, PutGoesOn

LEMMA OnSteps ==
  ASSUME AutostartInv, NEW r \in PutTasks, Write(r) \/ Reload(r) \/ Link(r) \/ Add(r)
  PROVE  AutostartInv'
<1>1. PICK on \in BOOLEAN, step \in StepNames : on = put[r].enabled /\ step = put[r].step
  BY DEF AutostartInv, PutTypes
<1>2. /\ step # "none" /\ UNCHANGED <<system, launch, told, blind>>
  BY <1>1 DEF Write, Reload, Link, Add, Doing
<1>3. /\ step \in StepsOf(system, on) /\ system \in {"linux", "macos", "windows", "other"}
      /\ put[r].alone => Reached(on, step)
      /\ system = "other" => entry = NoEntry
      /\ Entire' = Entire
  BY <1>1, <1>2, PutFinds
<1>4. system # "other" /\ (step = "reload" \/ on)
  BY <1>1, <1>3 DEF Write, Reload, Link, Add, Doing, StepsOf, StepsOn, StepsOff
<1>5. ASSUME NEW to \in StepsOf(system, on), Then(r, to), put[r].alone => Reached(on, to)' PROVE AutostartInv'
  BY <1>1, <1>2, <1>4, <1>5, PutGoesOn
<1>6. CASE Then(r, "refused")
  BY <1>1, <1>2, <1>4, <1>6, PutRefused
<1>7. CASE Write(r) /\ ~Then(r, "refused")
  <2>0. PICK to \in StepNames : to = IF system = "linux" THEN "reload, link" ELSE "done"
    BY DEF StepNames
  <2>1. step = "write" /\ on /\ system \in {"linux", "macos"}
    BY <1>1, <1>3, <1>4, <1>7 DEF Write, Doing, StepsOf, StepsOn, StepsOff
  <2>2. entry' = Entire /\ Then(r, to)
    BY <1>7, <2>0 DEF Write, Entire
  <2>3. to \in StepsOf(system, on) /\ to \notin {"reload"} /\ (to = "done" => system # "linux")
    BY <2>0, <2>1 DEF StepsOf, StepsOn
  <2>4. Reached(on, to)'
    BY <1>2, <1>3, <1>4, <2>1, <2>2, <2>3 DEF Reached, SwitchedOn
  <2> QED
    BY <1>5, <2>2, <2>3, <2>4
<1>8. CASE Add(r) /\ ~Then(r, "refused")
  <2>1. step = "add" /\ on /\ system = "windows" /\ entry' = Entire /\ Then(r, "done")
    BY <1>1, <1>3, <1>8 DEF Add, Doing, StepsOf, StepsOn, StepsOff, Entire
  <2>2. "done" \in StepsOf(system, on) /\ Reached(on, "done")'
    BY <1>2, <1>3, <2>1 DEF StepsOf, Reached, SwitchedOn
  <2> QED
    BY <1>5, <2>1, <2>2
<1>9. CASE Link(r) /\ ~Then(r, "refused")
  <2>1. step = "link" /\ on /\ linked' = TRUE /\ entry' = entry /\ Then(r, "done")
    BY <1>1, <1>3, <1>9 DEF Link, Doing, StepsOf, StepsOn, StepsOff
  <2>2. "done" \in StepsOf(system, on)
    BY DEF StepsOf
  <2>3. put[r].alone => Reached(on, "done")'
    BY <1>2, <1>3, <1>4, <2>1 DEF Reached, SwitchedOn
  <2> QED
    BY <1>5, <2>1, <2>2, <2>3
<1>10. CASE Reload(r) /\ ~Then(r, "refused")
  <2>1. UNCHANGED <<entry, linked>> /\ Then(r, IF step = "reload" THEN "done" ELSE "link")
    BY <1>1, <1>10 DEF Reload, Doing
  <2>2. CASE step = "reload"
    <3>1. ~on /\ Then(r, "done") /\ "done" \in StepsOf(system, on)
      BY <1>3, <2>1, <2>2 DEF StepsOf, StepsOn
    <3>2. put[r].alone => Reached(on, "done")'
      BY <1>2, <1>3, <2>1, <2>2, <3>1 DEF Reached
    <3> QED
      BY <1>5, <3>1, <3>2
  <2>3. CASE step = "reload, link"
    <3>1. Then(r, "link") /\ "link" \in StepsOf(system, on)
      BY <1>3, <1>4, <2>1, <2>3 DEF StepsOf, StepsOn
    <3>2. put[r].alone => Reached(on, "link")'
      BY <1>2, <1>3, <2>1, <2>3 DEF Reached
    <3> QED
      BY <1>5, <3>1, <3>2
  <2> QED
    BY <1>1, <1>10, <2>2, <2>3 DEF Reload, Doing
<1> QED
  BY <1>6, <1>7, <1>8, <1>9, <1>10

LEMMA OffSteps ==
  ASSUME AutostartInv, NEW r \in PutTasks, Unlink(r) \/ RemoveFile(r) \/ QueryValue(r) \/ Delete(r)
  PROVE  AutostartInv'
<1>1. PICK on \in BOOLEAN, step \in StepNames : on = put[r].enabled /\ step = put[r].step
  BY DEF AutostartInv, PutTypes
<1>2. step # "none" /\ UNCHANGED <<system, launch, told>>
  BY <1>1 DEF Unlink, RemoveFile, QueryValue, Delete, Doing
<1>3. /\ step \in StepsOf(system, on) /\ system \in {"linux", "macos", "windows", "other"}
      /\ system = "other" => entry = NoEntry
  BY <1>1, <1>2, PutFinds
<1>4. system # "other" /\ ~on
  BY <1>1, <1>3 DEF Unlink, RemoveFile, QueryValue, Delete, Doing, StepsOf, StepsOn, StepsOff
<1>5. ASSUME NEW to \in StepsOf(system, on), Then(r, to), Reached(on, to)' PROVE AutostartInv'
  BY <1>1, <1>2, <1>4, <1>5, PutGoesOn
<1>6. CASE Then(r, "refused")
  BY <1>1, <1>2, <1>4, <1>6, PutRefused
<1>7. CASE Unlink(r)
  <2>1. Then(r, "remove, reload") /\ step = "unlink"
    BY <1>1, <1>7 DEF Unlink, Doing
  <2>2. "remove, reload" \in StepsOf(system, on)
    BY <1>3, <1>4, <2>1 DEF StepsOf, StepsOff
  <2>3. Reached(on, "remove, reload")'
    BY DEF Reached
  <2> QED
    BY <1>5, <2>1, <2>2, <2>3
<1>8. CASE RemoveFile(r) /\ ~Then(r, "refused")
  <2>0. PICK to \in StepNames : to = IF system = "linux" THEN "reload" ELSE "done"
    BY DEF StepNames
  <2>1. entry' = NoEntry /\ Then(r, to) /\ step \in {"remove", "remove, reload"}
    BY <1>1, <1>8, <2>0 DEF RemoveFile, Doing
  <2>2. to \in StepsOf(system, on) /\ to \in {"reload", "done"}
    BY <1>4, <2>0 DEF StepsOf, StepsOff
  <2>3. Reached(on, to)'
    BY <1>4, <2>1, <2>2 DEF Reached
  <2> QED
    BY <1>5, <2>1, <2>2, <2>3
<1>9. CASE QueryValue(r)
  <2>1. step = "query" /\ system = "windows" /\ entry' = entry
    BY <1>1, <1>3, <1>4, <1>9 DEF QueryValue, Doing, StepsOf, StepsOff
  <2>2. "done" \in StepsOf(system, on) /\ "delete" \in StepsOf(system, on)
    BY <1>4, <2>1 DEF StepsOf, StepsOff
  <2>3. CASE Then(r, "done") /\ (blind' \/ entry = NoEntry)
    BY <1>4, <1>5, <2>1, <2>2, <2>3 DEF Reached
  <2>4. CASE Then(r, "delete")
    BY <1>5, <2>2, <2>4 DEF Reached
  <2> QED
    BY <1>9, <2>3, <2>4 DEF QueryValue
<1>10. CASE Delete(r) /\ ~Then(r, "refused")
  <2>1. entry' = NoEntry /\ Then(r, "done")
    BY <1>10 DEF Delete
  <2>2. "done" \in StepsOf(system, on) /\ Reached(on, "done")'
    BY <1>4, <2>1 DEF StepsOf, Reached
  <2> QED
    BY <1>5, <2>1, <2>2
<1> QED
  BY <1>6, <1>7, <1>8, <1>9, <1>10

LEMMA PutStarts ==
  ASSUME AutostartInv, NEW r \in PutTasks, NEW enabled \in BOOLEAN, Put(r, enabled)
  PROVE  AutostartInv'
<1> DEFINE new == [enabled |-> enabled, step |-> FirstStep(enabled), alone |-> \A o \in PutTasks : put[o] = NoPut]
<1>1. /\ put' = [q \in PutTasks |-> IF q = r THEN new ELSE [put[q] EXCEPT !.alone = FALSE]]
      /\ told' = "nothing" /\ UNCHANGED <<system, launch, entry, linked, blind>>
  BY DEF Put
<1>2. system \in {"linux", "macos", "windows", "other"} /\ (system = "other" => entry = NoEntry)
  BY AutostartAssumption DEF AutostartInv, PutTypes
<1>3. FirstStep(enabled) \in StepsOf(system, enabled)
  BY <1>2 DEF FirstStep, StepsOf, StepsOn, StepsOff
<1>4. FirstStep(enabled) \in StepNames
  BY <1>2 DEF FirstStep, StepNames
<1>6. new \in [enabled : BOOLEAN, step : StepNames, alone : BOOLEAN]
  BY <1>4
<1>7. new.alone => \A q \in PutTasks : put[q].step = "none"
  BY DEF NoPut
<1>8. new.step = FirstStep(enabled) /\ new.enabled = enabled
  OBVIOUS
<1> HIDE DEF new
<1>9. \A q \in PutTasks \ {r} :
        /\ put'[q] \in [enabled : BOOLEAN, step : StepNames, alone : BOOLEAN]
        /\ put'[q].step = put[q].step /\ put'[q].enabled = put[q].enabled /\ ~put'[q].alone
  BY <1>1 DEF AutostartInv, PutTypes
<1>10. put'[r] = new
  BY <1>1
<1>11. PutTypes'
  <2>1. put' \in [PutTasks -> [enabled : BOOLEAN, step : StepNames, alone : BOOLEAN]]
    BY <1>1, <1>6, <1>9, <1>10
  <2>2. \A q \in PutTasks : put'[q].step = "none" \/ put'[q].step \in StepsOf(system, put'[q].enabled)
    BY <1>3, <1>8, <1>9, <1>10 DEF AutostartInv, PutTypes
  <2> QED
    BY <1>1, <2>1, <2>2 DEF AutostartInv, PutTypes
<1>12. AloneInv'
  <2>1. PICK first \in StepNames : first = FirstStep(enabled)
    BY <1>4
  <2>2. Reached(enabled, first)'
    BY <1>1, <1>2, <2>1 DEF Reached, FirstStep
  <2>3. new.alone => \A q \in PutTasks \ {r} : put'[q].step = "none"
    BY <1>7, <1>9
  <2>4. put'[r].enabled = enabled /\ put'[r].step = first
    BY <1>8, <1>10, <2>1
  <2>5. ASSUME NEW q \in PutTasks, put'[q].alone
        PROVE  Reached(put[q].enabled, put[q].step)' /\ \A p \in PutTasks \ {q} : put'[p].step = "none"
    <3>1. q = r
      BY <1>9, <2>5
    <3> QED
      BY <1>10, <2>2, <2>3, <2>4, <2>5, <3>1
  <2> QED
    BY <2>5 DEF AloneInv
<1> QED
  BY <1>1, <1>11, <1>12 DEF AutostartInv, ToldInv

LEMMA PutAnswered ==
  ASSUME AutostartInv, NEW r \in PutTasks, Answer(r)
  PROVE  AutostartInv'
<1>1. /\ put[r].step \in {"done", "refused"} /\ put' = [put EXCEPT ![r] = NoPut]
      /\ told' = (IF ~put[r].alone THEN "nothing"
                  ELSE IF put[r].step = "refused" THEN "failed" ELSE IF put[r].enabled THEN "on" ELSE "off")
      /\ UNCHANGED <<system, launch, entry, linked, blind>>
  BY DEF Answer, Doing
<1>2. NoPut \in [enabled : BOOLEAN, step : StepNames, alone : BOOLEAN] /\ NoPut.step = "none" /\ ~NoPut.alone
  BY DEF NoPut, StepNames
<1>3. /\ put'[r] = NoPut /\ \A q \in PutTasks \ {r} : put'[q] = put[q]
      /\ put' \in [PutTasks -> [enabled : BOOLEAN, step : StepNames, alone : BOOLEAN]]
  BY <1>1, <1>2 DEF AutostartInv, PutTypes
<1>4. PutTypes'
  BY <1>1, <1>2, <1>3 DEF AutostartInv, PutTypes
<1>5. UNCHANGED Entire
  BY <1>1 DEF Entire, EntryText
<1>6. AloneInv'
  <2>1. ASSUME NEW q \in PutTasks, put'[q].alone PROVE put[q].alone /\ q # r /\ put'[q] = put[q]
    BY <1>2, <1>3, <2>1
  <2>2. ASSUME NEW q \in PutTasks, put[q].alone, q # r PROVE FALSE
    BY <1>1, <2>2 DEF AutostartInv, AloneInv
  <2> QED
    BY <2>1, <2>2 DEF AloneInv
<1>7. ToldInv'
  <2>1. CASE ~put[r].alone
    BY <1>1, <2>1 DEF ToldInv
  <2>2. CASE put[r].alone
    <3>1. Reached(put[r].enabled, put[r].step) /\ \A q \in PutTasks \ {r} : put[q].step = "none"
      BY <2>2 DEF AutostartInv, AloneInv
    <3>2. \A q \in PutTasks : put'[q].step = "none"
      BY <1>2, <1>3, <3>1
    <3>3. told' = "on" => SwitchedOn
      BY <1>1, <2>2, <3>1 DEF Reached
    <3>4. told' = "off" => blind \/ entry = NoEntry
      BY <1>1, <2>2, <3>1 DEF Reached
    <3>5. SwitchedOn' = SwitchedOn
      BY <1>1, <1>5 DEF SwitchedOn
    <3> QED
      BY <1>1, <3>2, <3>3, <3>4, <3>5 DEF ToldInv
  <2> QED
    BY <2>1, <2>2
<1> QED
  BY <1>4, <1>6, <1>7 DEF AutostartInv

LEMMA AutostartInductive == AutostartSpec => []AutostartInv
<1>1. AutostartInv /\ [AutostartNext]_autostartVars => AutostartInv'
  <2> SUFFICES ASSUME AutostartInv, [AutostartNext]_autostartVars PROVE AutostartInv'
    OBVIOUS
  <2>1. CASE UNCHANGED autostartVars
    <3>1. UNCHANGED <<system, launch, entry, linked, put, told, blind>>
      BY <2>1 DEF autostartVars
    <3>2. UNCHANGED Entire
      BY <3>1 DEF Entire, EntryText
    <3>3. UNCHANGED SwitchedOn
      BY <3>1, <3>2 DEF SwitchedOn
    <3>4. \A on, step : Reached(on, step)' = Reached(on, step)
      BY <3>1, <3>2, <3>3 DEF Reached
    <3>5. PutTypes' /\ ToldInv'
      BY <3>1, <3>3 DEF AutostartInv, PutTypes, ToldInv
    <3>6. AloneInv'
      BY <3>1, <3>4 DEF AutostartInv, AloneInv
    <3> QED
      BY <3>5, <3>6 DEF AutostartInv
  <2>2. CASE AutostartNext
    BY <2>2, PutStarts, OnSteps, OffSteps, PutAnswered DEF AutostartNext
  <2> QED
    BY <2>1, <2>2
<1> QED
  BY AutostartStart, <1>1, PTL DEF AutostartSpec

\* What put_autostart answered stays true until the next request, through every interleaving and
\* mishap: for every command that the system reads back as it was written.
THEOREM AnswersAreTrue == AutostartSpec => [](Reads(EntryText) = launch => AnswersHold)
<1>1. AutostartInv => (Reads(EntryText) = launch => AnswersHold)
  <2> SUFFICES ASSUME AutostartInv, Reads(EntryText) = launch PROVE AnswersHold
    OBVIOUS
  <2>1. ASSUME told = "on" PROVE Starts /\ Reads(entry[1].text) = launch
    <3>1. entry = Entire /\ (system = "linux" => linked)
      BY <2>1 DEF AutostartInv, ToldInv, SwitchedOn
    <3>2. Entire # NoEntry /\ Entire[1].whole /\ Entire[1].text = EntryText
      BY DEF Entire, NoEntry
    <3> QED
      BY <3>1, <3>2 DEF Starts
  <2>2. ASSUME told = "off", ~blind PROVE ~Starts /\ ~Enabled
    BY <2>2 DEF AutostartInv, ToldInv, Starts, Enabled
  <2> QED
    BY <2>1, <2>2 DEF AnswersHold
<1> QED
  BY AutostartInductive, <1>1, PTL

-----------------------------------------------------------------------------
(* Framing: for every framing of a command, every stream and every way it  *)
(* is cut into chunks.  While a reply is awaited the framer holds what was *)
(* heard, a block without the text before it (Kept), and that has no reply *)
(* yet.  What ends then is compared with the reference for each kind of    *)
(* reply; for a block, a length read digit by digit is the one that the    *)
(* writer writes with these digits.                                        *)

\* A set that has 0, and with every number the next one, has them all.
LEMMA Induction ==
  ASSUME NEW S, 0 \in S, \A n \in Nat : n \in S => n + 1 \in S
  PROVE  \A n \in Nat : n \in S
<1>1. ASSUME Nat \ S # {} PROVE FALSE
  <2>1. PICK m \in Nat \ S : \A x \in Nat \ S : m <= x
    BY <1>1, Least
  <2>. QED
    BY <2>1
<1>. QED
  BY <1>1

-----------------------------------------------------------------------------

\* The numbers the parser goes through are those the writer goes through.
IsValue(v, d, n) == v = [i \in 0..n |-> IF i = 0 THEN 0 ELSE 10 * v[i - 1] + d[i]]
IsQuotients(q, m, n) == q = [i \in 0..n |-> IF i = n THEN m ELSE q[i + 1] \div 10]

LEMMA DecimalValue ==
  ASSUME NEW d, Len(d) \in Nat, NEW v, IsValue(v, d, Len(d)),
         \A u : IsValue(u, d, Len(d)) => u = v
  PROVE  Decimal(d) = v[Len(d)]
<1> DEFINE f == CHOOSE f : IsValue(f, d, Len(d))
<1>1. IsValue(f, d, Len(d))
  OBVIOUS
<1>2. Decimal(d) = f[Len(d)]
  BY DEF Decimal, IsValue
<1> HIDE DEF f
<1>. QED
  BY <1>1, <1>2

LEMMA QuotientsAre ==
  ASSUME NEW m, NEW n, NEW q, IsQuotients(q, m, n)
  PROVE  IsQuotients(Quotients(m, n), m, n)
<1> DEFINE f == CHOOSE f : IsQuotients(f, m, n)
<1>1. IsQuotients(f, m, n)
  OBVIOUS
<1>2. Quotients(m, n) = f
  BY DEF Quotients, IsQuotients
<1> HIDE DEF f
<1>. QED
  BY <1>1, <1>2

LEMMA ValueUnique ==
  ASSUME NEW d, NEW n \in Nat, NEW u, NEW v, IsValue(u, d, n), IsValue(v, d, n)
  PROVE  u = v
<1>1. /\ \A i \in 0..n : u[i] = IF i = 0 THEN 0 ELSE 10 * u[i - 1] + d[i]
      /\ \A i \in 0..n : v[i] = IF i = 0 THEN 0 ELSE 10 * v[i - 1] + d[i]
      /\ u = [i \in 0..n |-> u[i]] /\ v = [i \in 0..n |-> v[i]]
  BY DEF IsValue
<1> DEFINE S == {i \in Nat : i <= n => u[i] = v[i]}
<1>2. 0 \in S
  <2>1. 0 \in 0..n
    OBVIOUS
  <2>2. u[0] = 0 /\ v[0] = 0
    BY <1>1, <2>1
  <2>. QED BY <2>2
<1>3. \A i \in Nat : i \in S => i + 1 \in S
  <2> SUFFICES ASSUME NEW i \in Nat, i \in S, i + 1 <= n PROVE u[i + 1] = v[i + 1]
    OBVIOUS
  <2> DEFINE k == i + 1
  <2>1. k \in 0..n /\ k # 0 /\ k - 1 = i /\ i <= n
    OBVIOUS
  <2>2. u[k - 1] = v[k - 1]
    BY <2>1
  <2> HIDE DEF k
  <2>3. u[k] = v[k]
    BY <1>1, <2>1, <2>2
  <2>. QED
    BY <2>3 DEF k
<1>4. \A i \in Nat : i \in S
  <2> HIDE DEF S
  <2>. QED BY <1>2, <1>3, Induction
<1>5. \A i \in 0..n : u[i] = v[i]
  BY <1>4
<1>. QED
  BY <1>1, <1>5

LEMMA QuotientsUnique ==
  ASSUME NEW m, NEW n \in Nat, NEW u, NEW v, IsQuotients(u, m, n), IsQuotients(v, m, n)
  PROVE  u = v
<1>1. /\ \A i \in 0..n : u[i] = IF i = n THEN m ELSE u[i + 1] \div 10
      /\ \A i \in 0..n : v[i] = IF i = n THEN m ELSE v[i + 1] \div 10
      /\ u = [i \in 0..n |-> u[i]] /\ v = [i \in 0..n |-> v[i]]
  BY DEF IsQuotients
<1> DEFINE S == {i \in Nat : i <= n => u[n - i] = v[n - i]}
<1>2. 0 \in S
  <2>1. n \in 0..n /\ n - 0 = n
    OBVIOUS
  <2>2. u[n] = v[n]
    BY <1>1, <2>1
  <2>. QED BY <2>1, <2>2
<1>3. \A i \in Nat : i \in S => i + 1 \in S
  <2> SUFFICES ASSUME NEW i \in Nat, i \in S, i + 1 <= n PROVE u[n - (i + 1)] = v[n - (i + 1)]
    OBVIOUS
  <2> DEFINE k == n - (i + 1)
  <2>1. k \in 0..n /\ k # n /\ k + 1 = n - i
    OBVIOUS
  <2>2. u[n - i] = v[n - i]
    OBVIOUS
  <2> HIDE DEF k
  <2>3. u[k] = v[k]
    BY <1>1, <2>1, <2>2
  <2>. QED
    BY <2>3 DEF k
<1>4. \A i \in Nat : i \in S
  <2> HIDE DEF S
  <2>. QED BY <1>2, <1>3, Induction
<1>5. \A i \in 0..n : u[i] = v[i]
  <2> TAKE i \in 0..n
  <2>1. n - i \in Nat /\ n - i <= n /\ n - (n - i) = i
    OBVIOUS
  <2>. QED BY <1>4, <2>1
<1>. QED
  BY <1>1, <1>5

\* Every number has its quotients.
LEMMA QuotientsExist ==
  ASSUME NEW n \in Nat, NEW m \in Nat
  PROVE  \E q : IsQuotients(q, m, n)
<1> DEFINE S == {k \in Nat : \A x \in Nat : \E q : IsQuotients(q, x, k)}
<1>1. 0 \in S
  <2> SUFFICES ASSUME NEW x \in Nat PROVE \E q : IsQuotients(q, x, 0)
    OBVIOUS
  <2> DEFINE q == [i \in 0..0 |-> x]
  <2>1. q = [i \in 0..0 |-> IF i = 0 THEN x ELSE q[i + 1] \div 10]
    OBVIOUS
  <2> HIDE DEF q
  <2>2. IsQuotients(q, x, 0)
    BY <2>1 DEF IsQuotients
  <2>. QED BY <2>2
<1>2. ASSUME NEW k \in Nat, k \in S PROVE k + 1 \in S
  <2> SUFFICES ASSUME NEW x \in Nat PROVE \E q : IsQuotients(q, x, k + 1)
    OBVIOUS
  <2>1. x \div 10 \in Nat
    OBVIOUS
  <2>2. PICK g : IsQuotients(g, x \div 10, k)
    BY <1>2, <2>1
  <2>3. \A i \in 0..k : g[i] = IF i = k THEN x \div 10 ELSE g[i + 1] \div 10
    BY <2>2 DEF IsQuotients
  <2> DEFINE q == [i \in 0..k + 1 |-> IF i = k + 1 THEN x ELSE g[i]]
  <2>4. q = [i \in 0..k + 1 |-> q[i]]
    OBVIOUS
  <2>5. \A i \in 0..k + 1 : q[i] = IF i = k + 1 THEN x ELSE g[i]
    OBVIOUS
  <2> HIDE DEF q
  <2>6. \A i \in 0..k + 1 : q[i] = IF i = k + 1 THEN x ELSE q[i + 1] \div 10
    <3> TAKE i \in 0..k + 1
    <3>1. CASE i = k + 1
      BY <3>1, <2>5
    <3>2. CASE i = k
      <4>1. q[i] = x \div 10 /\ q[i + 1] = x
        BY <3>2, <2>3, <2>5
      <4>. QED BY <3>2, <4>1
    <3>3. CASE i \in 0..k /\ i # k
      <4>1. i + 1 \in 0..k /\ i + 1 \in 0..k + 1 /\ i # k + 1 /\ i + 1 # k + 1
        BY <3>3
      <4>. QED BY <3>3, <4>1, <2>3, <2>5
    <3>. QED BY <3>1, <3>2, <3>3
  <2>7. IsQuotients(q, x, k + 1)
    BY <2>4, <2>6 DEF IsQuotients
  <2>. QED BY <2>7
<1>3. \A k \in Nat : k \in S
  <2> HIDE DEF S
  <2>. QED BY <1>1, <1>2, Induction
<1>. QED
  BY <1>3

\* A list of digits has its value.
LEMMA ValueExists ==
  ASSUME NEW d, NEW n \in Nat, \A i \in 1..n : d[i] \in 0..9
  PROVE  \E v : IsValue(v, d, n) /\ \A i \in 0..n : v[i] \in Nat
<1> DEFINE S == {k \in Nat : k <= n => \E v : IsValue(v, d, k) /\ \A i \in 0..k : v[i] \in Nat}
<1>1. 0 \in S
  <2> DEFINE v == [i \in 0..0 |-> 0]
  <2>1. v = [i \in 0..0 |-> IF i = 0 THEN 0 ELSE 10 * v[i - 1] + d[i]] /\ \A i \in 0..0 : v[i] \in Nat
    OBVIOUS
  <2> HIDE DEF v
  <2>2. IsValue(v, d, 0)
    BY <2>1 DEF IsValue
  <2>. QED BY <2>1, <2>2
<1>2. ASSUME NEW k \in Nat, k \in S PROVE k + 1 \in S
  <2> SUFFICES ASSUME k + 1 <= n PROVE \E v : IsValue(v, d, k + 1) /\ \A i \in 0..k + 1 : v[i] \in Nat
    OBVIOUS
  <2>1. k <= n /\ d[k + 1] \in 0..9
    OBVIOUS
  <2>2. PICK g : IsValue(g, d, k) /\ \A i \in 0..k : g[i] \in Nat
    BY <1>2, <2>1
  <2>3. \A i \in 0..k : g[i] = IF i = 0 THEN 0 ELSE 10 * g[i - 1] + d[i]
    BY <2>2 DEF IsValue
  <2> DEFINE v == [i \in 0..k + 1 |-> IF i = k + 1 THEN 10 * g[k] + d[k + 1] ELSE g[i]]
  <2>4. v = [i \in 0..k + 1 |-> v[i]]
    OBVIOUS
  <2>5. \A i \in 0..k + 1 : v[i] = IF i = k + 1 THEN 10 * g[k] + d[k + 1] ELSE g[i]
    OBVIOUS
  <2> HIDE DEF v
  <2>6. \A i \in 0..k + 1 : v[i] = IF i = 0 THEN 0 ELSE 10 * v[i - 1] + d[i]
    <3> TAKE i \in 0..k + 1
    <3>1. CASE i = k + 1
      <4>1. v[i] = 10 * g[k] + d[k + 1] /\ i # 0
        BY <3>1, <2>5
      <4>2. i - 1 = k /\ k \in 0..k + 1 /\ k # k + 1
        BY <3>1
      <4>3. v[i - 1] = g[k]
        BY <4>2, <2>5
      <4>. QED BY <3>1, <4>1, <4>3
    <3>2. CASE i = 0
      <4>1. i \in 0..k /\ i # k + 1
        BY <3>2
      <4>. QED BY <3>2, <4>1, <2>3, <2>5
    <3>3. CASE i \in 1..k
      <4>1. i \in 0..k /\ i # k + 1 /\ i - 1 \in 0..k + 1 /\ i - 1 # k + 1 /\ i # 0
        BY <3>3
      <4>2. v[i] = g[i] /\ v[i - 1] = g[i - 1]
        BY <4>1, <2>5
      <4>. QED BY <4>1, <4>2, <2>3
    <3>. QED BY <3>1, <3>2, <3>3
  <2>7. IsValue(v, d, k + 1)
    BY <2>4, <2>6 DEF IsValue
  <2>8. \A i \in 0..k + 1 : v[i] \in Nat
    <3> TAKE i \in 0..k + 1
    <3>1. g[k] \in Nat /\ (i # k + 1 => g[i] \in Nat)
      BY <2>2
    <3>. QED BY <3>1, <2>1, <2>5
  <2>. QED BY <2>7, <2>8
<1>3. \A k \in Nat : k \in S
  <2> HIDE DEF S
  <2>. QED BY <1>1, <1>2, Induction
<1>. QED
  BY <1>3

LEMMA LastDigit ==
  ASSUME NEW a \in Nat, NEW c \in 0..9
  PROVE  (10 * a + c) \div 10 = a /\ (10 * a + c) % 10 = c
  OBVIOUS

\* Digits are written again as they were parsed.
LEMMA ParsedIsWritten ==
  ASSUME NEW d \in Seq(0..9)
  PROVE  /\ Decimal(d) \in Nat /\ Quotients(Decimal(d), Len(d))[0] = 0
         /\ WrittenAs(Decimal(d), Len(d)) = d
<1> DEFINE n == Len(d)
<1>1. n \in Nat /\ (\A i \in 1..n : d[i] \in 0..9) /\ d = [i \in 1..n |-> d[i]]
  OBVIOUS
<1>2. PICK v : IsValue(v, d, n) /\ \A i \in 0..n : v[i] \in Nat
  BY <1>1, ValueExists
<1>3. \A i \in 0..n : v[i] = IF i = 0 THEN 0 ELSE 10 * v[i - 1] + d[i]
  BY <1>2 DEF IsValue
<1>4. v = [i \in 0..n |-> v[i]]
  BY <1>2 DEF IsValue
<1> HIDE DEF n
<1>5. \A u : IsValue(u, d, n) => u = v
  BY <1>1, <1>2, ValueUnique
<1>6. Decimal(d) = v[n] /\ v[n] \in Nat
  BY <1>1, <1>2, <1>5, DecimalValue DEF n
<1>7. \A i \in 1..n : v[i - 1] = v[i] \div 10 /\ d[i] = v[i] % 10
  <2> TAKE i \in 1..n
  <2>1. i \in 0..n /\ i - 1 \in 0..n /\ i # 0
    BY <1>1
  <2>2. v[i] = 10 * v[i - 1] + d[i] /\ v[i - 1] \in Nat /\ v[i] \in Nat /\ d[i] \in 0..9
    BY <2>1, <1>1, <1>2, <1>3
  <2>3. (10 * v[i - 1] + d[i]) \div 10 = v[i - 1] /\ (10 * v[i - 1] + d[i]) % 10 = d[i]
    BY <2>2, LastDigit
  <2>. QED BY <2>2, <2>3, Zenon
<1>8. \A i \in 0..n : v[i] = IF i = n THEN v[n] ELSE v[i + 1] \div 10
  <2> TAKE i \in 0..n
  <2> SUFFICES ASSUME i # n PROVE v[i] = v[i + 1] \div 10
    OBVIOUS
  <2> DEFINE k == i + 1
  <2>1. k \in 1..n /\ k - 1 = i
    BY <1>1
  <2> HIDE DEF k
  <2>2. v[i] = v[k] \div 10
    BY <2>1, <1>7
  <2>. QED BY <2>2 DEF k
<1>9. IsQuotients(v, v[n], n)
  BY <1>4, <1>8 DEF IsQuotients
<1>10. Quotients(v[n], n) = v
  <2>1. IsQuotients(Quotients(v[n], n), v[n], n)
    BY <1>9, QuotientsAre
  <2>. QED BY <2>1, <1>1, <1>9, QuotientsUnique
<1>11. v[0] = 0
  <2>1. 0 \in 0..n
    BY <1>1
  <2>. QED BY <2>1, <1>3
<1>12. WrittenAs(v[n], n) = [i \in 1..n |-> v[i] % 10]
  BY <1>10 DEF WrittenAs
<1>13. WrittenAs(v[n], n) = d
  BY <1>1, <1>7, <1>12
<1>. QED
  BY <1>6, <1>10, <1>11, <1>13 DEF n

\* A number is parsed as it was written, in as many digits as it needs.
LEMMA WrittenIsParsed ==
  ASSUME NEW m \in Nat, NEW n \in Nat, Quotients(m, n)[0] = 0
  PROVE  WrittenAs(m, n) \in Seq(0..9) /\ Len(WrittenAs(m, n)) = n /\ Decimal(WrittenAs(m, n)) = m
<1> DEFINE q == Quotients(m, n)
           w == WrittenAs(m, n)
<1>1. IsQuotients(q, m, n)
  <2>1. PICK u : IsQuotients(u, m, n)
    BY QuotientsExist
  <2>. QED BY <2>1, QuotientsAre
<1>2. w = [i \in 1..n |-> q[i] % 10]
  BY DEF WrittenAs
<1>3. q = [i \in 0..n |-> q[i]] /\ \A i \in 0..n : q[i] = IF i = n THEN m ELSE q[i + 1] \div 10
  BY <1>1 DEF IsQuotients
<1>4. q[0] = 0
  OBVIOUS
<1> HIDE DEF q, w
<1>5. \A i \in 0..n : q[i] \in Nat
  <2> DEFINE S == {k \in Nat : k <= n => q[n - k] \in Nat}
  <2>1. 0 \in S
    <3>1. n \in 0..n /\ n - 0 = n
      OBVIOUS
    <3>2. q[n] = m
      BY <1>3, <3>1
    <3>. QED BY <3>1, <3>2
  <2>2. \A k \in Nat : k \in S => k + 1 \in S
    <3> SUFFICES ASSUME NEW k \in Nat, k \in S, k + 1 <= n PROVE q[n - (k + 1)] \in Nat
      OBVIOUS
    <3> DEFINE j == n - (k + 1)
    <3>1. j \in 0..n /\ j # n /\ j + 1 = n - k /\ q[n - k] \in Nat
      OBVIOUS
    <3> HIDE DEF j
    <3>2. q[j] = q[j + 1] \div 10 /\ q[j + 1] \in Nat
      BY <3>1, <1>3
    <3>3. q[j] \in Nat
      BY <3>2
    <3>. QED BY <3>3 DEF j
  <2>3. \A k \in Nat : k \in S
    <3> HIDE DEF S
    <3>. QED BY <2>1, <2>2, Induction
  <2> TAKE i \in 0..n
  <2>4. n - i \in Nat /\ n - i <= n /\ n - (n - i) = i
    OBVIOUS
  <2>. QED BY <2>3, <2>4
<1>6. \A i \in 1..n : w[i] = q[i] % 10 /\ q[i] \in Nat /\ w[i] \in 0..9 /\ q[i] = 10 * q[i - 1] + w[i]
  <2> TAKE i \in 1..n
  <2> DEFINE k == i - 1
  <2>1. k \in 0..n /\ k # n /\ k + 1 = i /\ i \in 0..n
    OBVIOUS
  <2>2. w[i] = q[i] % 10
    BY <1>2
  <2> HIDE DEF k
  <2>3. q[k] = q[i] \div 10 /\ q[i] \in Nat
    BY <2>1, <1>3, <1>5
  <2>4. q[i] = 10 * q[k] + w[i] /\ w[i] \in 0..9
    BY <2>2, <2>3
  <2>. QED BY <2>2, <2>3, <2>4 DEF k
<1>7. w \in Seq(0..9) /\ Len(w) = n
  <2>1. w \in [1..n -> 0..9]
    BY <1>2, <1>6
  <2>. QED BY <2>1
<1>8. \A i \in 0..n : q[i] = IF i = 0 THEN 0 ELSE 10 * q[i - 1] + w[i]
  BY <1>4, <1>6
<1>9. IsValue(q, w, n)
  BY <1>3, <1>8 DEF IsValue
<1>10. \A u : IsValue(u, w, n) => u = q
  BY <1>9, ValueUnique
<1>11. Decimal(w) = q[n]
  BY <1>7, <1>9, <1>10, DecimalValue
<1>12. q[n] = m
  <2>1. n \in 0..n
    OBVIOUS
  <2>. QED BY <2>1, <1>3
<1>. QED
  BY <1>7, <1>11, <1>12 DEF w

\* Bytes: what follows from position i on, what comes before, two parts put together.
LEMMA FromIs ==
  ASSUME NEW s \in Seq(Byte), NEW i \in 1..Len(s) + 1
  PROVE  /\ From(s, i) \in Seq(Byte) /\ Len(From(s, i)) = Len(s) - i + 1
         /\ \A k \in 1..Len(s) - i + 1 : From(s, i)[k] = s[i + k - 1]
<1>1. Len(s) \in Nat /\ \A k \in i..Len(s) : s[k] \in Byte
  OBVIOUS
<1>. QED
  BY <1>1, SubSeqProperties DEF From

LEMMA PrefixIs ==
  ASSUME NEW s \in Seq(Byte), NEW n \in 0..Len(s)
  PROVE  /\ SubSeq(s, 1, n) \in Seq(Byte) /\ Len(SubSeq(s, 1, n)) = n
         /\ \A k \in 1..n : SubSeq(s, 1, n)[k] = s[k]
<1>1. Len(s) \in Nat /\ \A k \in 1..n : s[k] \in Byte
  OBVIOUS
<1>2. /\ SubSeq(s, 1, n) \in Seq(Byte) /\ Len(SubSeq(s, 1, n)) = IF 1 <= n THEN n - 1 + 1 ELSE 0
      /\ \A k \in 1..n - 1 + 1 : SubSeq(s, 1, n)[k] = s[1 + k - 1]
  BY <1>1, SubSeqProperties
<1>3. \A k \in 1..n : k \in 1..n - 1 + 1 /\ 1 + k - 1 = k
  OBVIOUS
<1>. QED
  BY <1>2, <1>3

LEMMA JoinIs ==
  ASSUME NEW s \in Seq(Byte), NEW t \in Seq(Byte)
  PROVE  /\ s \o t \in Seq(Byte) /\ Len(s \o t) = Len(s) + Len(t)
         /\ \A k \in 1..Len(s) : (s \o t)[k] = s[k]
         /\ \A k \in 1..Len(t) : (s \o t)[Len(s) + k] = t[k]
<1>1. Len(s) \in Nat /\ Len(t) \in Nat
  OBVIOUS
<1>2. /\ s \o t \in Seq(Byte) /\ Len(s \o t) = Len(s) + Len(t)
      /\ \A k \in 1..Len(s) + Len(t) : (s \o t)[k] = IF k <= Len(s) THEN s[k] ELSE t[k - Len(s)]
  BY ConcatProperties
<1>3. \A k \in 1..Len(s) : (s \o t)[k] = s[k]
  BY <1>1, <1>2
<1>4. ASSUME NEW k \in 1..Len(t) PROVE (s \o t)[Len(s) + k] = t[k]
  <2>1. Len(s) + k \in 1..Len(s) + Len(t) /\ ~(Len(s) + k <= Len(s)) /\ (Len(s) + k) - Len(s) = k
    BY <1>1
  <2>. QED BY <1>2, <2>1
<1>. QED
  BY <1>2, <1>3, <1>4

LEMMA BytesEqual ==
  ASSUME NEW s \in Seq(Byte), NEW t \in Seq(Byte), Len(s) = Len(t), \A k \in 1..Len(s) : s[k] = t[k]
  PROVE  s = t
  BY SeqEqual

\* A beginning and what follows are the whole.
LEMMA CutAndJoin ==
  ASSUME NEW s \in Seq(Byte), NEW n \in 0..Len(s)
  PROVE  s = SubSeq(s, 1, n) \o From(s, n + 1)
<1> DEFINE a == SubSeq(s, 1, n)
           b == From(s, n + 1)
<1>1. Len(s) \in Nat /\ n \in Nat /\ n + 1 \in 1..Len(s) + 1
  OBVIOUS
<1>2. a \in Seq(Byte) /\ Len(a) = n /\ \A k \in 1..n : a[k] = s[k]
  BY PrefixIs
<1>3. b \in Seq(Byte) /\ Len(b) = Len(s) - n /\ \A k \in 1..Len(s) - n : b[k] = s[n + k]
  <2>1. /\ b \in Seq(Byte) /\ Len(b) = Len(s) - (n + 1) + 1
        /\ \A k \in 1..Len(s) - (n + 1) + 1 : b[k] = s[(n + 1) + k - 1]
    BY <1>1, FromIs
  <2>2. Len(s) - (n + 1) + 1 = Len(s) - n /\ \A k \in Nat : (n + 1) + k - 1 = n + k
    BY <1>1
  <2>. QED BY <1>1, <2>1, <2>2
<1> HIDE DEF a, b
<1>4. /\ a \o b \in Seq(Byte) /\ Len(a \o b) = Len(a) + Len(b)
      /\ \A k \in 1..Len(a) : (a \o b)[k] = a[k]
      /\ \A k \in 1..Len(b) : (a \o b)[Len(a) + k] = b[k]
  BY <1>2, <1>3, JoinIs
<1>5. Len(a \o b) = Len(s)
  BY <1>1, <1>2, <1>3, <1>4
<1>6. \A k \in 1..Len(s) : s[k] = (a \o b)[k]
  <2> TAKE k \in 1..Len(s)
  <2>1. CASE k <= n
    BY <2>1, <1>1, <1>2, <1>4
  <2>2. CASE k > n
    <3>1. k - n \in 1..Len(s) - n /\ n + (k - n) = k
      BY <2>2, <1>1
    <3>2. (a \o b)[n + (k - n)] = b[k - n] /\ b[k - n] = s[n + (k - n)]
      BY <3>1, <1>2, <1>3, <1>4
    <3>. QED BY <3>1, <3>2
  <2>3. k <= n \/ k > n
    BY <1>1
  <2>. QED BY <2>1, <2>2, <2>3
<1>7. s = a \o b
  BY <1>4, <1>5, <1>6, BytesEqual
<1>. QED
  BY <1>7 DEF a, b

\* The first byte that is no noise, and the first hash.
LEMMA BeginsIs ==
  ASSUME NEW s \in Seq(Byte)
  PROVE  /\ Begins(s) \in 0..Len(s)
         /\ Begins(s) = 0 => \A i \in 1..Len(s) : IsNoise(s[i])
         /\ Begins(s) # 0 => ~IsNoise(s[Begins(s)]) /\ \A i \in 1..Begins(s) - 1 : IsNoise(s[i])
<1> DEFINE I == {i \in 1..Len(s) : ~IsNoise(s[i])}
<1>1. Begins(s) = IF I # {} THEN Min(I) ELSE 0
  BY DEF Begins, SelectInSeq
<1>2. Len(s) \in Nat /\ I \subseteq Nat
  OBVIOUS
<1>3. CASE I = {}
  BY <1>1, <1>2, <1>3
<1>4. CASE I # {}
  <2>1. \E m \in I : \A x \in I : m <= x
    BY <1>2, <1>4, Least
  <2>2. Min(I) \in I /\ \A x \in I : Min(I) <= x
    BY <2>1 DEF Min
  <2> HIDE DEF I
  <2>3. Begins(s) \in I /\ \A x \in I : Begins(s) <= x
    BY <1>1, <1>4, <2>2
  <2>4. Begins(s) \in 1..Len(s) /\ ~IsNoise(s[Begins(s)])
    BY <2>3 DEF I
  <2>5. ASSUME NEW i \in 1..Begins(s) - 1, ~IsNoise(s[i]) PROVE FALSE
    <3>1. i \in I
      BY <2>4, <2>5, <1>2 DEF I
    <3>. QED BY <3>1, <2>3, <2>4, <1>2
  <2>. QED BY <2>4, <2>5, <1>2
<1>. QED
  BY <1>3, <1>4

LEMMA HashIs ==
  ASSUME NEW s \in Seq(Byte)
  PROVE  /\ HashAt(s) \in 0..Len(s)
         /\ HashAt(s) = 0 => \A i \in 1..Len(s) : s[i] # Hash
         /\ HashAt(s) # 0 => s[HashAt(s)] = Hash /\ \A i \in 1..HashAt(s) - 1 : s[i] # Hash
<1> DEFINE I == {i \in 1..Len(s) : s[i] = Hash}
<1>1. HashAt(s) = IF I # {} THEN Min(I) ELSE 0
  BY DEF HashAt, SelectInSeq
<1>2. Len(s) \in Nat /\ I \subseteq Nat
  OBVIOUS
<1>3. CASE I = {}
  BY <1>1, <1>2, <1>3
<1>4. CASE I # {}
  <2>1. \E m \in I : \A x \in I : m <= x
    BY <1>2, <1>4, Least
  <2>2. Min(I) \in I /\ \A x \in I : Min(I) <= x
    BY <2>1 DEF Min
  <2> HIDE DEF I
  <2>3. HashAt(s) \in I /\ \A x \in I : HashAt(s) <= x
    BY <1>1, <1>4, <2>2
  <2>4. HashAt(s) \in 1..Len(s) /\ s[HashAt(s)] = Hash
    BY <2>3 DEF I
  <2>5. ASSUME NEW i \in 1..HashAt(s) - 1, s[i] = Hash PROVE FALSE
    <3>1. i \in I
      BY <2>4, <2>5, <1>2 DEF I
    <3>. QED BY <3>1, <2>3, <2>4, <1>2
  <2>. QED BY <2>4, <2>5, <1>2
<1>. QED
  BY <1>3, <1>4

\* What is heard of a stream: its bytes from the first that is no noise.
LEMMA HeardIs ==
  ASSUME NEW s \in Seq(Byte)
  PROVE  /\ Heard(s) \in Seq(Byte)
         /\ Begins(s) = 0 => Heard(s) = <<>>
         /\ Begins(s) # 0 => Heard(s) = From(s, Begins(s)) /\ Len(Heard(s)) = Len(s) - Begins(s) + 1
                             /\ Heard(s) # <<>>
<1>1. Len(s) \in Nat /\ Begins(s) \in 0..Len(s)
  BY BeginsIs
<1>2. CASE Begins(s) = 0
  BY <1>2 DEF Heard
<1>3. CASE Begins(s) # 0
  <2>1. Begins(s) \in 1..Len(s) + 1 /\ Len(s) - Begins(s) + 1 > 0
    BY <1>1, <1>3
  <2>2. Heard(s) = From(s, Begins(s))
    BY <1>3 DEF Heard
  <2>3. Heard(s) \in Seq(Byte) /\ Len(Heard(s)) = Len(s) - Begins(s) + 1
    BY <2>1, <2>2, FromIs
  <2>4. Heard(s) # <<>>
    BY <2>1, <2>3
  <2>. QED BY <1>3, <2>2, <2>3, <2>4
<1>. QED
  BY <1>2, <1>3

\* Once the reply has begun, whatever comes is heard.
LEMMA HeardMore ==
  ASSUME NEW u \in Seq(Byte), NEW c \in Seq(Byte)
  PROVE  Heard(u \o c) = IF Heard(u) # <<>> THEN Heard(u) \o c ELSE Heard(c)
<1> DEFINE s == u \o c
           m == Len(u)
<1>1. /\ s \in Seq(Byte) /\ Len(s) = m + Len(c) /\ m \in Nat /\ Len(c) \in Nat /\ Len(s) \in Nat
      /\ \A k \in 1..m : s[k] = u[k]
      /\ \A k \in 1..Len(c) : s[m + k] = c[k]
  BY JoinIs
<1> HIDE DEF s, m
<1>2. /\ Begins(s) \in 0..Len(s)
      /\ Begins(s) = 0 => \A i \in 1..Len(s) : IsNoise(s[i])
      /\ Begins(s) # 0 => ~IsNoise(s[Begins(s)]) /\ \A i \in 1..Begins(s) - 1 : IsNoise(s[i])
  BY <1>1, BeginsIs
<1>3. /\ Begins(u) \in 0..m
      /\ Begins(u) = 0 => \A i \in 1..m : IsNoise(u[i])
      /\ Begins(u) # 0 => ~IsNoise(u[Begins(u)]) /\ \A i \in 1..Begins(u) - 1 : IsNoise(u[i])
  BY BeginsIs DEF m
<1>4. /\ Begins(c) \in 0..Len(c)
      /\ Begins(c) = 0 => \A i \in 1..Len(c) : IsNoise(c[i])
      /\ Begins(c) # 0 => ~IsNoise(c[Begins(c)]) /\ \A i \in 1..Begins(c) - 1 : IsNoise(c[i])
  BY BeginsIs
<1>5. /\ Heard(s) \in Seq(Byte)
      /\ Begins(s) = 0 => Heard(s) = <<>>
      /\ Begins(s) # 0 => Heard(s) = From(s, Begins(s)) /\ Len(Heard(s)) = Len(s) - Begins(s) + 1
  BY <1>1, HeardIs
<1>6. CASE Begins(u) # 0
  <2> DEFINE b == Begins(u)
  <2>1. b \in 1..m /\ b \in 1..m + 1 /\ b \in 1..Len(s) + 1 /\ b \in 1..Len(s)
    BY <1>1, <1>3, <1>6
  <2>2. Begins(s) = b
    <3>1. ~IsNoise(s[b]) /\ \A i \in 1..b - 1 : IsNoise(s[i])
      <4>1. s[b] = u[b]
        BY <1>1, <2>1
      <4>2. ASSUME NEW i \in 1..b - 1 PROVE IsNoise(s[i])
        <5>1. i \in 1..m
          BY <2>1, <1>1
        <5>2. s[i] = u[i]
          BY <5>1, <1>1
        <5>. QED BY <5>2, <1>3, <1>6
      <4>. QED BY <4>1, <4>2, <1>3, <1>6
    <3>2. Begins(s) # 0
      BY <1>2, <2>1, <3>1
    <3>3. ~(Begins(s) < b)
      BY <1>1, <1>2, <2>1, <3>1, <3>2
    <3>4. ~(b < Begins(s))
      BY <1>1, <1>2, <2>1, <3>1, <3>2
    <3>. QED BY <1>1, <1>2, <2>1, <3>3, <3>4
  <2>3. Heard(u) = From(u, b) /\ Heard(u) # <<>> /\ Heard(u) \in Seq(Byte) /\ Len(Heard(u)) = m - b + 1
    BY <1>6, HeardIs DEF m
  <2>4. \A k \in 1..m - b + 1 : Heard(u)[k] = u[b + k - 1]
    BY <2>1, <2>3, FromIs DEF m
  <2>5. Heard(s) = From(s, b) /\ Len(Heard(s)) = Len(s) - b + 1
    BY <1>5, <2>1, <2>2
  <2>6. \A k \in 1..Len(s) - b + 1 : Heard(s)[k] = s[b + k - 1]
    BY <1>1, <2>1, <2>5, FromIs
  <2> DEFINE h == Heard(u)
  <2> HIDE DEF b, h
  <2>7. /\ h \o c \in Seq(Byte) /\ Len(h \o c) = Len(h) + Len(c)
        /\ \A k \in 1..Len(h) : (h \o c)[k] = h[k]
        /\ \A k \in 1..Len(c) : (h \o c)[Len(h) + k] = c[k]
    BY <2>3, JoinIs DEF h
  <2>8. Len(Heard(s)) = Len(h \o c)
    BY <1>1, <2>1, <2>3, <2>5, <2>7 DEF h
  <2>9. ASSUME NEW k \in 1..Len(Heard(s)) PROVE Heard(s)[k] = (h \o c)[k]
    <3>1. Heard(s)[k] = s[b + k - 1]
      BY <2>5, <2>6
    <3>2. CASE k <= m - b + 1
      <4>1. k \in 1..m - b + 1 /\ b + k - 1 \in 1..m
        BY <3>2, <1>1, <2>1
      <4>2. s[b + k - 1] = u[b + k - 1] /\ h[k] = u[b + k - 1]
        BY <4>1, <1>1, <2>4 DEF h
      <4>3. (h \o c)[k] = h[k]
        BY <4>1, <2>3, <2>7 DEF h
      <4>. QED BY <3>1, <4>2, <4>3
    <3>3. CASE k > m - b + 1
      <4> DEFINE j == k - (m - b + 1)
      <4>1. j \in 1..Len(c) /\ b + k - 1 = m + j /\ k = (m - b + 1) + j
        BY <3>3, <1>1, <2>1, <2>5
      <4> HIDE DEF j
      <4>2. s[b + k - 1] = c[j]
        BY <4>1, <1>1
      <4>3. (h \o c)[k] = c[j]
        BY <4>1, <2>3, <2>7 DEF h
      <4>. QED BY <3>1, <4>2, <4>3
    <3>4. k <= m - b + 1 \/ k > m - b + 1
      BY <1>1, <2>1
    <3>. QED BY <3>2, <3>3, <3>4
  <2>10. Heard(s) = h \o c
    BY <1>5, <2>7, <2>8, <2>9, BytesEqual
  <2>. QED BY <2>10, <2>3 DEF h, s
<1>7. CASE Begins(u) = 0
  <2>1. Heard(u) = <<>>
    BY <1>7, HeardIs
  <2>2. \A i \in 1..m : IsNoise(s[i])
    BY <1>1, <1>3, <1>7
  <2>3. CASE Begins(c) = 0
    <3>1. ASSUME NEW i \in 1..Len(s) PROVE IsNoise(s[i])
      <4>1. CASE i <= m
        BY <4>1, <1>1, <2>2
      <4>2. CASE i > m
        <5>1. i - m \in 1..Len(c) /\ m + (i - m) = i
          BY <4>2, <1>1
        <5>2. s[m + (i - m)] = c[i - m] /\ IsNoise(c[i - m])
          BY <5>1, <1>1, <1>4, <2>3
        <5>. QED BY <5>1, <5>2
      <4>3. i <= m \/ i > m
        BY <1>1
      <4>. QED BY <4>1, <4>2, <4>3
    <3>2. Begins(s) = 0
      BY <1>1, <1>2, <3>1
    <3>3. Heard(c) = <<>>
      BY <2>3, HeardIs
    <3>. QED BY <1>5, <2>1, <3>2, <3>3 DEF s
  <2>4. CASE Begins(c) # 0
    <3> DEFINE b == Begins(c)
    <3>1. b \in 1..Len(c) /\ m + b \in 1..Len(s) /\ b \in 1..Len(c) + 1 /\ m + b \in 1..Len(s) + 1
      BY <1>1, <1>4, <2>4
    <3>2. Begins(s) = m + b
      <4>1. ~IsNoise(s[m + b])
        BY <1>1, <1>4, <2>4, <3>1
      <4>2. ASSUME NEW i \in 1..(m + b) - 1 PROVE IsNoise(s[i])
        <5>1. CASE i <= m
          BY <5>1, <1>1, <2>2
        <5>2. CASE i > m
          <6>1. i - m \in 1..b - 1 /\ i - m \in 1..Len(c) /\ m + (i - m) = i
            BY <5>2, <1>1, <3>1
          <6>2. s[m + (i - m)] = c[i - m] /\ IsNoise(c[i - m])
            BY <6>1, <1>1, <1>4, <2>4
          <6>. QED BY <6>1, <6>2
        <5>3. i <= m \/ i > m
          BY <1>1
        <5>. QED BY <5>1, <5>2, <5>3
      <4>3. Begins(s) # 0
        BY <1>2, <3>1, <4>1
      <4>4. ~(Begins(s) < m + b)
        <5>1. Begins(s) < m + b => Begins(s) \in 1..(m + b) - 1
          BY <1>1, <1>2, <3>1, <4>3
        <5>. QED BY <5>1, <1>2, <4>2, <4>3
      <4>5. ~(m + b < Begins(s))
        BY <1>1, <1>2, <3>1, <4>1, <4>3
      <4>. QED BY <1>1, <1>2, <3>1, <4>4, <4>5
    <3>3. Heard(c) \in Seq(Byte) /\ Heard(c) = From(c, b) /\ Len(Heard(c)) = Len(c) - b + 1
      BY <2>4, HeardIs
    <3>4. \A k \in 1..Len(c) - b + 1 : Heard(c)[k] = c[b + k - 1]
      BY <3>1, <3>3, FromIs
    <3>5. Heard(s) = From(s, m + b) /\ Len(Heard(s)) = Len(s) - (m + b) + 1
      BY <1>1, <1>5, <3>1, <3>2
    <3>6. \A k \in 1..Len(s) - (m + b) + 1 : Heard(s)[k] = s[(m + b) + k - 1]
      BY <1>1, <3>1, <3>5, FromIs
    <3> HIDE DEF b
    <3>7. Len(Heard(s)) = Len(Heard(c))
      BY <1>1, <3>1, <3>3, <3>5
    <3>8. ASSUME NEW k \in 1..Len(Heard(s)) PROVE Heard(s)[k] = Heard(c)[k]
      <4>1. k \in 1..Len(c) - b + 1 /\ b + k - 1 \in 1..Len(c) /\ (m + b) + k - 1 = m + (b + k - 1)
        BY <1>1, <3>1, <3>5
      <4>2. Heard(s)[k] = s[m + (b + k - 1)]
        BY <4>1, <3>5, <3>6
      <4>3. Heard(c)[k] = c[b + k - 1] /\ s[m + (b + k - 1)] = c[b + k - 1]
        BY <4>1, <1>1, <3>4
      <4>. QED BY <4>2, <4>3
    <3>9. Heard(s) = Heard(c)
      BY <1>5, <3>3, <3>7, <3>8, BytesEqual
    <3>. QED BY <2>1, <3>9 DEF s
  <2>. QED BY <2>3, <2>4
<1>. QED
  BY <1>6, <1>7

\* How the bytes the framer holds come from what was heard: from a block, a prefix is gone.
NoHash(s, n) == \A i \in 1..n : s[i] # Hash
Kept(h, b) ==
  IF rx.reply # "block" THEN b = h
  ELSE \E p \in 0..PrefixMax :
         /\ p <= Len(h) /\ NoHash(h, p) /\ b = From(h, p + 1)
         /\ \/ b # <<>> /\ b[1] = Hash
            \/ p = 0 /\ \A i \in 1..Len(b) : i <= PrefixMax + 1 => b[i] # Hash

LEMMA FromFirst ==
  ASSUME NEW s \in Seq(Byte)
  PROVE  From(s, 1) = s
<1>. QED
  BY SubSeqFull DEF From

LEMMA FromJoin ==
  ASSUME NEW s \in Seq(Byte), NEW c \in Seq(Byte), NEW i \in 1..Len(s) + 1
  PROVE  From(s \o c, i) = From(s, i) \o c
<1> DEFINE a == From(s, i)
           t == s \o c
<1>1. /\ t \in Seq(Byte) /\ Len(t) = Len(s) + Len(c)
      /\ \A k \in 1..Len(s) : t[k] = s[k]
      /\ \A k \in 1..Len(c) : t[Len(s) + k] = c[k]
  BY JoinIs
<1>2. Len(s) \in Nat /\ Len(c) \in Nat /\ Len(t) \in Nat
  BY <1>1
<1>3. a \in Seq(Byte) /\ Len(a) = Len(s) - i + 1 /\ \A k \in 1..Len(s) - i + 1 : a[k] = s[i + k - 1]
  BY FromIs
<1> HIDE DEF a, t
<1>4. i \in 1..Len(t) + 1
  BY <1>1, <1>2
<1>5. /\ From(t, i) \in Seq(Byte) /\ Len(From(t, i)) = Len(t) - i + 1
      /\ \A k \in 1..Len(t) - i + 1 : From(t, i)[k] = t[i + k - 1]
  BY <1>1, <1>4, FromIs
<1>6. /\ a \o c \in Seq(Byte) /\ Len(a \o c) = Len(a) + Len(c)
      /\ \A k \in 1..Len(a) : (a \o c)[k] = a[k]
      /\ \A k \in 1..Len(c) : (a \o c)[Len(a) + k] = c[k]
  BY <1>3, JoinIs
<1>7. Len(From(t, i)) = Len(a \o c)
  BY <1>1, <1>2, <1>3, <1>5, <1>6
<1>8. ASSUME NEW k \in 1..Len(From(t, i)) PROVE From(t, i)[k] = (a \o c)[k]
  <2>1. From(t, i)[k] = t[i + k - 1]
    BY <1>5
  <2>2. CASE k <= Len(a)
    <3>1. k \in 1..Len(a) /\ k \in 1..Len(s) - i + 1 /\ i + k - 1 \in 1..Len(s)
      BY <2>2, <1>2, <1>3
    <3>2. t[i + k - 1] = s[i + k - 1] /\ a[k] = s[i + k - 1] /\ (a \o c)[k] = a[k]
      BY <3>1, <1>1, <1>3, <1>6
    <3>. QED BY <2>1, <3>2
  <2>3. CASE k > Len(a)
    <3> DEFINE j == k - Len(a)
    <3>1. j \in 1..Len(c) /\ i + k - 1 = Len(s) + j /\ k = Len(a) + j
      BY <2>3, <1>1, <1>2, <1>3, <1>5
    <3> HIDE DEF j
    <3>2. t[Len(s) + j] = c[j] /\ (a \o c)[Len(a) + j] = c[j]
      BY <3>1, <1>1, <1>6
    <3>. QED BY <2>1, <3>1, <3>2
  <2>4. k <= Len(a) \/ k > Len(a)
    BY <1>3
  <2>. QED BY <2>2, <2>3, <2>4
<1>9. From(t, i) = a \o c
  BY <1>5, <1>6, <1>7, <1>8, BytesEqual
<1>. QED
  BY <1>9 DEF a, t

RxTypes == rx \in RxFraming /\ PrefixMax \in Nat

\* A header that is there is not drained; of a whole reply a short prefix is.
LEMMA DrainWhole ==
  ASSUME RxTypes, rx.reply = "block", NEW s \in Seq(Byte)
  PROVE  Kept(s, Drained(s)) /\ Drained(s) \in Seq(Byte)
<1>1. /\ HashAt(s) \in 0..Len(s)
      /\ HashAt(s) = 0 => \A i \in 1..Len(s) : s[i] # Hash
      /\ HashAt(s) # 0 => s[HashAt(s)] = Hash /\ \A i \in 1..HashAt(s) - 1 : s[i] # Hash
  BY HashIs
<1>2. Len(s) \in Nat /\ PrefixMax \in Nat
  BY DEF RxTypes
<1>3. CASE HashAt(s) \in 1..PrefixMax + 1
  <2> DEFINE p == HashAt(s) - 1
             b == From(s, HashAt(s))
  <2>1. p \in 0..PrefixMax /\ p <= Len(s) /\ HashAt(s) \in 1..Len(s) + 1 /\ p + 1 = HashAt(s) /\ HashAt(s) # 0
    BY <1>1, <1>2, <1>3
  <2>2. Drained(s) = b
    BY <1>3 DEF Drained
  <2>3. /\ b \in Seq(Byte) /\ Len(b) = Len(s) - HashAt(s) + 1
        /\ \A k \in 1..Len(s) - HashAt(s) + 1 : b[k] = s[HashAt(s) + k - 1]
    BY <2>1, FromIs
  <2>4. Len(s) - HashAt(s) + 1 >= 1 /\ 1 \in 1..Len(s) - HashAt(s) + 1 /\ HashAt(s) + 1 - 1 = HashAt(s)
    BY <1>1, <1>2, <2>1
  <2>5. b[1] = Hash /\ b # <<>>
    BY <1>1, <2>1, <2>3, <2>4
  <2>6. NoHash(s, p)
    BY <1>1, <2>1 DEF NoHash
  <2>7. b = From(s, p + 1)
    BY <2>1
  <2> HIDE DEF p, b
  <2>. QED BY <2>1, <2>2, <2>3, <2>5, <2>6, <2>7 DEF Kept
<1>4. CASE HashAt(s) \notin 1..PrefixMax + 1
  <2>1. Drained(s) = s
    BY <1>4 DEF Drained
  <2>2. \A i \in 1..Len(s) : i <= PrefixMax + 1 => s[i] # Hash
    <3> TAKE i \in 1..Len(s)
    <3>1. CASE HashAt(s) = 0
      BY <3>1, <1>1
    <3>2. CASE HashAt(s) # 0
      <4>1. HashAt(s) > PrefixMax + 1
        BY <3>2, <1>1, <1>2, <1>4
      <4>2. i <= PrefixMax + 1 => i \in 1..HashAt(s) - 1
        BY <4>1, <1>1, <1>2
      <4>. QED BY <4>2, <3>2, <1>1
    <3>. QED BY <3>1, <3>2
  <2>3. s = From(s, 0 + 1) /\ 0 \in 0..PrefixMax /\ 0 <= Len(s) /\ NoHash(s, 0)
    BY <1>2, FromFirst DEF NoHash
  <2>. QED BY <2>1, <2>2, <2>3 DEF Kept
<1>. QED
  BY <1>3, <1>4

LEMMA DrainHeader ==
  ASSUME RxTypes, rx.reply = "block", NEW b \in Seq(Byte), b # <<>>, b[1] = Hash
  PROVE  Drained(b) = b
<1>1. /\ HashAt(b) \in 0..Len(b)
      /\ HashAt(b) = 0 => \A i \in 1..Len(b) : b[i] # Hash
      /\ HashAt(b) # 0 => b[HashAt(b)] = Hash /\ \A i \in 1..HashAt(b) - 1 : b[i] # Hash
  BY HashIs
<1>2. Len(b) \in Nat /\ Len(b) # 0 /\ 1 \in 1..Len(b)
  <2>1. Len(b) \in Nat \ {0}
    BY EmptySeq
  <2>. QED BY <2>1
<1>3. HashAt(b) # 0
  BY <1>1, <1>2
<1>4. ~(1 \in 1..HashAt(b) - 1)
  BY <1>1, <1>3
<1>5. HashAt(b) = 1
  BY <1>1, <1>2, <1>3, <1>4
<1>6. From(b, HashAt(b)) = b
  BY <1>5, FromFirst
<1>. QED
  BY <1>6 DEF Drained

\* A chunk leaves in the buffer what was heard, but for the prefix of a block.
LEMMA ChunkKept ==
  ASSUME RxTypes, NEW h \in Seq(Byte), NEW c \in Seq(Byte), buf \in Seq(Byte), Kept(h, buf)
  PROVE  /\ Drained(Fed(c)) \in Seq(Byte)
         /\ Kept(IF h # <<>> THEN h \o c ELSE Heard(c), Drained(Fed(c)))
<1> DEFINE t == IF h # <<>> THEN h \o c ELSE Heard(c)
<1>1. /\ t \in Seq(Byte) /\ h \o c \in Seq(Byte) /\ Len(h \o c) = Len(h) + Len(c)
      /\ \A k \in 1..Len(h) : (h \o c)[k] = h[k]
  BY HeardIs, JoinIs
<1>2. CASE rx.reply # "block"
  <2>1. buf = h
    BY <1>2 DEF Kept
  <2>2. Fed(c) = t
    BY <2>1 DEF Fed
  <2>3. Drained(Fed(c)) = t
    BY <1>2, <2>2 DEF Drained
  <2> HIDE DEF t
  <2>4. Kept(t, t)
    BY <1>2 DEF Kept
  <2>. QED BY <1>1, <2>3, <2>4 DEF t
<1>3. CASE rx.reply = "block"
  <2>1. PICK p \in 0..PrefixMax :
          /\ p <= Len(h) /\ NoHash(h, p) /\ buf = From(h, p + 1)
          /\ \/ buf # <<>> /\ buf[1] = Hash
             \/ p = 0 /\ \A i \in 1..Len(buf) : i <= PrefixMax + 1 => buf[i] # Hash
    BY <1>3 DEF Kept
  <2>2. CASE buf # <<>> /\ buf[1] = Hash
    <3>1. /\ buf \o c \in Seq(Byte) /\ Len(buf \o c) = Len(buf) + Len(c)
          /\ \A k \in 1..Len(buf) : (buf \o c)[k] = buf[k]
      BY JoinIs
    <3>2. Len(buf) \in Nat \ {0} /\ Len(c) \in Nat /\ Len(h) \in Nat
      BY <2>2, EmptySeq
    <3>3. (buf \o c)[1] = Hash /\ buf \o c # <<>>
      BY <2>2, <3>1, <3>2
    <3>4. Fed(c) = buf \o c
      BY <2>2 DEF Fed
    <3>5. Drained(Fed(c)) = buf \o c
      BY <1>3, <3>1, <3>3, <3>4, DrainHeader
    <3>6. p + 1 \in 1..Len(h) + 1
      BY <2>1, <3>2 DEF RxTypes
    <3>7. h # <<>>
      <4>1. Len(buf) = Len(h) - (p + 1) + 1
        BY <2>1, <3>6, FromIs
      <4>2. Len(h) # 0
        BY <4>1, <3>2, <2>1
      <4>. QED BY <4>2
    <3>8. From(h \o c, p + 1) = buf \o c
      BY <2>1, <3>6, FromJoin
    <3>9. p <= Len(h \o c) /\ NoHash(h \o c, p)
      BY <1>1, <2>1, <3>2 DEF NoHash
    <3>10. Kept(h \o c, buf \o c)
      BY <1>3, <2>1, <3>3, <3>8, <3>9 DEF Kept
    <3>. QED BY <3>1, <3>5, <3>7, <3>10
  <2>3. CASE ~(buf # <<>> /\ buf[1] = Hash)
    <3>1. p = 0
      BY <2>1, <2>3
    <3>2. buf = h
      BY <2>1, <3>1, FromFirst
    <3>3. Fed(c) = t
      BY <3>2 DEF Fed
    <3> HIDE DEF t
    <3>4. Kept(t, Drained(t)) /\ Drained(t) \in Seq(Byte)
      BY <1>1, <1>3, DrainWhole
    <3>. QED BY <3>3, <3>4 DEF t
  <2>. QED BY <2>2, <2>3
<1>. QED
  BY <1>2, <1>3

\* Where four parts are in what they are put together to.
Parts(t, a, b, c, d) ==
  /\ t \in Seq(Byte) /\ Len(t) = Len(a) + Len(b) + Len(c) + Len(d)
  /\ \A k \in 1..Len(a) : t[k] = a[k]
  /\ \A k \in 1..Len(b) : t[Len(a) + k] = b[k]
  /\ \A k \in 1..Len(c) : t[Len(a) + Len(b) + k] = c[k]
  /\ \A k \in 1..Len(d) : t[Len(a) + Len(b) + Len(c) + k] = d[k]

LEMMA FourParts ==
  ASSUME NEW a \in Seq(Byte), NEW b \in Seq(Byte), NEW c \in Seq(Byte), NEW d \in Seq(Byte)
  PROVE  Parts(a \o b \o c \o d, a, b, c, d)
<1> DEFINE x == a \o b
           y == x \o c
           z == y \o d
<1>1. /\ x \in Seq(Byte) /\ Len(x) = Len(a) + Len(b)
      /\ \A k \in 1..Len(a) : x[k] = a[k]
      /\ \A k \in 1..Len(b) : x[Len(a) + k] = b[k]
  BY JoinIs
<1> HIDE DEF x
<1>2. /\ y \in Seq(Byte) /\ Len(y) = Len(x) + Len(c)
      /\ \A k \in 1..Len(x) : y[k] = x[k]
      /\ \A k \in 1..Len(c) : y[Len(x) + k] = c[k]
  BY <1>1, JoinIs
<1> HIDE DEF y
<1>3. /\ z \in Seq(Byte) /\ Len(z) = Len(y) + Len(d)
      /\ \A k \in 1..Len(y) : z[k] = y[k]
      /\ \A k \in 1..Len(d) : z[Len(y) + k] = d[k]
  BY <1>2, JoinIs
<1> HIDE DEF z
<1>4. Len(a) \in Nat /\ Len(b) \in Nat /\ Len(c) \in Nat /\ Len(d) \in Nat
  OBVIOUS
<1>5. \A k \in 1..Len(x) : z[k] = x[k]
  BY <1>1, <1>2, <1>3, <1>4
<1>6. \A k \in 1..Len(a) : z[k] = a[k]
  BY <1>1, <1>4, <1>5
<1>7. \A k \in 1..Len(b) : z[Len(a) + k] = b[k]
  BY <1>1, <1>4, <1>5
<1>8. \A k \in 1..Len(c) : z[Len(a) + Len(b) + k] = c[k]
  BY <1>1, <1>2, <1>3, <1>4
<1>9. \A k \in 1..Len(d) : z[Len(a) + Len(b) + Len(c) + k] = d[k]
  BY <1>1, <1>2, <1>3, <1>4
<1>10. z \in Seq(Byte) /\ Len(z) = Len(a) + Len(b) + Len(c) + Len(d)
  BY <1>1, <1>2, <1>3, <1>4
<1>. QED
  BY <1>6, <1>7, <1>8, <1>9, <1>10 DEF Parts, x, y, z

LEMMA HeaderIs ==
  ASSUME NEW n \in 1..9
  PROVE  <<Hash, n>> \in Seq(Byte) /\ Len(<<Hash, n>>) = 2 /\ <<Hash, n>>[1] = Hash /\ <<Hash, n>>[2] = n
<1>1. Hash \in Byte /\ n \in Byte
  BY DEF Hash, Byte
<1>. QED
  BY <1>1

LEMMA DigitsAreBytes == ASSUME NEW d \in Seq(0..9) PROVE d \in Seq(Byte)
<1>1. 0..9 \subseteq Byte
  BY DEF Byte
<1>. QED
  BY <1>1, SeqMonotonic

\* What a written block looks like, byte by byte.
LooksLike(s, p, n, d) ==
  /\ d \in Seq(0..9) /\ Len(d) = n /\ Decimal(d) \in Nat /\ Len(s) = p + 2 + n + Decimal(d)
  /\ NoHash(s, p) /\ s[p + 1] = Hash /\ s[p + 2] = n /\ \A i \in 1..n : s[p + 2 + i] = d[i]

LEMMA BlockIs ==
  ASSUME NEW s \in Seq(Byte), NEW p \in 0..Len(s), NEW n \in 1..9, NEW j \in 1..Len(s) + 1,
         IsBlock(s, SubSeq(s, 1, p), n, From(s, j))
  PROVE  j = p + n + 3 /\ \E d : LooksLike(s, p, n, d)
<1> DEFINE a == SubSeq(s, 1, p)
           e == From(s, j)
           m == Len(e)
           d == WrittenAs(m, n)
           b == <<Hash, n>>
<1>1. Len(s) \in Nat /\ p \in Nat /\ n \in Nat /\ j \in Nat
  OBVIOUS
<1>2. a \in Seq(Byte) /\ Len(a) = p /\ \A k \in 1..p : a[k] = s[k]
  BY PrefixIs
<1>3. e \in Seq(Byte) /\ m = Len(s) - j + 1
  BY FromIs
<1>4. Hash \notin ToSet(a) /\ Quotients(m, n)[0] = 0 /\ s = a \o b \o d \o e
  BY DEF IsBlock
<1>5. m \in Nat
  BY <1>3
<1>6. d \in Seq(0..9) /\ Len(d) = n /\ Decimal(d) = m
  BY <1>1, <1>4, <1>5, WrittenIsParsed
<1>7. b \in Seq(Byte) /\ Len(b) = 2 /\ b[1] = Hash /\ b[2] = n
  BY HeaderIs
<1>8. d \in Seq(Byte)
  BY <1>6, DigitsAreBytes
<1> HIDE DEF a, b, d, e, m
<1>9. /\ Len(s) = Len(a) + Len(b) + Len(d) + Len(e)
      /\ \A k \in 1..Len(b) : s[Len(a) + k] = b[k]
      /\ \A k \in 1..Len(d) : s[Len(a) + Len(b) + k] = d[k]
  <2>1. a \in Seq(Byte) /\ b \in Seq(Byte) /\ d \in Seq(Byte) /\ e \in Seq(Byte)
    BY <1>2, <1>3, <1>7, <1>8
  <2>2. Parts(a \o b \o d \o e, a, b, d, e)
    BY <2>1, FourParts
  <2>3. Parts(s, a, b, d, e)
    BY <2>2, <1>4
  <2>. QED BY <2>3 DEF Parts
<1>10. Len(s) = p + 2 + n + Decimal(d) /\ j = p + n + 3
  BY <1>1, <1>2, <1>3, <1>5, <1>6, <1>7, <1>9 DEF m
<1>11. s[p + 1] = Hash /\ s[p + 2] = n
  BY <1>2, <1>7, <1>9
<1>12. \A i \in 1..n : s[p + 2 + i] = d[i]
  BY <1>2, <1>6, <1>7, <1>9
<1>13. NoHash(s, p)
  <2> SUFFICES ASSUME NEW i \in 1..p PROVE s[i] # Hash
    BY DEF NoHash
  <2>1. i \in DOMAIN a
    BY <1>2
  <2>2. a[i] \in ToSet(a)
    BY <2>1 DEF ToSet
  <2>. QED BY <2>2, <1>2, <1>4
<1>14. LooksLike(s, p, n, d)
  BY <1>5, <1>6, <1>10, <1>11, <1>12, <1>13 DEF LooksLike
<1>. QED
  BY <1>10, <1>14

\* Bytes that look like that are a written block.
LEMMA BlockMade ==
  ASSUME NEW s \in Seq(Byte), NEW p \in 0..Len(s), NEW n \in 1..9, NEW d, LooksLike(s, p, n, d)
  PROVE  IsBlock(s, SubSeq(s, 1, p), n, From(s, p + n + 3)) /\ p + n + 3 \in 1..Len(s) + 1
<1> DEFINE a == SubSeq(s, 1, p)
           j == p + n + 3
           e == From(s, j)
           m == Decimal(d)
           b == <<Hash, n>>
           t == a \o b \o d \o e
<1>0. /\ d \in Seq(0..9) /\ Len(d) = n /\ Len(s) = p + 2 + n + Decimal(d)
      /\ NoHash(s, p) /\ s[p + 1] = Hash /\ s[p + 2] = n /\ \A i \in 1..n : s[p + 2 + i] = d[i]
  BY DEF LooksLike
<1>1. Len(s) \in Nat /\ p \in Nat /\ n \in Nat
  OBVIOUS
<1>2. a \in Seq(Byte) /\ Len(a) = p /\ \A k \in 1..p : a[k] = s[k]
  BY PrefixIs
<1>3. m \in Nat /\ Quotients(m, n)[0] = 0 /\ WrittenAs(m, n) = d
  BY <1>0, ParsedIsWritten
<1>4. j \in 1..Len(s) + 1 /\ Len(s) - j + 1 = m
  BY <1>0, <1>1, <1>3
<1>5. e \in Seq(Byte) /\ Len(e) = m /\ \A k \in 1..m : e[k] = s[j + k - 1]
  BY <1>4, FromIs
<1>6. b \in Seq(Byte) /\ Len(b) = 2 /\ b[1] = Hash /\ b[2] = n
  BY HeaderIs
<1>7. d \in Seq(Byte)
  BY <1>0, DigitsAreBytes
<1> HIDE DEF a, b, e
<1>8. /\ t \in Seq(Byte)
      /\ Len(t) = Len(a) + Len(b) + Len(d) + Len(e)
      /\ \A k \in 1..Len(a) : t[k] = a[k]
      /\ \A k \in 1..Len(b) : t[Len(a) + k] = b[k]
      /\ \A k \in 1..Len(d) : t[Len(a) + Len(b) + k] = d[k]
      /\ \A k \in 1..Len(e) : t[Len(a) + Len(b) + Len(d) + k] = e[k]
  <2>1. a \in Seq(Byte) /\ b \in Seq(Byte) /\ d \in Seq(Byte) /\ e \in Seq(Byte)
    BY <1>2, <1>5, <1>6, <1>7
  <2>2. Parts(t, a, b, d, e)
    BY <2>1, FourParts
  <2> HIDE DEF t
  <2>. QED BY <2>2 DEF Parts
<1> HIDE DEF t, m, j
<1>9. Len(s) = p + 2 + n + m /\ j = p + n + 3
  BY <1>0 DEF m, j
<1>10. Len(t) = Len(s)
  BY <1>0, <1>2, <1>5, <1>6, <1>8, <1>9
<1>11. ASSUME NEW k \in 1..Len(s) PROVE s[k] = t[k]
  <2>1. CASE k \in 1..p
    BY <2>1, <1>2, <1>8
  <2>2. CASE k = p + 1
    <3>1. 1 \in 1..Len(b) /\ Len(a) + 1 = k
      BY <2>2, <1>2, <1>6
    <3>2. t[Len(a) + 1] = b[1]
      BY <3>1, <1>8
    <3>. QED BY <1>0, <2>2, <3>1, <3>2, <1>6
  <2>3. CASE k = p + 2
    <3>1. 2 \in 1..Len(b) /\ Len(a) + 2 = k
      BY <2>3, <1>2, <1>6
    <3>2. t[Len(a) + 2] = b[2]
      BY <3>1, <1>8
    <3>. QED BY <1>0, <2>3, <3>1, <3>2, <1>6
  <2>4. CASE k \in p + 3..p + 2 + n
    <3> DEFINE i == k - (p + 2)
    <3>1. i \in 1..n /\ p + 2 + i = k /\ Len(a) + Len(b) + i = k
      BY <2>4, <1>1, <1>2, <1>6
    <3> HIDE DEF i
    <3>2. t[Len(a) + Len(b) + i] = d[i] /\ s[p + 2 + i] = d[i]
      BY <3>1, <1>0, <1>8
    <3>. QED BY <3>1, <3>2
  <2>5. CASE k \in p + 3 + n..Len(s)
    <3> DEFINE i == k - (p + 2 + n)
    <3>1. i \in 1..m /\ j + i - 1 = k /\ Len(a) + Len(b) + Len(d) + i = k
      BY <2>5, <1>0, <1>1, <1>2, <1>3, <1>6, <1>9 DEF m
    <3> HIDE DEF i
    <3>2. t[Len(a) + Len(b) + Len(d) + i] = e[i] /\ e[i] = s[j + i - 1]
      BY <3>1, <1>5, <1>8
    <3>. QED BY <3>1, <3>2
  <2>6. k \in 1..p \/ k = p + 1 \/ k = p + 2 \/ k \in p + 3..p + 2 + n \/ k \in p + 3 + n..Len(s)
    BY <1>1
  <2>. QED BY <2>1, <2>2, <2>3, <2>4, <2>5, <2>6
<1>12. s = t
  BY <1>8, <1>10, <1>11, BytesEqual
<1>13. Hash \notin ToSet(a)
  <2>1. DOMAIN a = 1..p
    BY <1>2
  <2>. QED BY <2>1, <1>0, <1>2 DEF ToSet, NoHash
<1>14. IsBlock(s, a, n, e)
  BY <1>3, <1>5, <1>12, <1>13 DEF IsBlock, t, b
<1>. QED
  BY <1>4, <1>14 DEF a, e, j

\* The header of a block at the start of b, and its digits.
Header(b, n, d) ==
  /\ n \in 1..9 /\ d \in Seq(0..9) /\ Len(d) = n /\ Len(b) >= 2 + n /\ b[1] = Hash /\ b[2] = n
  /\ \A i \in 1..n : b[2 + i] = d[i]

LEMMA DigitsAre ==
  ASSUME NEW b \in Seq(Byte), NEW n \in 1..9, Len(b) >= 2 + n
  PROVE  /\ SubSeq(b, 3, 2 + n) \in Seq(Byte) /\ Len(SubSeq(b, 3, 2 + n)) = n
         /\ DOMAIN SubSeq(b, 3, 2 + n) = 1..n
         /\ \A i \in 1..n : SubSeq(b, 3, 2 + n)[i] = b[2 + i]
<1>1. Len(b) \in Nat /\ n \in Nat /\ \A k \in 3..2 + n : b[k] \in Byte
  OBVIOUS
<1>2. /\ SubSeq(b, 3, 2 + n) \in Seq(Byte)
      /\ Len(SubSeq(b, 3, 2 + n)) = IF 3 <= 2 + n THEN (2 + n) - 3 + 1 ELSE 0
      /\ \A i \in 1..(2 + n) - 3 + 1 : SubSeq(b, 3, 2 + n)[i] = b[3 + i - 1]
  BY <1>1, SubSeqProperties
<1>3. (2 + n) - 3 + 1 = n /\ 3 <= 2 + n /\ \A i \in Nat : 3 + i - 1 = 2 + i
  BY <1>1
<1>4. Len(SubSeq(b, 3, 2 + n)) = n
  BY <1>2, <1>3
<1>. QED
  BY <1>2, <1>3, <1>4

LEMMA BlockEnds ==
  ASSUME NEW b \in Seq(Byte), Block(b).end = "reply"
  PROVE  \E n, d : /\ Header(b, n, d) /\ Len(b) >= 2 + n + Decimal(d)
                   /\ Block(b).reply = SubSeq(b, 3 + n, 2 + n + Decimal(d))
                   /\ Block(b).leftover = From(b, 2 + n + Decimal(d) + 1)
<1> DEFINE n == b[2]
           d == SubSeq(b, 3, 2 + n)
           total == 2 + n + Decimal(d)
<1>1. /\ b[1] = Hash /\ ~(Len(b) < 2) /\ n \in 1..9 /\ ~(Len(b) < 2 + n)
      /\ (\A i \in DOMAIN d : d[i] \in 0..9) /\ ~(Len(b) < total)
      /\ Block(b) = Ended("reply", SubSeq(b, 3 + n, total), From(b, total + 1))
  <2>1. Unfinished.end # "reply" /\ BadFrame.end # "reply"
    BY DEF Unfinished, BadFrame, Ended
  <2> HIDE DEF d
  <2>. QED BY <2>1 DEF Block, d
<1>2. Len(b) \in Nat /\ n \in Nat /\ Len(b) >= 2 + n
  BY <1>1
<1>3. d \in Seq(Byte) /\ Len(d) = n /\ DOMAIN d = 1..n /\ \A i \in 1..n : d[i] = b[2 + i]
  BY <1>1, <1>2, DigitsAre
<1> HIDE DEF n, d
<1>4. d \in Seq(0..9)
  BY <1>1, <1>2, <1>3
<1>5. Header(b, n, d)
  BY <1>1, <1>2, <1>3, <1>4 DEF Header, n
<1>6. Decimal(d) \in Nat
  BY <1>4, ParsedIsWritten
<1>7. Len(b) >= total
  BY <1>1, <1>2, <1>6
<1>8. Block(b).reply = SubSeq(b, 3 + n, total) /\ Block(b).leftover = From(b, total + 1)
  <2> DEFINE x == SubSeq(b, 3 + n, total)
             y == From(b, total + 1)
  <2>1. Block(b) = [end |-> "reply", reply |-> x, leftover |-> y]
    BY <1>1 DEF Ended
  <2> HIDE DEF x, y
  <2>2. Block(b).reply = x /\ Block(b).leftover = y
    BY <2>1
  <2>. QED BY <2>2 DEF x, y
<1>. QED
  BY <1>5, <1>7, <1>8

LEMMA BlockFound ==
  ASSUME NEW b \in Seq(Byte), NEW n, NEW d, Header(b, n, d)
  PROVE  Block(b).end # "framing" /\ (Len(b) >= 2 + n + Decimal(d) => Block(b).end = "reply")
<1>1. /\ n \in 1..9 /\ d \in Seq(0..9) /\ Len(d) = n /\ Len(b) >= 2 + n /\ b[1] = Hash /\ b[2] = n
      /\ \A i \in 1..n : b[2 + i] = d[i]
  BY DEF Header
<1> DEFINE e == SubSeq(b, 3, 2 + n)
<1>2. e \in Seq(Byte) /\ Len(e) = n /\ DOMAIN e = 1..n /\ \A i \in 1..n : e[i] = b[2 + i]
  BY <1>1, DigitsAre
<1> HIDE DEF e
<1>3. Len(b) \in Nat /\ Decimal(d) \in Nat
  BY <1>1, ParsedIsWritten
<1>4. d \in Seq(Byte) /\ \A i \in 1..n : d[i] \in 0..9
  BY <1>1, DigitsAreBytes
<1>5. e = d
  BY <1>1, <1>2, <1>4, BytesEqual
<1>6. \A i \in DOMAIN e : e[i] \in 0..9
  BY <1>1, <1>2, <1>4
<1>7. /\ b[1] = Hash /\ ~(Len(b) < 2) /\ b[2] = n /\ n \in 1..9 /\ ~(Len(b) < 2 + n)
      /\ ~(\E i \in DOMAIN SubSeq(b, 3, 2 + n) : SubSeq(b, 3, 2 + n)[i] \notin 0..9)
  BY <1>1, <1>3, <1>6 DEF e
<1>8. Block(b) = IF Len(b) < 2 + n + Decimal(d) THEN Unfinished
                 ELSE Ended("reply", SubSeq(b, 3 + n, 2 + n + Decimal(d)), From(b, 2 + n + Decimal(d) + 1))
  BY <1>5, <1>7 DEF Block, e
<1>9. Unfinished.end = "none" /\ \A x, y : Ended("reply", x, y).end = "reply"
  BY DEF Unfinished, Ended
<1>10. Len(b) >= 2 + n + Decimal(d) => ~(Len(b) < 2 + n + Decimal(d))
  BY <1>1, <1>3
<1>. QED
  BY <1>8, <1>9, <1>10

LEMMA BlockBad ==
  ASSUME NEW b \in Seq(Byte), PrefixMax \in Nat, Block(b).end = "framing"
  PROVE  \/ b[1] # Hash /\ Len(b) > PrefixMax
         \/ b[1] = Hash /\ Len(b) >= 2 /\ b[2] \notin 1..9
         \/ /\ b[1] = Hash /\ b[2] \in 1..9 /\ Len(b) >= 2 + b[2]
            /\ \E i \in 1..b[2] : b[2 + i] \notin 0..9
<1> DEFINE n == b[2]
           d == SubSeq(b, 3, 2 + n)
<1>1. Len(b) \in Nat
  OBVIOUS
<1>2. Unfinished.end # "framing" /\ \A x, y : Ended("reply", x, y).end # "framing"
  BY DEF Unfinished, Ended
<1>3. \/ b[1] # Hash /\ Len(b) > PrefixMax
      \/ b[1] = Hash /\ ~(Len(b) < 2) /\ n \notin 1..9
      \/ /\ b[1] = Hash /\ n \in 1..9 /\ ~(Len(b) < 2 + n)
         /\ \E i \in DOMAIN d : d[i] \notin 0..9
  <2> HIDE DEF d
  <2>. QED BY <1>2 DEF Block, d
<1>4. CASE b[1] = Hash /\ n \in 1..9 /\ ~(Len(b) < 2 + n) /\ \E i \in DOMAIN d : d[i] \notin 0..9
  <2>1. Len(b) >= 2 + n
    BY <1>1, <1>4
  <2>2. DOMAIN d = 1..n /\ \A i \in 1..n : d[i] = b[2 + i]
    BY <1>4, <2>1, DigitsAre
  <2>. QED BY <1>4, <2>1, <2>2
<1>5. CASE b[1] = Hash /\ ~(Len(b) < 2) /\ n \notin 1..9
  <2>1. Len(b) >= 2
    BY <1>1, <1>5
  <2>. QED BY <1>5, <2>1
<1>. QED
  BY <1>3, <1>4, <1>5

\* The first hash of what was heard is where the framer takes the header from.
LEMMA BlockBegins ==
  ASSUME RxTypes, rx.reply = "block", NEW h \in Seq(Byte), NEW r \in Seq(Byte), NEW b, Kept(h, b), b # <<>>,
         NEW p \in 0..PrefixMax, NoHash(h \o r, p), (h \o r)[p + 1] = Hash, p + 1 <= Len(h) + Len(r),
         b[1] = Hash \/ p + 1 <= Len(h) \/ PrefixMax < Len(b)
  PROVE  p + 1 <= Len(h) /\ b = From(h, p + 1) /\ b[1] = Hash
<1>1. /\ Len(h) \in Nat /\ Len(r) \in Nat /\ PrefixMax \in Nat /\ p \in Nat
      /\ \A k \in 1..Len(h) : (h \o r)[k] = h[k]
  BY JoinIs DEF RxTypes
<1>2. PICK q \in 0..PrefixMax :
        /\ q <= Len(h) /\ NoHash(h, q) /\ b = From(h, q + 1)
        /\ \/ b # <<>> /\ b[1] = Hash
           \/ q = 0 /\ \A i \in 1..Len(b) : i <= PrefixMax + 1 => b[i] # Hash
  BY DEF Kept
<1>3. q + 1 \in 1..Len(h) + 1 /\ q \in Nat
  BY <1>1, <1>2
<1>4. /\ b \in Seq(Byte) /\ Len(b) = Len(h) - (q + 1) + 1
      /\ \A k \in 1..Len(h) - (q + 1) + 1 : b[k] = h[(q + 1) + k - 1]
  BY <1>2, <1>3, FromIs
<1>5. Len(b) \in Nat \ {0}
  BY <1>4, EmptySeq
<1>6. CASE b[1] = Hash
  <2>1. q + 1 <= Len(h)
    BY <1>1, <1>3, <1>4, <1>5
  <2>2. h[q + 1] = Hash
    <3>1. 1 \in 1..Len(h) - (q + 1) + 1 /\ (q + 1) + 1 - 1 = q + 1
      BY <1>1, <1>3, <2>1
    <3>. QED BY <3>1, <1>4, <1>6
  <2>3. (h \o r)[q + 1] = Hash
    BY <1>1, <1>3, <2>1, <2>2
  <2>4. ~(q + 1 <= p)
    <3>1. q + 1 <= p => q + 1 \in 1..p
      BY <1>1, <1>3
    <3>2. \A i \in 1..p : (h \o r)[i] # Hash
      BY DEF NoHash
    <3>. QED BY <3>1, <3>2, <2>3
  <2>5. ~(p + 1 <= q)
    <3>1. p + 1 <= q => p + 1 \in 1..q /\ p + 1 \in 1..Len(h)
      BY <1>1, <1>2, <1>3
    <3>2. p + 1 \in 1..Len(h) => h[p + 1] = Hash
      BY <1>1
    <3>. QED BY <3>1, <3>2, <1>2 DEF NoHash
  <2>6. p = q
    BY <2>4, <2>5, <1>1, <1>3
  <2>. QED BY <1>2, <1>6, <2>1, <2>6
<1>7. CASE b[1] # Hash
  <2>1. q = 0 /\ \A i \in 1..Len(b) : i <= PrefixMax + 1 => b[i] # Hash
    BY <1>2, <1>7
  <2>2. b = h
    BY <1>2, <2>1, FromFirst
  <2>3. p + 1 <= Len(h)
    BY <1>1, <1>7, <2>2
  <2>4. h[p + 1] = Hash /\ p + 1 \in 1..Len(b) /\ p + 1 <= PrefixMax + 1
    BY <1>1, <2>2, <2>3
  <2>. QED BY <2>1, <2>2, <2>4
<1>. QED
  BY <1>6, <1>7

\* A block that is there, in what was heard or will be, is not taken for malformed, nor waited for.
LEMMA BlockNotMissed ==
  ASSUME RxTypes, rx.reply = "block", NEW h \in Seq(Byte), NEW r \in Seq(Byte), NEW b \in Seq(Byte),
         Kept(h, b), b # <<>>, NEW k \in 1..Len(h) + Len(r), Content(SubSeq(h \o r, 1, k)) # {}
  PROVE  Block(b).end # "framing" /\ (k <= Len(h) => Block(b).end = "reply")
<1> DEFINE t == h \o r
           s == SubSeq(t, 1, k)
<1>1. /\ t \in Seq(Byte) /\ Len(t) = Len(h) + Len(r)
      /\ \A i \in 1..Len(h) : t[i] = h[i]
  BY JoinIs
<1>2. Len(h) \in Nat /\ Len(r) \in Nat /\ Len(b) \in Nat /\ PrefixMax \in Nat /\ k \in 0..Len(t) /\ k \in Nat
  BY <1>1 DEF RxTypes
<1> HIDE DEF t
<1>3. s \in Seq(Byte) /\ Len(s) = k /\ \A i \in 1..k : s[i] = t[i]
  BY <1>1, <1>2, PrefixIs
<1>4. Content(s) # {}
  BY DEF t
<1> HIDE DEF s
<1>5. PICK j \in 1..Len(s) + 1, p \in 0..PrefixMax \cap 0..Len(s), n \in 1..9 :
        IsBlock(s, SubSeq(s, 1, p), n, From(s, j))
  BY <1>4 DEF Content
<1>6. PICK d : /\ d \in Seq(0..9) /\ Len(d) = n /\ Decimal(d) \in Nat /\ Len(s) = p + 2 + n + Decimal(d)
                /\ NoHash(s, p) /\ s[p + 1] = Hash /\ s[p + 2] = n /\ \A i \in 1..n : s[p + 2 + i] = d[i]
  <2>1. p \in 0..Len(s)
    BY <1>5
  <2>2. s \in Seq(Byte) /\ n \in 1..9 /\ j \in 1..Len(s) + 1 /\ IsBlock(s, SubSeq(s, 1, p), n, From(s, j))
    BY <1>3, <1>5
  <2>3. \E d : LooksLike(s, p, n, d)
    BY <2>1, <2>2, BlockIs, Zenon
  <2>. QED BY <2>3 DEF LooksLike
<1>7. p \in Nat /\ n \in Nat /\ p \in 0..PrefixMax
  BY <1>2, <1>5
<1>8. /\ k = p + 2 + n + Decimal(d) /\ t[p + 1] = Hash /\ t[p + 2] = n /\ NoHash(t, p)
      /\ \A i \in 1..n : t[p + 2 + i] = d[i]
  <2>1. k = p + 2 + n + Decimal(d)
    BY <1>3, <1>6
  <2>2. p + 1 \in 1..k /\ p + 2 \in 1..k /\ (\A i \in 1..n : p + 2 + i \in 1..k) /\ \A i \in 1..p : i \in 1..k
    BY <2>1, <1>6, <1>7
  <2>. QED BY <2>1, <2>2, <1>3, <1>6 DEF NoHash
<1>9. p + 1 <= Len(h) + Len(r)
  BY <1>2, <1>6, <1>7, <1>8
<1>10. ASSUME b[1] = Hash \/ p + 1 <= Len(h) \/ PrefixMax < Len(b)
       PROVE  /\ b[1] = Hash /\ p + 1 <= Len(h) /\ Len(b) = Len(h) - p
              /\ \A i \in 1..Len(b) : b[i] = t[p + i]
  <2>1. p + 1 <= Len(h) /\ b = From(h, p + 1) /\ b[1] = Hash
    BY <1>7, <1>8, <1>9, <1>10, BlockBegins DEF t
  <2>2. /\ Len(b) = Len(h) - (p + 1) + 1
        /\ \A i \in 1..Len(h) - (p + 1) + 1 : b[i] = h[(p + 1) + i - 1]
    <3>1. p + 1 \in 1..Len(h) + 1
      BY <2>1, <1>2, <1>7
    <3>. QED BY <3>1, <2>1, FromIs
  <2>3. Len(b) = Len(h) - p
    BY <2>2, <1>2, <1>7
  <2>4. \A i \in 1..Len(b) : b[i] = t[p + i]
    <3> TAKE i \in 1..Len(b)
    <3>1. (p + 1) + i - 1 = p + i /\ p + i \in 1..Len(h) /\ i \in 1..Len(h) - (p + 1) + 1
      BY <2>2, <1>2, <1>7
    <3>. QED BY <3>1, <2>2, <1>1
  <2>. QED BY <2>1, <2>3, <2>4
<1>11. Block(b).end # "framing"
  <2> SUFFICES ASSUME Block(b).end = "framing" PROVE FALSE
    OBVIOUS
  <2>1. b[1] = Hash \/ PrefixMax < Len(b)
    BY <1>2, BlockBad
  <2>2. b[1] = Hash /\ \A i \in 1..Len(b) : b[i] = t[p + i]
    BY <1>10, <2>1
  <2>3. \/ Len(b) >= 2 /\ b[2] \notin 1..9
        \/ /\ b[2] \in 1..9 /\ Len(b) >= 2 + b[2]
           /\ \E i \in 1..b[2] : b[2 + i] \notin 0..9
    BY <1>2, <2>2, BlockBad
  <2>4. Len(b) >= 2
    <3>1. b[2] \in 1..9 /\ Len(b) >= 2 + b[2] => Len(b) >= 2
      BY <1>2
    <3>. QED BY <2>3, <3>1
  <2>5. b[2] = n
    BY <2>2, <2>4, <1>2, <1>7, <1>8
  <2>6. PICK i \in 1..n : b[2 + i] \notin 0..9 /\ Len(b) >= 2 + n
    BY <2>3, <2>5
  <2>7. 2 + i \in 1..Len(b) /\ p + (2 + i) = p + 2 + i
    BY <2>6, <1>2, <1>7
  <2>8. b[2 + i] = d[i]
    BY <2>2, <2>7, <1>8
  <2>9. d[i] \in 0..9
    <3>1. i \in 1..Len(d)
      BY <1>6
    <3>. QED BY <3>1, <1>6, ElementOfSeq
  <2>. QED BY <2>6, <2>8, <2>9
<1>12. ASSUME k <= Len(h) PROVE Block(b).end = "reply"
  <2>1. p + 1 <= Len(h)
    BY <1>2, <1>6, <1>7, <1>8, <1>12
  <2>2. b[1] = Hash /\ Len(b) = Len(h) - p /\ \A i \in 1..Len(b) : b[i] = t[p + i]
    BY <1>10, <2>1
  <2>3. Len(b) >= 2 + n + Decimal(d)
    <3>1. /\ Len(b) = Len(h) - p /\ k = p + 2 + n + Decimal(d) /\ k <= Len(h)
          /\ Len(h) \in Nat /\ p \in Nat /\ n \in Nat /\ Decimal(d) \in Nat
      BY <2>2, <1>2, <1>6, <1>7, <1>8, <1>12
    <3>. QED BY <3>1
  <2>4. Len(b) >= 2 + n /\ 2 \in 1..Len(b)
    <3>1. Len(b) \in Nat /\ n \in Nat /\ Decimal(d) \in Nat
      BY <1>2, <1>6, <1>7
    <3>. QED BY <2>3, <3>1
  <2>5. b[2] = n
    BY <2>2, <2>4, <1>8
  <2>6. \A i \in 1..n : b[2 + i] = d[i]
    <3> TAKE i \in 1..n
    <3>1. 2 + i \in 1..Len(b) /\ p + (2 + i) = p + 2 + i
      BY <2>4, <1>2, <1>7
    <3>. QED BY <3>1, <2>2, <1>8
  <2>7. Header(b, n, d)
    BY <1>6, <2>2, <2>4, <2>5, <2>6 DEF Header
  <2>. QED BY <2>3, <2>7, BlockFound
<1>. QED
  BY <1>11, <1>12

\* A reply that ends where its bytes say leaves the bytes after it.
EndsWell(h, e) ==
  e.end = "reply" => LET taken == SubSeq(h, 1, Len(h) - Len(e.leftover))
                     IN  h = taken \o e.leftover /\ e.reply \in Content(taken)

LEMMA WholeIs ==
  ASSUME NEW h \in Seq(Byte), NEW n \in 0..Len(h), NEW e, e.leftover = From(h, n + 1),
         e.reply \in Content(SubSeq(h, 1, n))
  PROVE  EndsWell(h, e)
<1> DEFINE l == From(h, n + 1)
<1>1. Len(h) \in Nat /\ n + 1 \in 1..Len(h) + 1
  OBVIOUS
<1>2. Len(l) = Len(h) - (n + 1) + 1
  BY <1>1, FromIs
<1>3. h = SubSeq(h, 1, n) \o l
  BY CutAndJoin
<1> HIDE DEF l
<1>4. Len(h) - Len(l) = n
  BY <1>1, <1>2
<1>5. e.leftover = l
  BY DEF l
<1>. QED
  BY <1>3, <1>4, <1>5 DEF EndsWell

LEMMA EndsAre ==
  ASSUME NEW b
  PROVE  /\ Unfinished.end = "none" /\ BadFrame.end = "framing"
         /\ \A r, l : Ended("reply", r, l).end = "reply" /\ Ended("reply", r, l).reply = r
                      /\ Ended("reply", r, l).leftover = l
         /\ \A n, k : /\ Split(b, n, k).end = "reply" /\ Split(b, n, k).reply = Strip(SubSeq(b, 1, n))
                      /\ Split(b, n, k).leftover = From(b, n + k + 1)
  BY DEF Unfinished, BadFrame, Ended, Split

\* A fixed number of bytes.
LEMMA BytesContent ==
  ASSUME RxTypes, rx.reply = "bytes", NEW h \in Seq(Byte), NEW k \in 0..Len(h)
  PROVE  Content(SubSeq(h, 1, k)) = IF k = rx.n THEN {Strip(SubSeq(h, 1, k))} ELSE {}
<1> DEFINE s == SubSeq(h, 1, k)
<1>1. s \in Seq(Byte) /\ Len(s) = k
  BY PrefixIs
<1>2. rx.n \in Nat /\ k \in Nat
  BY DEF RxTypes, RxFraming
<1> HIDE DEF s
<1>3. DOMAIN s = 1..k /\ s \in [1..k -> ToSet(s)]
  BY <1>1 DEF ToSet
<1>4. k # rx.n => s \notin [1..rx.n -> ToSet(s)]
  <2> SUFFICES ASSUME k # rx.n, 1..k = 1..rx.n PROVE FALSE
    BY <1>3
  <2>1. k > rx.n => k \in 1..k /\ k \notin 1..rx.n
    BY <1>2
  <2>2. k < rx.n => rx.n \in 1..rx.n /\ rx.n \notin 1..k
    BY <1>2
  <2>. QED BY <2>1, <2>2, <1>2
<1>5. Content(s) = {Strip(t) : t \in {s} \cap [1..rx.n -> ToSet(s)]}
  BY DEF Content
<1>6. Content(s) = IF k = rx.n THEN {Strip(s)} ELSE {}
  <2>1. CASE k = rx.n
    <3>1. {s} \cap [1..rx.n -> ToSet(s)] = {s}
      BY <1>3, <2>1
    <3>. QED BY <3>1, <2>1, <1>5
  <2>2. CASE k # rx.n
    <3>1. {s} \cap [1..rx.n -> ToSet(s)] = {}
      BY <1>4, <2>2
    <3>. QED BY <3>1, <2>2, <1>5
  <2>. QED BY <2>1, <2>2
<1>. QED
  BY <1>6 DEF s

LEMMA BytesEnd ==
  ASSUME RxTypes, rx.reply = "bytes", NEW h \in Seq(Byte)
  PROVE  /\ EndsWell(h, Completed(h)) /\ Completed(h).end \in {"none", "reply"}
         /\ Completed(h).end = "none" => \A k \in 1..Len(h) : Content(SubSeq(h, 1, k)) = {}
<1>1. rx.n \in Nat /\ Len(h) \in Nat
  BY DEF RxTypes, RxFraming
<1>2. Completed(h) = IF h # <<>> /\ Len(h) >= rx.n THEN Split(h, rx.n, 0) ELSE Unfinished
  BY DEF Completed
<1>3. h = <<>> => Len(h) = 0
  BY EmptySeq
<1>4. CASE h # <<>> /\ Len(h) >= rx.n
  <2>1. /\ Completed(h).end = "reply" /\ Completed(h).reply = Strip(SubSeq(h, 1, rx.n))
        /\ Completed(h).leftover = From(h, rx.n + 0 + 1)
    BY <1>2, <1>4, EndsAre
  <2>2. rx.n \in 0..Len(h) /\ rx.n + 0 + 1 = rx.n + 1
    BY <1>1, <1>4
  <2>3. Completed(h).reply \in Content(SubSeq(h, 1, rx.n))
    BY <2>1, <2>2, BytesContent
  <2>4. Completed(h).leftover = From(h, rx.n + 1)
    BY <2>1, <2>2
  <2>5. EndsWell(h, Completed(h))
    BY <2>2, <2>3, <2>4, WholeIs
  <2>. QED BY <2>1, <2>5
<1>5. CASE ~(h # <<>> /\ Len(h) >= rx.n)
  <2>1. Completed(h).end = "none"
    BY <1>2, <1>5, EndsAre
  <2>2. ASSUME NEW k \in 1..Len(h) PROVE Content(SubSeq(h, 1, k)) = {}
    <3>1. k \in 0..Len(h) /\ k # rx.n
      BY <1>1, <1>3, <1>5
    <3>. QED BY <3>1, BytesContent
  <2>. QED BY <2>1, <2>2 DEF EndsWell
<1>. QED
  BY <1>4, <1>5

\* A line up to its terminator.
LEMMA PlacesIn ==
  ASSUME NEW h \in Seq(Byte), NEW w \in Seq(Byte), w # <<>>, NEW n \in 0..Len(h)
  PROVE  Places(w, SubSeq(h, 1, n)) = {i \in Places(w, h) : i + Len(w) - 1 <= n}
<1> DEFINE s == SubSeq(h, 1, n)
<1>1. Len(s) = n /\ Len(h) \in Nat /\ n \in Nat /\ Len(w) \in Nat /\ Len(w) # 0
  BY PrefixIs, EmptySeq
<1>2. ASSUME NEW i \in 1..n - Len(w) + 1 PROVE SubSeq(s, i, i + Len(w) - 1) = SubSeq(h, i, i + Len(w) - 1)
  <2> DEFINE j == i + Len(w) - 1
  <2>1. i \in 1..n /\ j \in i..n
    BY <1>1
  <2> HIDE DEF j
  <2>2. SubSeq(s, i, j) = SubSeq(h, i, j)
    <3>1. \A k \in i..n : SubSeq(s, i, k) = SubSeq(h, 1 + i - 1, 1 + k - 1)
      BY <1>1, SubSeqOfSubSeq
    <3>2. 1 + i - 1 = i /\ 1 + j - 1 = j
      BY <1>1, <2>1
    <3>. QED BY <3>1, <3>2, <2>1
  <2>. QED BY <2>2 DEF j
<1> HIDE DEF s
<1>3. Places(w, s) = {i \in 1..n - Len(w) + 1 : SubSeq(s, i, i + Len(w) - 1) = w}
  BY <1>1 DEF Places
<1>4. Places(w, h) = {i \in 1..Len(h) - Len(w) + 1 : SubSeq(h, i, i + Len(w) - 1) = w}
  BY DEF Places
<1>5. Places(w, s) = {i \in Places(w, h) : i + Len(w) - 1 <= n}
  <2> DEFINE a == n - Len(w) + 1
             c == Len(h) - Len(w) + 1
  <2>1. \A i : i \in 1..a <=> i \in 1..c /\ i + Len(w) - 1 <= n
    BY <1>1
  <2>2. \A i : i \in Places(w, s) <=> i \in 1..a /\ SubSeq(s, i, i + Len(w) - 1) = w
    BY <1>3
  <2>3. \A i : i \in Places(w, h) <=> i \in 1..c /\ SubSeq(h, i, i + Len(w) - 1) = w
    BY <1>4
  <2>4. \A i \in 1..a : SubSeq(s, i, i + Len(w) - 1) = SubSeq(h, i, i + Len(w) - 1)
    BY <1>2
  <2> HIDE DEF a, c
  <2>5. \A i : i \in Places(w, s) <=> i \in Places(w, h) /\ i + Len(w) - 1 <= n
    BY <2>1, <2>2, <2>3, <2>4
  <2>. QED BY <2>5
<1>. QED
  BY <1>5 DEF s

LEMMA LineContent ==
  ASSUME rx.reply = "line", rx.mode = "terminator", NEW s
  PROVE  Content(s) = IF rx.terminator = <<>> THEN {}
                      ELSE {Strip(SubSeq(s, 1, i - 1)) : i \in {j \in Places(rx.terminator, s) :
                                                   /\ From(s, j) = rx.terminator
                                                   /\ Places(rx.terminator, s) = {j}}}
  BY DEF Content

LEMMA FirstPlace ==
  ASSUME NEW h \in Seq(Byte), NEW w \in Seq(Byte), w # <<>>, Places(w, h) # {}
  PROVE  LET i == Min(Places(w, h)) IN i \in Places(w, h) /\ \A x \in Places(w, h) : i <= x
<1> DEFINE T == Places(w, h)
<1>1. Len(h) - Len(w) + 1 \in Int
  OBVIOUS
<1>2. T \in SUBSET Nat
  BY <1>1 DEF Places
<1> HIDE DEF T
<1>3. T # {}
  BY DEF T
<1>4. \E m \in T : \A x \in T : m <= x
  BY <1>2, <1>3, Least
<1>5. Min(T) \in T /\ \A x \in T : Min(T) <= x
  BY <1>4 DEF Min
<1>. QED
  BY <1>5 DEF T

LEMMA LineEnd ==
  ASSUME RxTypes, rx.reply = "line", rx.mode = "terminator", NEW h \in Seq(Byte)
  PROVE  /\ EndsWell(h, Completed(h)) /\ Completed(h).end \in {"none", "reply"}
         /\ Completed(h).end = "none" => \A k \in 1..Len(h) : Content(SubSeq(h, 1, k)) = {}
<1> DEFINE w == rx.terminator
<1>1. w \in Seq(Byte) /\ Len(h) \in Nat /\ Len(w) \in Nat
  BY DEF RxTypes, RxFraming
<1>2. h = <<>> => Len(h) = 0
  BY EmptySeq
<1>3. Completed(h) = IF h = <<>> THEN Unfinished
                     ELSE IF w = <<>> \/ Places(w, h) = {} THEN Unfinished
                     ELSE Split(h, Min(Places(w, h)) - 1, Len(w))
  BY DEF Completed, Line
<1>4. CASE h = <<>> \/ w = <<>>
  <2>1. Completed(h).end = "none"
    BY <1>3, <1>4, EndsAre
  <2>2. ASSUME NEW k \in 1..Len(h) PROVE Content(SubSeq(h, 1, k)) = {}
    <3>1. w = <<>>
      BY <1>2, <1>4
    <3>. QED BY <3>1, LineContent
  <2>. QED BY <2>1, <2>2 DEF EndsWell
<1>5. CASE h # <<>> /\ w # <<>> /\ Places(w, h) = {}
  <2>1. Completed(h).end = "none"
    BY <1>3, <1>5, EndsAre
  <2>2. ASSUME NEW k \in 1..Len(h) PROVE Content(SubSeq(h, 1, k)) = {}
    <3> DEFINE s == SubSeq(h, 1, k)
    <3>1. k \in 0..Len(h)
      BY <1>1
    <3>2. Places(w, s) = {}
      BY <1>1, <1>5, <3>1, PlacesIn
    <3> HIDE DEF s
    <3>3. Content(s) = {}
      BY <1>5, <3>2, LineContent
    <3>. QED BY <3>3 DEF s
  <2>. QED BY <2>1, <2>2 DEF EndsWell
<1>6. CASE h # <<>> /\ w # <<>> /\ Places(w, h) # {}
  <2> DEFINE i == Min(Places(w, h))
             n == i - 1 + Len(w)
             s == SubSeq(h, 1, n)
  <2>1. i \in Places(w, h) /\ \A x \in Places(w, h) : i <= x
    BY <1>1, <1>6, FirstPlace
  <2>2. Completed(h) = Split(h, i - 1, Len(w))
    BY <1>3, <1>6
  <2> HIDE DEF i
  <2>3. /\ Completed(h).end = "reply" /\ Completed(h).reply = Strip(SubSeq(h, 1, i - 1))
        /\ Completed(h).leftover = From(h, i - 1 + Len(w) + 1)
    BY <2>2, EndsAre
  <2>4. i \in 1..Len(h) - Len(w) + 1 /\ SubSeq(h, i, i + Len(w) - 1) = w
    BY <2>1 DEF Places
  <2>5. Len(w) # 0
    BY <1>1, <1>6, EmptySeq
  <2>6. n \in 0..Len(h) /\ n = i + Len(w) - 1 /\ i - 1 \in Nat /\ i - 1 <= n /\ n \in i..Len(h) /\ i \in 1..n
    BY <1>1, <2>4, <2>5
  <2> HIDE DEF n
  <2>7. Places(w, s) = {x \in Places(w, h) : x + Len(w) - 1 <= n}
    BY <1>1, <1>6, <2>6, PlacesIn
  <2>8. Places(w, s) = {i}
    <3>1. \A x \in Places(w, h) : x \in Nat
      BY <1>1 DEF Places
    <3>2. \A x \in Places(w, h) : x + Len(w) - 1 <= n => x <= i
      BY <3>1, <1>1, <2>4, <2>6
    <3>3. \A x \in Places(w, h) : x + Len(w) - 1 <= n => x = i
      BY <3>1, <3>2, <2>1, <2>4
    <3>4. i + Len(w) - 1 <= n
      BY <2>6
    <3>. QED BY <2>1, <2>7, <3>3, <3>4
  <2>9. From(s, i) = w /\ SubSeq(s, 1, i - 1) = SubSeq(h, 1, i - 1)
    <3>1. s \in Seq(Byte) /\ Len(s) = n /\ \A k \in 1..n : s[k] = h[k]
      BY <2>6, PrefixIs
    <3> HIDE DEF s
    <3>2. SubSeq(s, i, n) = SubSeq(h, i, n)
      <4>1. n \in 1..Len(h) /\ 1 \in 1..Len(h)
        BY <2>6, <1>1
      <4>2. 1 + i - 1 = i /\ 1 + n - 1 = n /\ i \in 1..n - 1 + 1 /\ n \in 1..n - 1 + 1
        BY <2>6, <2>4, <1>1
      <4>3. SubSeq(SubSeq(h, 1, n), i, n) = SubSeq(h, 1 + i - 1, 1 + n - 1)
        BY <4>1, <4>2, SubSeqOfSubSeq
      <4>. QED BY <4>2, <4>3 DEF s
    <3>3. From(s, i) = w
      BY <3>1, <3>2, <2>4, <2>6 DEF From
    <3>4. SubSeq(s, 1, i - 1) = SubSeq(h, 1, i - 1)
      <4>1. i - 1 \in 0..Len(s) /\ i - 1 \in 0..Len(h)
        BY <2>6, <3>1, <1>1
      <4>2. /\ SubSeq(s, 1, i - 1) \in Seq(Byte) /\ Len(SubSeq(s, 1, i - 1)) = i - 1
            /\ \A k \in 1..i - 1 : SubSeq(s, 1, i - 1)[k] = s[k]
        BY <4>1, <3>1, PrefixIs
      <4>3. /\ SubSeq(h, 1, i - 1) \in Seq(Byte) /\ Len(SubSeq(h, 1, i - 1)) = i - 1
            /\ \A k \in 1..i - 1 : SubSeq(h, 1, i - 1)[k] = h[k]
        BY <4>1, PrefixIs
      <4>4. \A k \in 1..i - 1 : k \in 1..n
        BY <2>6
      <4>. QED BY <4>2, <4>3, <4>4, <3>1, BytesEqual
    <3>. QED BY <3>3, <3>4
  <2>10. Strip(SubSeq(h, 1, i - 1)) \in Content(s)
    <3> HIDE DEF s
    <3>1. i \in {j \in Places(w, s) : From(s, j) = w /\ Places(w, s) = {j}}
      BY <2>8, <2>9
    <3>2. Content(s) = {Strip(SubSeq(s, 1, x - 1)) :
                          x \in {j \in Places(w, s) : From(s, j) = w /\ Places(w, s) = {j}}}
      BY <1>6, LineContent
    <3>3. Strip(SubSeq(s, 1, i - 1)) \in Content(s)
      BY <3>1, <3>2
    <3>. QED BY <3>3, <2>9
  <2>11. Completed(h).leftover = From(h, n + 1) /\ Completed(h).reply \in Content(s)
    BY <2>3, <2>10 DEF n
  <2>12. EndsWell(h, Completed(h))
    BY <2>6, <2>11, WholeIs
  <2>. QED BY <2>3, <2>12
<1>. QED
  BY <1>4, <1>5, <1>6

\* A block, behind a prefix or not.
LEMMA BlockEnd ==
  ASSUME RxTypes, rx.reply = "block", NEW h \in Seq(Byte), NEW b \in Seq(Byte), Kept(h, b)
  PROVE  /\ EndsWell(h, Completed(b)) /\ Completed(b).end \in {"none", "reply", "framing"}
         /\ Completed(b).end = "none" => \A k \in 1..Len(h) : Content(SubSeq(h, 1, k)) = {}
         /\ Completed(b).end = "framing" =>
              \A r \in Seq(Byte) : \A k \in 1..Len(h \o r) : Content(SubSeq(h \o r, 1, k)) = {}
<1>1. PICK p \in 0..PrefixMax : /\ p <= Len(h) /\ NoHash(h, p) /\ b = From(h, p + 1)
                                /\ b # <<>> \/ p = 0
  BY DEF Kept
<1>2. Len(h) \in Nat /\ p \in Nat /\ p + 1 \in 1..Len(h) + 1 /\ PrefixMax \in Nat
  BY <1>1 DEF RxTypes
<1>3. /\ Len(b) = Len(h) - (p + 1) + 1
      /\ \A k \in 1..Len(h) - (p + 1) + 1 : b[k] = h[(p + 1) + k - 1]
  BY <1>1, <1>2, FromIs
<1>4. Completed(b) = IF b = <<>> THEN Unfinished ELSE Block(b)
  BY DEF Completed
<1>5. CASE b = <<>>
  <2>1. Len(h) = 0
    BY <1>1, <1>2, <1>3, <1>5, EmptySeq
  <2>2. Completed(b).end = "none"
    BY <1>4, <1>5, EndsAre
  <2>. QED BY <2>1, <2>2 DEF EndsWell
<1>6. CASE b # <<>>
  <2>1. Completed(b) = Block(b)
    BY <1>4, <1>6
  <2>2. Block(b).end \in {"none", "reply", "framing"}
    BY EndsAre DEF Block
  <2>3. ASSUME Block(b).end = "reply" PROVE EndsWell(h, Block(b))
    <3>1. PICK n, d : /\ Header(b, n, d) /\ Len(b) >= 2 + n + Decimal(d)
                      /\ Block(b).reply = SubSeq(b, 3 + n, 2 + n + Decimal(d))
                      /\ Block(b).leftover = From(b, 2 + n + Decimal(d) + 1)
      BY <2>3, BlockEnds
    <3>2. /\ n \in 1..9 /\ d \in Seq(0..9) /\ Len(d) = n /\ Len(b) >= 2 + n /\ b[1] = Hash /\ b[2] = n
          /\ \A i \in 1..n : b[2 + i] = d[i]
      BY <3>1 DEF Header
    <3>3. Decimal(d) \in Nat /\ n \in Nat
      BY <3>2, ParsedIsWritten
    <3> DEFINE m == Decimal(d)
               e == p + 2 + n + m
               s == SubSeq(h, 1, e)
    <3>4. m \in Nat
      BY <3>3
    <3>5. Len(b) >= 2 + n + m /\ Len(b) = Len(h) - p
      BY <3>1, <1>2, <1>3
    <3> HIDE DEF m
    <3>6. e \in 0..Len(h) /\ e = p + 2 + n + m /\ e \in Nat
      BY <3>4, <3>5, <3>3, <1>2
    <3> HIDE DEF e
    <3>7. s \in Seq(Byte) /\ Len(s) = e /\ \A k \in 1..e : s[k] = h[k]
      BY <3>6, PrefixIs
    <3> HIDE DEF s
    <3>8. \A k \in 1..2 + n : s[p + k] = b[k]
      <4> TAKE k \in 1..2 + n
      <4>1. k \in 1..Len(h) - (p + 1) + 1 /\ (p + 1) + k - 1 = p + k /\ p + k \in 1..e
        BY <3>3, <3>4, <3>5, <3>6, <1>2
      <4>. QED BY <4>1, <3>7, <1>3
    <3>9. NoHash(s, p)
      <4>1. \A i \in 1..p : i \in 1..e
        BY <3>3, <3>4, <3>6, <1>2
      <4>. QED BY <4>1, <3>7, <1>1 DEF NoHash
    <3>10. s[p + 1] = Hash /\ s[p + 2] = n /\ \A i \in 1..n : s[p + 2 + i] = d[i]
      <4>1. 1 \in 1..2 + n /\ 2 \in 1..2 + n
        BY <3>3
      <4>2. ASSUME NEW i \in 1..n PROVE s[p + 2 + i] = d[i]
        <5>1. 2 + i \in 1..2 + n /\ p + (2 + i) = p + 2 + i
          BY <3>3, <1>2
        <5>. QED BY <5>1, <3>2, <3>8
      <4>. QED BY <4>1, <4>2, <3>2, <3>8
    <3>11. LooksLike(s, p, n, d)
      BY <3>2, <3>4, <3>6, <3>7, <3>9, <3>10 DEF LooksLike, m
    <3>12. p \in 0..Len(s)
      BY <3>3, <3>4, <3>6, <3>7, <1>2
    <3> DEFINE j == p + n + 3
    <3>13. IsBlock(s, SubSeq(s, 1, p), n, From(s, j)) /\ j \in 1..Len(s) + 1
      BY <3>2, <3>7, <3>11, <3>12, BlockMade
    <3> HIDE DEF j
    <3>14. From(s, j) \in Content(s)
      <4>1. p \in 0..PrefixMax \cap 0..Len(s)
        BY <3>12
      <4>. QED BY <3>2, <3>13, <4>1 DEF Content
    <3>15. Block(b).reply = From(s, j)
      <4>1. From(s, j) = SubSeq(h, j, e)
        <5>1. From(s, j) = SubSeq(s, j, e)
          BY <3>7 DEF From
        <5>2. SubSeq(s, j, e) = SubSeq(h, j, e)
          <6>1. CASE m = 0
            <7>1. e < j /\ e \in Int /\ j \in Int
              BY <6>1, <3>3, <3>6, <1>2 DEF j
            <7>. QED BY <7>1, SubSeqEmpty
          <6>2. CASE m # 0
            <7>1. j \in 1..e /\ 1 \in 1..Len(h) /\ e \in 1..Len(h) /\ e \in 1..e - 1 + 1 /\ j \in 1..e - 1 + 1
                  /\ 1 + j - 1 = j /\ 1 + e - 1 = e
              BY <6>2, <3>3, <3>4, <3>6, <1>2 DEF j
            <7>2. SubSeq(SubSeq(h, 1, e), j, e) = SubSeq(h, 1 + j - 1, 1 + e - 1)
              BY <7>1, SubSeqOfSubSeq
            <7>. QED BY <7>1, <7>2 DEF s
          <6>. QED BY <6>1, <6>2
        <5>. QED BY <5>1, <5>2
      <4>2. SubSeq(b, 3 + n, 2 + n + m) = SubSeq(h, j, e)
        <5>1. CASE m = 0
          <6>1. e < j /\ 2 + n + m < 3 + n /\ e \in Int /\ j \in Int /\ 2 + n + m \in Int /\ 3 + n \in Int
            BY <5>1, <3>3, <3>6, <1>2 DEF j
          <6>2. SubSeq(h, j, e) = <<>> /\ SubSeq(b, 3 + n, 2 + n + m) = <<>>
            BY <6>1, SubSeqEmpty
          <6>. QED BY <6>2
        <5>2. CASE m # 0
          <6> DEFINE x == 3 + n
                     y == 2 + n + m
          <6>1. /\ p + 1 \in 1..Len(h) /\ Len(h) \in 1..Len(h)
                /\ x \in 1..Len(h) - (p + 1) + 1 /\ y \in 1..Len(h) - (p + 1) + 1
                /\ (p + 1) + x - 1 = j /\ (p + 1) + y - 1 = e
            BY <5>2, <3>3, <3>4, <3>5, <3>6, <1>2 DEF j
          <6> HIDE DEF x, y
          <6>2. SubSeq(SubSeq(h, p + 1, Len(h)), x, y) = SubSeq(h, (p + 1) + x - 1, (p + 1) + y - 1)
            BY <6>1, SubSeqOfSubSeq
          <6>3. SubSeq(b, x, y) = SubSeq(h, j, e)
            BY <6>1, <6>2, <1>1 DEF From
          <6>. QED BY <6>3 DEF x, y
        <5>. QED BY <5>1, <5>2
      <4>. QED BY <3>1, <4>1, <4>2 DEF m
    <3>16. Block(b).leftover = From(h, e + 1)
      <4>1. From(b, 2 + n + m + 1) = From(h, e + 1)
        <5> DEFINE i == 2 + n + m + 1
        <5>1. e + 1 = p + i /\ i \in 1..Len(b) + 1 /\ e + 1 \in 1..Len(h) + 1 /\ i \in Nat
          BY <3>3, <3>4, <3>5, <3>6, <1>2
        <5> HIDE DEF i
        <5>2. /\ From(b, i) \in Seq(Byte) /\ Len(From(b, i)) = Len(b) - i + 1
              /\ \A k \in 1..Len(b) - i + 1 : From(b, i)[k] = b[i + k - 1]
          BY <5>1, FromIs
        <5>3. /\ From(h, e + 1) \in Seq(Byte) /\ Len(From(h, e + 1)) = Len(h) - (e + 1) + 1
              /\ \A k \in 1..Len(h) - (e + 1) + 1 : From(h, e + 1)[k] = h[(e + 1) + k - 1]
          BY <5>1, FromIs
        <5>4. Len(From(b, i)) = Len(From(h, e + 1)) /\ Len(b) - i + 1 = Len(h) - (e + 1) + 1
          <6>1. Len(b) - i + 1 = Len(h) - (e + 1) + 1
            BY <5>1, <3>5, <3>6, <1>2
          <6>. QED BY <6>1, <5>2, <5>3
        <5>5. ASSUME NEW k \in 1..Len(b) - i + 1 PROVE From(b, i)[k] = From(h, e + 1)[k]
          <6>1. i + k - 1 \in 1..Len(h) - (p + 1) + 1 /\ (p + 1) + (i + k - 1) - 1 = (e + 1) + k - 1
            BY <5>1, <3>5, <3>6, <1>2
          <6>2. b[i + k - 1] = h[(p + 1) + (i + k - 1) - 1]
            BY <6>1, <1>3
          <6>3. k \in 1..Len(h) - (e + 1) + 1
            BY <5>4
          <6>. QED BY <6>1, <6>2, <6>3, <5>2, <5>3
        <5>6. From(b, i) = From(h, e + 1)
          BY <5>2, <5>3, <5>4, <5>5, BytesEqual
        <5>. QED BY <5>6 DEF i
      <4>. QED BY <3>1, <4>1 DEF m
    <3>17. Block(b).reply \in Content(SubSeq(h, 1, e))
      BY <3>14, <3>15 DEF s
    <3>. QED BY <3>6, <3>16, <3>17, WholeIs
  <2>4. Block(b).end # "reply" => EndsWell(h, Block(b))
    BY DEF EndsWell
  <2>5. ASSUME Block(b).end = "none", NEW k \in 1..Len(h), Content(SubSeq(h, 1, k)) # {} PROVE FALSE
    <3>1. <<>> \in Seq(Byte) /\ h \o <<>> = h /\ Len(<<>>) = 0 /\ k \in 1..Len(h) + Len(<<>>) /\ k <= Len(h)
      BY <1>2, ConcatEmptySeq, EmptySeq
    <3>2. Content(SubSeq(h \o <<>>, 1, k)) # {}
      BY <3>1, <2>5
    <3>3. Block(b).end = "reply"
      BY <3>1, <3>2, <1>6, BlockNotMissed
    <3>. QED BY <3>3, <2>5
  <2>6. ASSUME Block(b).end = "framing", NEW r \in Seq(Byte), NEW k \in 1..Len(h \o r),
               Content(SubSeq(h \o r, 1, k)) # {}
        PROVE  FALSE
    <3>1. k \in 1..Len(h) + Len(r)
      BY JoinIs
    <3>2. Block(b).end # "framing"
      BY <3>1, <2>6, <1>6, BlockNotMissed
    <3>. QED BY <3>2, <2>6
  <2>. QED BY <2>1, <2>2, <2>3, <2>4, <2>5, <2>6
<1>. QED
  BY <1>5, <1>6

\* Replies of every kind.
LEMMA CompletedWhole ==
  ASSUME RxTypes, NEW h \in Seq(Byte), NEW b \in Seq(Byte), Kept(h, b)
  PROVE  /\ EndsWell(h, Completed(b)) /\ Completed(b).end \in {"none", "reply", "framing"}
         /\ Completed(b).end = "none" /\ ~(rx.reply = "line" /\ rx.mode \in {"idle", "message"})
              => \A k \in 1..Len(h) : Content(SubSeq(h, 1, k)) = {}
         /\ Completed(b).end = "framing" =>
              \A r \in Seq(Byte) : \A k \in 1..Len(h \o r) : Content(SubSeq(h \o r, 1, k)) = {}
<1>1. /\ rx.reply \in {"none", "bytes", "block", "line"}
      /\ rx.mode \in {"terminator", "idle", "message", "fixed"}
  BY DEF RxTypes, RxFraming
<1>2. rx.reply # "block" => b = h
  BY DEF Kept
<1>3. CASE rx.reply = "bytes"
  BY <1>2, <1>3, BytesEnd
<1>4. CASE rx.reply = "block"
  BY <1>4, BlockEnd
<1>5. CASE rx.reply = "line" /\ rx.mode = "terminator"
  BY <1>2, <1>5, LineEnd
<1>6. CASE rx.reply = "none" \/ (rx.reply = "line" /\ rx.mode = "fixed")
  <2>1. \A s : Content(s) = {}
    BY <1>6 DEF Content
  <2>2. Completed(b) \in {Unfinished, BadFrame}
    BY <1>6 DEF Completed, Line
  <2>3. Completed(b).end \in {"none", "framing"}
    BY <2>2, EndsAre
  <2>. QED BY <2>1, <2>3 DEF EndsWell
<1>7. CASE rx.reply = "line" /\ rx.mode = "idle"
  <2>1. Completed(b) = Unfinished
    BY <1>7 DEF Completed, Line
  <2>2. Completed(b).end = "none"
    BY <2>1, EndsAre
  <2>. QED BY <1>7, <2>2 DEF EndsWell
<1>8. CASE rx.reply = "line" /\ rx.mode = "message"
  <2>1. Completed(b) \in {Unfinished, Split(h, Len(h), 0)}
    BY <1>2, <1>8 DEF Completed, Line
  <2>2. CASE Completed(b) = Unfinished
    <3>1. Completed(b).end = "none"
      BY <2>2, EndsAre
    <3>. QED BY <1>8, <3>1 DEF EndsWell
  <2>3. CASE Completed(b) = Split(h, Len(h), 0)
    <3>1. /\ Completed(b).end = "reply" /\ Completed(b).reply = Strip(SubSeq(h, 1, Len(h)))
          /\ Completed(b).leftover = From(h, Len(h) + 0 + 1)
      BY <2>3, EndsAre
    <3>2. Len(h) \in 0..Len(h) /\ Len(h) + 0 + 1 = Len(h) + 1
      OBVIOUS
    <3>3. Completed(b).reply \in Content(SubSeq(h, 1, Len(h)))
      BY <1>8, <3>1 DEF Content
    <3>4. Completed(b).leftover = From(h, Len(h) + 1)
      BY <3>1, <3>2
    <3>5. EndsWell(h, Completed(b))
      BY <3>2, <3>3, <3>4, WholeIs
    <3>. QED BY <1>8, <3>1, <3>5
  <2>. QED BY <2>1, <2>2, <2>3
<1>. QED
  BY <1>1, <1>3, <1>4, <1>5, <1>6, <1>7, <1>8

\* A line that ends with silence is all that was heard.
LEMMA SilenceEnds ==
  ASSUME rx.reply = "line", rx.mode \in {"idle", "message"}, NEW h \in Seq(Byte)
  PROVE  EndsWell(h, Ended("reply", Strip(h), <<>>))
<1> DEFINE e == Ended("reply", Strip(h), <<>>)
<1>1. Len(h) \in 0..Len(h) /\ Len(h) + 1 > Len(h) /\ Len(h) + 1 \in Int /\ Len(h) \in Int
  OBVIOUS
<1>2. From(h, Len(h) + 1) = <<>>
  BY <1>1, SubSeqEmpty DEF From
<1>3. e.leftover = From(h, Len(h) + 1) /\ e.reply = Strip(h)
  BY <1>2, EndsAre
<1>4. SubSeq(h, 1, Len(h)) = h
  BY SubSeqFull
<1>5. e.reply \in Content(SubSeq(h, 1, Len(h)))
  BY <1>3, <1>4 DEF Content
<1> HIDE DEF e
<1>6. EndsWell(h, e)
  BY <1>1, <1>3, <1>5, WholeIs
<1>. QED
  BY <1>6 DEF e

FramingTypes == rx \in Framings /\ stream \in Streams /\ read \in 0..Len(stream) /\ buf \in Seq(Byte)

\* While a reply is awaited, the framer holds what was heard, and no reply is in it.
FramingInv ==
  /\ FramingTypes
  /\ framed.end = "none" => Kept(Heard(SubSeq(stream, 1, read)), buf) /\ Completed(buf).end = "none"
  /\ RepliesWhole

\* RepliesWhole of an exchange that ended with e after n bytes.
Right(n, e) ==
  LET body == Heard(SubSeq(stream, 1, n))
      Unheard(s) == \A k \in 1..Len(s) : Content(SubSeq(s, 1, k)) = {}
  IN  /\ EndsWell(body, e)
      /\ e.end = "timeout" => Unheard(body)
      /\ e.end = "framing" => Unheard(Heard(stream))

\* What ends an exchange is right if its framing of what was heard is.
LEMMA EndIsRight ==
  ASSUME stream \in Seq(Byte), NEW n \in 0..Len(stream), NEW e, NEW h, h = Heard(SubSeq(stream, 1, n)),
         EndsWell(h, e),
         e.end = "timeout" => \A k \in 1..Len(h) : Content(SubSeq(h, 1, k)) = {},
         e.end = "framing" =>
           h # <<>> /\ \A r \in Seq(Byte) : \A k \in 1..Len(h \o r) : Content(SubSeq(h \o r, 1, k)) = {}
  PROVE  Right(n, e)
<1> DEFINE u == SubSeq(stream, 1, n)
           c == From(stream, n + 1)
<1>1. n + 1 \in 1..Len(stream) + 1
  OBVIOUS
<1>2. u \in Seq(Byte) /\ c \in Seq(Byte) /\ stream = u \o c
  BY <1>1, PrefixIs, FromIs, CutAndJoin
<1> HIDE DEF c
<1>3. h # <<>> => Heard(stream) = h \o c
  BY <1>2, HeardMore
<1>4. e.end = "framing" => \A k \in 1..Len(Heard(stream)) : Content(SubSeq(Heard(stream), 1, k)) = {}
  BY <1>2, <1>3
<1>. QED
  BY <1>4 DEF Right

\* What a reply is does not change while it is read.
LEMMA FramingKeeps ==
  ASSUME rx' = rx
  PROVE  /\ \A s : Heard(s)' = Heard(s) /\ Strip(s)' = Strip(s) /\ Content(s)' = Content(s)
         /\ \A h, b : Kept(h, b)' = Kept(h, b)
         /\ \A b : Completed(b)' = Completed(b)
<1>1. \A s : Begins(s)' = Begins(s)
  BY DEF Begins, SelectInSeq, IsNoise
<1>2. \A s : Heard(s)' = Heard(s)
  BY <1>1 DEF Heard
<1>3. \A s : Strip(s)' = Strip(s)
  BY DEF Strip, SelectLastInSeq
<1>4. \A s : Content(s)' = Content(s)
  BY <1>3 DEF Content
<1>5. \A h, b : Kept(h, b)' = Kept(h, b)
  BY DEF Kept
<1>6. \A b : Completed(b)' = Completed(b)
  <2>1. \A b, n, k : Split(b, n, k)' = Split(b, n, k)
    BY <1>3 DEF Split
  <2>2. \A b : Line(b)' = Line(b)
    BY <2>1 DEF Line
  <2>. QED BY <2>1, <2>2 DEF Completed
<1>. QED
  BY <1>2, <1>3, <1>4, <1>5, <1>6

LEMMA WholeKept ==
  ASSUME rx' = rx, NEW h, NEW e
  PROVE  EndsWell(h, e)' = EndsWell(h, e)
<1>1. \A s : Content(s)' = Content(s)
  BY FramingKeeps
<1>. QED
  BY <1>1 DEF EndsWell

LEMMA RightKept ==
  ASSUME rx' = rx, stream' = stream, NEW n, NEW e, Right(n, e), read' = n, framed' = e
  PROVE  RepliesWhole'
<1>1. \A s : Heard(s)' = Heard(s) /\ Content(s)' = Content(s)
  BY FramingKeeps
<1>2. Heard(SubSeq(stream, 1, read))' = Heard(SubSeq(stream, 1, n)) /\ Heard(stream)' = Heard(stream)
  BY <1>1
<1>3. EndsWell(Heard(SubSeq(stream, 1, n)), e)
  BY DEF Right
<1>. QED
  BY <1>1, <1>2, <1>3 DEF RepliesWhole, Right, EndsWell

LEMMA FramingInvInit == FramingInit => FramingInv
<1>. SUFFICES ASSUME FramingInit PROVE FramingInv
  OBVIOUS
<1>1. stream \in Seq(Byte) /\ Len(stream) \in Nat /\ RxTypes
  BY FramingAssumption DEF FramingInit, RxTypes
<1>2. FramingTypes
  BY <1>1, EmptySeq DEF FramingTypes, FramingInit
<1>3. SubSeq(stream, 1, 0) = <<>>
  BY SubSeqEmpty
<1>4. Heard(<<>>) = <<>>
  <2>1. <<>> \in Seq(Byte) /\ Len(<<>>) = 0
    BY EmptySeq
  <2>2. Begins(<<>>) = 0
    <3>1. Begins(<<>>) \in 0..Len(<<>>)
      BY <2>1, BeginsIs
    <3>. QED BY <2>1, <3>1
  <2>. QED BY <2>1, <2>2, HeardIs
<1>5. Kept(<<>>, <<>>)
  <2>1. From(<<>>, 0 + 1) = <<>> /\ Len(<<>>) = 0 /\ 0 \in 0..PrefixMax
    <3>1. <<>> \in Seq(Byte) /\ Len(<<>>) = 0 /\ 0 + 1 = 1
      BY EmptySeq
    <3>2. From(<<>>, 1) = <<>>
      BY <3>1, FromFirst
    <3>. QED BY <1>1, <3>1, <3>2 DEF RxTypes
  <2>2. NoHash(<<>>, 0)
    BY DEF NoHash
  <2>3. \A i \in 1..0 : i <= PrefixMax + 1 => <<>>[i] # Hash
    OBVIOUS
  <2>. QED BY <2>1, <2>2, <2>3 DEF Kept
<1>6. Completed(<<>>).end = "none"
  BY EndsAre DEF Completed
<1>7. framed.end = "none"
  BY EndsAre DEF FramingInit
<1>8. RepliesWhole
  BY <1>7 DEF RepliesWhole
<1>9. Kept(Heard(SubSeq(stream, 1, read)), buf) /\ Completed(buf).end = "none"
  BY <1>3, <1>4, <1>5, <1>6 DEF FramingInit
<1>. QED
  BY <1>2, <1>8, <1>9 DEF FramingInv

LEMMA FramingInvNext == FramingInv /\ [FramingNext]_framingVars => FramingInv'
<1>. SUFFICES ASSUME FramingInv, [FramingNext]_framingVars PROVE FramingInv'
  OBVIOUS
<1>1. /\ RxTypes /\ rx \in Framings /\ stream \in Streams /\ stream \in Seq(Byte)
      /\ read \in 0..Len(stream) /\ Len(stream) \in Nat /\ buf \in Seq(Byte)
  BY FramingAssumption DEF FramingInv, FramingTypes, RxTypes
<1>2. framed.end = "none" => Kept(Heard(SubSeq(stream, 1, read)), buf) /\ Completed(buf).end = "none"
  BY DEF FramingInv
<1> DEFINE u == SubSeq(stream, 1, read)
<1>3. u \in Seq(Byte) /\ Heard(u) \in Seq(Byte)
  BY <1>1, PrefixIs, HeardIs
<1>4. CASE Push
  <2>0. PICK n \in read + 1..Len(stream) : \E b : /\ b = Drained(Fed(SubSeq(stream, read + 1, n)))
                                                  /\ read' = n /\ buf' = b /\ framed' = Completed(b)
    BY <1>4 DEF Push
  <2>1. PICK b : /\ b = Drained(Fed(SubSeq(stream, read + 1, n)))
                 /\ read' = n /\ buf' = b /\ framed' = Completed(b)
    BY <2>0
  <2>2. framed = Unfinished /\ rx' = rx /\ stream' = stream
    BY <1>4 DEF Push
  <2>3. Kept(Heard(u), buf)
    BY <1>2, <2>2, EndsAre
  <2> DEFINE c == SubSeq(stream, read + 1, n)
  <2>4. /\ read \in Nat /\ n \in 0..Len(stream) /\ n \in Nat /\ read + 1 \in 1..Len(stream)
        /\ read + 1 \in Int /\ n \in Int /\ read \in 1 - 1..Len(stream) /\ n \in read..Len(stream)
        /\ 1 \in 1..Len(stream) + 1
    BY <1>1, <2>1
  <2>5. c \in Seq(Byte)
    <3>1. \A i \in read + 1..n : stream[i] \in Byte
      BY <1>1, <2>4
    <3>. QED BY <2>4, <3>1, SubSeqProperties
  <2>6. SubSeq(stream, 1, n) = u \o c
    BY <1>1, <2>4, ConcatAdjacentSubSeq
  <2> HIDE DEF c, u
  <2>7. PICK h : h = Heard(u \o c)
    OBVIOUS
  <2>8. h = IF Heard(u) # <<>> THEN Heard(u) \o c ELSE Heard(c)
    BY <1>3, <2>5, <2>7, HeardMore
  <2>9. h \in Seq(Byte)
    BY <1>3, <2>5, <2>8, HeardIs, JoinIs
  <2>10. b \in Seq(Byte) /\ Kept(h, b)
    <3>1. b = Drained(Fed(c))
      BY <2>1 DEF c
    <3>2. PICK g \in Seq(Byte) : g = Heard(u)
      BY <1>3
    <3>. QED BY <1>1, <2>3, <2>5, <2>8, <3>1, <3>2, ChunkKept
  <2>11. h = Heard(SubSeq(stream, 1, n))
    BY <2>6, <2>7
  <2>12. PICK e : e = Completed(b)
    OBVIOUS
  <2>13. /\ EndsWell(h, e) /\ e.end \in {"none", "reply", "framing"}
         /\ e.end = "framing" =>
              \A r \in Seq(Byte) : \A k \in 1..Len(h \o r) : Content(SubSeq(h \o r, 1, k)) = {}
    BY <1>1, <2>9, <2>10, <2>12, CompletedWhole
  <2>14. e.end = "framing" => h # <<>>
    <3>1. b = <<>> => e.end = "none"
      BY <2>12, EndsAre DEF Completed
    <3>2. h = <<>> => b = <<>>
      <4> SUFFICES ASSUME h = <<>> PROVE b = <<>>
        OBVIOUS
      <4>1. CASE rx.reply # "block"
        BY <2>10, <4>1 DEF Kept
      <4>2. CASE rx.reply = "block"
        <5>1. PICK p \in 0..PrefixMax : p <= Len(h) /\ b = From(h, p + 1)
          BY <2>10, <4>2 DEF Kept
        <5>2. Len(h) = 0 /\ p = 0
          BY <1>1, <5>1, EmptySeq DEF RxTypes
        <5>3. b = From(h, 1)
          BY <5>1, <5>2
        <5>. QED BY <2>9, <5>3, FromFirst
      <4>. QED BY <4>1, <4>2
    <3>. QED BY <3>1, <3>2
  <2>15. Right(n, e)
    BY <1>1, <2>4, <2>9, <2>11, <2>13, <2>14, EndIsRight
  <2>16. RepliesWhole'
    BY <2>1, <2>2, <2>12, <2>15, RightKept
  <2>17. FramingTypes'
    BY <1>1, <2>1, <2>2, <2>4, <2>10 DEF FramingTypes
  <2>18. (framed.end = "none" => Kept(Heard(SubSeq(stream, 1, read)), buf) /\ Completed(buf).end = "none")'
    <3>1. \A s : Heard(s)' = Heard(s)
      BY <2>2, FramingKeeps
    <3>2. Heard(SubSeq(stream, 1, read))' = h
      BY <3>1, <2>1, <2>2, <2>11
    <3>3. Kept(h, b)'
      BY <2>2, <2>10, FramingKeeps
    <3>4. Completed(b)' = e
      BY <2>2, <2>12, FramingKeeps
    <3>5. Kept(Heard(SubSeq(stream, 1, read)), buf)'
      BY <3>2, <3>3, <2>1
    <3>6. Completed(buf)' = e
      BY <3>4, <2>1
    <3>. QED BY <3>5, <3>6, <2>1, <2>12
  <2>. QED BY <2>16, <2>17, <2>18 DEF FramingInv
<1>5. CASE FramerFinish
  <2>1. framed = Unfinished /\ rx' = rx /\ stream' = stream /\ read' = read /\ buf' = buf
    BY <1>5 DEF FramerFinish
  <2>2. PICK n \in 0..Len(stream), h \in Seq(Byte), b \in Seq(Byte) : n = read /\ h = Heard(u) /\ b = buf
    BY <1>1, <1>3
  <2>3. Kept(h, b) /\ Completed(b).end = "none"
    BY <1>2, <2>1, <2>2, EndsAre
  <2> DEFINE silent == rx.reply = "line" /\ rx.mode \in {"idle", "message"}
  <2>4. PICK e : e = framed'
    OBVIOUS
  <2>5. e = IF silent THEN Ended("reply", Strip(b), <<>>) ELSE Ended("timeout", <<>>, <<>>)
    BY <1>5, <2>2, <2>4 DEF FramerFinish
  <2>6. e.end # "none" /\ e.end # "framing"
    BY <2>5 DEF Ended
  <2>7. EndsWell(h, e) /\ (e.end = "timeout" => \A k \in 1..Len(h) : Content(SubSeq(h, 1, k)) = {})
    <3>1. CASE silent
      <4>1. b = h
        BY <2>3, <3>1 DEF Kept
      <4>2. EndsWell(h, e)
        BY <2>5, <3>1, <4>1, SilenceEnds
      <4>3. e.end # "timeout"
        BY <2>5, <3>1 DEF Ended
      <4>. QED BY <4>2, <4>3
    <3>2. CASE ~silent
      <4>1. \A k \in 1..Len(h) : Content(SubSeq(h, 1, k)) = {}
        BY <1>1, <2>3, <3>2, CompletedWhole
      <4>2. e.end # "reply"
        BY <2>5, <3>2 DEF Ended
      <4>. QED BY <4>1, <4>2 DEF EndsWell
    <3>. QED BY <3>1, <3>2
  <2>8. Right(n, e)
    BY <1>1, <2>2, <2>6, <2>7, EndIsRight DEF u
  <2>9. RepliesWhole'
    BY <2>1, <2>2, <2>4, <2>8, RightKept
  <2>10. FramingTypes'
    BY <1>1, <2>1 DEF FramingTypes
  <2>. QED BY <2>4, <2>6, <2>9, <2>10 DEF FramingInv
<1>6. CASE UNCHANGED framingVars
  <2>1. rx' = rx /\ stream' = stream /\ read' = read /\ buf' = buf /\ framed' = framed
    BY <1>6 DEF framingVars
  <2>2. PICK n, e, b, h : n = read /\ e = framed /\ b = buf /\ h = Heard(SubSeq(stream, 1, n))
    OBVIOUS
  <2>3. Right(n, e)
    BY <2>2 DEF FramingInv, RepliesWhole, Right, EndsWell
  <2>4. RepliesWhole'
    BY <2>1, <2>2, <2>3, RightKept
  <2>5. FramingTypes'
    BY <1>1, <2>1 DEF FramingTypes
  <2>6. (framed.end = "none" => Kept(Heard(SubSeq(stream, 1, read)), buf) /\ Completed(buf).end = "none")'
    <3>1. Heard(SubSeq(stream, 1, read))' = h
      BY <2>1, <2>2, FramingKeeps
    <3>2. Kept(h, b)' = Kept(h, b) /\ Completed(b)' = Completed(b)
      BY <2>1, FramingKeeps
    <3>3. Kept(Heard(SubSeq(stream, 1, read)), buf)' = Kept(h, b) /\ Completed(buf)' = Completed(b)
      BY <3>1, <3>2, <2>1, <2>2
    <3>. QED BY <3>3, <1>2, <2>1, <2>2
  <2>. QED BY <2>4, <2>5, <2>6 DEF FramingInv
<1>. QED
  BY <1>4, <1>5, <1>6 DEF FramingNext

\* Every reply is what the bytes say, in whatever chunks they came, and no reply that is there
\* is given up as late or malformed: for all framings, streams and prefix limits.
THEOREM RepliesAreWhole == FramingSpec => []RepliesWhole
<1>1. FramingInv => RepliesWhole
  BY DEF FramingInv
<1>. QED
  BY FramingInvInit, FramingInvNext, <1>1, PTL DEF FramingSpec
=============================================================================
