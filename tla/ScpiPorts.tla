----------------------------- MODULE ScpiPorts -----------------------------
(***************************************************************************)
(* Virtual SCPI instruments (bm-server scpi/mod.rs): which port belongs to *)
(* which instrument, and which ports are listened on.                      *)
(*                                                                         *)
(* sync() is called after every change of the configuration and of the     *)
(* settings.  It reads the configured devices, assigns ports under the     *)
(* settings' lock, and opens and closes listeners under another lock: the  *)
(* three steps of several callers may interleave.  The configuration is    *)
(* the other half of the system: Bench says who calls when.                *)
(***************************************************************************)
EXTENDS Naturals, FiniteSets

CONSTANTS
  Ids,    \* device ids
  Tasks,  \* who may be running sync() or update()
  Bases,  \* base ports a user may choose
  LastPort \* u16::MAX

ASSUME BasesAssumption == LastPort \in Nat /\ Bases \subseteq 1..LastPort /\ Bases # {}
ASSUME IdsFinite == IsFiniteSet(Ids)

VARIABLES
  settings,  \* Scpi.settings: on (access is not off), base_port, ports (0: none)
  stored,    \* scpi.json
  listener,  \* Scpi.listeners: the port of each (0: none); it may have failed to bind
  sync       \* what each task is doing: its step, the ids it read, its copy

scpiVars == <<settings, stored, listener, sync>>

Defaults == [on |-> FALSE, base |-> CHOOSE b \in Bases : \A c \in Bases : b <= c,
             ports |-> [i \in Ids |-> 0]]
Idle == [step |-> "idle", ids |-> {}, copy |-> Defaults]

ScpiInit ==
  /\ settings = Defaults /\ stored = Defaults
  /\ listener = [i \in Ids |-> 0]
  /\ sync = [t \in Tasks |-> Idle]

-----------------------------------------------------------------------------
(* Settings::assign *)

\* Configured devices keep their ports, the others lose theirs.
Kept(ports, ids) == [i \in Ids |-> IF i \in ids THEN ports[i] ELSE 0]

\* New devices take the lowest free ports from the base, those first in the configuration
\* first; when the ports end, the others get none.
Assigned(s, ids) ==
  LET kept == Kept(s.ports, ids)
      new == {i \in ids : kept[i] = 0}
      free == (s.base..LastPort) \ {kept[i] : i \in Ids}
      Lowest(f) ==
        /\ \A i, j \in new : f[i] = f[j] /\ f[i] # 0 => i = j
        /\ \A p \in free : (\E i \in new : f[i] = p) \/ (\A i \in new : f[i] # 0 /\ f[i] < p)
  IN {[s EXCEPT !.ports = [i \in Ids |-> IF i \in new THEN f[i] ELSE kept[i]]] :
        f \in {g \in [new -> free \cup {0}] : Lowest(g)}}

\* These have a port each, or no port from the base is left.
Served(s, ids) ==
  \A i \in ids : s.ports[i] # 0 \/ \A p \in s.base..LastPort : \E j \in Ids : s.ports[j] = p

-----------------------------------------------------------------------------
(* Scpi::sync *)

\* Devices::entries, before any lock is taken.
SyncIds(t, ids) ==
  /\ sync' = [sync EXCEPT ![t] = [@ EXCEPT !.step = "assign", !.ids = ids]]
  /\ UNCHANGED <<settings, stored, listener>>

\* A file that cannot be written is only logged.
SyncAssign(t) ==
  /\ sync[t].step = "assign"
  /\ settings' \in Assigned(settings, sync[t].ids)
  /\ stored' \in IF settings' = settings THEN {stored} ELSE {stored, settings'}
  /\ sync' = [sync EXCEPT ![t] = [@ EXCEPT !.step = "listen", !.copy = settings']]
  /\ UNCHANGED listener

Wanted(s) == IF s.on THEN s.ports ELSE [i \in Ids |-> 0]

\* Listeners that are gone, moved or off are aborted, missing ones bound.
SyncListen(t) ==
  /\ sync[t].step = "listen"
  /\ listener' = Wanted(sync[t].copy)
  /\ sync' = [sync EXCEPT ![t] = Idle]
  /\ UNCHANGED <<settings, stored>>

-----------------------------------------------------------------------------
(* Scpi::update *)

\* The settings are copied under the lock and changed outside of it.
UpdateCopy(t, on, base) ==
  LET s == settings IN
  /\ sync[t].step = "idle"
  /\ sync' = [sync EXCEPT ![t] =
       [step |-> "save", ids |-> {},
        copy |-> [on |-> on, base |-> base,
                  ports |-> IF base = s.base THEN s.ports ELSE [i \in Ids |-> 0]]]]
  /\ UNCHANGED <<settings, stored, listener>>

UpdateSave(t, ok) ==
  /\ sync[t].step = "save"
  /\ IF ok
     THEN stored' = sync[t].copy /\ sync' = [sync EXCEPT ![t].step = "replace"]
     ELSE sync' = [sync EXCEPT ![t] = Idle] /\ UNCHANGED stored
  /\ UNCHANGED <<settings, listener>>

\* Mutant of UpdateReplace: the new settings are not applied.
UpdateReplaceOnly(t) ==
  /\ sync[t].step = "replace"
  /\ settings' = sync[t].copy
  /\ sync' = [sync EXCEPT ![t] = Idle]
  /\ UNCHANGED <<stored, listener>>

UpdateReplace(t) ==
  /\ sync[t].step = "replace"
  /\ settings' = sync[t].copy
  /\ sync' = [sync EXCEPT ![t].step = "sync"]
  /\ UNCHANGED <<stored, listener>>

\* The server starts: Scpi::new and attach, before anybody else can call.
ScpiRestart(ids) ==
  /\ settings' \in Assigned(stored, ids)
  /\ stored' \in {stored, settings'}
  /\ listener' = Wanted(settings')
  /\ sync' = [t \in Tasks |-> Idle]

-----------------------------------------------------------------------------

Settings == [on : BOOLEAN, base : Bases, ports : [Ids -> 0..LastPort]]

ScpiTypeOK ==
  /\ settings \in Settings /\ stored \in Settings
  /\ listener \in [Ids -> 0..LastPort]
  /\ sync \in [Tasks -> [step : {"idle", "assign", "listen", "save", "replace", "sync"},
                         ids : SUBSET Ids, copy : Settings]]

\* Two instruments never get one port, whatever copies of the settings are put back
\* and however syncs overlap (Settings::assign, Scpi::update).
PortsDistinct ==
  \A s \in {settings, stored}, i, j \in Ids :
    s.ports[i] # 0 /\ s.ports[i] = s.ports[j] => i = j
=============================================================================
