----------------------------- MODULE Autostart -----------------------------
(***************************************************************************)
(* Starting with the computer: the entry that a systemd user service, a    *)
(* LaunchAgent or the user's Run key keeps, and the requests that switch it*)
(* on and off (bm-server system/autostart.rs, put_autostart).              *)
(*                                                                         *)
(* A word of the command is a sequence of characters, quoted as each       *)
(* system's entry wants it; what starts is what that system reads back.    *)
(***************************************************************************)
EXTENDS Naturals, Sequences, SequencesExt

CONSTANTS
  Systems,      \* "linux", "macos", "windows", "other"
  Arguments,    \* words the command line may have besides the program
  PutTasks,     \* requests that may be in progress at once
  MaxPuts,      \* bound: requests
  MaxMishaps    \* bound: file operations and helper programs that fail

ASSUME AutostartAssumption == Systems \subseteq {"linux", "macos", "windows", "other"}

VARIABLES
  system,
  mode,     \* System.headless: "headless", a simulation, or the desktop app
  launch,   \* Launch: the words of the command
  entry,    \* the unit, the plist or the registry value: absent, or its text and whether it is whole
  linked,   \* Linux: systemd's link of the unit in default.target.wants
  put,      \* put[r]: what the request asked, and its next step
  told,     \* history: the last answer, if no request overlapped the one it answers
  blind,    \* history: a registry query failed although the value may be there
  puts, mishaps \* bounds

autostartVars == <<system, mode, launch, entry, linked, put, told, blind, puts, mishaps>>

NoEntry == <<>>
Quote == "\""
Slash == "\\"
Tab == "\t"
Repeat(c, n) == [i \in 1..n |-> c]

-----------------------------------------------------------------------------
(* How a word is written. *)

SystemdWord(a) ==
  <<Quote>> \o FlattenSeq([i \in 1..Len(a) |->
     CASE a[i] \in {Slash, Quote} -> <<Slash, a[i]>>
       [] a[i] \in {"%", "$"}     -> <<a[i], a[i]>>
       [] OTHER                   -> <<a[i]>>]) \o <<Quote>>

\* xml, with the entity as one character
Xml(a) == [i \in 1..Len(a) |-> CASE a[i] = "&" -> "&amp;" [] a[i] = Quote -> "&quot;" [] OTHER -> a[i]]

\* Mutant: backslashes before a quote are not doubled.
WindowsStepEscaped(s, c) ==
  IF c = Quote THEN [out |-> s.out \o Repeat(Slash, s.slashes + 1) \o <<c>>, slashes |-> 0]
  ELSE IF c = Slash THEN [s EXCEPT !.slashes = @ + 1]
  ELSE [out |-> s.out \o Repeat(Slash, s.slashes) \o <<c>>, slashes |-> 0]

\* Backslashes are doubled before a quote, and at the end of a quoted word.
WindowsStep(s, c) ==
  CASE c = Slash -> [s EXCEPT !.slashes = @ + 1]
    [] c = Quote -> [out |-> s.out \o Repeat(Slash, 2 * s.slashes + 1) \o <<c>>, slashes |-> 0]
    [] OTHER     -> [out |-> s.out \o Repeat(Slash, s.slashes) \o <<c>>, slashes |-> 0]

WindowsWord(a) ==
  IF a # <<>> /\ ToSet(a) \cap {" ", Tab, Quote} = {} THEN a
  ELSE LET s == FoldLeft(WindowsStep, [out |-> <<Quote>>, slashes |-> 0], a)
       IN  s.out \o Repeat(Slash, 2 * s.slashes) \o <<Quote>>

Spaced(words) == FlattenSeq([i \in 1..Len(words) |-> IF i = 1 THEN words[1] ELSE <<" ">> \o words[i]])

\* A unit's ExecStart, a plist's ProgramArguments and a registry value.
TextFor(sys, words) ==
  CASE sys = "linux"   -> Spaced([i \in 1..Len(words) |-> SystemdWord(words[i])])
    [] sys = "macos"   -> [i \in 1..Len(words) |-> Xml(words[i])]
    [] sys = "windows" -> Spaced([i \in 1..Len(words) |-> WindowsWord(words[i])])

EntryText == TextFor(system, launch)

-----------------------------------------------------------------------------
(* How the systems read it (external). *)

NoWord == [words |-> <<>>, word |-> <<>>, inside |-> FALSE, begun |-> FALSE, pending |-> ""]

EndWord(s) == IF s.begun THEN [NoWord EXCEPT !.words = Append(s.words, s.word)] ELSE s
Take(s, c) == [s EXCEPT !.word = Append(@, c), !.begun = TRUE, !.pending = ""]

\* systemd: a backslash takes the next character; a specifier or a variable is doubled.
SystemdReads(s, c) ==
  CASE s.pending = Slash               -> Take(s, c)
    [] s.pending = "%" \/ s.pending = "$" -> Take(s, IF c = s.pending THEN c ELSE "expanded")
    [] c \in {Slash, "%", "$"}         -> [s EXCEPT !.pending = c]
    [] c = Quote                       -> [s EXCEPT !.inside = ~@, !.begun = TRUE]
    [] c \in {" ", Tab} /\ ~s.inside    -> EndWord(s)
    [] OTHER                           -> Take(s, c)

\* A Windows program: backslashes count only before a quote.
NoSlashes == [words |-> <<>>, word |-> <<>>, inside |-> FALSE, begun |-> FALSE, slashes |-> 0]

Literal(s) == [s EXCEPT !.word = @ \o Repeat(Slash, s.slashes), !.slashes = 0,
                        !.begun = @ \/ s.slashes > 0]

WindowsReads(s, c) ==
  CASE c = Slash -> [s EXCEPT !.slashes = @ + 1, !.begun = TRUE]
    [] c = Quote ->
         LET half == [s EXCEPT !.word = @ \o Repeat(Slash, s.slashes \div 2), !.slashes = 0, !.begun = TRUE]
         IN  IF s.slashes % 2 = 1 THEN [half EXCEPT !.word = Append(@, Quote)]
             ELSE [half EXCEPT !.inside = ~@]
    [] c \in {" ", Tab} /\ ~s.inside ->
         LET t == Literal(s) IN IF t.begun THEN [NoSlashes EXCEPT !.words = Append(t.words, t.word)] ELSE t
    [] OTHER -> [Literal(s) EXCEPT !.word = Append(@, c), !.begun = TRUE]

\* The words of the command that the entry starts.
Reads(text) ==
  CASE system = "linux"   -> EndWord(FoldLeft(SystemdReads, NoWord, text)).words
    [] system = "macos"   -> [i \in 1..Len(text) |-> [j \in 1..Len(text[i]) |->
                                CASE text[i][j] = "&amp;" -> "&" [] text[i][j] = "&quot;" -> Quote
                                  [] OTHER -> text[i][j]]]
    [] system = "windows" -> LET t == Literal(FoldLeft(WindowsReads, NoSlashes, text))
                             IN  IF t.begun THEN Append(t.words, t.word) ELSE t.words

Starts == entry # NoEntry /\ entry[1].whole /\ (system = "linux" => linked)

\* Status.enabled
Enabled == entry # NoEntry /\ (system = "linux" => linked)

-----------------------------------------------------------------------------
(* The requests. *)

NoPut == [enabled |-> FALSE, step |-> "none", alone |-> FALSE]

AutostartInit ==
  /\ system \in Systems /\ mode \in {"headless", "simulation", "desktop"}
  /\ launch \in {<<<<"b">>>>} \cup {<<<<"b">>, a>> : a \in Arguments}
  /\ entry = NoEntry /\ linked = FALSE
  /\ put = [r \in PutTasks |-> NoPut]
  /\ told = "nothing" /\ blind = FALSE /\ puts = 0 /\ mishaps = 0

FirstStep(enabled) ==
  CASE system = "linux"   -> IF enabled THEN "write" ELSE "unlink"
    [] system = "macos"   -> IF enabled THEN "write" ELSE "remove"
    [] system = "windows" -> IF enabled THEN "add" ELSE "query"
    [] OTHER              -> IF enabled THEN "refused" ELSE "done"

\* put_autostart: a simulation and the desktop app answer 409.
Put(r, enabled) ==
  /\ mode = "headless" /\ put[r] = NoPut /\ puts < MaxPuts /\ puts' = puts + 1
  /\ put' = [q \in PutTasks |->
       IF q = r THEN [enabled |-> enabled, step |-> FirstStep(enabled),
                      alone |-> \A o \in PutTasks : put[o] = NoPut]
                ELSE [put[q] EXCEPT !.alone = FALSE]]
  /\ told' = "nothing"
  /\ UNCHANGED <<system, mode, launch, entry, linked, blind, mishaps>>

Doing(r, step) == put[r].step = step
Then(r, step) == put' = [put EXCEPT ![r].step = step]
Well == UNCHANGED mishaps
Mishap == mishaps < MaxMishaps /\ mishaps' = mishaps + 1

Write(r) ==
  /\ Doing(r, "write")
  /\ \/ /\ Well /\ entry' = <<[text |-> EntryText, whole |-> TRUE]>>
        /\ Then(r, IF system = "linux" THEN "reload, link" ELSE "done")
     \/ /\ Mishap /\ entry' \in {entry, <<[text |-> EntryText, whole |-> FALSE]>>}
        /\ Then(r, "refused")
  /\ UNCHANGED <<system, mode, launch, linked, told, blind, puts>>

Reload(r) ==
  /\ Doing(r, "reload, link") \/ Doing(r, "reload")
  /\ \/ Well /\ Then(r, IF Doing(r, "reload") THEN "done" ELSE "link")
     \/ Mishap /\ Then(r, "refused")
  /\ UNCHANGED <<system, mode, launch, entry, linked, told, blind, puts>>

\* systemctl enable: a unit that another request removed cannot be enabled.
Link(r) ==
  /\ Doing(r, "link")
  /\ \/ Well /\ entry # NoEntry /\ linked' = TRUE /\ Then(r, "done")
     \/ (Mishap \/ (Well /\ entry = NoEntry)) /\ Then(r, "refused") /\ UNCHANGED linked
  /\ UNCHANGED <<system, mode, launch, entry, told, blind, puts>>

\* systemctl disable: its failure is ignored.
Unlink(r) ==
  /\ Doing(r, "unlink") /\ Then(r, "remove, reload")
  /\ \/ Well /\ linked' = FALSE
     \/ Mishap /\ UNCHANGED linked
  /\ UNCHANGED <<system, mode, launch, entry, told, blind, puts>>

RemoveFile(r) ==
  /\ Doing(r, "remove") \/ Doing(r, "remove, reload")
  /\ \/ Well /\ entry' = NoEntry /\ Then(r, IF system = "linux" THEN "reload" ELSE "done")
     \/ Mishap /\ entry # NoEntry /\ UNCHANGED entry /\ Then(r, "refused")
  /\ UNCHANGED <<system, mode, launch, linked, told, blind, puts>>

Add(r) ==
  /\ Doing(r, "add")
  /\ \/ Well /\ entry' = <<[text |-> EntryText, whole |-> TRUE]>> /\ Then(r, "done")
     \/ Mishap /\ UNCHANGED entry /\ Then(r, "refused")
  /\ UNCHANGED <<system, mode, launch, linked, told, blind, puts>>

\* A query that fails, whatever the reason, counts as "not there".
QueryValue(r) ==
  /\ Doing(r, "query")
  /\ \/ Well /\ Then(r, IF entry = NoEntry THEN "done" ELSE "delete") /\ UNCHANGED blind
     \/ Mishap /\ Then(r, "done") /\ blind' = TRUE
  /\ UNCHANGED <<system, mode, launch, entry, linked, told, puts>>

Delete(r) ==
  /\ Doing(r, "delete")
  /\ \/ Well /\ entry # NoEntry /\ entry' = NoEntry /\ Then(r, "done")
     \/ (Mishap \/ (Well /\ entry = NoEntry)) /\ UNCHANGED entry /\ Then(r, "refused")
  /\ UNCHANGED <<system, mode, launch, linked, told, blind, puts>>

Answer(r) ==
  /\ Doing(r, "done") \/ Doing(r, "refused")
  /\ put' = [put EXCEPT ![r] = NoPut]
  /\ told' = (IF ~put[r].alone THEN "nothing"
              ELSE IF Doing(r, "refused") THEN "failed" ELSE IF put[r].enabled THEN "on" ELSE "off")
  /\ UNCHANGED <<system, mode, launch, entry, linked, blind, puts, mishaps>>

AutostartNext ==
  \E r \in PutTasks :
    \/ \E enabled \in BOOLEAN : Put(r, enabled)
    \/ Write(r) \/ Reload(r) \/ Link(r) \/ Unlink(r) \/ RemoveFile(r)
    \/ Add(r) \/ QueryValue(r) \/ Delete(r) \/ Answer(r)

AutostartSpec == AutostartInit /\ [][AutostartNext]_autostartVars

-----------------------------------------------------------------------------
\* What an answer promised holds until the next request: "on" means this very command, word for
\* word, is started with the computer; "off" means nothing is, even when systemctl could not
\* remove its link.  (put_autostart, enable, disable; not for requests that overlapped, nor after
\* a registry query that failed.)
AnswersHold ==
  /\ told = "on" => Starts /\ Reads(entry[1].text) = launch
  /\ (told = "off" /\ ~blind) => ~Starts /\ ~Enabled
=============================================================================
