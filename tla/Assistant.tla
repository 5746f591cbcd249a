----------------------------- MODULE Assistant -----------------------------
(***************************************************************************)
(* The flow assistant and its settings: automation.json, the requests that *)
(* change it, and the conversation with the provider's model (bm-server    *)
(* automation/store.rs SettingsFile, automation/mod.rs, assist.rs).        *)
(*                                                                         *)
(* Keys, models and endpoints are model values; a flow of the model is     *)
(* whether check finds errors in it.  The provider is external.            *)
(***************************************************************************)
EXTENDS Naturals

CONSTANTS
  Providers,    \* of PROVIDERS
  Bodies,       \* bodies of PUT /automation/assistant: [provider, model, url, key], None where left out
  For,          \* [keys and endpoints -> the provider the user typed them for]
  None, Empty,  \* a member left out; the empty string
  Chats,        \* requests to the assistant that may be in progress at once
  Retries,      \* RETRIES
  MaxChanges,   \* bound: changes of the settings
  MaxBreaks     \* bound: kills, and writes that fail

\* The page names the provider with every key that is typed; "anthropic" is the one of a new
\* installation.
ASSUME AssistantAssumption ==
  /\ "anthropic" \in Providers /\ None \notin Providers
  /\ \A b \in Bodies :
       /\ b.provider \in Providers \cup {None}
       /\ b.key \notin {None, Empty} => b.provider # None /\ For[b.key] = b.provider

VARIABLES
  current,  \* SettingsFile.current
  disk,     \* automation.json
  update,   \* the update that holds the lock: its settings and whether they are renamed into place
  strayed,  \* history: an endpoint was saved from a page that showed another provider
  chat,     \* chat[c]: the conversation's settings, its attempts and where it is
  sent,     \* history: sent[c]: what the conversation's last request carried
  result,   \* result[c]: what the conversation was answered with
  changes, breaks \* bounds

assistantVars == <<current, disk, update, strayed, chat, sent, result, changes, breaks>>

Default == [provider |-> "anthropic", models |-> [p \in Providers |-> Empty],
            urls |-> [p \in Providers |-> Empty], keys |-> [p \in Providers |-> Empty], mcp |-> "read"]

NoUpdate == [step |-> "none", next |-> Default]
NoChat == [step |-> "none", settings |-> Default, attempts |-> 0]
NoResult == [end |-> "none", errors |-> FALSE, attempts |-> 0]
NothingSent == [provider |-> None, url |-> Empty, key |-> Empty]

AssistantInit ==
  /\ current = Default /\ disk = Default /\ update = NoUpdate
  /\ strayed = FALSE
  /\ chat = [c \in Chats |-> NoChat] /\ sent = [c \in Chats |-> NothingSent]
  /\ result = [c \in Chats |-> NoResult]
  /\ changes = 0 /\ breaks = 0

-----------------------------------------------------------------------------
(* The settings. *)

\* Mutant: the key is stored for the provider in use, before it is switched.
WithBodyFirst(s, b) ==
  [s EXCEPT !.provider = IF b.provider = None THEN @ ELSE b.provider,
            !.keys = IF b.key = None THEN @ ELSE [@ EXCEPT ![s.provider] = b.key]]

\* put_assistant: the provider first; what else the body has is stored for that provider.
WithBody(s, b) ==
  LET p == IF b.provider = None THEN s.provider ELSE b.provider
      Put(f, v) == IF v = None THEN f ELSE [f EXCEPT ![p] = v]
  IN  [provider |-> p, models |-> Put(s.models, b.model), urls |-> Put(s.urls, b.url),
       keys |-> Put(s.keys, b.key), mcp |-> s.mcp]

\* SettingsFile::update holds the lock until the file is written: no other update or get.
Begin(next) ==
  /\ update = NoUpdate /\ changes < MaxChanges /\ changes' = changes + 1
  /\ update' = [step |-> "write", next |-> next]
  /\ UNCHANGED <<current, disk, chat, sent, result, breaks>>

PutAssistant(b) ==
  /\ Begin(WithBody(current, b))
  /\ strayed' = (strayed \/ (b.url \notin {None, Empty}
                               /\ For[b.url] # WithBody(current, b).provider))

PutMcpAccess(access) == Begin([current EXCEPT !.mcp = access]) /\ UNCHANGED strayed

\* write_private: a temporary file, renamed.
WritePrivate ==
  /\ update.step = "write"
  /\ disk' = update.next /\ update' = [update EXCEPT !.step = "written"]
  /\ UNCHANGED <<current, strayed, chat, sent, result, changes, breaks>>

WriteFails ==
  /\ update.step = "write" /\ breaks < MaxBreaks /\ breaks' = breaks + 1
  /\ update' = NoUpdate
  /\ UNCHANGED <<current, disk, strayed, chat, sent, result, changes>>

Updated ==
  /\ update.step = "written"
  /\ current' = update.next /\ update' = NoUpdate
  /\ UNCHANGED <<disk, strayed, chat, sent, result, changes, breaks>>

\* A kill, and SettingsFile::open in the next process.
SettingsCrash ==
  /\ breaks < MaxBreaks /\ breaks' = breaks + 1
  /\ current' = disk /\ update' = NoUpdate
  /\ chat' = [c \in Chats |-> NoChat] /\ sent' = [c \in Chats |-> NothingSent]
  /\ result' = [c \in Chats |-> NoResult]
  /\ UNCHANGED <<disk, strayed, changes>>

-----------------------------------------------------------------------------
(* A conversation works on the settings it started with. *)

Model(s) == IF s.models[s.provider] # Empty THEN s.models[s.provider]
            ELSE IF s.provider = "anthropic" THEN "default" ELSE Empty

\* model, base_url and key of complete, in their order.
Complaint(s) ==
  CASE Model(s) = Empty                                      -> "choose a model"
    [] s.provider = "custom" /\ s.urls[s.provider] = Empty   -> "needs a base URL"
    [] s.provider # "custom" /\ s.keys[s.provider] = Empty   -> "no API key"
    [] OTHER                                                 -> "none"

AssistFlow(c) ==
  /\ chat[c] = NoChat /\ update = NoUpdate
  /\ chat' = [chat EXCEPT ![c] = [step |-> "ask", settings |-> current, attempts |-> 0]]
  /\ result' = [result EXCEPT ![c] = NoResult] /\ sent' = [sent EXCEPT ![c] = NothingSent]
  /\ UNCHANGED <<current, disk, update, strayed, changes, breaks>>

Ends(c, r) == chat' = [chat EXCEPT ![c] = NoChat] /\ result' = [result EXCEPT ![c] = r]
ChatFailed(n) == [end |-> "error", errors |-> FALSE, attempts |-> n]

Complete(c) ==
  LET s == chat[c].settings
      n == chat[c].attempts + 1
  IN
  /\ chat[c].step = "ask"
  /\ IF Complaint(s) # "none"
     THEN Ends(c, ChatFailed(n)) /\ UNCHANGED sent
     ELSE /\ sent' = [sent EXCEPT ![c] =
                [provider |-> s.provider, url |-> s.urls[s.provider], key |-> s.keys[s.provider]]]
          /\ chat' = [chat EXCEPT ![c] = [step |-> "sent", settings |-> s, attempts |-> n]]
          /\ UNCHANGED result
  /\ UNCHANGED <<current, disk, update, strayed, changes, breaks>>

\* The model submits a flow; one with errors goes back to it, Retries times.
Submitted(c, errors) ==
  LET n == chat[c].attempts IN
  /\ chat[c].step = "sent"
  /\ IF ~errors \/ n > Retries
     THEN Ends(c, [end |-> "flow", errors |-> errors, attempts |-> n])
     ELSE chat' = [chat EXCEPT ![c].step = "ask"] /\ UNCHANGED result
  /\ UNCHANGED <<current, disk, update, strayed, sent, changes, breaks>>

\* No answer, an error of the provider, or an answer without a flow.
NotSubmitted(c) ==
  /\ chat[c].step = "sent"
  /\ Ends(c, ChatFailed(chat[c].attempts))
  /\ UNCHANGED <<current, disk, update, strayed, sent, changes, breaks>>

AssistantNext ==
  \/ \E b \in Bodies : PutAssistant(b)
  \/ \E a \in {"off", "read", "control"} : PutMcpAccess(a)
  \/ WritePrivate \/ WriteFails \/ Updated \/ SettingsCrash
  \/ \E c \in Chats : AssistFlow(c) \/ Complete(c) \/ NotSubmitted(c)
                      \/ \E errors \in BOOLEAN : Submitted(c, errors)

AssistantSpec == AssistantInit /\ [][AssistantNext]_assistantVars

-----------------------------------------------------------------------------
\* What a request to the provider carries was typed for that provider, whatever was switched
\* meanwhile: its key, and its endpoint unless that was saved from a page that showed another
\* provider (put_assistant, assist.rs complete: the settings are read once per conversation).
RequestsMatch ==
  \A c \in Chats :
    LET r == sent[c] IN
    /\ r.key # Empty => For[r.key] = r.provider
    /\ (r.url # Empty /\ ~strayed) => For[r.url] = r.provider

=============================================================================
