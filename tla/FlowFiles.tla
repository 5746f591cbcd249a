----------------------------- MODULE FlowFiles -----------------------------
(***************************************************************************)
(* The saved flows of the data directory: <id>.json, written next to it as *)
(* <id>.json.tmp and renamed (bm-server automation/store.rs Flows,         *)
(* automation/mod.rs save and its requests).                               *)
(*                                                                         *)
(* A file is the document someone sent and whether it is whole; a document *)
(* is its name and whether check finds errors in it.  Requests interleave; *)
(* the process may be killed between two file operations, or one may fail. *)
(***************************************************************************)
EXTENDS Naturals, FiniteSets, FiniteSetsExt

CONSTANTS
  Docs,         \* documents sent
  NameOf,       \* [Docs -> the slug of its name]
  Erroneous,    \* the documents check finds errors in
  Numbers,      \* bound: 1..n, the numbers after a slug that new_id may reach
  SaveTasks,    \* requests that may be in progress at once
  MaxSaves,     \* bound: requests
  MaxTrouble    \* bound: kills, and file operations that fail

ASSUME FlowFilesAssumption == Numbers \subseteq Nat

VARIABLES
  files, tmpOf, \* <id>.json and <id>.json.tmp: absent, or the document and whether it is whole
  save,         \* save[r]: the request's document, its id and its next step
  kept,         \* history: kept[id]: what <id>.json was last answered to be, or may be after a kill
  mixed,        \* history: ids that two requests wrote at once
  replaced,     \* history: ids of flows that a new flow replaced
  unread,       \* history: ids that new_id took as free because their file could not be read
  saves, trouble \* bounds

flowFileVars == <<files, tmpOf, save, kept, mixed, replaced, unread, saves, trouble>>

NoFlow == <<>>
Flow(d) == <<[doc |-> d, whole |-> TRUE]>>
Ids == {NameOf[d] : d \in Docs} \X Numbers

NoSave == [step |-> "none", doc |-> NoFlow, id |-> NoFlow, new |-> FALSE]

FlowFilesInit ==
  /\ files \in {f \in [Ids -> {NoFlow} \cup {Flow(d) : d \in Docs \ Erroneous}] :
                  Cardinality({i \in Ids : f[i] # NoFlow}) <= 1}
  /\ tmpOf = [i \in Ids |-> NoFlow]
  /\ save = [r \in SaveTasks |-> NoSave]
  /\ kept = [i \in Ids |-> {files[i]}]
  /\ mixed = {} /\ replaced = {} /\ unread = {} /\ saves = 0 /\ trouble = 0

\* Flows::get: a file that cannot be read (`bad`), or does not parse, is no flow.
Get(id, bad) ==
  IF id \notin bad /\ files[id] # NoFlow /\ files[id][1].whole THEN files[id] ELSE NoFlow

\* Flows::new_id: the slug, or the first number after it that is free.
NewId(d, bad) ==
  LET free == {n \in Numbers : Get(<<NameOf[d], n>>, bad) = NoFlow}
  IN  IF free = {} THEN {} ELSE {<<NameOf[d], Min(free)>>}

Writing(id) == {r \in SaveTasks : save[r].step # "none" /\ save[r].id = id}

\* Automation::save up to Flows::put: nothing is saved of a document with errors.
Save(r, d, id, new) ==
  /\ save[r] = NoSave /\ saves < MaxSaves /\ saves' = saves + 1
  /\ d \notin Erroneous
  /\ save' = [save EXCEPT ![r] = [step |-> "write", doc |-> Flow(d), id |-> id, new |-> new]]
  /\ mixed' = IF Writing(id) = {} THEN mixed ELSE mixed \cup {id}
  /\ UNCHANGED <<files, tmpOf, kept, replaced>>

\* A read may fail while the id is chosen.
CreateFlow(r) ==
  \E d \in Docs, bad \in {{}} \cup {{id} : id \in Ids} : \E id \in NewId(d, bad) :
    /\ Save(r, d, id, TRUE)
    /\ bad # {} => trouble < MaxTrouble
    /\ trouble' = IF bad = {} THEN trouble ELSE trouble + 1
    /\ unread' = unread \cup (bad \cap {id})
PutFlow(r) ==
  /\ \E d \in Docs, id \in Ids : Save(r, d, id, FALSE)
  /\ UNCHANGED <<unread, trouble>>

\* Mutant: the flow's file itself is truncated and written.
OpenFile(r) ==
  /\ save[r].step = "write"
  /\ files' = [files EXCEPT ![save[r].id] = <<[doc |-> save[r].doc[1].doc, whole |-> FALSE]>>]
  /\ save' = [save EXCEPT ![r].step = "writing"]
  /\ UNCHANGED <<tmpOf, kept, mixed, replaced, unread, saves, trouble>>

\* fs::write truncates the file it opens, whoever wrote it, then writes.
OpenTmp(r) ==
  /\ save[r].step = "write"
  /\ tmpOf' = [tmpOf EXCEPT ![save[r].id] = <<[doc |-> save[r].doc[1].doc, whole |-> FALSE]>>]
  /\ save' = [save EXCEPT ![r].step = "writing"]
  /\ UNCHANGED <<files, kept, mixed, replaced, unread, saves, trouble>>

\* The file that was opened may have been renamed by another request since.
WriteTmp(r) ==
  LET id == save[r].id
      cut == <<[doc |-> save[r].doc[1].doc, whole |-> FALSE]>>
  IN
  /\ save[r].step = "writing"
  /\ tmpOf' = [tmpOf EXCEPT ![id] = IF @ = cut THEN save[r].doc ELSE @]
  /\ files' = [files EXCEPT ![id] = IF tmpOf[id] # cut /\ @ = cut THEN save[r].doc ELSE @]
  /\ save' = [save EXCEPT ![r].step = "rename"]
  /\ UNCHANGED <<kept, mixed, replaced, unread, saves, trouble>>

\* After the rename the request is answered; what it saved is what the file may now be.
RenameTmp(r) ==
  LET id == save[r].id IN
  /\ save[r].step = "rename" /\ tmpOf[id] # NoFlow
  /\ files' = [files EXCEPT ![id] = tmpOf[id]]
  /\ tmpOf' = [tmpOf EXCEPT ![id] = NoFlow]
  /\ replaced' = IF save[r].new /\ files[id] # NoFlow THEN replaced \cup {id} ELSE replaced
  /\ kept' = [kept EXCEPT ![id] = {save[r].doc}]
  /\ save' = [save EXCEPT ![r] = NoSave]
  /\ UNCHANGED <<mixed, unread, saves, trouble>>

\* An operation fails, or the file to be renamed is gone: 500, and the flow is as it was.
SaveFails(r) ==
  LET id == save[r].id IN
  /\ save[r].step # "none"
  /\ \/ trouble < MaxTrouble /\ trouble' = trouble + 1
     \/ save[r].step = "rename" /\ tmpOf[id] = NoFlow /\ UNCHANGED trouble
  /\ save' = [save EXCEPT ![r] = NoSave]
  /\ UNCHANGED <<files, tmpOf, kept, mixed, replaced, unread, saves>>

\* Flows::delete; a request that is still writing brings the flow back.
DeleteFlow(id) ==
  /\ files[id] # NoFlow /\ saves < MaxSaves /\ saves' = saves + 1
  /\ files' = [files EXCEPT ![id] = NoFlow]
  /\ kept' = [kept EXCEPT ![id] = {NoFlow}]
  /\ UNCHANGED <<tmpOf, save, mixed, replaced, unread, trouble>>

\* The process is killed; the next one finds the files as they are.
FlowsCrash ==
  /\ trouble < MaxTrouble /\ trouble' = trouble + 1
  /\ save' = [r \in SaveTasks |-> NoSave]
  /\ kept' = [id \in Ids |-> kept[id] \cup {save[r].doc : r \in Writing(id)}]
  /\ UNCHANGED <<files, tmpOf, mixed, replaced, unread, saves>>

FlowFilesNext ==
  \/ \E r \in SaveTasks : CreateFlow(r) \/ PutFlow(r) \/ OpenTmp(r) \/ WriteTmp(r)
                          \/ RenameTmp(r) \/ SaveFails(r)
  \/ \E id \in Ids : DeleteFlow(id)
  \/ FlowsCrash

FlowFilesSpec == FlowFilesInit /\ [][FlowFilesNext]_flowFileVars

-----------------------------------------------------------------------------
\* A flow that was answered as saved is what its file holds, whole, until the next request for
\* it is answered: after a kill or an error at any step, the file is that flow or the one being
\* saved.  Creating a flow replaces none, unless that one's file could not be read while the id
\* was chosen.  (Not for an id that two requests wrote at once: they share its .json.tmp, and
\* two flows of one name created at once get the same id.)
FlowsKept ==
  \A id \in Ids \ mixed :
    /\ files[id] \in kept[id] \cup {save[r].doc : r \in Writing(id)}
    /\ id \notin replaced \ unread
    /\ Get(id, {}) = files[id]

\* new_id gives a flow "a new id from the flow's name" (store.rs:103): it is not, when the file
\* of a flow that has it cannot be read.
NewIdIsNew == replaced \ mixed = {}
=============================================================================
