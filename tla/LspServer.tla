------------------------------ MODULE LspServer ------------------------------
(***************************************************************************)
(* The SolidityDefend language server (crates/lsp/src/server.rs): its      *)
(* document store and the notification handlers that run over it.          *)
(*                                                                         *)
(* tower-lsp starts the handlers in the order of the notifications but     *)
(* runs up to Handlers of them concurrently; a handler gives way to the    *)
(* others only at an .await.  One action below is the code between two     *)
(* awaits, so every interleaving the runtime can produce is a behaviour.   *)
(*                                                                         *)
(* Data.  A text is the sequence of the edits that produced it, an edit is *)
(* the number of the notification that carried it.  The findings of a text *)
(* are named by the text itself; NoFindings is the empty vector.           *)
(***************************************************************************)
EXTENDS Integers, Sequences, FiniteSets

CONSTANTS
  Uris,          \* documents the editor works on
  Handlers,      \* tower-lsp's slots for running handlers (4 by default)
  BadEdits,      \* edits after which the text does not parse
  MaxInFlight,   \* notifications the editor sends ahead of the server
  MaxClock,      \* bound: notifications in a behaviour
  NoDoc, Idle    \* absent entry of the store, free handler slot

Clocks == 1 .. MaxClock
Texts == Seq(Clocks)
NoFindings == << >>
Failed == <<0>>   \* the error of a text that does not parse; no text has edit 0

Doc == [content : Texts, version : Clocks, findings : Texts]

SaveSteps == {"saveSettings", "saveAnalysed", "savePublish"}
Steps == {"debounce", "settings", "analysed", "store", "closePublish"} \cup SaveSteps
Task == [step : Steps, uri : Uris, content : Texts,
         version : Clocks, found : Texts \cup {Failed}]

Message == [kind : {"open", "full", "edit", "save", "close"},
            uri : Uris, version : Clocks]

ASSUME LspAssumption ==
  /\ MaxClock \in Nat
  /\ MaxInFlight \in Nat \ {0}
  /\ BadEdits \subseteq Nat
  /\ NoDoc \notin Doc
  /\ Idle \notin Task

VARIABLES
  clock,     \* notifications sent so far
  editor,    \* the editor's text of each document, << >> while it is closed
  inbox,     \* notifications sent and not yet picked up
  docs,      \* documents: the server's store of open files
  task,      \* what each handler slot is running
  shown,     \* diagnostics the editor shows: the last ones published
  crowded,   \* history: documents that had two notifications in flight
  saveRaced  \* history: those of them where one was a didSave

serverVars == <<docs, task, shown>>
history == <<crowded, saveRaced>>
vars == <<clock, editor, inbox, docs, task, shown, crowded, saveRaced>>

Init ==
  /\ clock = 0
  /\ editor = [u \in Uris |-> << >>]
  /\ inbox = << >>
  /\ docs = [u \in Uris |-> NoDoc]
  /\ task = [h \in Handlers |-> Idle]
  /\ shown = [u \in Uris |-> NoFindings]
  /\ crowded = {}
  /\ saveRaced = {}

-----------------------------------------------------------------------------
(* The editor and the transport, external to src/.                         *)

Busy == {h \in Handlers : task[h] # Idle}
InFlight == Len(inbox) + Cardinality(Busy)

(* Notifications of u not handled to their end: in the inbox, running.     *)
Waiting(u) == {i \in 1 .. Len(inbox) : inbox[i].uri = u}
Running(u) == {h \in Busy : task[h].uri = u}
QuietFor(u) == Waiting(u) = {} /\ Running(u) = {}

Saving(u) == \/ \E i \in Waiting(u) : inbox[i].kind = "save"
             \/ \E h \in Running(u) : task[h].step \in SaveSteps

Notify(kind, u) ==
  /\ clock < MaxClock
  /\ InFlight < MaxInFlight
  /\ clock' = clock + 1
  /\ inbox' = Append(inbox, [kind |-> kind, uri |-> u, version |-> clock + 1])
  /\ crowded' = IF QuietFor(u) THEN crowded ELSE crowded \cup {u}
  /\ saveRaced' = IF ~QuietFor(u) /\ (kind = "save" \/ Saving(u))
                  THEN saveRaced \cup {u} ELSE saveRaced
  /\ UNCHANGED serverVars

Open(u) ==
  /\ editor[u] = << >>
  /\ editor' = [editor EXCEPT ![u] = <<clock + 1>>]
  /\ Notify("open", u)

(* An incremental edit, and one that replaces the whole text.              *)
Edit(u) ==
  /\ editor[u] # << >>
  /\ editor' = [editor EXCEPT ![u] = Append(@, clock + 1)]
  /\ Notify("edit", u)

ReplaceAll(u) ==
  /\ editor[u] # << >>
  /\ editor' = [editor EXCEPT ![u] = <<clock + 1>>]
  /\ Notify("full", u)

Save(u) ==
  /\ editor[u] # << >>
  /\ UNCHANGED editor
  /\ Notify("save", u)

Close(u) ==
  /\ editor[u] # << >>
  /\ editor' = [editor EXCEPT ![u] = << >>]
  /\ Notify("close", u)

EditorStep == \E u \in Uris : Open(u) \/ Edit(u) \/ ReplaceAll(u) \/ Save(u) \/ Close(u)

-----------------------------------------------------------------------------
(* The server.                                                             *)

(* AnalysisSettings::default(): nothing in the server ever changes them.   *)
AnalyzeOnChange == TRUE
AnalyzeOnSave == TRUE

(* analyze_document_sync: an error when the text does not parse, else the  *)
(* findings of the text.                                                   *)
Analysis(text) == IF text[Len(text)] \in BadEdits THEN Failed ELSE text

(* What a didChange leaves of a stored text.                               *)
Applied(text, m) == IF m.kind = "full" THEN <<m.version>> ELSE Append(text, m.version)

(* Slot h takes the next notification, of one of kinds.                    *)
Receive(h, kinds) ==
  /\ task[h] = Idle
  /\ inbox # << >>
  /\ Head(inbox).kind \in kinds
  /\ inbox' = Tail(inbox)
  /\ UNCHANGED <<clock, editor, shown, history>>

NewTask(step, m, text) ==
  [step |-> step, uri |-> m.uri, content |-> text,
   version |-> m.version, found |-> NoFindings]

DidOpen(h) ==
  /\ Receive(h, {"open"})
  /\ LET m == Head(inbox)
     IN task' = [task EXCEPT ![h] = NewTask("settings", m, <<m.version>>)]
  /\ UNCHANGED docs

(* The text is edited in the store, cloned, and the entry released before  *)
(* the debounce sleep; with no entry the notification is dropped.          *)
DidChange(h) ==
  /\ Receive(h, {"full", "edit"})
  /\ LET m == Head(inbox)
     IN IF docs[m.uri] = NoDoc
        THEN UNCHANGED <<docs, task>>
        ELSE LET text == Applied(docs[m.uri].content, m)
             IN /\ docs' = [docs EXCEPT ![m.uri].content = text]
                /\ task' = [task EXCEPT ![h] = NewTask("debounce", m, text)]

DidSave(h) ==
  /\ Receive(h, {"save"})
  /\ task' = [task EXCEPT ![h] = NewTask("saveSettings", Head(inbox), << >>)]
  /\ UNCHANGED docs

(* Mutant: the entry of a closed document is kept.                         *)
DidCloseKeepsEntry(h) ==
  /\ Receive(h, {"close"})
  /\ task' = [task EXCEPT ![h] = NewTask("closePublish", Head(inbox), << >>)]
  /\ UNCHANGED docs

DidClose(h) ==
  /\ Receive(h, {"close"})
  /\ LET m == Head(inbox)
     IN /\ docs' = [docs EXCEPT ![m.uri] = NoDoc]
        /\ task' = [task EXCEPT ![h] = NewTask("closePublish", m, << >>)]

(* A handler that stands at step resumes; what it does to the shared state *)
(* is said by the action.                                                  *)
Resume(h, step) ==
  /\ task[h] # Idle
  /\ task[h].step = step
  /\ UNCHANGED <<clock, editor, inbox, history>>

Debounce(h) ==
  /\ Resume(h, "debounce")
  /\ task' = [task EXCEPT ![h].step = "settings"]
  /\ UNCHANGED <<docs, shown>>

(* handle_document_change reads the settings, analyses its copy of the     *)
(* text and suspends in log_message.                                       *)
Analyze(h) ==
  /\ Resume(h, "settings")
  /\ task' = IF AnalyzeOnChange
             THEN [task EXCEPT ![h].step = "analysed",
                               ![h].found = Analysis(task[h].content)]
             ELSE [task EXCEPT ![h].step = "store"]
  /\ UNCHANGED <<docs, shown>>

Publish(h) ==
  /\ Resume(h, "analysed")
  /\ task[h].found # Failed
  /\ shown' = [shown EXCEPT ![task[h].uri] = task[h].found]
  /\ task' = [task EXCEPT ![h].step = "store"]
  /\ UNCHANGED docs

(* The error is logged; the state to store keeps its empty findings.       *)
ReportFailure(h) ==
  /\ Resume(h, "analysed")
  /\ task[h].found = Failed
  /\ task' = [task EXCEPT ![h].step = "store", ![h].found = NoFindings]
  /\ UNCHANGED <<docs, shown>>

StoreText(h, text) ==
  /\ Resume(h, "store")
  /\ docs' = [docs EXCEPT ![task[h].uri] =
                [content |-> text, version |-> task[h].version,
                 findings |-> task[h].found]]
  /\ task' = [task EXCEPT ![h] = Idle]
  /\ UNCHANGED shown

(* Mutants: the edit is applied once more to the text that is stored; the  *)
(* stored text is kept and only its findings are replaced.                 *)
StoreReapplies(h) ==
  LET doc == docs[task[h].uri]
  IN StoreText(h, IF doc = NoDoc THEN task[h].content
                  ELSE Append(doc.content, task[h].version))
StoreKeepsText(h) ==
  LET doc == docs[task[h].uri]
  IN StoreText(h, IF doc = NoDoc THEN task[h].content ELSE doc.content)

(* documents.insert of the handler's own copy, whatever the store holds.   *)
Store(h) == StoreText(h, task[h].content)

(* did_save: the stored text is cloned and analysed.                       *)
SaveAnalyze(h) ==
  /\ Resume(h, "saveSettings")
  /\ LET doc == docs[task[h].uri]
     IN task' = IF AnalyzeOnSave /\ doc # NoDoc
                THEN [task EXCEPT ![h].step = "saveAnalysed",
                                  ![h].content = doc.content,
                                  ![h].found = Analysis(doc.content)]
                ELSE [task EXCEPT ![h] = Idle]
  /\ UNCHANGED <<docs, shown>>

SaveUpdate(h) ==
  /\ Resume(h, "saveAnalysed")
  /\ task[h].found # Failed
  /\ docs' = IF docs[task[h].uri] = NoDoc THEN docs
             ELSE [docs EXCEPT ![task[h].uri].findings = task[h].found]
  /\ task' = [task EXCEPT ![h].step = "savePublish"]
  /\ UNCHANGED shown

(* Mutant: a failed analysis is tried again.                               *)
SaveFailureRetries(h) ==
  /\ Resume(h, "saveAnalysed")
  /\ task[h].found = Failed
  /\ task' = [task EXCEPT ![h].step = "saveSettings"]
  /\ UNCHANGED <<docs, shown>>

SaveFailure(h) ==
  /\ Resume(h, "saveAnalysed")
  /\ task[h].found = Failed
  /\ task' = [task EXCEPT ![h] = Idle]
  /\ UNCHANGED <<docs, shown>>

SavePublish(h) ==
  /\ Resume(h, "savePublish")
  /\ shown' = [shown EXCEPT ![task[h].uri] = task[h].found]
  /\ task' = [task EXCEPT ![h] = Idle]
  /\ UNCHANGED docs

(* Mutant: nothing is published for a closed document.                     *)
ClosePublishesNothing(h) ==
  /\ Resume(h, "closePublish")
  /\ task' = [task EXCEPT ![h] = Idle]
  /\ UNCHANGED <<docs, shown>>

ClosePublish(h) ==
  /\ Resume(h, "closePublish")
  /\ shown' = [shown EXCEPT ![task[h].uri] = NoFindings]
  /\ task' = [task EXCEPT ![h] = Idle]
  /\ UNCHANGED docs

-----------------------------------------------------------------------------
Start(h) == DidOpen(h) \/ DidChange(h) \/ DidSave(h) \/ DidClose(h)

Run(h) ==
  \/ Debounce(h) \/ Analyze(h) \/ Publish(h) \/ ReportFailure(h) \/ Store(h)
  \/ SaveAnalyze(h) \/ SaveUpdate(h) \/ SaveFailure(h) \/ SavePublish(h)
  \/ ClosePublish(h)

Next == EditorStep \/ \E h \in Handlers : Start(h) \/ Run(h)

(* The runtime polls every handler whose await is ready and fills a free   *)
(* slot while notifications wait; nothing obliges the editor to send any.  *)
Fairness ==
  /\ WF_vars(\E h \in Handlers : Start(h))
  /\ \A h \in Handlers : WF_vars(Run(h))

Spec == Init /\ [][Next]_vars
FairSpec == Spec /\ Fairness
-----------------------------------------------------------------------------
(* Properties.                                                             *)

TypeOK ==
  /\ clock \in 0 .. MaxClock
  /\ editor \in [Uris -> Texts]
  /\ inbox \in Seq(Message)
  /\ docs \in [Uris -> Doc \cup {NoDoc}]
  /\ task \in [Handlers -> Task \cup {Idle}]
  /\ shown \in [Uris -> Texts]
  /\ crowded \subseteq Uris
  /\ saveRaced \subseteq Uris

(* Whatever the handlers overwrite or resurrect, they only ever lose       *)
(* edits: no stored text has the edits of the editor in another order, or  *)
(* one of them twice (did_change edits the store before its first await).  *)
Ascending(s) == \A i, j \in 1 .. Len(s) : i < j => s[i] < s[j]

EditsInOrder == \A u \in Uris : docs[u] # NoDoc => Ascending(docs[u].content)

(* A stored text whose stored findings are not its own is still being      *)
(* worked on: a handler of that document runs and will store its own copy  *)
(* (handle_document_change).  Except where a didSave raced: it writes the  *)
(* findings of the text it read into an entry that may hold another.       *)
Outcome(text) == IF Analysis(text) = Failed THEN NoFindings ELSE text

StaleOnlyWhileRunning ==
  \A u \in Uris \ saveRaced :
    docs[u] # NoDoc /\ docs[u].findings # Outcome(docs[u].content)
      => Running(u) # {}

(* A document whose notifications were always handled one at a time is,    *)
(* between them, stored exactly while it is open and with the editor's     *)
(* text, whatever happens to other documents meanwhile.  The editor shows  *)
(* the findings of that text, and of a closed document nothing.            *)
(* After a failed analysis the old findings stay: the error is logged and  *)
(* nothing is published.  An analysis that ends after did_close leaves     *)
(* findings on a document that is not among these.                         *)
DocumentsInSync ==
  \A u \in Uris \ crowded :
    QuietFor(u) =>
      IF editor[u] = << >>
      THEN docs[u] = NoDoc /\ shown[u] = NoFindings
      ELSE /\ docs[u] # NoDoc /\ docs[u].content = editor[u]
           /\ Analysis(editor[u]) # Failed => shown[u] = editor[u]

Quiet == inbox = << >> /\ Busy = {}

(* Every notification is handled to its end, however the handlers          *)
(* interleave and whatever their analyses return.                          *)
EveryNotificationHandled == []<>Quiet

-----------------------------------------------------------------------------
(* What a comment of server.rs says and concurrent handlers do not keep.   *)

(* did_change, "Get current document content and apply changes": an open   *)
(* document has all its edits once they are handled.                       *)
ChangesApplied ==
  Quiet => \A u \in Uris :
             editor[u] # << >> /\ docs[u] # NoDoc => docs[u].content = editor[u]
=============================================================================
