---------------------------- MODULE LspServer_proofs ----------------------------
(***************************************************************************)
(* Theorems about LspServer for any documents, handler slots, edits that   *)
(* do not parse and number of notifications.                               *)
(***************************************************************************)
EXTENDS LspServer, SequenceTheorems, TLAPS

(* TypeOK is not inductive by itself: what a handler is about to store or  *)
(* to publish must be findings, never the error of a failed analysis.      *)
FoundIsText ==
  \A h \in Handlers :
    task[h] # Idle /\ task[h].step \in {"store", "savePublish"} => task[h].found \in Texts
TypeInv == TypeOK /\ FoundIsText

(* An analysis gives findings or the error.                                *)
LEMMA AnalysisTyped ==
  ASSUME NEW text \in Texts
  PROVE  Analysis(text) \in Texts \cup {Failed}
BY DEF Analysis

(* A text grows by a notification's edit into a text.                      *)
LEMMA AppliedTyped ==
  ASSUME NEW text \in Texts, NEW m \in Message
  PROVE  Applied(text, m) \in Texts
BY DEF Applied, Texts, Message

(* What an editor sends is a message, and the rest stays as it is.         *)
LEMMA NotifyTyped ==
  ASSUME TypeInv, NEW u \in Uris,
         NEW kind \in {"open", "full", "edit", "save", "close"}, Notify(kind, u)
  PROVE  /\ clock' \in 0 .. MaxClock /\ clock + 1 \in Clocks
         /\ inbox' \in Seq(Message)
         /\ crowded' \subseteq Uris /\ saveRaced' \subseteq Uris
         /\ UNCHANGED serverVars
<1>1. clock \in 0 .. MaxClock /\ clock < MaxClock /\ MaxClock \in Nat
  BY LspAssumption DEF TypeInv, TypeOK, Notify
<1>2. clock + 1 \in Clocks /\ clock' \in 0 .. MaxClock
  BY <1>1 DEF Clocks, Notify
<1>3. [kind |-> kind, uri |-> u, version |-> clock + 1] \in Message
  BY <1>2 DEF Message
<1>4. inbox' \in Seq(Message)
  BY <1>3 DEF Notify, TypeInv, TypeOK
<1> QED
  BY <1>2, <1>4 DEF Notify, TypeInv, TypeOK

(* Every step of the editor keeps the types.                               *)
LEMMA EditorTyped ==
  ASSUME TypeInv, EditorStep
  PROVE  TypeInv'
<1>1. PICK u \in Uris : Open(u) \/ Edit(u) \/ ReplaceAll(u) \/ Save(u) \/ Close(u)
  BY DEF EditorStep
<1>2. PICK kind \in {"open", "full", "edit", "save", "close"} : Notify(kind, u)
  BY <1>1 DEF Open, Edit, ReplaceAll, Save, Close
<1>3. /\ clock' \in 0 .. MaxClock /\ clock + 1 \in Clocks
      /\ inbox' \in Seq(Message)
      /\ crowded' \subseteq Uris /\ saveRaced' \subseteq Uris
      /\ UNCHANGED serverVars
  BY <1>2, NotifyTyped
<1>4. editor' \in [Uris -> Texts]
  <2>1. <<clock + 1>> \in Texts /\ << >> \in Texts /\ Append(editor[u], clock + 1) \in Texts
    BY <1>3 DEF Texts, TypeInv, TypeOK
  <2> QED
    BY <1>1, <2>1 DEF Open, Edit, ReplaceAll, Save, Close, TypeInv, TypeOK
<1> QED
  BY <1>3, <1>4 DEF TypeInv, TypeOK, FoundIsText, serverVars

(* A slot that takes the next notification takes a message.                *)
LEMMA ReceiveTyped ==
  ASSUME TypeInv, NEW h \in Handlers, NEW kinds, Receive(h, kinds)
  PROVE  /\ Head(inbox) \in Message /\ inbox' \in Seq(Message)
         /\ \A text \in Texts : \A step \in Steps :
              NewTask(step, Head(inbox), text) \in Task
<1>1. Head(inbox) \in Message /\ inbox' \in Seq(Message)
  BY DEF Receive, TypeInv, TypeOK
<1>2. NoFindings \in Texts
  BY DEF NoFindings, Texts
<1> QED
  BY <1>1, <1>2 DEF NewTask, Task, Message

(* The start of a handler keeps the types.                                 *)
LEMMA StartTyped ==
  ASSUME TypeInv, NEW h \in Handlers, Start(h)
  PROVE  TypeInv'
<1> DEFINE m == Head(inbox)
<1>1. PICK kinds : Receive(h, kinds)
  BY DEF Start, DidOpen, DidChange, DidSave, DidClose
<1>2. /\ m \in Message /\ inbox' \in Seq(Message)
      /\ \A text \in Texts : \A step \in Steps : NewTask(step, m, text) \in Task
  BY <1>1, ReceiveTyped
<1>3. UNCHANGED <<clock, editor, shown, crowded, saveRaced>>
  BY <1>1 DEF Receive, history
<1>4. << >> \in Texts /\ <<m.version>> \in Texts
  BY <1>2 DEF Texts, Message
<1>5. {"settings", "debounce", "saveSettings", "closePublish"} \subseteq Steps
  BY DEF Steps, SaveSteps
<1>6. /\ docs' \in [Uris -> Doc \cup {NoDoc}]
      /\ \/ task' = task
         \/ \E text \in Texts, step \in {"settings", "debounce", "saveSettings", "closePublish"} :
              task' = [task EXCEPT ![h] = NewTask(step, m, text)]
  <2>1. CASE DidOpen(h)
    BY <2>1, <1>4 DEF DidOpen, TypeInv, TypeOK
  <2>2. CASE DidChange(h) /\ docs[m.uri] = NoDoc
    BY <2>2 DEF DidChange, TypeInv, TypeOK
  <2>3. CASE DidChange(h) /\ docs[m.uri] # NoDoc
    <3> DEFINE text == Applied(docs[m.uri].content, m)
    <3>1. m.uri \in Uris /\ docs[m.uri] \in Doc
      BY <2>3, <1>2 DEF TypeInv, TypeOK, Message
    <3>2. text \in Texts
      BY <3>1, <1>2, AppliedTyped DEF Doc
    <3>3. /\ docs' = [docs EXCEPT ![m.uri].content = text]
          /\ task' = [task EXCEPT ![h] = NewTask("debounce", m, text)]
      BY <2>3 DEF DidChange
    <3>4. docs' \in [Uris -> Doc \cup {NoDoc}]
      BY <3>1, <3>2, <3>3 DEF TypeInv, TypeOK, Doc
    <3> QED
      BY <3>2, <3>3, <3>4
  <2>4. CASE DidSave(h)
    BY <2>4, <1>4 DEF DidSave, TypeInv, TypeOK
  <2>5. CASE DidClose(h)
    BY <2>5, <1>2, <1>4 DEF DidClose, TypeInv, TypeOK, Message
  <2> QED
    BY <2>1, <2>2, <2>3, <2>4, <2>5 DEF Start
<1>7. task' \in [Handlers -> Task \cup {Idle}] /\ FoundIsText'
  <2>1. CASE task' = task
    BY <2>1 DEF TypeInv, TypeOK, FoundIsText
  <2>2. ASSUME NEW text \in Texts,
               NEW step \in {"settings", "debounce", "saveSettings", "closePublish"},
               task' = [task EXCEPT ![h] = NewTask(step, m, text)]
        PROVE  task' \in [Handlers -> Task \cup {Idle}] /\ FoundIsText'
    BY <2>2, <1>2, <1>5 DEF TypeInv, TypeOK, FoundIsText, NewTask
  <2> QED
    BY <2>1, <2>2, <1>6
<1> QED
  BY <1>2, <1>3, <1>6, <1>7 DEF TypeInv, TypeOK

(* Every later step of a handler keeps the types: the error of a failed    *)
(* analysis is gone before anything is stored or published.                *)
LEMMA RunTyped ==
  ASSUME TypeInv, NEW h \in Handlers, Run(h)
  PROVE  TypeInv'
<1> DEFINE k == task[h]
<1>1. /\ k \in Task /\ UNCHANGED <<clock, editor, inbox, crowded, saveRaced>>
  BY DEF Run, Debounce, Analyze, Publish, ReportFailure, Store, StoreText, SaveAnalyze,
         SaveUpdate, SaveFailure, SavePublish, ClosePublish, Resume, history, TypeInv, TypeOK
<1>2. /\ k.uri \in Uris /\ k.content \in Texts /\ k.found \in Texts \cup {Failed}
      /\ k.version \in Clocks /\ NoFindings \in Texts
  BY <1>1 DEF Task, NoFindings, Texts
<1> USE DEF TypeInv, TypeOK, FoundIsText, Resume, Task, Steps, SaveSteps
<1>3. CASE Debounce(h)
  BY <1>1, <1>2, <1>3 DEF Debounce
<1>4. CASE Analyze(h)
  <2>1. Analysis(k.content) \in Texts \cup {Failed}
    BY <1>2, AnalysisTyped
  <2> QED
    BY <1>1, <1>2, <1>4, <2>1 DEF Analyze, AnalyzeOnChange
<1>5. CASE Publish(h)
  BY <1>1, <1>2, <1>5 DEF Publish
<1>6. CASE ReportFailure(h)
  BY <1>1, <1>2, <1>6 DEF ReportFailure
<1>7. CASE Store(h)
  BY <1>1, <1>2, <1>7 DEF Store, StoreText, Doc
<1>8. CASE SaveAnalyze(h)
  <2>1. docs[k.uri] # NoDoc => docs[k.uri].content \in Texts
    BY <1>2 DEF Doc
  <2>2. docs[k.uri] # NoDoc => Analysis(docs[k.uri].content) \in Texts \cup {Failed}
    BY <2>1, AnalysisTyped
  <2> QED
    BY <1>1, <1>2, <1>8, <2>1, <2>2 DEF SaveAnalyze
<1>9. CASE SaveUpdate(h)
  BY <1>1, <1>2, <1>9 DEF SaveUpdate, Doc
<1>10. CASE SaveFailure(h)
  BY <1>1, <1>2, <1>10 DEF SaveFailure
<1>11. CASE SavePublish(h)
  BY <1>1, <1>2, <1>11 DEF SavePublish
<1>12. CASE ClosePublish(h)
  BY <1>1, <1>2, <1>12 DEF ClosePublish
<1> QED
  BY <1>3, <1>4, <1>5, <1>6, <1>7, <1>8, <1>9, <1>10, <1>11, <1>12 DEF Run

(* The types, and what makes them inductive, hold in every state.          *)
LEMMA TypeInvariance == Spec => []TypeInv
<1>1. Init => TypeInv
  BY LspAssumption DEF Init, TypeInv, TypeOK, FoundIsText, Texts, NoFindings
<1>2. TypeInv /\ UNCHANGED vars => TypeInv'
  BY DEF vars, TypeInv, TypeOK, FoundIsText
<1>3. TypeInv /\ [Next]_vars => TypeInv'
  BY <1>2, EditorTyped, StartTyped, RunTyped DEF Next
<1> QED
  BY <1>1, <1>3, PTL DEF Spec

(* Every variable keeps its type; in particular no error of an analysis is *)
(* ever stored as findings or shown.                                       *)
THEOREM TypeCorrect == Spec => []TypeOK
BY TypeInvariance, PTL DEF TypeInv

-----------------------------------------------------------------------------
(* The inductive invariant for EditsInOrder speaks of the copies the       *)
(* handlers hold as well, since each may be stored, and says that no text  *)
(* has an edit yet of those that still wait in the inbox.                  *)
Settled(text, now, box) ==
  /\ Ascending(text)
  /\ \A i \in 1 .. Len(text) :
       /\ text[i] <= now
       /\ \A j \in 1 .. Len(box) : text[i] < box[j].version
InboxInOrder ==
  /\ \A j \in 1 .. Len(inbox) : inbox[j].version <= clock
  /\ \A i, j \in 1 .. Len(inbox) : i < j => inbox[i].version < inbox[j].version
OrderInv ==
  /\ InboxInOrder
  /\ \A u \in Uris : docs[u] # NoDoc => Settled(docs[u].content, clock, inbox)
  /\ \A h \in Handlers : task[h] # Idle => Settled(task[h].content, clock, inbox)

(* Edits and notifications are numbers.                                    *)
LEMMA TextNumbers ==
  ASSUME NEW text \in Texts
  PROVE  /\ Len(text) \in Nat
         /\ \A i \in 1 .. Len(text) : text[i] \in Nat
<1>1. \A n \in Clocks : n \in Nat
  BY LspAssumption DEF Clocks
<1>2. Len(text) \in Nat /\ \A i \in 1 .. Len(text) : text[i] \in Clocks
  BY DEF Texts
<1> QED
  BY <1>1, <1>2

(* A waiting notification has a number.                                    *)
LEMMA InboxNumbers ==
  ASSUME NEW box \in Seq(Message)
  PROVE  /\ Len(box) \in Nat
         /\ \A i \in 1 .. Len(box) : box[i] \in Message /\ box[i].version \in Nat
<1>1. \A m \in Message : m.version \in Nat
  BY LspAssumption DEF Message, Clocks
<1> QED
  BY <1>1

(* An element added to a sequence comes last and moves no other.           *)
LEMMA Appended ==
  ASSUME NEW S, NEW s \in Seq(S), NEW e \in S
  PROVE  /\ Append(s, e) \in Seq(S)
         /\ Len(Append(s, e)) = Len(s) + 1
         /\ \A i \in 1 .. Len(s) : Append(s, e)[i] = s[i]
         /\ Append(s, e)[Len(s) + 1] = e
OBVIOUS

(* Taking the first element moves the others up by one.                    *)
LEMMA Taken ==
  ASSUME NEW S, NEW s \in Seq(S), s # << >>
  PROVE  /\ Tail(s) \in Seq(S)
         /\ Len(s) \in Nat \ {0} /\ Len(Tail(s)) = Len(s) - 1
         /\ Head(s) = s[1]
         /\ \A i \in 1 .. Len(Tail(s)) : Tail(s)[i] = s[i + 1]
OBVIOUS

(* The editor numbers its notifications upwards, so what it sends is later *)
(* than every edit any text has.                                           *)
LEMMA EditorOrder ==
  ASSUME TypeInv, OrderInv, EditorStep
  PROVE  OrderInv'
<1>1. PICK u \in Uris, kind \in {"open", "full", "edit", "save", "close"} : Notify(kind, u)
  BY DEF EditorStep, Open, Edit, ReplaceAll, Save, Close
<1> DEFINE m == [kind |-> kind, uri |-> u, version |-> clock + 1]
<1>2. /\ clock \in Nat /\ clock' = clock + 1 /\ inbox' = Append(inbox, m)
      /\ UNCHANGED <<docs, task>> /\ inbox \in Seq(Message)
  BY <1>1 DEF Notify, serverVars, TypeInv, TypeOK
<1>3. m \in Message /\ m.version = clock + 1
  BY <1>1, NotifyTyped DEF Message
<1> HIDE DEF m
<1>4. /\ Len(inbox') = Len(inbox) + 1 /\ Len(inbox) \in Nat
      /\ \A i \in 1 .. Len(inbox) : inbox'[i] = inbox[i] /\ inbox[i].version \in Nat
      /\ inbox'[Len(inbox) + 1].version = clock + 1
  BY <1>2, <1>3, Appended, InboxNumbers
<1>5. InboxInOrder'
  BY <1>2, <1>4, SMTT(30) DEF OrderInv, InboxInOrder
<1>6. ASSUME NEW text \in Texts, Settled(text, clock, inbox)
      PROVE  Settled(text, clock', inbox')
  BY <1>2, <1>4, <1>6, TextNumbers, SMTT(30) DEF Settled
<1>7. /\ \A v \in Uris : docs[v] # NoDoc => docs[v].content \in Texts
      /\ \A h \in Handlers : task[h] # Idle => task[h].content \in Texts
  BY DEF TypeInv, TypeOK, Doc, Task
<1> QED
  BY <1>2, <1>5, <1>6, <1>7 DEF OrderInv

(* A handler starts with the text of its notification alone, with none, or *)
(* with a stored text the notification's edit was added to.                *)
LEMMA StartOrder ==
  ASSUME TypeInv, OrderInv, NEW h \in Handlers, Start(h)
  PROVE  OrderInv'
<1> DEFINE m == Head(inbox)
           After(text) == Settled(text, clock', inbox')
<1>1. /\ inbox \in Seq(Message) /\ inbox # << >> /\ inbox' = Tail(inbox) /\ clock' = clock
      /\ clock \in Nat
  BY DEF Start, DidOpen, DidChange, DidSave, DidClose, Receive, TypeInv, TypeOK
<1>2. /\ Len(inbox) \in Nat \ {0} /\ Len(inbox') = Len(inbox) - 1
      /\ m = inbox[1]
      /\ \A i \in 1 .. Len(inbox') : inbox'[i] = inbox[i + 1]
      /\ \A i \in 1 .. Len(inbox) : inbox[i].version \in Nat
  BY <1>1, Taken, InboxNumbers
<1>3. m \in Message /\ m.version \in Nat
  BY <1>1, <1>2, InboxNumbers
<1>4. InboxInOrder'
  BY <1>1, <1>2 DEF OrderInv, InboxInOrder
<1>5. /\ m.version <= clock
      /\ \A j \in 1 .. Len(inbox') : m.version < inbox'[j].version
  BY <1>1, <1>2 DEF OrderInv, InboxInOrder
<1>6. ASSUME NEW text \in Texts, Settled(text, clock, inbox) PROVE After(text)
  BY <1>1, <1>2, <1>6 DEF Settled
<1>7. After(<< >>) /\ After(<<m.version>>)
  BY <1>1, <1>3, <1>5 DEF Settled, Ascending
<1>8. ASSUME NEW text \in Texts, Settled(text, clock, inbox) PROVE After(Applied(text, m))
  <2> DEFINE longer == Append(text, m.version)
  <2>1. m.version \in Clocks /\ text \in Seq(Clocks)
    BY <1>3 DEF Message, Texts
  <2>2. /\ Len(text) \in Nat /\ Len(longer) = Len(text) + 1
        /\ \A i \in 1 .. Len(text) : longer[i] = text[i] /\ text[i] \in Nat
        /\ longer[Len(text) + 1] = m.version
    BY <2>1, Appended, TextNumbers
  <2>3. \A i \in 1 .. Len(text) : text[i] < m.version
    BY <1>2, <1>8 DEF Settled
  <2> HIDE DEF longer
  <2>4. Ascending(longer)
    BY <2>2, <2>3, <1>3, <1>8 DEF Settled, Ascending
  <2>5. \A i \in 1 .. Len(longer) :
          /\ longer[i] <= clock'
          /\ \A j \in 1 .. Len(inbox') : longer[i] < inbox'[j].version
    BY <2>2, <1>5, <1>6, <1>8, <1>1 DEF Settled
  <2>6. After(longer)
    BY <2>4, <2>5 DEF Settled
  <2> QED
    BY <2>6, <1>7 DEF Applied, longer
<1>9. /\ \A v \in Uris : docs[v] # NoDoc => After(docs[v].content)
      /\ \A k \in Handlers : task[k] # Idle => After(task[k].content)
  <2>1. /\ \A v \in Uris : docs[v] # NoDoc => docs[v].content \in Texts
        /\ \A k \in Handlers : task[k] # Idle => task[k].content \in Texts
    BY DEF TypeInv, TypeOK, Doc, Task
  <2> QED
    BY <2>1, <1>6 DEF OrderInv
<1> HIDE DEF After
<1>10. SUFFICES /\ \A v \in Uris : docs'[v] # NoDoc => After(docs'[v].content)
                /\ \A k \in Handlers : task'[k] # Idle => After(task'[k].content)
  BY <1>4 DEF OrderInv, After
<1>11. CASE DidOpen(h)
  BY <1>7, <1>9, <1>11 DEF DidOpen, NewTask, TypeInv, TypeOK
<1>12. CASE DidChange(h) /\ docs[m.uri] = NoDoc
  BY <1>9, <1>12 DEF DidChange
<1>13. CASE DidChange(h) /\ docs[m.uri] # NoDoc
  <2> DEFINE text == Applied(docs[m.uri].content, m)
  <2>1. m.uri \in Uris /\ docs[m.uri] \in Doc /\ docs[m.uri].content \in Texts
    BY <1>3, <1>13 DEF TypeInv, TypeOK, Message, Doc
  <2>2. After(text)
    BY <1>8, <2>1, <1>13 DEF OrderInv
  <2>3. /\ docs' = [docs EXCEPT ![m.uri].content = text]
        /\ task' = [task EXCEPT ![h] = NewTask("debounce", m, text)]
    BY <1>13 DEF DidChange
  <2> HIDE DEF text
  <2>4. /\ docs'[m.uri].content = text
        /\ \A v \in Uris \ {m.uri} : docs'[v] = docs[v]
        /\ task'[h].content = text
        /\ \A k \in Handlers \ {h} : task'[k] = task[k]
    BY <2>1, <2>3 DEF TypeInv, TypeOK, NewTask, Doc
  <2> QED
    BY <1>9, <2>2, <2>4
<1>14. CASE DidSave(h)
  BY <1>7, <1>9, <1>14 DEF DidSave, NewTask, TypeInv, TypeOK
<1>15. CASE DidClose(h)
  BY <1>3, <1>7, <1>9, <1>15 DEF DidClose, NewTask, TypeInv, TypeOK, Message
<1> QED
  BY <1>11, <1>12, <1>13, <1>14, <1>15 DEF Start

(* Later steps move texts between the store and the handlers, as they are. *)
LEMMA RunOrder ==
  ASSUME TypeInv, OrderInv, NEW h \in Handlers, Run(h)
  PROVE  OrderInv'
<1>1. UNCHANGED <<clock, inbox>> /\ task[h] # Idle /\ task[h] \in Task /\ task[h].uri \in Uris
  BY DEF Run, Debounce, Analyze, Publish, ReportFailure, Store, StoreText, SaveAnalyze,
         SaveUpdate, SaveFailure, SavePublish, ClosePublish, Resume, Task, TypeInv, TypeOK
<1>3. InboxInOrder'
  BY <1>1 DEF OrderInv, InboxInOrder
<1>4. ASSUME NEW v \in Uris, docs'[v] # NoDoc
      PROVE  \/ docs[v] # NoDoc /\ docs'[v].content = docs[v].content
             \/ docs'[v].content = task[h].content
  BY <1>1, <1>4, SMTT(30) DEF Run, Debounce, Analyze, Publish, ReportFailure, Store, StoreText,
       SaveAnalyze, SaveUpdate, SaveFailure, SavePublish, ClosePublish, TypeInv, TypeOK, Doc
<1>5. ASSUME NEW k \in Handlers, task'[k] # Idle
      PROVE  \/ task[k] # Idle /\ task'[k].content = task[k].content
             \/ docs[task[h].uri] # NoDoc /\ task'[k].content = docs[task[h].uri].content
  BY <1>1, <1>5, SMTT(30) DEF Run, Debounce, Analyze, Publish, ReportFailure, Store, StoreText,
       SaveAnalyze, SaveUpdate, SaveFailure, SavePublish, ClosePublish, TypeInv, TypeOK, Task
<1>6. \A v \in Uris : docs'[v] # NoDoc => Settled(docs'[v].content, clock, inbox)
  BY <1>1, <1>4 DEF OrderInv
<1>7. \A k \in Handlers : task'[k] # Idle => Settled(task'[k].content, clock, inbox)
  BY <1>1, <1>5 DEF OrderInv
<1> QED
  BY <1>1, <1>3, <1>6, <1>7 DEF OrderInv

(* Texts in order and the inbox ahead of them, in every state.             *)
LEMMA OrderInvariance == Spec => []OrderInv
<1>1. Init => OrderInv
  BY DEF Init, OrderInv, InboxInOrder
<1>2. OrderInv /\ UNCHANGED vars => OrderInv'
  BY DEF vars, OrderInv, InboxInOrder, Settled
<1>3. TypeInv /\ OrderInv /\ [Next]_vars => OrderInv'
  BY <1>2, EditorOrder, StartOrder, RunOrder DEF Next
<1> QED
  BY <1>1, <1>3, TypeInvariance, PTL DEF Spec

(* However many handlers run and whatever they overwrite, no stored text   *)
(* has its edits in another order than the editor sent them, or twice.     *)
THEOREM EditsStayInOrder == Spec => []EditsInOrder
<1>1. OrderInv => EditsInOrder
  BY DEF OrderInv, EditsInOrder, Settled
<1> QED
  BY <1>1, OrderInvariance, PTL

-----------------------------------------------------------------------------
(* The documents one by one: what a step leaves alone.                     *)

(* The step leaves u alone: its entry, its texts and its handlers are as   *)
(* they were, and its waiting notifications have at most moved up.         *)
Undisturbed(u) ==
  /\ editor'[u] = editor[u] /\ docs'[u] = docs[u] /\ shown'[u] = shown[u]
  /\ Running(u)' = Running(u)
  /\ \A h \in Running(u) : task'[h] = task[h]
  /\ (Waiting(u) = {}) <=> (Waiting(u)' = {})
  /\ \E d \in Nat : \A i \in Waiting(u)' : i + d \in Waiting(u) /\ inbox'[i] = inbox[i + d]

(* What a notification of v changes outside v.                             *)
LEMMA NotifyFrame ==
  ASSUME TypeInv, NEW v \in Uris, NEW kind, Notify(kind, v)
  PROVE  /\ Waiting(v)' = Waiting(v) \cup {Len(inbox) + 1}
         /\ \A u \in Uris \ {v} : Waiting(u)' = Waiting(u)
         /\ \A i \in 1 .. Len(inbox) : inbox'[i] = inbox[i]
         /\ inbox'[Len(inbox) + 1].kind = kind
         /\ inbox'[Len(inbox) + 1].version = clock + 1
         /\ \A u : Running(u)' = Running(u)
         /\ docs' = docs /\ task' = task /\ shown' = shown
<1> DEFINE m == [kind |-> kind, uri |-> v, version |-> clock + 1]
<1>1. inbox \in Seq(Message) /\ inbox' = Append(inbox, m) /\ UNCHANGED <<docs, task, shown>>
  BY DEF Notify, serverVars, TypeInv, TypeOK
<1>2. m.uri = v /\ m.kind = kind /\ m.version = clock + 1
  OBVIOUS
<1> HIDE DEF m
<1>3. /\ Len(inbox) \in Nat /\ Len(inbox') = Len(inbox) + 1
      /\ \A i \in 1 .. Len(inbox) : inbox'[i] = inbox[i]
      /\ inbox'[Len(inbox) + 1] = m
  BY <1>1
<1>4. \A u : Running(u)' = Running(u)
  BY <1>1 DEF Running, Busy
<1> QED
  BY <1>1, <1>2, <1>3, <1>4 DEF Waiting

(* Taking the first notification moves the others up by one.               *)
LEMMA ReceiveFrame ==
  ASSUME TypeInv, NEW h \in Handlers, NEW kinds, Receive(h, kinds)
  PROVE  /\ Head(inbox) = inbox[1] /\ Head(inbox) \in Message
         /\ Head(inbox).uri \in Uris /\ Head(inbox).kind \in kinds
         /\ task[h] = Idle /\ editor' = editor /\ shown' = shown
         /\ 1 \in Waiting(Head(inbox).uri)
         /\ \A u : \A i \in Waiting(u)' :
              i \in Nat \ {0} /\ i + 1 \in Waiting(u) /\ inbox'[i] = inbox[i + 1]
         /\ \A u : \A i \in Waiting(u) : i # 1 => i - 1 \in Waiting(u)'
<1>1. /\ inbox \in Seq(Message) /\ inbox # << >> /\ inbox' = Tail(inbox)
      /\ task[h] = Idle /\ editor' = editor /\ shown' = shown /\ Head(inbox).kind \in kinds
  BY DEF Receive, TypeInv, TypeOK
<1>2. /\ Len(inbox) \in Nat \ {0} /\ Len(inbox') = Len(inbox) - 1
      /\ Head(inbox) = inbox[1] /\ Head(inbox) \in Message
      /\ \A i \in 1 .. Len(inbox') : inbox'[i] = inbox[i + 1]
  BY <1>1, Taken
<1>3. Head(inbox).uri \in Uris
  BY <1>2 DEF Message
<1>4. 1 \in Waiting(Head(inbox).uri)
  BY <1>2 DEF Waiting
<1>5. ASSUME NEW u, NEW i \in Waiting(u)'
      PROVE  i \in Nat \ {0} /\ i + 1 \in Waiting(u) /\ inbox'[i] = inbox[i + 1]
  BY <1>2, <1>5 DEF Waiting
<1>6. ASSUME NEW u, NEW i \in Waiting(u), i # 1
      PROVE  i - 1 \in Waiting(u)'
  <2>1. i \in 1 .. Len(inbox) /\ inbox[i].uri = u
    BY <1>6 DEF Waiting
  <2>2. i - 1 \in 1 .. Len(inbox') /\ (i - 1) + 1 = i
    BY <2>1, <1>2, <1>6
  <2>3. inbox'[i - 1] = inbox[i]
    BY <2>2, <1>2
  <2> QED
    BY <2>1, <2>2, <2>3 DEF Waiting
<1> QED
  BY <1>1, <1>2, <1>3, <1>4, <1>5, <1>6

(* A step of the editor about v leaves the other documents alone.          *)
LEMMA EditorElsewhere ==
  ASSUME TypeInv, NEW v \in Uris, NEW u \in Uris \ {v},
         Open(v) \/ Edit(v) \/ ReplaceAll(v) \/ Save(v) \/ Close(v)
  PROVE  Undisturbed(u)
<1>1. PICK kind : Notify(kind, v)
  BY DEF Open, Edit, ReplaceAll, Save, Close
<1>2. editor'[u] = editor[u]
  BY DEF Open, Edit, ReplaceAll, Save, Close, TypeInv, TypeOK
<1>3. /\ Waiting(u)' = Waiting(u) /\ Running(u)' = Running(u)
      /\ \A i \in 1 .. Len(inbox) : inbox'[i] = inbox[i]
      /\ docs' = docs /\ task' = task /\ shown' = shown
  BY <1>1, NotifyFrame, Zenon
<1>4. \A i \in Waiting(u) : i \in 1 .. Len(inbox) /\ i + 0 = i
  BY DEF Waiting
<1>5. \A i \in Waiting(u)' : i + 0 \in Waiting(u) /\ inbox'[i] = inbox[i + 0]
  BY <1>3, <1>4
<1> QED
  BY <1>2, <1>3, <1>5 DEF Undisturbed

(* What the start of a handler is to the documents: it takes the first     *)
(* notification, and its slot runs for that document or stays free.        *)
LEMMA StartEffect ==
  ASSUME TypeInv, NEW h \in Handlers, Start(h)
  PROVE  LET m == Head(inbox) IN
         /\ \E kinds : Receive(h, kinds)
         /\ m.uri \in Uris
         /\ \A u \in Uris \ {m.uri} : docs'[u] = docs[u]
         /\ \A k \in Handlers \ {h} : task'[k] = task[k]
         /\ task'[h] # Idle => task'[h].uri = m.uri
         /\ task'[h] \in Task \cup {Idle}
<1>1. PICK kinds : Receive(h, kinds)
  BY DEF Start, DidOpen, DidChange, DidSave, DidClose
<1>2. Head(inbox).uri \in Uris /\ task[h] = Idle
  BY <1>1, ReceiveFrame
<1>3. \A u \in Uris \ {Head(inbox).uri} : docs'[u] = docs[u]
  BY DEF Start, DidOpen, DidChange, DidSave, DidClose, TypeInv, TypeOK
<1>4. /\ \A k \in Handlers \ {h} : task'[k] = task[k]
      /\ task'[h] # Idle => task'[h].uri = Head(inbox).uri
  BY <1>2 DEF Start, DidOpen, DidChange, DidSave, DidClose, TypeInv, TypeOK, NewTask
<1>5. task'[h] \in Task \cup {Idle}
  BY StartTyped DEF TypeInv, TypeOK
<1> QED
  BY <1>1, <1>2, <1>3, <1>4, <1>5

(* Starting a handler says nothing of the other documents.                 *)
LEMMA StartElsewhere ==
  ASSUME TypeInv, NEW h \in Handlers, Start(h), NEW u \in Uris \ {Head(inbox).uri}
  PROVE  Undisturbed(u)
<1> DEFINE m == Head(inbox)
<1>1. PICK kinds : Receive(h, kinds)
  BY StartEffect
<1>2. /\ task[h] = Idle /\ editor' = editor /\ shown' = shown
      /\ m = inbox[1] /\ 1 \in Waiting(m.uri)
      /\ \A i \in Waiting(u)' : i + 1 \in Waiting(u) /\ inbox'[i] = inbox[i + 1]
      /\ \A i \in Waiting(u) : i # 1 => i - 1 \in Waiting(u)'
  BY <1>1, ReceiveFrame
<1>3. /\ docs'[u] = docs[u] /\ \A k \in Handlers \ {h} : task'[k] = task[k]
      /\ task'[h] # Idle => task'[h].uri = m.uri
  BY StartEffect
<1>4. 1 \notin Waiting(u)
  BY <1>2 DEF Waiting
<1>5. (Waiting(u) = {}) <=> (Waiting(u)' = {})
  BY <1>2, <1>4
<1>6. Running(u)' = Running(u) /\ \A k \in Running(u) : task'[k] = task[k]
  BY <1>2, <1>3 DEF Running, Busy
<1>7. \E d \in Nat : \A i \in Waiting(u)' : i + d \in Waiting(u) /\ inbox'[i] = inbox[i + d]
  BY <1>2
<1> QED
  BY <1>2, <1>3, <1>5, <1>6, <1>7 DEF Undisturbed

(* What a later step of a handler is to the documents.                     *)
LEMMA RunEffect ==
  ASSUME TypeInv, NEW h \in Handlers, Run(h)
  PROVE  /\ task[h] \in Task /\ task[h] # Idle /\ task[h].uri \in Uris
         /\ UNCHANGED <<editor, inbox, crowded, saveRaced>>
         /\ \A u \in Uris \ {task[h].uri} : docs'[u] = docs[u] /\ shown'[u] = shown[u]
         /\ \A k \in Handlers \ {h} : task'[k] = task[k]
         /\ task'[h] # Idle => task'[h].uri = task[h].uri
<1>1. /\ task[h] \in Task /\ task[h] # Idle /\ task[h].uri \in Uris
      /\ UNCHANGED <<editor, inbox, crowded, saveRaced>>
  BY DEF Run, Debounce, Analyze, Publish, ReportFailure, Store, StoreText, SaveAnalyze,
         SaveUpdate, SaveFailure, SavePublish, ClosePublish, Resume, history, Task, TypeInv, TypeOK
<1>2. \A u \in Uris \ {task[h].uri} : docs'[u] = docs[u]
  BY SMTT(30) DEF Run, Debounce, Analyze, Publish, ReportFailure, Store, StoreText, SaveAnalyze,
         SaveUpdate, SaveFailure, SavePublish, ClosePublish, TypeInv, TypeOK
<1>3. \A u \in Uris \ {task[h].uri} : shown'[u] = shown[u]
  BY SMTT(30) DEF Run, Debounce, Analyze, Publish, ReportFailure, Store, StoreText, SaveAnalyze,
         SaveUpdate, SaveFailure, SavePublish, ClosePublish, TypeInv, TypeOK
<1>4. /\ \A k \in Handlers \ {h} : task'[k] = task[k]
      /\ task'[h] # Idle => task'[h].uri = task[h].uri
  BY <1>1, SMTT(30) DEF Run, Debounce, Analyze, Publish, ReportFailure, Store, StoreText, SaveAnalyze,
         SaveUpdate, SaveFailure, SavePublish, ClosePublish, TypeInv, TypeOK, Task
<1> QED
  BY <1>1, <1>2, <1>3, <1>4

(* Nor does running one.                                                   *)
LEMMA RunElsewhere ==
  ASSUME TypeInv, NEW h \in Handlers, Run(h), NEW u \in Uris \ {task[h].uri}
  PROVE  Undisturbed(u)
<1>1. Running(u)' = Running(u) /\ \A k \in Running(u) : task'[k] = task[k]
  BY RunEffect DEF Running, Busy
<1>2. Waiting(u)' = Waiting(u) /\ \A i \in Waiting(u) : inbox'[i] = inbox[i] /\ i + 0 = i
  BY RunEffect DEF Waiting
<1> QED
  BY <1>1, <1>2, RunEffect DEF Undisturbed

-----------------------------------------------------------------------------
(* One notification at a time.                                             *)

(* At most one notification of u is being handled or waits to be.          *)
Alone(u) ==
  /\ \A i, j \in Waiting(u) : i = j
  /\ \A h, k \in Running(u) : h = k
  /\ Waiting(u) = {} \/ Running(u) = {}

(* A step for one document leaves the order at another one.                *)
LEMMA AloneElsewhere ==
  ASSUME NEW u, TypeOK, Undisturbed(u), Alone(u)
  PROVE  Alone(u)'
<1>1. PICK d \in Nat : \A i \in Waiting(u)' : i + d \in Waiting(u) /\ inbox'[i] = inbox[i + d]
  BY DEF Undisturbed
<1>2. \A i \in Waiting(u)' : i \in Int
  BY DEF Waiting
<1>3. \A i, j \in Waiting(u)' : i + d = j + d
  BY <1>1 DEF Alone
<1>4. \A i, j \in Int : i + d = j + d => i = j
  OBVIOUS
<1>5. \A i, j \in Waiting(u)' : i = j
  BY <1>2, <1>3, <1>4, Zenon
<1> QED
  BY <1>5 DEF Alone, Undisturbed

(* The one notification of v becomes the one handler of v, or is done.     *)
LEMMA StartAlone ==
  ASSUME TypeInv, NEW h \in Handlers, Start(h),
         NEW v \in Uris, v = Head(inbox).uri, Alone(v)
  PROVE  /\ Running(v) = {} /\ Waiting(v)' = {} /\ Alone(v)'
         /\ Running(v)' = IF task'[h] = Idle THEN {} ELSE {h}
<1>1. PICK kinds : Receive(h, kinds)
  BY StartEffect
<1>2. /\ 1 \in Waiting(v)
      /\ \A i \in Waiting(v)' : i \in Nat \ {0} /\ i + 1 \in Waiting(v)
  BY <1>1, ReceiveFrame
<1>3. Running(v) = {} /\ \A i \in Waiting(v) : i = 1
  BY <1>2 DEF Alone
<1>4. Waiting(v)' = {}
  BY <1>2, <1>3
<1>5. /\ \A k \in Handlers \ {h} : task'[k] = task[k]
      /\ task'[h] # Idle => task'[h].uri = v
  BY StartEffect
<1>6. Running(v)' = IF task'[h] = Idle THEN {} ELSE {h}
  BY <1>3, <1>5 DEF Running, Busy
<1> QED
  BY <1>3, <1>4, <1>6 DEF Alone

(* A handler alone with its document stays so to its end.                  *)
LEMMA RunAlone ==
  ASSUME TypeInv, NEW h \in Handlers, Run(h),
         NEW v \in Uris, v = task[h].uri, Alone(v)
  PROVE  /\ Running(v) = {h} /\ Waiting(v) = {} /\ Waiting(v)' = {} /\ Alone(v)'
         /\ Running(v)' = IF task'[h] = Idle THEN {} ELSE {h}
<1>1. h \in Running(v)
  BY RunEffect DEF Running, Busy
<1>2. Running(v) = {h} /\ Waiting(v) = {}
  BY <1>1 DEF Alone
<1>3. Waiting(v)' = {}
  BY <1>2, RunEffect DEF Waiting
<1>4. Running(v)' = IF task'[h] = Idle THEN {} ELSE {h}
  BY <1>2, RunEffect DEF Running, Busy
<1> QED
  BY <1>2, <1>3, <1>4 DEF Alone

-----------------------------------------------------------------------------
(* Findings and the text they are stored with.                             *)

EditSteps == {"debounce", "settings", "analysed", "store"}

(* The entry of u has the findings of its text.                            *)
Fresh(u) == docs[u] # NoDoc => docs[u].findings = Outcome(docs[u].content)

(* What a handler of u holds is of the text it will be stored with: its    *)
(* own copy, or for a didSave the text of the entry.                       *)
FoundIsOf(u, k) ==
  /\ k.step = "analysed" => k.found = Analysis(k.content)
  /\ k.step = "store" => k.found = Outcome(k.content)
  /\ k.step = "saveAnalysed" /\ docs[u] # NoDoc => k.found = Analysis(docs[u].content)

(* A didSave that raced with nothing is alone; an entry with findings of   *)
(* another text has a handler of an edit before its insert.                *)
FindingsFollow(u) ==
  /\ Saving(u) => Alone(u)
  /\ Fresh(u) \/ \E h \in Running(u) : task[h].step \in EditSteps
  /\ \A h \in Running(u) : FoundIsOf(u, task[h])
FindingsInv == \A u \in Uris \ saveRaced : FindingsFollow(u)

(* And the findings stored for it.                                         *)
LEMMA FindingsElsewhere ==
  ASSUME NEW u, TypeOK, Undisturbed(u), FindingsFollow(u)
  PROVE  FindingsFollow(u)'
<1>1. ASSUME Saving(u)' PROVE Saving(u)
  <2>1. CASE \E i \in Waiting(u)' : inbox'[i].kind = "save"
    BY <2>1 DEF Undisturbed, Saving
  <2>2. CASE \E h \in Running(u)' : task'[h].step \in SaveSteps
    BY <2>2 DEF Undisturbed, Saving
  <2> QED
    BY <1>1, <2>1, <2>2 DEF Saving
<1>2. Saving(u)' => Alone(u)'
  BY <1>1, AloneElsewhere DEF FindingsFollow
<1>3. (Fresh(u) \/ \E h \in Running(u) : task[h].step \in EditSteps)'
  BY DEF FindingsFollow, Fresh, Undisturbed
<1>4. \A h \in Running(u)' : FoundIsOf(u, task[h])'
  BY DEF FindingsFollow, FoundIsOf, Undisturbed
<1> QED
  BY <1>2, <1>3, <1>4 DEF FindingsFollow

(* A didSave sent while others of its document are in flight counts as     *)
(* raced, and so does a notification sent while a didSave is.              *)
LEMMA EditorFindings ==
  ASSUME TypeInv, FindingsInv, EditorStep
  PROVE  FindingsInv'
<1>1. PICK v \in Uris : Open(v) \/ Edit(v) \/ ReplaceAll(v) \/ Save(v) \/ Close(v)
  BY DEF EditorStep
<1>2. PICK kind : Notify(kind, v)
  BY <1>1 DEF Open, Edit, ReplaceAll, Save, Close
<1>3. /\ Waiting(v)' = Waiting(v) \cup {Len(inbox) + 1}
      /\ \A i \in 1 .. Len(inbox) : inbox'[i] = inbox[i]
      /\ inbox'[Len(inbox) + 1].kind = kind
      /\ Running(v)' = Running(v) /\ docs' = docs /\ task' = task
  BY <1>2, NotifyFrame, Zenon
<1>4. saveRaced \subseteq saveRaced'
  BY <1>2 DEF Notify
<1>5. ASSUME NEW u \in Uris \ saveRaced', u # v PROVE FindingsFollow(u)'
  BY <1>1, <1>4, <1>5, EditorElsewhere, FindingsElsewhere DEF FindingsInv, TypeInv
<1>6. ASSUME v \notin saveRaced' PROVE FindingsFollow(v)'
  <2>1. FindingsFollow(v)
    BY <1>4, <1>6 DEF FindingsInv
  <2>2. (Fresh(v) \/ \E h \in Running(v) : task[h].step \in EditSteps)'
    BY <1>3, <2>1 DEF FindingsFollow, Fresh
  <2>3. \A h \in Running(v)' : FoundIsOf(v, task[h])'
    BY <1>3, <2>1 DEF FindingsFollow, FoundIsOf
  <2>4. QuietFor(v) \/ (kind # "save" /\ ~Saving(v))
    BY <1>2, <1>6 DEF Notify
  <2>5. ASSUME Saving(v)' PROVE Alone(v)'
    <3>1. CASE QuietFor(v)
      BY <1>3, <3>1 DEF QuietFor, Alone
    <3>2. CASE kind # "save" /\ ~Saving(v)
      <4>1. \A i \in Waiting(v) : i \in 1 .. Len(inbox)
        BY DEF Waiting
      <4>2. ~(\E i \in Waiting(v)' : inbox'[i].kind = "save")
        BY <1>3, <3>2, <4>1 DEF Saving
      <4>3. ~(\E h \in Running(v)' : task'[h].step \in SaveSteps)
        BY <1>3, <3>2 DEF Saving
      <4> QED
        BY <2>5, <4>2, <4>3 DEF Saving
    <3> QED
      BY <2>4, <3>1, <3>2
  <2> QED
    BY <2>2, <2>3, <2>5 DEF FindingsFollow
<1> QED
  BY <1>5, <1>6 DEF FindingsInv

(* A text that changes in the store has the handler that changed it.       *)
LEMMA StartFindings ==
  ASSUME TypeInv, FindingsInv, NEW h \in Handlers, Start(h)
  PROVE  FindingsInv'
<1> DEFINE m == Head(inbox)
<1>0. PICK v \in Uris : v = m.uri
  BY StartEffect
<1>1. PICK kinds : Receive(h, kinds)
  BY StartEffect
<1>2. /\ m = inbox[1] /\ 1 \in Waiting(v) /\ task[h] = Idle /\ m.kind \in kinds
      /\ \A i \in Waiting(v)' : i \in Nat \ {0} /\ i + 1 \in Waiting(v) /\ inbox'[i] = inbox[i + 1]
  BY <1>0, <1>1, ReceiveFrame
<1>3. /\ \A k \in Handlers \ {h} : task'[k] = task[k]
      /\ task'[h] # Idle => task'[h].uri = v
  BY <1>0, StartEffect
<1>4. saveRaced' = saveRaced
  BY <1>1 DEF Receive, history
<1>5. ASSUME NEW u \in Uris \ saveRaced', u # v PROVE FindingsFollow(u)'
  BY <1>0, <1>4, <1>5, StartElsewhere, FindingsElsewhere DEF FindingsInv, TypeInv
<1>6. ASSUME v \notin saveRaced' PROVE FindingsFollow(v)'
  <2>1. FindingsFollow(v)
    BY <1>2, <1>4, <1>6 DEF FindingsInv
  <2>2. Running(v)' = IF task'[h] = Idle THEN Running(v) ELSE Running(v) \cup {h}
    BY <1>2, <1>3 DEF Running, Busy
  <2>3. \A k \in Running(v) : k # h /\ task'[k] = task[k]
    BY <1>2, <1>3 DEF Running, Busy
  <2>4. ASSUME Saving(v)' PROVE Alone(v)'
    <3>1. CASE \E i \in Waiting(v)' : inbox'[i].kind = "save"
      <4>1. PICK i \in Waiting(v)' : inbox'[i].kind = "save"
        BY <3>1
      <4>2. i \in Nat \ {0} /\ i + 1 \in Waiting(v) /\ inbox[i + 1].kind = "save"
        BY <1>2, <4>1
      <4>3. Alone(v)
        BY <2>1, <4>2 DEF FindingsFollow, Saving
      <4>4. i + 1 = 1
        BY <1>2, <4>2, <4>3 DEF Alone
      <4> QED
        BY <4>2, <4>4
    <3>2. CASE \E k \in Running(v)' \ {h} : task'[k].step \in SaveSteps
      <4>1. Saving(v) /\ Running(v) # {}
        BY <2>2, <2>3, <3>2 DEF Saving
      <4> QED
        BY <1>2, <2>1, <4>1 DEF FindingsFollow, Alone
    <3>3. CASE h \in Running(v)' /\ task'[h].step \in SaveSteps
      <4>1. m.kind = "save"
        <5>1. task'[h] # Idle
          BY <3>3 DEF Running, Busy
        <5> QED
          BY <1>2, <3>3, <5>1 DEF Start, DidOpen, DidChange, DidSave, DidClose, Receive,
             NewTask, SaveSteps, TypeInv, TypeOK
      <4>2. Saving(v)
        BY <1>2, <4>1 DEF Saving
      <4> QED
        BY <1>0, <2>1, <4>2, StartAlone DEF FindingsFollow
    <3> QED
      BY <2>4, <3>1, <3>2, <3>3 DEF Saving
  <2>5. /\ (Fresh(v) \/ \E k \in Running(v) : task[k].step \in EditSteps)'
        /\ \A k \in Running(v)' : FoundIsOf(v, task[k])'
    <3>1. CASE docs'[v] = docs[v] \/ docs'[v] = NoDoc
      <4>1. task'[h] # Idle => task'[h].step \in {"settings", "debounce", "saveSettings", "closePublish"}
        BY <1>2 DEF Start, DidOpen, DidChange, DidSave, DidClose, NewTask, TypeInv, TypeOK
      <4>2. (Fresh(v) \/ \E k \in Running(v) : task[k].step \in EditSteps)'
        BY <2>1, <2>2, <2>3, <3>1 DEF FindingsFollow, Fresh
      <4>3. FoundIsOf(v, task[h])' \/ task'[h] = Idle
        BY <4>1 DEF FoundIsOf
      <4>4. \A k \in Running(v) : FoundIsOf(v, task[k])'
        BY <2>1, <2>3, <3>1 DEF FindingsFollow, FoundIsOf
      <4> QED
        BY <2>2, <4>2, <4>3, <4>4
    <3>2. CASE DidChange(h) /\ docs[v] # NoDoc
      <4>1. task'[h] # Idle /\ task'[h].step = "debounce"
        <5>1. task' = [task EXCEPT ![h] = NewTask("debounce", m, Applied(docs[v].content, m))]
          BY <1>0, <3>2 DEF DidChange
        <5>2. task'[h] = NewTask("debounce", m, Applied(docs[v].content, m))
          BY <5>1 DEF TypeInv, TypeOK
        <5>3. task'[h].step = "debounce"
          BY <5>2 DEF NewTask
        <5>4. NewTask("debounce", m, Applied(docs[v].content, m)) \in Task
          <6>1. m \in Message /\ docs[v] \in Doc
            BY <1>1, <1>2, <3>2, ReceiveFrame DEF TypeInv, TypeOK
          <6>2. Applied(docs[v].content, m) \in Texts
            BY <6>1, AppliedTyped DEF Doc
          <6> QED
            BY <1>1, <6>2, ReceiveTyped DEF Steps
        <5> QED
          BY <5>2, <5>3, <5>4, LspAssumption
      <4>2. \A k \in Running(v) : task[k].step # "saveAnalysed"
        BY <1>2, <2>1 DEF FindingsFollow, Saving, SaveSteps, Alone
      <4>3. h \in Running(v)' /\ task'[h].step \in EditSteps
        BY <2>2, <4>1 DEF EditSteps
      <4>4. FoundIsOf(v, task[h])'
        BY <4>1 DEF FoundIsOf
      <4>5. \A k \in Running(v) : FoundIsOf(v, task[k])'
        BY <2>1, <2>3, <4>2 DEF FindingsFollow, FoundIsOf
      <4> QED
        BY <2>2, <4>3, <4>4, <4>5
    <3> QED
      BY <1>0, <1>2, <3>1, <3>2 DEF Start, DidOpen, DidChange, DidSave, DidClose, TypeInv, TypeOK
  <2> QED
    BY <2>4, <2>5 DEF FindingsFollow
<1> QED
  BY <1>2, <1>5, <1>6 DEF FindingsInv

(* A handler that goes on to another step still has its slot.              *)
LEMMA StillRuns ==
  ASSUME NEW k \in Task, NEW step \in Steps, NEW found \in Texts \cup {Failed}
  PROVE  /\ [k EXCEPT !.step = step] # Idle
         /\ [k EXCEPT !.step = step, !.found = found] # Idle
<1>1. [k EXCEPT !.step = step] \in Task
  BY DEF Task
<1>2. [k EXCEPT !.step = step, !.found = found] \in Task
  BY DEF Task
<1> QED
  BY <1>1, <1>2, LspAssumption

(* What is stored of an analysis that succeeded, and of one that failed.   *)
LEMMA AnalysisOutcome ==
  ASSUME NEW text
  PROVE  /\ Analysis(text) # Failed => Outcome(text) = Analysis(text) /\ Analysis(text) = text
         /\ Analysis(text) = Failed => Outcome(text) = NoFindings
BY DEF Analysis, Outcome

(* An insert brings text and findings of one analysis; the didSave that    *)
(* replaces the findings is alone with the text it analysed.               *)
LEMMA RunFindings ==
  ASSUME TypeInv, FindingsInv, NEW h \in Handlers, Run(h)
  PROVE  FindingsInv'
<1>1. PICK v \in Uris : v = task[h].uri
  BY RunEffect
<1>2. /\ task[h] \in Task /\ task[h] # Idle
      /\ inbox' = inbox /\ saveRaced' = saveRaced
      /\ \A k \in Handlers \ {h} : task'[k] = task[k]
      /\ task'[h] # Idle => task'[h].uri = v
  BY <1>1, RunEffect
<1>3. ASSUME NEW u \in Uris \ saveRaced', u # v PROVE FindingsFollow(u)'
  BY <1>1, <1>2, <1>3, RunElsewhere, FindingsElsewhere DEF FindingsInv, TypeInv
<1>4. ASSUME v \notin saveRaced' PROVE FindingsFollow(v)'
  <2>1. FindingsFollow(v)
    BY <1>2, <1>4 DEF FindingsInv
  <2>2. /\ h \in Running(v)
        /\ Running(v)' = IF task'[h] = Idle THEN Running(v) \ {h} ELSE Running(v)
        /\ \A k \in Running(v) \ {h} : task'[k] = task[k]
    BY <1>1, <1>2 DEF Running, Busy
  <2>3. Waiting(v)' = Waiting(v)
    BY <1>2 DEF Waiting
  <2>4. /\ FoundIsOf(v, task[h])
        /\ task[h].step \in SaveSteps => Running(v) = {h}
    BY <2>1, <2>2 DEF FindingsFollow, Saving, Alone
  <2>5. ASSUME Saving(v)' PROVE Alone(v)'
    <3>1. task'[h] # Idle /\ task'[h].step \in SaveSteps => task[h].step \in SaveSteps
      BY <1>2 DEF Run, Debounce, Analyze, Publish, ReportFailure, Store, StoreText, SaveAnalyze,
         SaveUpdate, SaveFailure, SavePublish, ClosePublish, AnalyzeOnChange, AnalyzeOnSave,
         Resume, SaveSteps, TypeInv, TypeOK, Task
    <3>2. Saving(v)
      BY <1>2, <2>2, <2>3, <2>5, <3>1 DEF Saving
    <3> QED
      BY <1>1, <2>1, <3>2, RunAlone DEF FindingsFollow
  <2> DEFINE Goal == /\ (Fresh(v) \/ \E k \in Running(v) : task[k].step \in EditSteps)'
                     /\ \A k \in Running(v)' : FoundIsOf(v, task[k])'
  <2> SUFFICES Goal
    BY <2>5 DEF FindingsFollow
  <2>6. ASSUME docs'[v] = docs[v],
               task[h].step \in EditSteps =>
                 \/ task'[h] # Idle /\ task'[h].step \in EditSteps
                 \/ Fresh(v)',
               task'[h] # Idle => FoundIsOf(v, task[h])'
        PROVE  Goal
    <3>1. \A k \in Running(v)' : FoundIsOf(v, task[k])'
      BY <2>1, <2>2, <2>6 DEF FindingsFollow, FoundIsOf
    <3>2. (Fresh(v) \/ \E k \in Running(v) : task[k].step \in EditSteps)'
      BY <2>1, <2>2, <2>6 DEF FindingsFollow, Fresh
    <3> QED
      BY <3>1, <3>2
  <2>7. CASE Debounce(h)
    <3>1. task'[h] = [task[h] EXCEPT !.step = "settings"] /\ docs' = docs
      BY <2>7 DEF Debounce, TypeInv, TypeOK
    <3>2. task'[h].step = "settings" /\ task'[h] # Idle
      BY <1>2, <3>1, LspAssumption DEF Task, Steps
    <3> QED
      BY <2>6, <3>1, <3>2 DEF FoundIsOf, EditSteps
  <2>8. CASE Analyze(h)
    <3>1. task'[h] = [task[h] EXCEPT !.step = "analysed", !.found = Analysis(task[h].content)]
          /\ docs' = docs
      BY <2>8 DEF Analyze, AnalyzeOnChange, TypeInv, TypeOK
    <3>2. /\ task'[h].step = "analysed" /\ task'[h].content = task[h].content
          /\ task'[h].found = Analysis(task[h].content)
      BY <1>2, <3>1 DEF Task
    <3>3. task'[h] # Idle
      <4>1. Analysis(task[h].content) \in Texts \cup {Failed}
        BY <1>2, AnalysisTyped DEF Task
      <4>2. PICK x \in Task, f \in Texts \cup {Failed} :
              x = task[h] /\ f = Analysis(task[h].content)
        BY <1>2, <4>1
      <4>3. "analysed" \in Steps
        BY DEF Steps
      <4>4. [x EXCEPT !.step = "analysed", !.found = f] # Idle
        BY <4>3, StillRuns
      <4> QED
        BY <3>1, <4>2, <4>4
    <3> QED
      BY <2>6, <3>1, <3>2, <3>3 DEF FoundIsOf, EditSteps
  <2>9. CASE Publish(h)
    <3>1. task'[h] = [task[h] EXCEPT !.step = "store"] /\ docs' = docs
      BY <2>9 DEF Publish, TypeInv, TypeOK
    <3>2. /\ task'[h].step = "store" /\ task'[h].content = task[h].content
          /\ task'[h].found = task[h].found /\ task'[h] # Idle
      BY <1>2, <3>1, LspAssumption DEF Task, Steps
    <3>3. task[h].found # Failed /\ task[h].step = "analysed"
      BY <2>9 DEF Publish, Resume
    <3>4. task[h].found = Outcome(task[h].content)
      BY <2>4, <3>3, AnalysisOutcome DEF FoundIsOf
    <3> QED
      BY <2>6, <3>1, <3>2, <3>4 DEF FoundIsOf, EditSteps
  <2>10. CASE ReportFailure(h)
    <3>1. task'[h] = [task[h] EXCEPT !.step = "store", !.found = NoFindings] /\ docs' = docs
      BY <2>10 DEF ReportFailure, TypeInv, TypeOK
    <3>2. /\ task'[h].step = "store" /\ task'[h].content = task[h].content
          /\ task'[h].found = NoFindings
      BY <1>2, <3>1 DEF Task
    <3>3. task'[h] # Idle
      <4>1. NoFindings \in Texts
        BY DEF NoFindings, Texts
      <4> QED
        BY <1>2, <3>1, <4>1, StillRuns, ZenonT(30) DEF Steps
    <3>4. task[h].found = Failed /\ task[h].step = "analysed"
      BY <2>10 DEF ReportFailure, Resume
    <3>5. NoFindings = Outcome(task[h].content)
      BY <2>4, <3>4, AnalysisOutcome DEF FoundIsOf
    <3> QED
      BY <2>6, <3>1, <3>2, <3>3, <3>5 DEF FoundIsOf, EditSteps
  <2>11. CASE Store(h)
    <3>1. /\ docs'[v] = [content |-> task[h].content, version |-> task[h].version,
                         findings |-> task[h].found]
          /\ task'[h] = Idle /\ task[h].step = "store"
      BY <1>1, <2>11 DEF Store, StoreText, Resume, TypeInv, TypeOK
    <3>2. docs'[v].findings = Outcome(docs'[v].content)
      BY <2>4, <3>1 DEF FoundIsOf
    <3>3. \A k \in Running(v) : task[k].step # "saveAnalysed"
      BY <2>1, <2>2, <3>1 DEF FindingsFollow, Saving, SaveSteps, Alone
    <3>4. \A k \in Running(v)' : FoundIsOf(v, task[k])'
      BY <2>1, <2>2, <3>1, <3>3 DEF FindingsFollow, FoundIsOf
    <3> QED
      BY <3>2, <3>4 DEF Fresh
  <2>12. ASSUME task[h].step \in SaveSteps PROVE Fresh(v) /\ Running(v) = {h}
    BY <2>1, <2>4, <2>12 DEF FindingsFollow, SaveSteps, EditSteps
  <2>13. CASE SaveAnalyze(h)
    <3>1. docs' = docs /\ task[h].step \in SaveSteps
      BY <2>13 DEF SaveAnalyze, Resume, SaveSteps
    <3>2. ASSUME task'[h] # Idle PROVE FoundIsOf(v, task[h])'
      <4>1. task'[h] = [task[h] EXCEPT !.step = "saveAnalysed", !.content = docs[v].content,
                                       !.found = Analysis(docs[v].content)]
        BY <1>1, <2>13, <3>2 DEF SaveAnalyze, AnalyzeOnSave, TypeInv, TypeOK
      <4>2. task'[h].step = "saveAnalysed" /\ task'[h].found = Analysis(docs[v].content)
        BY <1>2, <4>1 DEF Task
      <4> QED
        BY <3>1, <4>2 DEF FoundIsOf
    <3> QED
      BY <2>6, <3>1, <3>2 DEF SaveSteps, EditSteps
  <2>14. CASE SaveUpdate(h)
    <3>1. task'[h] = [task[h] EXCEPT !.step = "savePublish"]
          /\ task[h].step = "saveAnalysed" /\ task[h].found # Failed
          /\ docs' = IF docs[v] = NoDoc THEN docs
                     ELSE [docs EXCEPT ![v].findings = task[h].found]
      BY <1>1, <2>14 DEF SaveUpdate, Resume, TypeInv, TypeOK
    <3>2. task'[h].step = "savePublish"
      BY <1>2, <3>1 DEF Task
    <3>3. Running(v) = {h} /\ FoundIsOf(v, task[h])'
      BY <2>12, <3>1, <3>2 DEF FoundIsOf, SaveSteps
    <3>4. Fresh(v)'
      <4>1. CASE docs[v] = NoDoc
        BY <3>1, <4>1 DEF Fresh
      <4>2. CASE docs[v] # NoDoc
        <5>1. docs'[v] = [docs[v] EXCEPT !.findings = task[h].found] /\ docs[v] \in Doc
          BY <3>1, <4>2 DEF TypeInv, TypeOK
        <5>2. docs'[v].findings = task[h].found /\ docs'[v].content = docs[v].content
          BY <5>1 DEF Doc
        <5>3. task[h].found = Outcome(docs[v].content)
          BY <2>4, <3>1, <4>2, AnalysisOutcome DEF FoundIsOf
        <5> QED
          BY <5>2, <5>3 DEF Fresh
      <4> QED
        BY <4>1, <4>2
    <3> QED
      BY <2>2, <3>3, <3>4
  <2>15. CASE SaveFailure(h) \/ SavePublish(h) \/ ClosePublish(h)
    <3>1. docs' = docs /\ task'[h] = Idle /\ task[h].step \notin EditSteps
      BY <2>15 DEF SaveFailure, SavePublish, ClosePublish, Resume, EditSteps, TypeInv, TypeOK
    <3> QED
      BY <2>6, <3>1
  <2> HIDE DEF Goal
  <2> QED
    BY <2>7, <2>8, <2>9, <2>10, <2>11, <2>13, <2>14, <2>15 DEF Run
<1> QED
  BY <1>3, <1>4 DEF FindingsInv

(* Stored findings are of the stored text, or about to be overwritten.     *)
LEMMA FindingsInvariance == Spec => []FindingsInv
<1>1. Init => FindingsInv
  <2> SUFFICES ASSUME Init, NEW u \in Uris PROVE FindingsFollow(u)
    BY DEF FindingsInv
  <2>1. Waiting(u) = {} /\ Running(u) = {} /\ docs[u] = NoDoc
    BY DEF Init, Waiting, Running, Busy
  <2> QED
    BY <2>1 DEF FindingsFollow, Saving, Fresh
<1>2. FindingsInv /\ UNCHANGED vars => FindingsInv'
  BY DEF vars, FindingsInv, FindingsFollow, Saving, Alone, Waiting, Running, Busy, Fresh, FoundIsOf
<1>3. TypeInv /\ FindingsInv /\ [Next]_vars => FindingsInv'
  BY <1>2, EditorFindings, StartFindings, RunFindings DEF Next
<1> QED
  BY <1>1, <1>3, TypeInvariance, PTL DEF Spec

(* Where no didSave raced, an entry whose findings are not those of its    *)
(* text still has a handler that will store its own copy of the text:      *)
(* whatever the interleaving of the handlers, no stale findings are left   *)
(* behind.                                                                 *)
THEOREM StaleFindingsBeingReplaced == Spec => []StaleOnlyWhileRunning
<1>1. FindingsInv => StaleOnlyWhileRunning
  BY DEF FindingsInv, FindingsFollow, Fresh, StaleOnlyWhileRunning
<1> QED
  BY <1>1, FindingsInvariance, PTL

-----------------------------------------------------------------------------
(* Documents handled one notification at a time.                           *)

Current(u) == Analysis(editor[u]) # Failed => shown[u] = editor[u]
Stored(u) == editor[u] # << >> /\ docs[u] # NoDoc /\ docs[u].content = editor[u]
Synced(u) ==
  IF editor[u] = << >> THEN docs[u] = NoDoc /\ shown[u] = NoFindings
  ELSE Stored(u) /\ Current(u)

(* What the server has of u when the notification m, the only one of u, is *)
(* about to be taken.                                                      *)
Due(u, m) ==
  /\ m.kind = "open" => editor[u] = <<m.version>>
  /\ m.kind \in {"edit", "full"} =>
       /\ editor[u] # << >> /\ docs[u] # NoDoc
       /\ editor[u] = Applied(docs[u].content, m)
  /\ m.kind = "save" => Stored(u) /\ Current(u)
  /\ m.kind = "close" => editor[u] = << >>

(* What k, the only handler of u, still has to bring about.                *)
Held(u, k) ==
  /\ k.step \in EditSteps => editor[u] # << >> /\ k.content = editor[u]
  /\ k.step = "analysed" => k.found = Analysis(editor[u])
  /\ k.step = "store" => Current(u)
  /\ k.step \in SaveSteps => Stored(u) /\ Current(u)
  /\ k.step \in {"saveAnalysed", "savePublish"} => k.found = Analysis(editor[u])
  /\ k.step = "savePublish" => k.found # Failed
  /\ k.step = "closePublish" => editor[u] = << >> /\ docs[u] = NoDoc

Following(u) ==
  /\ Alone(u)
  /\ QuietFor(u) => Synced(u)
  /\ \A i \in Waiting(u) : Due(u, inbox[i])
  /\ \A h \in Running(u) : Held(u, task[h])
SyncInv == \A u \in Uris \ crowded : Following(u)

(* And what it holds compared to the editor.                               *)
LEMMA SyncElsewhere ==
  ASSUME NEW u, TypeOK, Undisturbed(u), Following(u)
  PROVE  Following(u)'
<1>1. Alone(u)'
  BY AloneElsewhere DEF Following
<1>2. (QuietFor(u) => Synced(u))'
  BY DEF Following, Undisturbed, QuietFor, Synced, Stored, Current
<1>3. \A i \in Waiting(u)' : Due(u, inbox[i])'
  BY DEF Following, Undisturbed, Due, Stored, Current
<1>4. \A h \in Running(u)' : Held(u, task[h])'
  BY DEF Following, Undisturbed, Held, Stored, Current
<1> QED
  BY <1>1, <1>2, <1>3, <1>4 DEF Following

(* A notification sent while no other of its document is in flight finds   *)
(* the server in step with the editor.                                     *)
LEMMA EditorSync ==
  ASSUME TypeInv, SyncInv, EditorStep
  PROVE  SyncInv'
<1>1. PICK v \in Uris : Open(v) \/ Edit(v) \/ ReplaceAll(v) \/ Save(v) \/ Close(v)
  BY DEF EditorStep
<1>2. PICK kind :
        /\ Notify(kind, v)
        /\ \/ kind = "open" /\ editor'[v] = <<clock + 1>>
           \/ kind = "edit" /\ editor[v] # << >> /\ editor'[v] = Append(editor[v], clock + 1)
           \/ kind = "full" /\ editor[v] # << >> /\ editor'[v] = <<clock + 1>>
           \/ kind = "save" /\ editor[v] # << >> /\ editor'[v] = editor[v]
           \/ kind = "close" /\ editor'[v] = << >>
  BY <1>1 DEF Open, Edit, ReplaceAll, Save, Close, TypeInv, TypeOK
<1>3. crowded' = IF QuietFor(v) THEN crowded ELSE crowded \cup {v}
  BY <1>2 DEF Notify
<1>4. ASSUME NEW u \in Uris \ crowded', u # v PROVE Following(u)'
  BY <1>1, <1>3, <1>4, EditorElsewhere, SyncElsewhere DEF SyncInv, TypeInv
<1>5. ASSUME v \notin crowded' PROVE Following(v)'
  <2>1. QuietFor(v) /\ Synced(v) /\ Waiting(v) = {} /\ Running(v) = {}
    BY <1>3, <1>5 DEF SyncInv, Following, QuietFor
  <2>2. PICK n \in Nat : n = Len(inbox) + 1
    BY DEF TypeInv, TypeOK
  <2>3. /\ Waiting(v)' = {n} /\ Running(v)' = {}
        /\ inbox'[n].kind = kind /\ inbox'[n].version = clock + 1
        /\ docs' = docs /\ shown' = shown
    <3>1. /\ Waiting(v)' = Waiting(v) \cup {Len(inbox) + 1} /\ Running(v)' = Running(v)
          /\ inbox'[Len(inbox) + 1].kind = kind /\ inbox'[Len(inbox) + 1].version = clock + 1
          /\ docs' = docs /\ shown' = shown
      BY <1>2, NotifyFrame, Zenon
    <3> QED
      BY <2>1, <2>2, <3>1
  <2>4. editor[v] \in Seq(Clocks) /\ clock + 1 \in Clocks
    BY <1>2, NotifyTyped DEF Notify, TypeInv, TypeOK, Texts
  <2>5. Append(editor[v], clock + 1) # << >> /\ <<clock + 1>> # << >>
    <3>1. /\ Len(editor[v]) \in Nat
          /\ Len(Append(editor[v], clock + 1)) = Len(editor[v]) + 1
      BY <2>4, Appended
    <3>2. Len(<< >>) = 0 /\ <<clock + 1>> # << >>
      OBVIOUS
    <3> QED
      BY <3>1, <3>2
  <2>6. Due(v, inbox[n])'
    BY <1>2, <2>1, <2>3, <2>5 DEF Due, Synced, Stored, Current, Applied
  <2> QED
    BY <2>3, <2>6 DEF Following, Alone, QuietFor
<1> QED
  BY <1>4, <1>5 DEF SyncInv

(* The handler of the one notification of v starts with the editor's text, *)
(* or with the entry that holds it.                                        *)
LEMMA StartSync ==
  ASSUME TypeInv, SyncInv, NEW h \in Handlers, Start(h)
  PROVE  SyncInv'
<1> DEFINE m == Head(inbox)
<1>1. PICK v \in Uris : v = m.uri
  BY StartEffect
<1>2. PICK kinds : Receive(h, kinds)
  BY StartEffect
<1>3. /\ m = inbox[1] /\ m \in Message /\ 1 \in Waiting(v) /\ task[h] = Idle
      /\ editor' = editor /\ shown' = shown
  BY <1>1, <1>2, ReceiveFrame
<1>4. crowded' = crowded
  BY <1>2 DEF Receive, history
<1>5. ASSUME NEW u \in Uris \ crowded', u # v PROVE Following(u)'
  BY <1>1, <1>4, <1>5, StartElsewhere, SyncElsewhere DEF SyncInv, TypeInv
<1>6. ASSUME v \notin crowded' PROVE Following(v)'
  <2>1. Following(v) /\ Due(v, m)
    BY <1>3, <1>4, <1>6 DEF SyncInv, Following
  <2>2. /\ Running(v) = {} /\ Waiting(v)' = {} /\ Alone(v)'
        /\ Running(v)' = IF task'[h] = Idle THEN {} ELSE {h}
    BY <1>1, <2>1, StartAlone DEF Following
  <2>3. SUFFICES task'[h] # Idle /\ Held(v, task[h])'
    BY <2>2 DEF Following, QuietFor
  <2>4. ASSUME NEW step \in Steps, NEW text \in Texts,
               task' = [task EXCEPT ![h] = NewTask(step, m, text)]
        PROVE  /\ task'[h] # Idle
               /\ task'[h].step = step /\ task'[h].content = text
    <3>1. task'[h] = NewTask(step, m, text)
      BY <2>4 DEF TypeInv, TypeOK
    <3>2. NewTask(step, m, text) \in Task
      BY <1>2, ReceiveTyped
    <3> QED
      BY <3>1, <3>2, LspAssumption DEF NewTask
  <2>5. {"settings", "debounce", "saveSettings", "closePublish"} \subseteq Steps
    BY DEF Steps, SaveSteps
  <2>6. << >> \in Texts /\ <<m.version>> \in Texts /\ <<m.version>> # << >>
    BY <1>3 DEF Texts, Message
  <2>7. CASE DidOpen(h)
    <3>1. /\ task' = [task EXCEPT ![h] = NewTask("settings", m, <<m.version>>)]
          /\ m.kind = "open"
      BY <2>7 DEF DidOpen, Receive
    <3>2. task'[h] # Idle /\ task'[h].step = "settings" /\ task'[h].content = <<m.version>>
      BY <2>4, <2>5, <2>6, <3>1
    <3> QED
      BY <1>3, <2>1, <2>6, <3>1, <3>2 DEF Held, Due, EditSteps, SaveSteps
  <2>8. CASE DidChange(h)
    <3> DEFINE text == Applied(docs[v].content, m)
    <3>1. m.kind \in {"edit", "full"}
      BY <2>8 DEF DidChange, Receive
    <3>2. editor[v] # << >> /\ docs[v] # NoDoc /\ editor[v] = text
      BY <2>1, <3>1 DEF Due
    <3>3. text \in Texts
      BY <3>2 DEF TypeInv, TypeOK
    <3>4. task' = [task EXCEPT ![h] = NewTask("debounce", m, text)]
      BY <1>1, <2>8, <3>2 DEF DidChange
    <3> HIDE DEF text
    <3>5. task'[h] # Idle /\ task'[h].step = "debounce" /\ task'[h].content = text
      BY <2>4, <2>5, <3>3, <3>4
    <3> QED
      BY <1>3, <3>2, <3>5 DEF Held, EditSteps, SaveSteps
  <2>9. CASE DidSave(h)
    <3>1. /\ task' = [task EXCEPT ![h] = NewTask("saveSettings", m, << >>)]
          /\ m.kind = "save" /\ docs' = docs
      BY <2>9 DEF DidSave, Receive
    <3>2. task'[h] # Idle /\ task'[h].step = "saveSettings"
      BY <2>4, <2>5, <2>6, <3>1
    <3> QED
      BY <1>3, <2>1, <3>1, <3>2 DEF Held, Due, EditSteps, SaveSteps, Stored, Current
  <2>10. CASE DidClose(h)
    <3>1. /\ task' = [task EXCEPT ![h] = NewTask("closePublish", m, << >>)]
          /\ m.kind = "close" /\ docs' = [docs EXCEPT ![v] = NoDoc]
      BY <1>1, <2>10 DEF DidClose, Receive
    <3>2. task'[h] # Idle /\ task'[h].step = "closePublish" /\ docs'[v] = NoDoc
      BY <2>4, <2>5, <2>6, <3>1 DEF TypeInv, TypeOK
    <3> QED
      BY <1>3, <2>1, <3>1, <3>2 DEF Held, Due, EditSteps, SaveSteps
  <2> QED
    BY <2>7, <2>8, <2>9, <2>10 DEF Start
<1> QED
  BY <1>5, <1>6 DEF SyncInv

(* The one handler of v carries the editor's text through to the store.    *)
LEMMA RunSync ==
  ASSUME TypeInv, SyncInv, NEW h \in Handlers, Run(h)
  PROVE  SyncInv'
<1>1. PICK v \in Uris : v = task[h].uri
  BY RunEffect
<1>2. /\ task[h] \in Task /\ task[h] # Idle /\ editor' = editor /\ crowded' = crowded
  BY RunEffect
<1>3. ASSUME NEW u \in Uris \ crowded', u # v PROVE Following(u)'
  BY <1>1, <1>2, <1>3, RunElsewhere, SyncElsewhere DEF SyncInv, TypeInv
<1>4. ASSUME v \notin crowded' PROVE Following(v)'
  <2>1. Following(v)
    BY <1>2, <1>4 DEF SyncInv
  <2>2. /\ Running(v) = {h} /\ Waiting(v)' = {} /\ Alone(v)'
        /\ Running(v)' = IF task'[h] = Idle THEN {} ELSE {h}
    BY <1>1, <2>1, RunAlone DEF Following
  <2>3. Held(v, task[h])
    BY <2>1, <2>2 DEF Following
  <2> DEFINE Goal == IF task'[h] = Idle THEN Synced(v)' ELSE Held(v, task[h])'
  <2>4. SUFFICES Goal
    BY <2>2 DEF Following, QuietFor
  <2>5. /\ docs \in [Uris -> Doc \cup {NoDoc}] /\ shown \in [Uris -> Texts]
        /\ task \in [Handlers -> Task \cup {Idle}]
    BY DEF TypeInv, TypeOK
  <2>6. CASE Debounce(h)
    <3>1. /\ task'[h] = [task[h] EXCEPT !.step = "settings"] /\ task[h].step = "debounce"
          /\ docs' = docs /\ shown' = shown
      BY <2>5, <2>6 DEF Debounce, Resume
    <3>2. task'[h].step = "settings" /\ task'[h].content = task[h].content
      BY <1>2, <3>1 DEF Task
    <3>3. task'[h] # Idle
      BY <1>2, <3>1, LspAssumption DEF Task, Steps
    <3> QED
      BY <1>2, <2>3, <3>1, <3>2, <3>3 DEF Held, EditSteps, SaveSteps
  <2>7. CASE Analyze(h)
    <3>1. /\ task'[h] = [task[h] EXCEPT !.step = "analysed", !.found = Analysis(task[h].content)]
          /\ task[h].step = "settings" /\ docs' = docs /\ shown' = shown
      BY <2>5, <2>7 DEF Analyze, AnalyzeOnChange, Resume
    <3>2. /\ task'[h].step = "analysed" /\ task'[h].content = task[h].content
          /\ task'[h].found = Analysis(task[h].content)
      BY <1>2, <3>1 DEF Task
    <3>3. task'[h] # Idle
      <4>1. Analysis(task[h].content) \in Texts \cup {Failed}
        BY <1>2, AnalysisTyped DEF Task
      <4>2. PICK x \in Task, f \in Texts \cup {Failed} :
              x = task[h] /\ f = Analysis(task[h].content)
        BY <1>2, <4>1
      <4>3. "analysed" \in Steps
        BY DEF Steps
      <4>4. [x EXCEPT !.step = "analysed", !.found = f] # Idle
        BY <4>3, StillRuns
      <4> QED
        BY <3>1, <4>2, <4>4
    <3> QED
      BY <1>2, <2>3, <3>1, <3>2, <3>3 DEF Held, EditSteps, SaveSteps
  <2>8. CASE Publish(h)
    <3>1. /\ task'[h] = [task[h] EXCEPT !.step = "store"] /\ task[h].step = "analysed"
          /\ task[h].found # Failed /\ docs' = docs /\ shown'[v] = task[h].found
      BY <1>1, <2>5, <2>8 DEF Publish, Resume
    <3>2. task'[h].step = "store" /\ task'[h].content = task[h].content
      BY <1>2, <3>1 DEF Task
    <3>3. task'[h] # Idle
      BY <1>2, <3>1, LspAssumption DEF Task, Steps
    <3>4. shown'[v] = editor[v]
      BY <2>3, <3>1, AnalysisOutcome DEF Held
    <3> QED
      BY <1>2, <2>3, <3>1, <3>2, <3>3, <3>4 DEF Held, EditSteps, SaveSteps, Current
  <2>9. CASE ReportFailure(h)
    <3>1. /\ task'[h] = [task[h] EXCEPT !.step = "store", !.found = NoFindings]
          /\ task[h].step = "analysed" /\ task[h].found = Failed /\ docs' = docs
      BY <2>5, <2>9 DEF ReportFailure, Resume
    <3>2. task'[h].step = "store" /\ task'[h].content = task[h].content
      BY <1>2, <3>1 DEF Task
    <3>3. task'[h] # Idle
      <4>1. NoFindings \in Texts
        BY DEF NoFindings, Texts
      <4> QED
        BY <1>2, <3>1, <4>1, StillRuns, ZenonT(30) DEF Steps
    <3> QED
      BY <1>2, <2>3, <3>1, <3>2, <3>3 DEF Held, EditSteps, SaveSteps, Current
  <2>10. CASE Store(h)
    <3>1. /\ docs'[v] = [content |-> task[h].content, version |-> task[h].version,
                         findings |-> task[h].found]
          /\ task'[h] = Idle /\ task[h].step = "store" /\ shown' = shown
      BY <1>1, <2>5, <2>10 DEF Store, StoreText, Resume
    <3>2. docs'[v] # NoDoc
      <4>1. task[h].found \in Texts
        BY <1>2, <3>1 DEF TypeInv, FoundIsText
      <4> QED
        BY <1>2, <3>1, <4>1, LspAssumption DEF Task, Doc
    <3> QED
      BY <1>2, <2>3, <3>1, <3>2 DEF Held, EditSteps, Synced, Stored, Current
  <2>11. CASE SaveAnalyze(h)
    <3>1. task[h].step = "saveSettings" /\ docs' = docs /\ shown' = shown
      BY <2>11 DEF SaveAnalyze, Resume
    <3>2. Stored(v) /\ Current(v)
      BY <2>3, <3>1 DEF Held, SaveSteps
    <3>3. task'[h] = [task[h] EXCEPT !.step = "saveAnalysed", !.content = docs[v].content,
                                     !.found = Analysis(docs[v].content)]
      BY <1>1, <2>5, <2>11, <3>2 DEF SaveAnalyze, AnalyzeOnSave, Stored
    <3>4. task'[h].step = "saveAnalysed" /\ task'[h].found = Analysis(editor[v])
      BY <1>2, <3>2, <3>3 DEF Task, Stored
    <3> QED
      BY <1>2, <3>1, <3>2, <3>4 DEF Held, EditSteps, SaveSteps, Synced, Stored, Current
  <2>12. CASE SaveUpdate(h)
    <3>1. /\ task'[h] = [task[h] EXCEPT !.step = "savePublish"] /\ task[h].step = "saveAnalysed"
          /\ task[h].found # Failed /\ shown' = shown
          /\ docs' = IF docs[v] = NoDoc THEN docs
                     ELSE [docs EXCEPT ![v].findings = task[h].found]
      BY <1>1, <2>5, <2>12 DEF SaveUpdate, Resume
    <3>2. /\ task'[h].step = "savePublish" /\ task'[h].found = task[h].found
      BY <1>2, <3>1 DEF Task
    <3>3. Stored(v) /\ Current(v) /\ task[h].found = Analysis(editor[v])
      BY <2>3, <3>1 DEF Held, SaveSteps
    <3>4. docs'[v] = [docs[v] EXCEPT !.findings = task[h].found] /\ docs[v] \in Doc
      BY <2>5, <3>1, <3>3 DEF Stored
    <3>5. docs'[v].content = docs[v].content
      BY <3>4 DEF Doc
    <3>6. docs'[v] # NoDoc
      <4>1. task[h].found \in Texts
        BY <1>2, <3>1 DEF Task
      <4> QED
        BY <3>4, <4>1, LspAssumption DEF Doc
    <3> QED
      BY <1>2, <3>1, <3>2, <3>3, <3>5, <3>6 DEF Held, EditSteps, SaveSteps, Synced, Stored, Current
  <2>13. CASE SaveFailure(h)
    <3>1. /\ task'[h] = Idle /\ task[h].step = "saveAnalysed" /\ docs' = docs /\ shown' = shown
      BY <2>5, <2>13 DEF SaveFailure, Resume
    <3> QED
      BY <1>2, <2>3, <3>1 DEF Held, SaveSteps, Synced, Stored, Current
  <2>14. CASE SavePublish(h)
    <3>1. /\ task'[h] = Idle /\ task[h].step = "savePublish" /\ docs' = docs
          /\ shown'[v] = task[h].found
      BY <1>1, <2>5, <2>14 DEF SavePublish, Resume
    <3>2. shown'[v] = editor[v]
      BY <2>3, <3>1, AnalysisOutcome DEF Held
    <3> QED
      BY <1>2, <2>3, <3>1, <3>2 DEF Held, SaveSteps, Synced, Stored, Current
  <2>15. CASE ClosePublish(h)
    <3>1. /\ task'[h] = Idle /\ task[h].step = "closePublish" /\ docs' = docs
          /\ shown'[v] = NoFindings
      BY <1>1, <2>5, <2>15 DEF ClosePublish, Resume
    <3> QED
      BY <1>2, <2>3, <3>1 DEF Held, Synced
  <2> HIDE DEF Goal
  <2> QED
    BY <2>6, <2>7, <2>8, <2>9, <2>10, <2>11, <2>12, <2>13, <2>14, <2>15 DEF Run
<1> QED
  BY <1>3, <1>4 DEF SyncInv

(* A document with one notification in flight at most is never out of step *)
(* by more than that notification.                                         *)
LEMMA SyncInvariance == Spec => []SyncInv
<1>1. Init => SyncInv
  <2> SUFFICES ASSUME Init, NEW u \in Uris PROVE Following(u)
    BY DEF SyncInv
  <2>1. /\ Waiting(u) = {} /\ Running(u) = {} /\ docs[u] = NoDoc
        /\ editor[u] = << >> /\ shown[u] = NoFindings
    BY DEF Init, Waiting, Running, Busy
  <2> QED
    BY <2>1 DEF Following, Alone, Synced
<1>2. SyncInv /\ UNCHANGED vars => SyncInv'
  BY DEF vars, SyncInv, Following, Alone, Waiting, Running, Busy, QuietFor, Synced, Stored, Current,
         Due, Held
<1>3. TypeInv /\ SyncInv /\ [Next]_vars => SyncInv'
  BY <1>2, EditorSync, StartSync, RunSync DEF Next
<1> QED
  BY <1>1, <1>3, TypeInvariance, PTL DEF Spec

(* Whatever happens to other documents meanwhile, a document whose         *)
(* notifications are handled one at a time is, between them, stored        *)
(* exactly while it is open, with the editor's text, and shows the         *)
(* findings of that text, or nothing once it is closed.                    *)
THEOREM StoreFollowsEditor == Spec => []DocumentsInSync
<1>1. SyncInv => DocumentsInSync
  BY DEF SyncInv, Following, Synced, Stored, Current, DocumentsInSync
<1> QED
  BY <1>1, SyncInvariance, PTL
=============================================================================
