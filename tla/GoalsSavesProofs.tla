-------------------------- MODULE GoalsSavesProofs --------------------------
(***************************************************************************)
(* What becomes of one save, for every set of ids and titles and every     *)
(* bound: its document lives once (GoalsList implements DocumentLife), two *)
(* rows at most show it, the fetch takes no row away that it should keep,  *)
(* and, used calmly, the list is the book of what was saved and not        *)
(* deleted (GoalsCalm implements Notebook).                                *)
(***************************************************************************)
EXTENDS GoalsProofs

-----------------------------------------------------------------------------
(* A document lives once.  What is needed beyond the invariant of           *)
(* GoalsProofs: a creation waits in the queue at most once.  Until it       *)
(* leaves the queue the document counts as queued, though the server may    *)
(* have taken it, lost the answer, and be sent it again.                    *)

\* The documents a queue of writes will create.
SetsOf(q) == {q[i].id : i \in {j \in DOMAIN q : q[j].op = "set"}}

SetsOnce(q) ==
  \A i, j \in DOMAIN q : q[i].op = "set" /\ q[j].op = "set" /\ q[i].id = q[j].id => i = j

LifeInv == SetsOnce(pending)

\* Two queues with the same writes, whatever their callbacks.
SameWrites(q, r) ==
  DOMAIN q = DOMAIN r /\ \A i \in DOMAIN q : q[i].op = r[i].op /\ q[i].id = r[i].id

-----------------------------------------------------------------------------

LEMMA SetsAppend ==
  ASSUME NEW q \in Seq(AnyWrite), NEW w \in AnyWrite
  PROVE  /\ SetsOf(Append(q, w)) = SetsOf(q) \cup (IF w.op = "set" THEN {w.id} ELSE {})
         /\ SetsOnce(q) /\ (w.op = "set" => w.id \notin SetsOf(q)) => SetsOnce(Append(q, w))
<1> DEFINE n == Len(q)
           r == Append(q, w)
<1>1. n \in Nat /\ DOMAIN q = 1 .. n
  BY LenProperties
<1>2. DOMAIN r = 1 .. n + 1 /\ r[n + 1] = w /\ \A i \in 1 .. n : r[i] = q[i]
  BY AppendProperties, LenProperties
<1>3. SetsOf(r) = SetsOf(q) \cup (IF w.op = "set" THEN {w.id} ELSE {})
  BY <1>1, <1>2 DEF SetsOf
<1>4. SetsOnce(q) /\ (w.op = "set" => w.id \notin SetsOf(q)) => SetsOnce(r)
  BY <1>1, <1>2 DEF SetsOnce, SetsOf
<1> QED
  BY <1>3, <1>4

LEMMA SetsTail ==
  ASSUME NEW q \in Seq(AnyWrite), q # <<>>
  PROVE  /\ SetsOf(q) = SetsOf(Tail(q)) \cup (IF Head(q).op = "set" THEN {Head(q).id} ELSE {})
         /\ SetsOnce(q) => SetsOnce(Tail(q))
         /\ SetsOnce(q) /\ Head(q).op = "set" => Head(q).id \notin SetsOf(Tail(q))
<1> DEFINE n == Len(q)
           r == Tail(q)
<1>1. n \in Nat /\ n > 0 /\ DOMAIN q = 1 .. n /\ Head(q) = q[1]
  BY LenProperties, EmptySeq
<1>2. DOMAIN r = 1 .. n - 1 /\ \A i \in 1 .. n - 1 : r[i] = q[i + 1]
  BY HeadTailProperties, LenProperties
<1>3. SetsOf(q) = SetsOf(r) \cup (IF Head(q).op = "set" THEN {Head(q).id} ELSE {})
  <2>1. SetsOf(r) \subseteq SetsOf(q)
    BY <1>1, <1>2 DEF SetsOf
  <2>2. Head(q).op = "set" => Head(q).id \in SetsOf(q)
    BY <1>1 DEF SetsOf
  <2>3. ASSUME NEW i \in DOMAIN q, q[i].op = "set"
        PROVE  q[i].id \in SetsOf(r) \/ (Head(q).op = "set" /\ q[i].id = Head(q).id)
    <3>1. CASE i = 1
      BY <1>1, <2>3, <3>1
    <3>2. CASE i # 1
      <4>1. i - 1 \in DOMAIN r /\ r[i - 1] = q[i]
        BY <1>1, <1>2, <3>2
      <4> QED
        BY <2>3, <4>1 DEF SetsOf
    <3> QED
      BY <3>1, <3>2
  <2> QED
    BY <2>1, <2>2, <2>3 DEF SetsOf
<1>4. SetsOnce(q) => SetsOnce(r)
  <2> SUFFICES ASSUME SetsOnce(q), NEW i \in DOMAIN r, NEW j \in DOMAIN r,
                      r[i].op = "set", r[j].op = "set", r[i].id = r[j].id
               PROVE  i = j
    BY DEF SetsOnce
  <2>1. i + 1 \in DOMAIN q /\ j + 1 \in DOMAIN q /\ r[i] = q[i + 1] /\ r[j] = q[j + 1]
    BY <1>1, <1>2
  <2>2. i + 1 = j + 1
    BY <2>1 DEF SetsOnce
  <2> QED
    BY <1>1, <1>2, <2>2
<1>5. SetsOnce(q) /\ Head(q).op = "set" => Head(q).id \notin SetsOf(r)
  <2> SUFFICES ASSUME SetsOnce(q), Head(q).op = "set",
                      NEW i \in DOMAIN r, r[i].op = "set", r[i].id = Head(q).id
               PROVE  FALSE
    BY DEF SetsOf
  <2>1. i + 1 \in DOMAIN q /\ r[i] = q[i + 1] /\ 1 \in DOMAIN q /\ i + 1 # 1
    BY <1>1, <1>2
  <2> QED
    BY <1>1, <2>1 DEF SetsOnce
<1> QED
  BY <1>3, <1>4, <1>5

LEMMA SameWritesSameSets ==
  ASSUME NEW q, NEW r, SameWrites(q, r)
  PROVE  SetsOf(q) = SetsOf(r) /\ (SetsOnce(q) => SetsOnce(r))
BY DEF SameWrites, SetsOf, SetsOnce

LEMMA PendingTyped == IInv => pending \in Seq(AnyWrite)
<1>1. KnownWrite \subseteq AnyWrite
  BY DEF KnownWrite
<1> QED
  BY <1>1, SeqMonotonic DEF IInv, QueueInv

LEMMA PendingSetsKnown == IInv => SetsOf(pending) \subseteq Known
<1> SUFFICES ASSUME IInv PROVE SetsOf(pending) \subseteq Known
  OBVIOUS
<1>1. \A i \in DOMAIN pending : pending[i].id \in Known
  BY LenProperties, ElementOfSeq DEF IInv, QueueInv, KnownWrite
<1> QED
  BY <1>1 DEF SetsOf

Stage(id, creations, holding, wrote) ==
  IF wrote[id] = NoDoc THEN "unused"
  ELSE IF id \in creations THEN "queued"
  ELSE IF id \in holding THEN "stored" ELSE "gone"

LEMMA LifeBySets ==
  \A id \in DocIds :
    /\ lifeBar[id] = Stage(id, SetsOf(pending), server, written)
    /\ lifeBar'[id] = Stage(id, SetsOf(pending'), server', written')
<1>1. \A id \in DocIds : lifeBar[id] = LifeOf(id)
  BY DEF lifeBar
<1>2. \A id \in DocIds : LifeOf(id) = Stage(id, SetsOf(pending), server, written)
  BY DEF LifeOf, PendingIds, SetsOf, Stage
<1>3. \A id \in DocIds : lifeBar'[id] = LifeOf(id)'
  BY DEF lifeBar
<1>4. \A id \in DocIds : LifeOf(id)' = Stage(id, SetsOf(pending'), server', written')
  BY DEF LifeOf, PendingIds, SetsOf, Stage
<1> QED
  BY <1>1, <1>2, <1>3, <1>4

-----------------------------------------------------------------------------
(* What one step does to written, server and the writes queued. *)

KeepsDocuments ==
  UNCHANGED <<written, server>> /\ SameWrites(pending, pending')

AddsDocument ==
  \E id \in Fresh, doc \in Document, c \in Callback :
    /\ written' = [written EXCEPT ![id] = doc]
    /\ pending' = Append(pending, Write("set", id, c))
    /\ UNCHANGED server

QueuesDeletion ==
  \E id \in DocIds, c \in Callback :
    pending' = Append(pending, Write("delete", id, c)) /\ UNCHANGED <<written, server>>

LEMMA StepKinds ==
  ASSUME IInv, [Next]_vars
  PROVE  \/ KeepsDocuments \/ AddsDocument \/ QueuesDeletion
         \/ Acknowledge \/ Reject \/ ServerTakes
         \/ OtherDeviceDeletes \/ \E doc \in Document : OtherDeviceAdds(doc)
<1>1. CASE UNCHANGED <<written, server, pending>>
  BY <1>1 DEF KeepsDocuments, SameWrites
<1>2. CASE ProcessDies
  <2>1. \A i \in DOMAIN pending : pending[i] \in AnyWrite
    BY PendingTyped, LenProperties, ElementOfSeq
  <2>2. SameWrites(pending, pending')
    BY <1>2, <2>1 DEF ProcessDies, SameWrites, AnyWrite
  <2> QED
    BY <1>2, <2>2 DEF KeepsDocuments, ProcessDies
<1>3. CASE SignOut
  <2>1. \A i \in DOMAIN pending : pending[i] \in AnyWrite
    BY PendingTyped, LenProperties, ElementOfSeq
  <2>2. SameWrites(pending, pending')
    BY <1>3, <2>1 DEF SignOut, SameWrites, AnyWrite
  <2> QED
    BY <1>3, <2>2 DEF KeepsDocuments, SignOut
<1>4. CASE SaveGoal
  <2>1. PICK title \in Titles :
          LET goal == LocalGoal([title |-> title, date |-> clock + 1])
          IN IF Unidentified = {} THEN Persist(goal) ELSE Overwrite(goal)
    BY <1>4 DEF SaveGoal
  <2> DEFINE goal == LocalGoal([title |-> title, date |-> clock + 1])
  <2>2. CASE Overwrite(goal)
    BY <1>1, <2>2 DEF Overwrite, clientVars
  <2>3. CASE Persist(goal)
    <3>1. clock + 1 \in Dates
      BY <1>4, GoalsAssumption DEF SaveGoal, IInv, ScreenInv, Dates
    <3>2. goal \in NewGoal /\ DocumentOf(goal) \in Document
      BY <3>1 DEF LocalGoal, NewGoal, DocumentOf, Document
    <3>3. InsertDone(goal, TRUE) \in Callback
      BY <3>2 DEF InsertDone, Callback
    <3> QED
      BY <2>3, <3>2, <3>3 DEF Persist, AddDocument, SetDocument, AddsDocument
  <2> QED
    BY <2>1, <2>2, <2>3
<1>5. CASE ConfirmDelete
  <2>1. CASE Crash
    BY <1>2, <2>1 DEF Crash
  <2>2. CASE ~Crash
    <3>1. dialog.goal \in Goal /\ dialog.row \in Nat \ {0}
      BY <1>5 DEF ConfirmDelete, IInv, ScreenInv, KnownRow
    <3>2. DeleteDone(dialog.row, TRUE) \in Callback
      BY <3>1 DEF DeleteDone, Callback
    <3>3. dialog.goal.uuid \in DocIds
      BY <1>5, <2>2, <3>1 DEF ConfirmDelete, Goal
    <3> QED
      BY <1>5, <2>2, <3>2, <3>3 DEF ConfirmDelete, DeleteDocument, QueuesDeletion
  <2> QED
    BY <2>1, <2>2
<1>6. CASE OtherDeviceSaves
  <2>1. clock + 1 \in Dates
    BY <1>6, GoalsAssumption DEF OtherDeviceSaves, IInv, ScreenInv, Dates
  <2>2. \A title \in Titles : [title |-> title, date |-> clock + 1] \in Document
    BY <2>1 DEF Document
  <2> QED
    BY <1>6, <2>2 DEF OtherDeviceSaves
<1>7. CASE MainQueue
  BY <1>1, <1>2, <1>7 DEF MainQueue, FetchDelivered, InsertDelivered, DeleteDelivered,
                      DrawTable, Ignore, Show, Crash
<1>8. CASE ClientRuns
  BY <1>1, <1>8 DEF ClientRuns, ClientStep, StreamBreaks, AnswerFromServer, AnswerFromCache,
                    FailQuery
<1>9. CASE OtherDeviceErases
  BY <1>9 DEF OtherDeviceErases
<1>10. CASE User /\ ~SignOut /\ ~SaveGoal /\ ~ConfirmDelete
  BY <1>1, <1>2, <1>10
     DEF User, OpenGoals, GetDocuments, Relaunch, OpenForm, CancelForm, SwipeComplete,
         TouchCheckbox, DismissAlert, SwipeDelete, CancelDelete, clientVars
<1> QED
  BY <1>1, <1>3, <1>4, <1>5, <1>6, <1>7, <1>8, <1>9, <1>10
     DEF Next, Environment, vars, clientVars

-----------------------------------------------------------------------------
(* Each kind of step moves at most one document, along one edge. *)

\* One document moves from one stage to another.
Moves(id, from, to) ==
  /\ lifeBar[id] = from /\ lifeBar'[id] = to
  /\ \A other \in DocIds \ {id} : lifeBar'[other] = lifeBar[other]

Stays == \A id \in DocIds : lifeBar'[id] = lifeBar[id]

LifeStep ==
  \/ Stays
  \/ \E id \in DocIds :
       \/ Moves(id, "unused", "queued") \/ Moves(id, "unused", "stored")
       \/ Moves(id, "queued", "stored") \/ Moves(id, "queued", "gone")
       \/ Moves(id, "stored", "gone")

LEMMA LifeStepRefines ==
  ASSUME LifeStep
  PROVE  [Lives!Next]_lifeBar
<1>1. CASE Stays
  BY <1>1 DEF Stays, lifeBar
<1>2. CASE ~Stays
  <2>1. \A id \in DocIds :
          \A from, to : Moves(id, from, to)
            => lifeBar[id] = from /\ lifeBar' = [lifeBar EXCEPT ![id] = to]
    BY DEF Moves, lifeBar
  <2> QED
    BY <1>2, <2>1 DEF LifeStep, Lives!Next, Lives!After
<1> QED
  BY <1>1, <1>2

LEMMA KeepingLife ==
  ASSUME IInv, LifeInv, KeepsDocuments
  PROVE  LifeInv' /\ LifeStep
<1>1. SetsOf(pending') = SetsOf(pending) /\ SetsOnce(pending')
  BY SameWritesSameSets DEF KeepsDocuments, LifeInv
<1>2. Stays
  BY <1>1, LifeBySets DEF Stage, Stays, KeepsDocuments
<1> QED
  BY <1>1, <1>2 DEF LifeInv, LifeStep, KeepsDocuments

LEMMA AddingLife ==
  ASSUME IInv, LifeInv, AddsDocument
  PROVE  LifeInv' /\ LifeStep
<1>1. PICK id \in Fresh, doc \in Document, c \in Callback :
        /\ written' = [written EXCEPT ![id] = doc]
        /\ pending' = Append(pending, Write("set", id, c))
        /\ UNCHANGED server
  BY DEF AddsDocument
<1>2. id \in DocIds /\ written[id] = NoDoc /\ written'[id] # NoDoc
      /\ \A other \in DocIds \ {id} : written'[other] = written[other]
  BY <1>1, GoalsAssumption DEF Fresh, IInv, StoreInv
<1>3. id \notin SetsOf(pending) /\ id \notin server
  BY <1>2, PendingSetsKnown DEF Known, IInv, StoreInv
<1>4. SetsOf(pending') = SetsOf(pending) \cup {id} /\ SetsOnce(pending')
  <2>1. Write("set", id, c) \in AnyWrite
    BY <1>2 DEF Write, AnyWrite
  <2> QED
    BY <1>1, <1>3, <2>1, PendingTyped, SetsAppend DEF LifeInv, Write
<1>5. Moves(id, "unused", "queued")
  BY <1>1, <1>2, <1>3, <1>4, LifeBySets DEF Stage, Moves
<1> QED
  BY <1>1, <1>2, <1>3, <1>4, <1>5 DEF LifeInv, LifeStep

LEMMA DeletionLife ==
  ASSUME IInv, LifeInv, QueuesDeletion
  PROVE  LifeInv' /\ LifeStep
<1>1. PICK id \in DocIds, c \in Callback :
        pending' = Append(pending, Write("delete", id, c)) /\ UNCHANGED <<written, server>>
  BY DEF QueuesDeletion
<1>2. Write("delete", id, c) \in AnyWrite /\ Write("delete", id, c).op = "delete"
  BY DEF Write, AnyWrite
<1>3. SetsOf(pending') = SetsOf(pending) /\ SetsOnce(pending')
  BY <1>1, <1>2, PendingTyped, SetsAppend DEF LifeInv
<1>4. Stays
  BY <1>1, <1>3, LifeBySets DEF Stage, Stays
<1> QED
  BY <1>1, <1>3, <1>4 DEF LifeInv, LifeStep

LEMMA AnswerLife ==
  ASSUME IInv, TakenInv, LifeInv, Acknowledge \/ Reject
  PROVE  LifeInv' /\ LifeStep
<1> DEFINE w == Head(pending)
<1>1. pending # <<>>
  BY AnswerNeedsWrite
<1>2. pending' = Tail(pending) /\ UNCHANGED <<written, server>>
  BY DEF Acknowledge, Reject, Settle
<1>3. w \in KnownWrite /\ w.id \in DocIds /\ written[w.id] # NoDoc /\ w.op \in {"set", "delete"}
  BY <1>1, HeadOfPending DEF KnownWrite, AnyWrite, Known
<1>4. /\ SetsOf(pending) = SetsOf(pending') \cup (IF w.op = "set" THEN {w.id} ELSE {})
      /\ SetsOnce(pending')
      /\ w.op = "set" => w.id \notin SetsOf(pending')
  BY <1>1, <1>2, PendingTyped, SetsTail DEF LifeInv
<1>5. CASE w.op = "set" /\ w.id \in server
  <2>1. Moves(w.id, "queued", "stored")
    BY <1>2, <1>3, <1>4, <1>5, LifeBySets DEF Stage, Moves
  <2> QED
    BY <1>3, <1>4, <2>1 DEF LifeInv, LifeStep
<1>6. CASE w.op = "set" /\ w.id \notin server
  <2>1. Moves(w.id, "queued", "gone")
    BY <1>2, <1>3, <1>4, <1>6, LifeBySets DEF Stage, Moves
  <2> QED
    BY <1>3, <1>4, <2>1 DEF LifeInv, LifeStep
<1>7. CASE w.op = "delete"
  <2>1. Stays
    BY <1>2, <1>4, <1>7, LifeBySets DEF Stage, Stays
  <2> QED
    BY <1>4, <2>1 DEF LifeInv, LifeStep
<1> QED
  BY <1>3, <1>5, <1>6, <1>7

\* A document leaves the server: it is gone unless its creation is still queued.
LEMMA ErasingLife ==
  ASSUME LifeInv, NEW id \in DocIds, id \in server, server' = server \ {id}, written[id] # NoDoc,
         UNCHANGED <<written, pending>>
  PROVE  LifeInv' /\ LifeStep
<1>1. CASE id \in SetsOf(pending)
  <2>1. Stays
    BY <1>1, LifeBySets DEF Stage, Stays
  <2> QED
    BY <2>1 DEF LifeInv, LifeStep
<1>2. CASE id \notin SetsOf(pending)
  <2>1. Moves(id, "stored", "gone")
    BY <1>2, LifeBySets DEF Stage, Moves
  <2> QED
    BY <2>1 DEF LifeInv, LifeStep
<1> QED
  BY <1>1, <1>2

LEMMA TakingLife ==
  ASSUME IInv, TakenInv, LifeInv, ServerTakes
  PROVE  LifeInv' /\ LifeStep
<1> DEFINE w == pending[taken + 1]
<1>1. w \in KnownWrite /\ w.id \in DocIds /\ written[w.id] # NoDoc /\ w.op \in {"set", "delete"}
  BY NextToTake DEF KnownWrite, AnyWrite, Known
<1>2. server' = Effect(w, server) /\ UNCHANGED <<written, pending>>
  BY DEF ServerTakes
<1>3. CASE w.op = "set"
  <2>1. taken + 1 \in DOMAIN pending
    BY LenProperties DEF ServerTakes, TakenInv, IInv, QueueInv
  <2>2. w.id \in SetsOf(pending)
    BY <1>3, <2>1 DEF SetsOf
  <2>3. Stays
    BY <1>2, <1>3, <2>2, LifeBySets DEF Stage, Stays, Effect
  <2> QED
    BY <1>2, <2>3 DEF LifeInv, LifeStep
<1>4. CASE w.op = "delete" /\ w.id \in server
  BY <1>1, <1>2, <1>4, ErasingLife DEF Effect
<1>5. CASE w.op = "delete" /\ w.id \notin server
  <2>1. Stays
    BY <1>2, <1>5, LifeBySets DEF Stage, Stays, Effect
  <2> QED
    BY <1>2, <2>1 DEF LifeInv, LifeStep
<1> QED
  BY <1>1, <1>3, <1>4, <1>5

LEMMA OthersLife ==
  ASSUME IInv, LifeInv,
         OtherDeviceDeletes \/ \E doc \in Document : OtherDeviceAdds(doc)
  PROVE  LifeInv' /\ LifeStep
<1>1. CASE OtherDeviceDeletes
  BY <1>1, ErasingLife DEF OtherDeviceDeletes, IInv, StoreInv, Known
<1>2. CASE \E doc \in Document : OtherDeviceAdds(doc)
  <2>1. PICK doc \in Document, id \in Fresh :
          /\ written' = [written EXCEPT ![id] = doc]
          /\ server' = server \cup {id} /\ UNCHANGED pending
    BY <1>2 DEF OtherDeviceAdds
  <2>2. id \in DocIds /\ written[id] = NoDoc /\ written'[id] # NoDoc
        /\ \A other \in DocIds \ {id} : written'[other] = written[other]
    BY <2>1, GoalsAssumption DEF Fresh, IInv, StoreInv
  <2>3. id \notin SetsOf(pending)
    BY <2>2, PendingSetsKnown DEF Known
  <2>4. Moves(id, "unused", "stored")
    BY <2>1, <2>2, <2>3, LifeBySets DEF Stage, Moves
  <2> QED
    BY <2>1, <2>2, <2>3, <2>4 DEF LifeInv, LifeStep
<1> QED
  BY <1>1, <1>2

LEMMA NextLife ==
  ASSUME IInv, TakenInv, LifeInv, [Next]_vars
  PROVE  LifeInv' /\ LifeStep
BY StepKinds, KeepingLife, AddingLife, DeletionLife, AnswerLife, TakingLife, OthersLife

\* Saves, refusals, deletions, sign-outs, crashes and restarts, on this device and
\* on the others, never create a document twice and never bring one back.
THEOREM ImplementsDocumentLife == Spec => DocumentsLiveOnce
<1>1. Init => LifeInv /\ Lives!Init
  <2> SUFFICES ASSUME Init PROVE LifeInv /\ Lives!Init
    OBVIOUS
  <2>1. pending = <<>> /\ server = {} /\ written = [id \in DocIds |-> NoDoc]
    BY DEF Init, ClientInit
  <2>2. DOMAIN pending = {}
    BY <2>1
  <2> QED
    BY <2>1, <2>2 DEF LifeInv, SetsOnce, SetsOf, Lives!Init, lifeBar, LifeOf
<1>2. IInv /\ TakenInv /\ LifeInv /\ [Next]_vars => LifeInv' /\ [Lives!Next]_lifeBar
  BY NextLife, LifeStepRefines
<1> QED
  BY <1>1, <1>2, Invariant, PTL DEF Spec, DocumentsLiveOnce, Lives!Spec

-----------------------------------------------------------------------------
(* Two rows at most.  A save is known by its date: no two documents have    *)
(* the same one, and nothing is dated later than now (DocsInv, NoLater).    *)
(* The fetch lists a save once, the closure of the save lists it once more; *)
(* while that closure is still to come, which it does once, one row is the  *)
(* most there is (SavesInv).                                                *)

OneRow(rows, date) ==
  \A i, j \in DOMAIN rows : rows[i].date = date /\ rows[j].date = date => i = j

TwoRows(rows, date) ==
  \A i, j, k \in DOMAIN rows :
    rows[i].date = date /\ rows[j].date = date /\ rows[k].date = date
      => i = j \/ j = k \/ i = k

NoLater(rows, time) == \A row \in DOMAIN rows : rows[row].date <= time

DocsInv ==
  /\ \A id \in Known : written[id].date <= clock
  /\ \A a, b \in Known : written[a].date = written[b].date => a = b

\* This controller waits for the save's closure.
Saving(goal) == InsertDone(goal, TRUE) \in Awaited

SavesInv ==
  /\ \A goal \in NewGoal :
       /\ Once(InsertDone(goal, TRUE))
       /\ Saving(goal) => goal.date <= clock /\ OneRow(goals, goal.date)
  /\ \A goal, other \in NewGoal :
       Saving(goal) /\ Saving(other) /\ goal.date = other.date => goal = other
  /\ \A date \in Dates : TwoRows(goals, date)

AllInv == IInv /\ TakenInv /\ LiveInv
DatesInv == DocsInv /\ NoLater(goals, clock) /\ SavesInv

-----------------------------------------------------------------------------
(* Rows *)

LEMMA OneIsTwo ==
  ASSUME NEW rows, NEW date, OneRow(rows, date) PROVE TwoRows(rows, date)
BY DEF OneRow, TwoRows

LEMMA NoRows ==
  ASSUME NEW date PROVE OneRow(<<>>, date) /\ TwoRows(<<>>, date) /\ NoLater(<<>>, date)
BY DEF OneRow, TwoRows, NoLater

\* No date gets a row more.
Fits(old, new) ==
  \A date \in Dates :
    /\ OneRow(old, date) => OneRow(new, date)
    /\ TwoRows(old, date) => TwoRows(new, date)

LEMMA DatedRow ==
  ASSUME IInv, NEW row \in DOMAIN goals
  PROVE  goals[row].date \in Dates /\ goals[row].date \in Nat
BY RowsOfGoals DEF Goal, Dates

\* A row is changed, and shows the same save still.
LEMMA SameDates ==
  ASSUME NEW old, NEW new, DOMAIN new = DOMAIN old, NEW time,
         \A i \in DOMAIN new : new[i].date = old[i].date
  PROVE  Fits(old, new) /\ (NoLater(old, time) => NoLater(new, time))
BY DEF Fits, OneRow, TwoRows, NoLater

\* A row is given to a save that none of the rows shows.
LEMMA RowForNewSave ==
  ASSUME NEW old, NEW row \in DOMAIN old, NEW goal, NEW new, new = [old EXCEPT ![row] = goal],
         NEW time \in Nat, NoLater(old, time), goal.date = time + 1,
         \A i \in DOMAIN old : old[i].date \in Nat
  PROVE  Fits(old, new) /\ NoLater(new, time + 1)
<1>1. DOMAIN new = DOMAIN old /\ \A i \in DOMAIN old : new[i] = IF i = row THEN goal ELSE old[i]
  OBVIOUS
<1>2. \A i \in DOMAIN new : new[i].date = time + 1 <=> i = row
  BY <1>1 DEF NoLater
<1>3. NoLater(new, time + 1)
  BY <1>1 DEF NoLater
<1>4. ASSUME NEW date, date # time + 1
      PROVE  \A i \in DOMAIN new : new[i].date = date => old[i].date = date
  BY <1>1, <1>2, <1>4
<1>5. ASSUME NEW date
      PROVE  /\ OneRow(old, date) => OneRow(new, date)
             /\ TwoRows(old, date) => TwoRows(new, date)
  <2>1. CASE date = time + 1
    <3>1. OneRow(new, date)
      BY <1>2, <2>1 DEF OneRow
    <3> QED
      BY <3>1, OneIsTwo
  <2>2. CASE date # time + 1
    BY <1>1, <1>4, <2>2 DEF OneRow, TwoRows
  <2> QED
    BY <2>1, <2>2
<1> QED
  BY <1>3, <1>5 DEF Fits

LEMMA FetchedRows ==
  ASSUME IInv, DocsInv, NEW ids \in SUBSET Known, NEW rows \in NewestFirst(ids)
  PROVE  NoLater(rows, clock) /\ \A date : OneRow(rows, date)
<1>1. /\ IsFiniteSet(ids) /\ Cardinality(ids) \in Nat
  BY GoalsAssumption, FS_Subset, FS_CardinalityType DEF Known
<1>2. /\ rows \in [1 .. Cardinality(ids) -> {FetchedGoal(id) : id \in ids}]
      /\ \A id \in ids : \E row \in DOMAIN rows : rows[row] = FetchedGoal(id)
  BY DEF NewestFirst
<1>3. ASSUME NEW row \in DOMAIN rows
      PROVE  /\ rows[row].uuid \in ids /\ rows[row].date = written[rows[row].uuid].date
  BY <1>2 DEF FetchedGoal
<1>4. NoLater(rows, clock)
  BY <1>3 DEF NoLater, DocsInv
<1> DEFINE shown == [row \in 1 .. Cardinality(ids) |-> rows[row].uuid]
<1>5. shown \in Surjection(1 .. Cardinality(ids), ids)
  <2>1. shown \in [1 .. Cardinality(ids) -> ids]
    BY <1>2, <1>3
  <2>2. ASSUME NEW id \in ids PROVE \E row \in 1 .. Cardinality(ids) : shown[row] = id
    BY <1>2 DEF FetchedGoal
  <2> QED
    BY <2>1, <2>2 DEF Surjection
<1>6. shown \in Injection(1 .. Cardinality(ids), ids)
  <2>1. IsFiniteSet(1 .. Cardinality(ids)) /\ Cardinality(1 .. Cardinality(ids)) = Cardinality(ids)
    BY <1>1, FS_Interval
  <2> HIDE DEF shown
  <2> QED
    BY <1>1, <1>5, <2>1, FS_SurjSameCardinalityImpliesInj
<1>7. ASSUME NEW i \in DOMAIN rows, NEW j \in DOMAIN rows, rows[i].date = rows[j].date
      PROVE  i = j
  <2>1. rows[i].uuid = rows[j].uuid
    BY <1>3, <1>7 DEF DocsInv
  <2>2. i \in 1 .. Cardinality(ids) /\ j \in 1 .. Cardinality(ids) /\ shown[i] = shown[j]
    BY <1>2, <2>1
  <2> HIDE DEF shown
  <2> QED
    BY <1>6, <2>2 DEF Injection, IsInjective
<1>8. \A date : OneRow(rows, date)
  BY <1>7 DEF OneRow
<1> QED
  BY <1>4, <1>8

LEMMA InsertedRow ==
  ASSUME NEW rows \in Seq(KnownRow), NEW goal \in KnownRow, NEW time,
         NoLater(rows, time), goal.date <= time
  PROVE  /\ NoLater(Cons(goal, rows), time)
         /\ OneRow(rows, goal.date) => TwoRows(Cons(goal, rows), goal.date)
         /\ \A date : date # goal.date =>
              /\ OneRow(rows, date) => OneRow(Cons(goal, rows), date)
              /\ TwoRows(rows, date) => TwoRows(Cons(goal, rows), date)
<1> DEFINE all == Cons(goal, rows)
           From(i) == i - 1
<1>1. /\ Len(all) = Len(rows) + 1 /\ all[1] = goal
      /\ \A k \in 2 .. Len(rows) + 1 : all[k] = rows[k - 1]
  BY ConsElements
<1>2. DOMAIN all = 1 .. Len(all) /\ DOMAIN rows = 1 .. Len(rows) /\ Len(rows) \in Nat
  BY ConsInSeq, LenProperties
<1> HIDE DEF all
<1>3. \A i \in DOMAIN all : i # 1 => From(i) \in DOMAIN rows /\ all[i] = rows[From(i)]
  BY <1>1, <1>2
<1>4. \A i, j \in DOMAIN all : From(i) = From(j) => i = j
  BY <1>1, <1>2
<1> HIDE DEF From
<1>5. NoLater(all, time)
  BY <1>1, <1>3 DEF NoLater
<1>6. OneRow(rows, goal.date) => TwoRows(all, goal.date)
  <2>1. ASSUME OneRow(rows, goal.date), NEW i \in DOMAIN all, NEW j \in DOMAIN all,
               all[i].date = goal.date, all[j].date = goal.date, i # 1, j # 1
        PROVE  i = j
    BY <1>3, <1>4, <2>1 DEF OneRow
  <2> QED
    BY <2>1 DEF TwoRows
<1>7. ASSUME NEW date, date # goal.date
      PROVE  /\ OneRow(rows, date) => OneRow(all, date)
             /\ TwoRows(rows, date) => TwoRows(all, date)
  <2>1. \A i \in DOMAIN all : all[i].date = date =>
          From(i) \in DOMAIN rows /\ rows[From(i)].date = date
    BY <1>1, <1>3, <1>7
  <2> QED
    BY <1>4, <2>1 DEF OneRow, TwoRows
<1> QED
  BY <1>5, <1>6, <1>7 DEF all

LEMMA RowsThatStay ==
  ASSUME NEW rows \in Seq(KnownRow), NEW row \in DOMAIN rows, NEW time
  PROVE  /\ Fits(rows, RemoveAt(rows, row))
         /\ NoLater(rows, time) => NoLater(RemoveAt(rows, row), time)
<1> DEFINE rest == RemoveAt(rows, row)
           From(i) == IF i < row THEN i ELSE i + 1
<1>1. /\ Len(rest) = Len(rows) - 1
      /\ \A k \in 1 .. Len(rows) - 1 : rest[k] = IF k < row THEN rows[k] ELSE rows[k + 1]
  BY RemoveAtElements
<1>2. DOMAIN rest = 1 .. Len(rest) /\ DOMAIN rows = 1 .. Len(rows) /\ Len(rows) \in Nat
      /\ row \in 1 .. Len(rows)
  BY RemoveAtInSeq, LenProperties
<1> HIDE DEF rest
<1>3. \A i \in DOMAIN rest : From(i) \in DOMAIN rows /\ rest[i] = rows[From(i)]
  BY <1>1, <1>2
<1>4. \A i, j \in DOMAIN rest : From(i) = From(j) => i = j
  BY <1>1, <1>2
<1> HIDE DEF From
<1>5. \A date : /\ OneRow(rows, date) => OneRow(rest, date)
                /\ TwoRows(rows, date) => TwoRows(rest, date)
  BY <1>3, <1>4 DEF OneRow, TwoRows
<1> QED
  BY <1>3, <1>5 DEF rest, Fits, NoLater

-----------------------------------------------------------------------------
(* The documents' dates *)

\* What a step does to the documents: nothing, or one more with the date of now.
DocsStep ==
  \/ written' = written /\ clock' \in {clock, clock + 1}
  \/ /\ clock' = clock + 1
     /\ \E id \in Fresh, title \in Titles :
          written' = [written EXCEPT ![id] = [title |-> title, date |-> clock + 1]]

LEMMA NextDocsStep ==
  ASSUME [Next]_vars
  PROVE  DocsStep
<1>1. CASE SaveGoal
  BY <1>1 DEF SaveGoal, Persist, AddDocument, SetDocument, Overwrite, LocalGoal, DocumentOf,
       clientVars, DocsStep
<1>2. CASE OtherDeviceSaves
  BY <1>2 DEF OtherDeviceSaves, OtherDeviceAdds, DocsStep
<1>3. CASE User /\ ~SaveGoal
  BY <1>3 DEF User, OpenGoals, GetDocuments, SignOut, Relaunch, ProcessDies, OpenForm, CancelForm,
       SwipeComplete, TouchCheckbox, DismissAlert, SwipeDelete, CancelDelete, ConfirmDelete,
       DeleteDocument, Crash, clientVars, DocsStep
<1>4. CASE MainQueue
  BY <1>4 DEF MainQueue, FetchDelivered, InsertDelivered, DeleteDelivered, DrawTable, Ignore, Show,
       Crash, ProcessDies, DocsStep
<1>5. CASE ClientRuns \/ OtherDeviceErases
  BY <1>5 DEF ClientRuns, ClientStep, ServerTakes, StreamBreaks, Acknowledge, Reject, Settle,
       AnswerFromServer, AnswerFromCache, FailQuery, OtherDeviceErases, OtherDeviceDeletes, DocsStep
<1>6. CASE UNCHANGED vars
  BY <1>6 DEF vars, clientVars, DocsStep
<1> QED
  BY <1>1, <1>2, <1>3, <1>4, <1>5, <1>6 DEF Next, Environment

LEMMA DocsInvNext ==
  ASSUME IInv, DocsInv, [Next]_vars
  PROVE  DocsInv' /\ clock' \in {clock, clock + 1}
<1>1. /\ clock \in Nat /\ written \in [DocIds -> Document \cup {NoDoc}]
      /\ \A id \in Known : written[id].date \in Nat
  BY GoalsAssumption DEF IInv, ScreenInv, StoreInv, Known, Document, Dates
<1>2. CASE written' = written /\ clock' \in {clock, clock + 1}
  BY <1>1, <1>2 DEF DocsInv, Known
<1>3. CASE /\ clock' = clock + 1
           /\ \E id \in Fresh, title \in Titles :
                written' = [written EXCEPT ![id] = [title |-> title, date |-> clock + 1]]
  <2>1. PICK id \in Fresh, title \in Titles :
          written' = [written EXCEPT ![id] = [title |-> title, date |-> clock + 1]]
    BY <1>3
  <2>2. /\ Known' \subseteq Known \cup {id} /\ id \notin Known
        /\ \A k \in Known : written'[k] = written[k]
        /\ written'[id].date = clock + 1
    BY <1>1, <2>1 DEF Known, Fresh
  <2>3. \A k \in Known' : written'[k].date <= clock + 1 /\ (written'[k].date = clock + 1 => k = id)
    BY <1>1, <2>2 DEF DocsInv
  <2> QED
    BY <1>3, <2>2, <2>3 DEF DocsInv
<1> QED
  BY <1>2, <1>3, NextDocsStep DEF DocsStep

-----------------------------------------------------------------------------
(* The saves under way *)

LEMMA SaveIsCallback ==
  ASSUME NEW goal \in NewGoal
  PROVE  /\ InsertDone(goal, TRUE) \in Callback /\ InsertDone(goal, TRUE) # NoCallback
         /\ InsertDone(goal, TRUE) \notin DeadCallback
         /\ goal \in KnownRow /\ goal.date \in Dates
<1>1. InsertDone(goal, TRUE) \in Callback
  BY DEF InsertDone, Callback
<1>2. InsertDone(goal, TRUE).live = TRUE
  BY DEF InsertDone
<1>3. goal \in KnownRow /\ goal.date \in Dates
  BY NewGoalsAreKnown DEF NewGoal
<1> QED
  BY <1>1, <1>2, <1>3, GoalsAssumption DEF DeadCallback

\* No save begins, and none is answered twice.
NoNewSave ==
  \A goal \in NewGoal : Once(InsertDone(goal, TRUE))' /\ (Saving(goal)' => Saving(goal))

LEMMA SavesKept ==
  ASSUME IInv, SavesInv, NoNewSave, clock' \in {clock, clock + 1}, Fits(goals, goals')
  PROVE  SavesInv'
<1>1. clock \in Nat
  BY GoalsAssumption DEF IInv, ScreenInv
<1>2. ASSUME NEW goal \in NewGoal, Saving(goal)'
      PROVE  goal.date <= clock' /\ OneRow(goals', goal.date)
  <2>1. Saving(goal) /\ goal.date \in Dates
    BY <1>2, SaveIsCallback DEF NoNewSave
  <2>2. goal.date <= clock /\ OneRow(goals, goal.date)
    BY <2>1 DEF SavesInv
  <2>3. goal.date \in Nat
    BY <2>1 DEF Dates
  <2>4. OneRow(goals', goal.date)
    BY <2>1, <2>2 DEF Fits
  <2> QED
    BY <1>1, <2>2, <2>3, <2>4
<1>3. \A goal, other \in NewGoal :
        Saving(goal)' /\ Saving(other)' /\ goal.date = other.date => goal = other
  BY DEF SavesInv, NoNewSave
<1>4. \A date \in Dates : TwoRows(goals', date)
  BY DEF SavesInv, Fits
<1>5. \A goal \in NewGoal : Once(InsertDone(goal, TRUE))'
  BY DEF NoNewSave
<1> QED
  BY <1>2, <1>3, <1>4, <1>5 DEF SavesInv

LEMMA SameQueues ==
  ASSUME SavesInv, UNCHANGED <<pending, queries, mainQueue>>
  PROVE  NoNewSave
BY DEF SavesInv, NoNewSave, Once, Saving, Awaited

\* When the home screen is gone, no live save is left.
LEMMA AwayNobodySaves ==
  ASSUME LiveInv', app' # "home"
  PROVE  NoNewSave
<1>1. /\ pending' \in Seq(DeadWrite)
      /\ queries' \subseteq DeadCallback
      /\ mainQueue' \in Seq(DeadEvent)
  BY DEF LiveInv, DeadWrite, DeadCallback, DeadEvent
<1>2. \A i \in DOMAIN pending' : pending'[i].callback \in DeadCallback \cup {NoCallback}
  BY <1>1, LenProperties, ElementOfSeq DEF DeadWrite
<1>3. \A i \in DOMAIN mainQueue' : mainQueue'[i].callback \in DeadCallback
  <2> TAKE i \in DOMAIN mainQueue'
  <2>1. mainQueue'[i] \in DeadEvent
    BY <1>1, LenProperties, ElementOfSeq
  <2> QED
    BY <2>1 DEF DeadEvent
<1>4. \A goal \in NewGoal : InsertDone(goal, TRUE) \notin DeadCallback \cup {NoCallback}
  BY SaveIsCallback
<1>5. ASSUME NEW goal \in NewGoal
      PROVE  /\ InsertDone(goal, TRUE) \notin queries'
             /\ \A i \in DOMAIN pending' : pending'[i].callback # InsertDone(goal, TRUE)
             /\ \A i \in DOMAIN mainQueue' : mainQueue'[i].callback # InsertDone(goal, TRUE)
  BY <1>1, <1>2, <1>3, <1>4
<1> QED
  BY <1>5 DEF NoNewSave, Once, Saving, Awaited

LEMMA AwayInv ==
  ASSUME AllInv, AllInv', DatesInv, [Next]_vars, app' # "home"
  PROVE  DatesInv'
<1>1. goals' = <<>> /\ NoNewSave
  BY AwayNobodySaves DEF AllInv, IInv, ScreenInv
<1>2. DocsInv' /\ clock' \in {clock, clock + 1}
  BY DocsInvNext DEF AllInv, DatesInv
<1>3. Fits(goals, goals') /\ NoLater(goals', clock')
  BY <1>1, NoRows DEF Fits
<1> QED
  BY <1>1, <1>2, <1>3, SavesKept DEF AllInv, DatesInv

\* The tab is open: no save begins and no date gets a row more.
LEMMA QuietInv ==
  ASSUME AllInv, DatesInv, [Next]_vars, NoNewSave, Fits(goals, goals'), NoLater(goals', clock')
  PROVE  DatesInv'
BY DocsInvNext, SavesKept DEF AllInv, DatesInv

LEMMA SameRows ==
  ASSUME AllInv, DatesInv, [Next]_vars, DOMAIN goals' = DOMAIN goals,
         \A i \in DOMAIN goals : goals'[i].date = goals[i].date
  PROVE  Fits(goals, goals') /\ NoLater(goals', clock')
<1>1. clock \in Nat /\ clock' \in {clock, clock + 1} /\ NoLater(goals, clock)
      /\ \A row \in DOMAIN goals : goals[row].date \in Nat
  BY GoalsAssumption, DocsInvNext, DatedRow DEF AllInv, DatesInv, IInv, ScreenInv
<1>2. NoLater(goals, clock')
  BY <1>1 DEF NoLater
<1> QED
  BY <1>2, SameDates

-----------------------------------------------------------------------------
(* The user's steps *)

LEMMA ScreenStepsDates ==
  ASSUME AllInv, DatesInv,
         \/ OpenForm \/ CancelForm \/ DismissAlert \/ SwipeDelete \/ CancelDelete
         \/ SwipeComplete \/ TouchCheckbox
  PROVE  DatesInv'
<1>1. [Next]_vars
  BY DEF Next, User
<1>2. UNCHANGED clientVars
  BY DEF OpenForm, CancelForm, DismissAlert, SwipeDelete, CancelDelete, SwipeComplete, TouchCheckbox
<1>3. NoNewSave
  BY <1>2, SameQueues DEF clientVars, DatesInv
<1>4. UNCHANGED goals \/ \E row \in DOMAIN goals : goals' = [goals EXCEPT ![row] = Toggled(@)]
  BY DEF OpenForm, CancelForm, DismissAlert, SwipeDelete, CancelDelete, SwipeComplete, TouchCheckbox
<1>5. DOMAIN goals' = DOMAIN goals /\ \A i \in DOMAIN goals : goals'[i].date = goals[i].date
  BY <1>4 DEF Toggled, LocalGoal, DocumentOf
<1> QED
  BY <1>1, <1>3, <1>5, SameRows, QuietInv

LEMMA OpenGoalsDates ==
  ASSUME AllInv, DatesInv, OpenGoals
  PROVE  DatesInv'
<1>1. [Next]_vars
  BY DEF Next, User
<1>2. goals' = <<>> /\ UNCHANGED <<pending, mainQueue>> /\ queries' = queries \cup {FetchDone(TRUE)}
  BY DEF OpenGoals, NoScreen, GetDocuments
<1>3. \A goal \in NewGoal : InsertDone(goal, TRUE) # FetchDone(TRUE)
  BY DEF InsertDone, FetchDone
<1>4. NoNewSave
  BY <1>2, <1>3 DEF DatesInv, SavesInv, NoNewSave, Once, Saving, Awaited
<1>5. Fits(goals, goals') /\ NoLater(goals', clock')
  BY <1>2, NoRows DEF Fits
<1> QED
  BY <1>1, <1>4, <1>5, QuietInv

LEMMA ConfirmDates ==
  ASSUME AllInv, DatesInv, ConfirmDelete, app' = "home"
  PROVE  DatesInv'
<1>1. [Next]_vars
  BY DEF Next, User
<1>2. /\ dialog.goal.uuid # NoId /\ UNCHANGED goals
      /\ DeleteDocument(dialog.goal.uuid, DeleteDone(dialog.row, TRUE))
  BY DEF ConfirmDelete, Crash
<1>3. dialog.goal.uuid \in DocIds /\ dialog.row \in Nat \ {0}
  BY <1>2 DEF ConfirmDelete, AllInv, IInv, ScreenInv, KnownRow, Known
<1> DEFINE c == DeleteDone(dialog.row, TRUE)
           id == dialog.goal.uuid
<1>4. c \in Callback /\ \A goal \in NewGoal : InsertDone(goal, TRUE) # c
  <2>1. \A goal \in NewGoal : InsertDone(goal, TRUE) # c
    BY DEF InsertDone, DeleteDone
  <2> QED
    BY <1>3, <2>1 DEF DeleteDone, Callback
<1>5. pending' = Append(pending, Write("delete", id, c)) /\ UNCHANGED <<queries, mainQueue>>
      /\ id \in DocIds
  BY <1>2, <1>3 DEF DeleteDocument
<1> HIDE DEF c, id
<1>6. ASSUME NEW goal \in NewGoal
      PROVE  Once(InsertDone(goal, TRUE))' /\ (Saving(goal)' => Saving(goal))
  <2>1. Once(InsertDone(goal, TRUE)) /\ InsertDone(goal, TRUE) # c
    BY <1>4 DEF DatesInv, SavesInv
  <2>2. Once(InsertDone(goal, TRUE))' /\ Awaited' \subseteq Awaited \cup {c}
    <3>1. ClientInv(Document, Callback, DocIds)
      BY ClientInvHere DEF AllInv
    <3> QED
      BY <1>4, <1>5, <2>1, <3>1, QueuedOnce
  <2> QED
    BY <2>1, <2>2 DEF Saving
<1>7. NoNewSave
  BY <1>6 DEF NoNewSave
<1> QED
  BY <1>1, <1>2, <1>7, SameRows, QuietInv

LEMMA OverwriteDates ==
  ASSUME AllInv, DatesInv, [Next]_vars, clock' = clock + 1,
         NEW goal, goal.date = clock + 1, Overwrite(goal)
  PROVE  DatesInv'
<1>1. PICK row \in DOMAIN goals : goals' = [goals EXCEPT ![row] = goal]
  BY DEF Overwrite, Unidentified
<1>2. NoNewSave
  BY SameQueues DEF Overwrite, clientVars, DatesInv
<1>3. clock \in Nat /\ \A i \in DOMAIN goals : goals[i].date \in Nat
  BY GoalsAssumption, DatedRow DEF AllInv, IInv, ScreenInv
<1>4. Fits(goals, goals') /\ NoLater(goals', clock')
  BY <1>1, <1>3, RowForNewSave DEF DatesInv
<1> QED
  BY <1>2, <1>4, QuietInv

LEMMA PersistDates ==
  ASSUME AllInv, DatesInv, [Next]_vars, clock' = clock + 1,
         NEW goal \in NewGoal, goal.date = clock + 1, Persist(goal)
  PROVE  DatesInv'
<1> DEFINE c == InsertDone(goal, TRUE)
<1>1. clock \in Nat /\ DocsInv' /\ UNCHANGED goals
  BY GoalsAssumption, DocsInvNext DEF AllInv, DatesInv, IInv, ScreenInv, Persist
<1>2. Fits(goals, goals') /\ NoLater(goals', clock')
  BY <1>1, SameRows
<1>3. PICK id \in Fresh : /\ pending' = Append(pending, Write("set", id, c))
                           /\ UNCHANGED <<queries, mainQueue>>
  BY DEF Persist, AddDocument, SetDocument
<1>4. id \in DocIds /\ c \in Callback
  BY SaveIsCallback DEF Fresh
<1>5. ASSUME NEW other \in NewGoal, Saving(other)
      PROVE  other.date # goal.date /\ other # goal
  <2>1. other.date <= clock
    BY <1>5 DEF DatesInv, SavesInv
  <2> QED
    BY <1>1, <2>1
<1>6. c \notin Awaited
  BY <1>5 DEF Saving
<1>7. ASSUME NEW other \in NewGoal
      PROVE  Once(InsertDone(other, TRUE))' /\ (Saving(other)' => Saving(other) \/ other = goal)
  <2>1. Once(InsertDone(other, TRUE)) /\ (InsertDone(other, TRUE) = c => other = goal)
    BY DEF DatesInv, SavesInv, InsertDone
  <2> HIDE DEF c
  <2>2. Once(InsertDone(other, TRUE))' /\ Awaited' \subseteq Awaited \cup {c}
    BY <1>3, <1>4, <1>6, <2>1, ClientInvHere, QueuedOnce DEF AllInv
  <2> QED
    BY <2>1, <2>2 DEF Saving
<1>8. OneRow(goals, clock + 1)
  BY <1>1, DatedRow DEF AllInv, DatesInv, NoLater, OneRow
<1>9. ASSUME NEW other \in NewGoal, Saving(other)'
      PROVE  other.date <= clock' /\ OneRow(goals', other.date)
  <2>1. CASE Saving(other)
    <3>1. other.date <= clock /\ OneRow(goals, other.date)
      BY <2>1 DEF DatesInv, SavesInv
    <3>2. other.date \in Nat
      BY DEF NewGoal, Dates
    <3> QED
      BY <1>1, <3>1, <3>2
  <2>2. CASE other = goal
    BY <1>1, <1>8, <2>2
  <2> QED
    BY <1>7, <1>9, <2>1, <2>2
<1>10. \A one, other \in NewGoal :
         Saving(one)' /\ Saving(other)' /\ one.date = other.date => one = other
  BY <1>5, <1>7 DEF DatesInv, SavesInv
<1>11. SavesInv'
  BY <1>1, <1>7, <1>9, <1>10 DEF SavesInv, DatesInv
<1> QED
  BY <1>1, <1>2, <1>11 DEF DatesInv

LEMMA SaveGoalDates ==
  ASSUME AllInv, DatesInv, SaveGoal
  PROVE  DatesInv'
<1>1. [Next]_vars
  BY DEF Next, User
<1>2. clock' = clock + 1 /\ clock + 1 \in Dates
  BY GoalsAssumption DEF SaveGoal, Dates, AllInv, IInv, ScreenInv
<1>3. PICK title \in Titles :
        LET goal == LocalGoal([title |-> title, date |-> clock + 1])
        IN Persist(goal) \/ Overwrite(goal)
  BY DEF SaveGoal
<1> DEFINE goal == LocalGoal([title |-> title, date |-> clock + 1])
<1>4. goal \in NewGoal /\ goal.date = clock + 1 /\ (Persist(goal) \/ Overwrite(goal))
  BY <1>2, <1>3 DEF LocalGoal, NewGoal
<1> HIDE DEF goal
<1> QED
  BY <1>1, <1>2, <1>4, PersistDates, OverwriteDates

-----------------------------------------------------------------------------
(* Deliveries *)

\* An event is consumed, and good rows are shown.
LEMMA ShowDates ==
  ASSUME AllInv, DatesInv, [Next]_vars, TakeEvent, UNCHANGED <<pending, queries, clock>>,
         NEW rows, goals' = rows, NoLater(rows, clock), \A date \in Dates : TwoRows(rows, date),
         \A goal \in NewGoal :
           Saving(goal) /\ Arriving # InsertDone(goal, TRUE) => OneRow(rows, goal.date)
  PROVE  DatesInv'
<1>1. ASSUME NEW goal \in NewGoal
      PROVE  /\ Once(InsertDone(goal, TRUE))'
             /\ Saving(goal)' => Saving(goal) /\ Arriving # InsertDone(goal, TRUE)
  <2>1. Once(InsertDone(goal, TRUE)) /\ ClientInv(Document, Callback, DocIds)
    BY ClientInvHere DEF AllInv, DatesInv, SavesInv
  <2>2. /\ Once(InsertDone(goal, TRUE))' /\ Awaited' \subseteq Awaited
        /\ InsertDone(goal, TRUE) = Arriving => InsertDone(goal, TRUE) \notin Awaited'
    BY <2>1, TakenOnce DEF Arriving
  <2> QED
    BY <2>2 DEF Saving
<1>2. SavesInv'
  BY <1>1 DEF DatesInv, SavesInv
<1>3. DocsInv'
  BY DocsInvNext DEF AllInv, DatesInv
<1> QED
  BY <1>2, <1>3 DEF DatesInv

LEMMA DeliveryDates ==
  ASSUME AllInv, DatesInv, MainQueue, app' = "home"
  PROVE  DatesInv'
<1>1. [Next]_vars /\ ~Crash /\ UNCHANGED clock
  BY DEF Next, MainQueue, Crash, FetchDelivered, InsertDelivered, DeleteDelivered, DrawTable
<1>2. mainQueue # <<>>
  BY <1>1 DEF MainQueue, FetchDelivered, InsertDelivered, DeleteDelivered, DrawTable, Arrived
<1>3. Head(mainQueue) \in KnownEvent /\ Arriving \in Callback
  BY <1>2, ArrivingTyped DEF AllInv
<1>4. \A goal \in NewGoal : Saving(goal) => OneRow(goals, goal.date)
  BY DEF DatesInv, SavesInv
<1>5. NoLater(goals, clock) /\ \A date \in Dates : TwoRows(goals, date)
  BY DEF DatesInv, SavesInv
<1>6. goals \in Seq(KnownRow)
  BY DEF AllInv, IInv, ScreenInv
<1>7. CASE Ignore
  <2>1. TakeEvent /\ UNCHANGED <<pending, queries, goals>>
    BY <1>7 DEF Ignore, screenVars
  <2> QED
    BY <1>1, <1>4, <1>5, <2>1, ShowDates
<1>8. ASSUME NEW rows, Show(rows), NoLater(rows, clock), \A date \in Dates : TwoRows(rows, date),
             \A goal \in NewGoal :
               Saving(goal) /\ Arriving # InsertDone(goal, TRUE) => OneRow(rows, goal.date)
      PROVE  DatesInv'
  BY <1>1, <1>8, ShowDates DEF Show
<1>9. CASE FetchDelivered /\ ~Ignore
  <2>1. PICK rows \in NewestFirst(Head(mainQueue).ids) : Show(rows)
    BY <1>9 DEF FetchDelivered
  <2>2. Head(mainQueue).ids \in SUBSET Known
    BY <1>3 DEF KnownEvent
  <2>3. NoLater(rows, clock) /\ \A date : OneRow(rows, date) /\ TwoRows(rows, date)
    BY <2>1, <2>2, FetchedRows, OneIsTwo DEF AllInv, DatesInv
  <2> QED
    BY <1>8, <2>1, <2>3
<1>10. CASE InsertDelivered
  <2>1. Arriving.kind = "insert" /\ Arriving.live /\ Show(Cons(Arriving.goal, goals))
    BY <1>1, <1>10 DEF InsertDelivered, Arrived, Arriving
  <2>2. Arriving.goal \in NewGoal /\ Arriving = InsertDone(Arriving.goal, TRUE)
    BY <1>3, <2>1 DEF Callback, InsertDone
  <2>3. Saving(Arriving.goal)
    <3>1. mainQueue \in Seq(KnownEvent)
      BY DEF AllInv, IInv, QueueInv
    <3>2. 1 \in DOMAIN mainQueue /\ Head(mainQueue) = mainQueue[1]
      BY <1>2, <3>1, TailElements
    <3>3. Arriving \in Awaited
      BY <3>2 DEF Arriving, Awaited
    <3> QED
      BY <2>2, <3>3 DEF Saving
  <2> DEFINE goal == Arriving.goal
             rows == Cons(goal, goals)
  <2>4. goal \in KnownRow /\ goal.date <= clock /\ OneRow(goals, goal.date)
    BY <2>2, <2>3, SaveIsCallback DEF DatesInv, SavesInv
  <2>5. /\ NoLater(rows, clock)
        /\ OneRow(goals, goal.date) => TwoRows(rows, goal.date)
        /\ \A date : date # goal.date =>
             /\ OneRow(goals, date) => OneRow(rows, date)
             /\ TwoRows(goals, date) => TwoRows(rows, date)
    BY <1>5, <1>6, <2>4, InsertedRow
  <2>6. \A other \in NewGoal :
          Saving(other) /\ Arriving # InsertDone(other, TRUE) => other.date # goal.date
    BY <2>2, <2>3 DEF DatesInv, SavesInv
  <2> HIDE DEF goal, rows
  <2>7. \A date \in Dates : TwoRows(rows, date)
    BY <1>5, <2>4, <2>5
  <2>8. \A other \in NewGoal :
          Saving(other) /\ Arriving # InsertDone(other, TRUE) => OneRow(rows, other.date)
    BY <1>4, <2>5, <2>6
  <2>9. Show(rows)
    BY <2>1 DEF rows, goal
  <2> QED
    BY <1>8, <2>5, <2>7, <2>8, <2>9
<1>11. CASE DeleteDelivered /\ ~Ignore
  <2> DEFINE rows == RemoveAt(goals, Arriving.row)
  <2>1. Arriving.row \in DOMAIN goals /\ Show(rows)
    BY <1>1, <1>11 DEF DeleteDelivered
  <2>2. Fits(goals, rows) /\ NoLater(rows, clock)
    BY <1>5, <1>6, <2>1, RowsThatStay
  <2> HIDE DEF rows
  <2>3. \A goal \in NewGoal : Saving(goal) => OneRow(rows, goal.date)
    BY <1>4, <2>2 DEF Fits, NewGoal
  <2>4. \A date \in Dates : TwoRows(rows, date)
    BY <1>5, <2>2 DEF Fits
  <2> QED
    BY <1>8, <2>1, <2>2, <2>3, <2>4
<1> QED
  BY <1>1, <1>7, <1>9, <1>10, <1>11 DEF MainQueue, DrawTable

-----------------------------------------------------------------------------
(* The environment, and every step *)

LEMMA EnvironmentDates ==
  ASSUME AllInv, DatesInv, Environment
  PROVE  DatesInv'
<1>1. [Next]_vars /\ UNCHANGED goals
  BY DEF Next, Environment, ClientRuns, OtherDeviceSaves, OtherDeviceErases, screenVars
<1>2. CASE ClientRuns
  <2>1. ASSUME NEW goal \in NewGoal
        PROVE  Once(InsertDone(goal, TRUE))' /\ (Saving(goal)' => Saving(goal))
    <3>1. /\ Once(InsertDone(goal, TRUE)) /\ InsertDone(goal, TRUE) # NoCallback
          /\ ClientInv(Document, Callback, DocIds)
      BY SaveIsCallback, ClientInvHere DEF AllInv, DatesInv, SavesInv
    <3> QED
      BY <1>2, <3>1, ClientStepOnce DEF ClientRuns, Saving
  <2> QED
    BY <1>1, <2>1, SameRows, QuietInv DEF NoNewSave
<1>3. CASE OtherDeviceSaves \/ OtherDeviceErases
  <2>1. UNCHANGED <<pending, queries, mainQueue>>
    BY <1>3 DEF OtherDeviceSaves, OtherDeviceErases, OtherDeviceAdds, OtherDeviceDeletes
  <2> QED
    BY <1>1, <2>1, SameQueues, SameRows, QuietInv DEF DatesInv
<1> QED
  BY <1>2, <1>3 DEF Environment

LEMMA NextDates ==
  ASSUME AllInv, AllInv', DatesInv, [Next]_vars
  PROVE  DatesInv'
<1>1. CASE app' # "home"
  BY <1>1, AwayInv
<1>2. CASE UNCHANGED vars
  <2>1. UNCHANGED <<pending, queries, mainQueue, goals>>
    BY <1>2 DEF vars, clientVars, screenVars
  <2> QED
    BY <2>1, SameQueues, SameRows, QuietInv DEF DatesInv
<1>3. CASE User /\ app' = "home"
  <2>1. ~SignOut /\ ~Relaunch
    BY <1>3 DEF SignOut, Relaunch
  <2> QED
    BY <1>3, <2>1, OpenGoalsDates, SaveGoalDates, ScreenStepsDates, ConfirmDates DEF User
<1> QED
  BY <1>1, <1>2, <1>3, DeliveryDates, EnvironmentDates DEF Next

LEMMA InitDates == Init => DatesInv
<1> SUFFICES ASSUME Init PROVE DatesInv
  OBVIOUS
<1>1. Known = {} /\ goals = <<>> /\ Awaited = {}
  BY DEF Init, ClientInit, Known, Awaited
<1>2. \A goal \in NewGoal : Once(InsertDone(goal, TRUE)) /\ ~Saving(goal)
  BY <1>1 DEF Once, Saving, Awaited
<1> QED
  BY <1>1, <1>2, NoRows DEF DatesInv, DocsInv, SavesInv

LEMMA DatesInvariant == Spec => [](AllInv /\ DatesInv)
<1>1. Init => AllInv /\ DatesInv
  BY InitIInv, InitTakenInv, InitLiveInv, InitDates DEF AllInv
<1>2. AllInv /\ DatesInv /\ [Next]_vars => AllInv' /\ DatesInv'
  BY NextInv, NextTakenInv, NextDates DEF AllInv
<1> QED BY <1>1, <1>2, PTL DEF Spec

\* A save is shown by two rows at most, however sessions, fetches, saves and their
\* answers interleave (fetchGoals, persistGoalToFireStore).
THEOREM ListedTwiceAtMost == Spec => []AtMostTwoRowsPerGoal
<1>1. AllInv /\ DatesInv => AtMostTwoRowsPerGoal
  <2> SUFFICES ASSUME AllInv, DatesInv,
                      NEW i \in DOMAIN goals, NEW j \in DOMAIN goals, NEW k \in DOMAIN goals,
                      goals[i].date = goals[j].date, goals[j].date = goals[k].date
               PROVE  i = j \/ j = k \/ i = k
    BY DEF AtMostTwoRowsPerGoal
  <2>1. goals[i].date \in Dates
    BY DatedRow DEF AllInv
  <2> QED
    BY <2>1 DEF DatesInv, SavesInv, TwoRows
<1> QED
  BY <1>1, DatesInvariant, PTL

-----------------------------------------------------------------------------
(* Why the list that the fetch delivers keeps every row whose document the  *)
(* server holds and the client knows.                                       *)
(*                                                                          *)
(* While the closure of the fetch is awaited no row has an id, so nothing   *)
(* that this session lists can be deleted; and a save that is listed, or    *)
(* answered, is no longer among the writes that wait (WhileFetching).  So   *)
(* between the answer and its delivery neither the server nor the client    *)
(* comes to hold such a document unless both did when the query was         *)
(* answered, and the answer has it (AnsweredInTime).                        *)

\* The event lists a save of that date.
Lists(event, date) ==
  \E goal \in NewGoal : goal.date = date /\ event.callback = InsertDone(goal, TRUE)

\* A save of that date has a row, or has one before event n, or has one soon.
ListedBefore(n, date) ==
  Listed(date, goals) \/ \E i \in DOMAIN mainQueue : i < n /\ Lists(mainQueue[i], date)
ListedSoon(date) ==
  Listed(date, goals) \/ \E i \in DOMAIN mainQueue : Lists(mainQueue[i], date)
Ours(date) ==
  Listed(date, goals) \/ \E goal \in NewGoal : goal.date = date /\ Saving(goal)

Fetch == FetchDone(TRUE)
Fetching == Fetch \in Awaited

Nameless ==
  /\ \A row \in DOMAIN goals : goals[row].uuid = NoId
  /\ ui = "confirm" => dialog.goal.uuid = NoId

SavesQueued ==
  \A i \in DOMAIN pending, goal \in NewGoal :
    pending[i].callback = InsertDone(goal, TRUE) =>
      pending[i].op = "set" /\ written[pending[i].id].date = goal.date

FetchOnce ==
  /\ \A i \in DOMAIN pending : pending[i].callback # Fetch
  /\ \A i, j \in DOMAIN mainQueue :
       mainQueue[i].callback = Fetch /\ mainQueue[j].callback = Fetch => i = j
  /\ \A i \in DOMAIN mainQueue : mainQueue[i].callback = Fetch => queries = {}

WhileFetching ==
  Fetching =>
    /\ Nameless
    /\ \A id \in Known, date \in Dates : written[id].date = date =>
         /\ Ours(date) => id \notin PendingIds("delete")
         /\ ListedSoon(date) => id \notin PendingIds("set")

AnsweredInTime ==
  \A n \in DOMAIN mainQueue :
    mainQueue[n].callback = Fetch /\ mainQueue[n].ok =>
      \A id \in server \cap cached, date \in Dates :
        written[id].date = date /\ ListedBefore(n, date) => id \in mainQueue[n].ids

FetchInv == SavesQueued /\ FetchOnce /\ WhileFetching /\ AnsweredInTime

-----------------------------------------------------------------------------

LEMMA FetchIsCallback ==
  /\ Fetch \in Callback /\ Fetch # NoCallback /\ Fetch \notin DeadCallback /\ Fetch.live
  /\ \A goal \in NewGoal : Fetch # InsertDone(goal, TRUE)
  /\ \A row \in Nat : Fetch # DeleteDone(row, TRUE)
<1>1. Fetch \in Callback /\ Fetch.live = TRUE
  BY DEF Fetch, FetchDone, Callback
<1>2. /\ \A goal \in NewGoal : Fetch # InsertDone(goal, TRUE)
      /\ \A row \in Nat : Fetch # DeleteDone(row, TRUE)
  BY DEF Fetch, FetchDone, InsertDone, DeleteDone
<1> QED
  BY <1>1, <1>2, GoalsAssumption DEF DeadCallback

\* The queue holds documents that were written, and its events have their types.
LEMMA QueuesTyped ==
  ASSUME AllInv
  PROVE  /\ pending \in Seq(AnyWrite) /\ mainQueue \in Seq(KnownEvent)
         /\ \A i \in DOMAIN pending : pending[i] \in AnyWrite /\ pending[i].id \in Known
         /\ server \subseteq Known /\ cached \subseteq Known
<1>1. \A i \in DOMAIN pending : pending[i] \in KnownWrite
  BY LenProperties, ElementOfSeq DEF AllInv, IInv, QueueInv
<1> QED
  BY <1>1, PendingTyped DEF AllInv, IInv, QueueInv, StoreInv, KnownWrite

LEMMA OursAreDated ==
  ASSUME DatesInv, NEW date, Ours(date)
  PROVE  date <= clock
BY DEF DatesInv, Ours, Listed, NoLater, SavesInv

LEMMA SoonIsOurs ==
  ASSUME NEW date
  PROVE  /\ \A n : ListedBefore(n, date) => ListedSoon(date)
         /\ ListedSoon(date) => Ours(date)
BY DEF ListedBefore, ListedSoon, Ours, Lists, Saving, Awaited

\* Nobody waits for the fetch any more.
LEMMA FetchOver ==
  ASSUME SavesQueued', ~Fetching'
  PROVE  FetchInv'
<1>1. /\ \A i \in DOMAIN pending' : pending'[i].callback # Fetch
      /\ \A i \in DOMAIN mainQueue' : mainQueue'[i].callback # Fetch
  BY DEF Fetching, Awaited, Fetch, FetchDone
<1>2. FetchOnce' /\ AnsweredInTime'
  BY <1>1 DEF FetchOnce, AnsweredInTime, Fetch, FetchDone
<1> QED
  BY <1>2 DEF FetchInv, WhileFetching

\* Dead queues hold no live closure.
LEMMA DeadQueues ==
  ASSUME NEW writes \in Seq(DeadWrite), NEW events \in Seq(DeadEvent),
         NEW c \in Callback, c.live
  PROVE  /\ \A i \in DOMAIN writes : writes[i].callback # c
         /\ \A i \in DOMAIN events : events[i].callback # c
<1>1. c \notin DeadCallback \cup {NoCallback}
  BY GoalsAssumption DEF DeadCallback
<1>2. \A i \in DOMAIN writes : writes[i] \in DeadWrite
  BY LenProperties, ElementOfSeq
<1>3. \A i \in DOMAIN events : events[i] \in DeadEvent
  BY LenProperties, ElementOfSeq
<1> QED
  BY <1>1, <1>2, <1>3 DEF DeadWrite, DeadEvent

LEMMA AwayFetch ==
  ASSUME LiveInv', app' # "home"
  PROVE  FetchInv'
<1>1. pending' \in Seq(DeadWrite) /\ queries' \subseteq DeadCallback /\ mainQueue' \in Seq(DeadEvent)
  BY DEF LiveInv, DeadWrite, DeadCallback, DeadEvent
<1>2. ~Fetching'
  <2>1. Fetch' = Fetch /\ Fetch \in Callback /\ Fetch.live /\ Fetch \notin DeadCallback
    BY FetchIsCallback DEF Fetch, FetchDone
  <2>2. /\ \A i \in DOMAIN pending' : pending'[i].callback # Fetch
        /\ \A i \in DOMAIN mainQueue' : mainQueue'[i].callback # Fetch
    BY <1>1, <2>1, DeadQueues
  <2> QED
    BY <1>1, <2>1, <2>2 DEF Fetching, Awaited
<1>3. \A goal \in NewGoal, i \in DOMAIN pending' : pending'[i].callback # InsertDone(goal, TRUE)
  <2> TAKE goal \in NewGoal
  <2>1. InsertDone(goal, TRUE) \in Callback /\ InsertDone(goal, TRUE).live
    BY SaveIsCallback DEF InsertDone
  <2> QED
    BY <1>1, <2>1, DeadQueues
<1> QED
  BY <1>2, <1>3, FetchOver DEF SavesQueued

-----------------------------------------------------------------------------
(* The user's steps *)

\* The client is as it was, and no row has come that a document had not.
LEMMA QuietFetch ==
  ASSUME AllInv, FetchInv, UNCHANGED <<written, server, cached, pending, queries, mainQueue>>,
         Nameless => Nameless',
         \A id \in Known : Listed(written[id].date, goals') => Listed(written[id].date, goals)
  PROVE  FetchInv'
<1>1. /\ Known' = Known /\ Awaited' = Awaited /\ Fetch' = Fetch
      /\ PendingIds("set")' = PendingIds("set") /\ PendingIds("delete")' = PendingIds("delete")
  BY DEF Known, Awaited, PendingIds, Fetch, FetchDone
<1>2. ASSUME NEW date, Listed(date, goals') => Listed(date, goals)
      PROVE  /\ Ours(date)' => Ours(date)
             /\ ListedSoon(date)' => ListedSoon(date)
             /\ \A n : ListedBefore(n, date)' => ListedBefore(n, date)
  BY <1>1, <1>2 DEF Ours, ListedSoon, ListedBefore, Saving, Lists, Listed
<1>3. SavesQueued' /\ FetchOnce'
  BY <1>1 DEF FetchInv, SavesQueued, FetchOnce
<1>4. WhileFetching'
  <2>1. Fetching' = Fetching
    BY <1>1 DEF Fetching
  <2>2. ASSUME Fetching, NEW id \in Known, NEW date \in Dates, written[id].date = date
        PROVE  /\ Ours(date)' => id \notin PendingIds("delete")
               /\ ListedSoon(date)' => id \notin PendingIds("set")
    BY <1>2, <2>2 DEF FetchInv, WhileFetching
  <2> QED
    BY <1>1, <2>1, <2>2 DEF FetchInv, WhileFetching
<1>5. AnsweredInTime'
  <2>1. ASSUME NEW n \in DOMAIN mainQueue, mainQueue[n].callback = Fetch, mainQueue[n].ok,
               NEW id \in server \cap cached, NEW date \in Dates, written[id].date = date,
               ListedBefore(n, date)'
        PROVE  id \in mainQueue[n].ids
    <3>1. id \in Known
      BY DEF AllInv, IInv, StoreInv
    <3> QED
      BY <1>2, <2>1, <3>1 DEF FetchInv, AnsweredInTime
  <2> QED
    BY <1>1, <2>1 DEF AnsweredInTime
<1> QED
  BY <1>3, <1>4, <1>5 DEF FetchInv

LEMMA ScreenStepsFetch ==
  ASSUME AllInv, FetchInv,
         \/ OpenForm \/ CancelForm \/ DismissAlert \/ SwipeDelete \/ CancelDelete
         \/ SwipeComplete \/ TouchCheckbox
  PROVE  FetchInv'
<1>1. UNCHANGED <<written, server, cached, pending, queries, mainQueue>>
  BY DEF OpenForm, CancelForm, DismissAlert, SwipeDelete, CancelDelete, SwipeComplete,
       TouchCheckbox, clientVars
<1>2. UNCHANGED goals \/ \E row \in DOMAIN goals : goals' = [goals EXCEPT ![row] = Toggled(@)]
  BY DEF OpenForm, CancelForm, DismissAlert, SwipeDelete, CancelDelete, SwipeComplete, TouchCheckbox
<1>3. /\ DOMAIN goals' = DOMAIN goals
      /\ \A i \in DOMAIN goals : /\ goals'[i].date = goals[i].date
                                 /\ goals[i].uuid = NoId => goals'[i].uuid = NoId
  BY <1>2 DEF Toggled, LocalGoal, DocumentOf
<1>4. \/ ui' # "confirm" \/ UNCHANGED <<ui, dialog>>
      \/ \E row \in DOMAIN goals : dialog' = [row |-> row, goal |-> goals[row]]
  BY DEF OpenForm, CancelForm, DismissAlert, SwipeDelete, CancelDelete, SwipeComplete, TouchCheckbox
<1>5. Nameless => Nameless'
  BY <1>3, <1>4 DEF Nameless
<1>6. \A date : Listed(date, goals') => Listed(date, goals)
  BY <1>3 DEF Listed
<1> QED
  BY <1>1, <1>5, <1>6, QuietFetch

LEMMA OverwriteFetch ==
  ASSUME AllInv, DatesInv, FetchInv, NEW goal \in NewGoal, goal.date = clock + 1, Overwrite(goal)
  PROVE  FetchInv'
<1>1. PICK row \in DOMAIN goals : goals' = [goals EXCEPT ![row] = goal]
  BY DEF Overwrite, Unidentified
<1>2. UNCHANGED <<written, server, cached, pending, queries, mainQueue>> /\ ui' = "list"
  BY DEF Overwrite, clientVars
<1>3. Nameless => Nameless'
  BY <1>1, <1>2 DEF Nameless, NewGoal
<1>4. ASSUME NEW id \in Known, Listed(written[id].date, goals')
      PROVE  Listed(written[id].date, goals)
  <2>1. clock \in Nat /\ written[id].date <= clock /\ written[id].date \in Nat
    BY GoalsAssumption DEF AllInv, IInv, ScreenInv, StoreInv, DatesInv, DocsInv, Known,
         Document, Dates
  <2>2. written[id].date # goal.date
    BY <2>1
  <2> QED
    BY <1>1, <1>4, <2>2 DEF Listed
<1> QED
  BY <1>2, <1>3, <1>4, QuietFetch

LEMMA OpenGoalsFetch ==
  ASSUME AllInv, OpenGoals
  PROVE  FetchInv'
<1>1. /\ pending \in Seq(DeadWrite) /\ queries \subseteq DeadCallback /\ mainQueue \in Seq(DeadEvent)
      /\ UNCHANGED <<pending, mainQueue>> /\ queries' = queries \cup {Fetch}
      /\ goals' = <<>> /\ ui' = "list"
  BY DEF AllInv, LiveInv, OpenGoals, GetDocuments, NoScreen, Fetch
<1>2. /\ \A i \in DOMAIN pending : pending[i].callback # Fetch
      /\ \A i \in DOMAIN mainQueue : mainQueue[i].callback # Fetch
  BY <1>1, FetchIsCallback, DeadQueues
<1>3. ASSUME NEW goal \in NewGoal
      PROVE  /\ \A i \in DOMAIN pending : pending[i].callback # InsertDone(goal, TRUE)
             /\ \A i \in DOMAIN mainQueue : mainQueue[i].callback # InsertDone(goal, TRUE)
             /\ InsertDone(goal, TRUE) \notin queries'
  <2>1. InsertDone(goal, TRUE) \in Callback /\ InsertDone(goal, TRUE).live
        /\ InsertDone(goal, TRUE) \notin DeadCallback /\ InsertDone(goal, TRUE) # Fetch
    BY SaveIsCallback, FetchIsCallback DEF InsertDone
  <2>2. /\ \A i \in DOMAIN pending : pending[i].callback # InsertDone(goal, TRUE)
        /\ \A i \in DOMAIN mainQueue : mainQueue[i].callback # InsertDone(goal, TRUE)
    BY <1>1, <2>1, DeadQueues
  <2> QED
    BY <1>1, <2>1, <2>2
<1>4. Fetch' = Fetch
  BY DEF Fetch, FetchDone
<1>5. SavesQueued' /\ FetchOnce' /\ AnsweredInTime'
  BY <1>1, <1>2, <1>3, <1>4 DEF SavesQueued, FetchOnce, AnsweredInTime
<1>6. Nameless' /\ \A date : ~Listed(date, goals')
  BY <1>1 DEF Nameless, Listed
<1>7. \A goal \in NewGoal : ~Saving(goal)'
  BY <1>1, <1>3 DEF Saving, Awaited
<1>8. \A date : ~Ours(date)' /\ ~ListedSoon(date)'
  BY <1>1, <1>3, <1>6, <1>7 DEF Ours, ListedSoon, Lists
<1>9. WhileFetching'
  BY <1>6, <1>8 DEF WhileFetching
<1> QED
  BY <1>5, <1>9 DEF FetchInv

\* No row has an id while the fetch is awaited: nothing can be deleted then.
LEMMA ConfirmFetch ==
  ASSUME AllInv, FetchInv, ConfirmDelete, app' = "home"
  PROVE  FetchInv'
<1>1. /\ ui = "confirm" /\ dialog.goal.uuid # NoId
      /\ DeleteDocument(dialog.goal.uuid, DeleteDone(dialog.row, TRUE))
  BY DEF ConfirmDelete, Crash
<1>2. dialog.goal.uuid \in DocIds /\ dialog.row \in Nat \ {0}
  BY <1>1 DEF AllInv, IInv, ScreenInv, KnownRow, Known
<1> DEFINE c == DeleteDone(dialog.row, TRUE)
           w == Write("delete", dialog.goal.uuid, c)
<1>3. c \in Callback /\ c # Fetch /\ \A goal \in NewGoal : c # InsertDone(goal, TRUE)
  <2>1. c \in Callback
    BY <1>2 DEF DeleteDone, Callback
  <2>2. c # Fetch
    BY DEF DeleteDone, Fetch, FetchDone
  <2>3. \A goal \in NewGoal : c # InsertDone(goal, TRUE)
    BY DEF DeleteDone, InsertDone
  <2> QED
    BY <2>1, <2>2, <2>3
<1>4. pending' = Append(pending, w) /\ UNCHANGED <<written, queries, mainQueue>>
  BY <1>1 DEF DeleteDocument
<1>5. w \in AnyWrite /\ w.callback = c
  BY <1>2, <1>3 DEF Write, AnyWrite
<1> HIDE DEF c, w
<1>6. \A i \in DOMAIN pending' : (i \in DOMAIN pending /\ pending'[i] = pending[i]) \/ pending'[i] = w
  BY <1>4, <1>5, QueuesTyped, AppendElements
<1>7. SavesQueued'
  <2>1. ASSUME NEW i \in DOMAIN pending', NEW goal \in NewGoal,
               pending'[i].callback = InsertDone(goal, TRUE)
        PROVE  pending'[i].op = "set" /\ written'[pending'[i].id].date = goal.date
    BY <1>3, <1>4, <1>5, <1>6, <2>1 DEF FetchInv, SavesQueued
  <2> QED
    BY <2>1 DEF SavesQueued
<1>8. ~Fetching
  BY <1>1 DEF FetchInv, WhileFetching, Nameless
<1>9. ~Fetching'
  <2>1. Fetch' = Fetch
    BY DEF Fetch, FetchDone
  <2> QED
    BY <1>3, <1>4, <1>5, <1>6, <1>8, <2>1 DEF Fetching, Awaited
<1> QED
  BY <1>7, <1>9, FetchOver

LEMMA PersistFetch ==
  ASSUME AllInv, DatesInv, FetchInv, clock' = clock + 1,
         NEW goal \in NewGoal, goal.date = clock + 1, Persist(goal)
  PROVE  FetchInv'
<1> DEFINE c == InsertDone(goal, TRUE)
<1>1. PICK id \in Fresh :
        /\ written' = [written EXCEPT ![id] = DocumentOf(goal)]
        /\ pending' = Append(pending, Write("set", id, c))
        /\ UNCHANGED <<server, cached, queries, mainQueue>>
  BY DEF Persist, AddDocument, SetDocument
<1> DEFINE w == Write("set", id, c)
<1>2. UNCHANGED goals /\ ui' = "list"
  BY DEF Persist
<1>3. /\ id \in DocIds /\ id \notin Known /\ Known' \subseteq Known \cup {id}
      /\ \A k \in Known : written'[k] = written[k]
      /\ written'[id].date = clock + 1
  BY <1>1 DEF Fresh, Known, DocumentOf, AllInv, IInv, StoreInv
<1>4. c \in Callback /\ c # Fetch /\ \A other \in NewGoal : c = InsertDone(other, TRUE) => other = goal
  BY SaveIsCallback, FetchIsCallback DEF InsertDone
<1>5. w \in AnyWrite /\ w.callback = c /\ w.op = "set" /\ w.id = id
  BY <1>3, <1>4 DEF Write, AnyWrite
<1>6. pending' = Append(pending, w)
  BY <1>1
<1> HIDE DEF c, w
<1>7. /\ \A i \in DOMAIN pending' : (i \in DOMAIN pending /\ pending'[i] = pending[i]) \/ pending'[i] = w
      /\ \A i \in DOMAIN pending : pending[i].id \in Known
      /\ server \subseteq Known /\ cached \subseteq Known
  BY <1>5, <1>6, QueuesTyped, AppendElements
<1>8. Fetch' = Fetch /\ (Fetching' => Fetching)
      /\ \A other \in NewGoal : Saving(other)' => Saving(other) \/ other = goal
  <2>1. Fetch' = Fetch
    BY DEF Fetch, FetchDone
  <2>2. Awaited' \subseteq Awaited \cup {c}
    BY <1>1, <1>5, <1>7 DEF Awaited
  <2> QED
    BY <1>4, <2>1, <2>2 DEF Fetching, Saving
<1>9. SavesQueued' /\ FetchOnce'
  <2>1. ASSUME NEW i \in DOMAIN pending', NEW other \in NewGoal,
               pending'[i].callback = InsertDone(other, TRUE)
        PROVE  pending'[i].op = "set" /\ written'[pending'[i].id].date = other.date
    <3>1. CASE i \in DOMAIN pending /\ pending'[i] = pending[i]
      <4>1. pending[i].id \in Known
        BY <1>7, <3>1
      <4>2. pending[i].op = "set" /\ written[pending[i].id].date = other.date
        BY <2>1, <3>1 DEF FetchInv, SavesQueued
      <4> QED
        BY <1>3, <3>1, <4>1, <4>2
    <3>2. CASE pending'[i] = w
      BY <1>3, <1>4, <1>5, <2>1, <3>2
    <3> QED
      BY <1>7, <3>1, <3>2
  <2>2. FetchOnce'
    BY <1>1, <1>4, <1>5, <1>7, <1>8 DEF FetchInv, FetchOnce
  <2> QED
    BY <2>1, <2>2 DEF SavesQueued
<1>10. /\ \A k \in PendingIds("set")' : k \in PendingIds("set") \/ k = id
       /\ \A k \in PendingIds("delete")' : k \in PendingIds("delete")
       /\ PendingIds("delete") \subseteq Known
  BY <1>5, <1>7, PendingIdsAre, PendingIdsAreNext
<1>11. ASSUME NEW date
       PROVE  /\ ListedSoon(date)' => ListedSoon(date)
              /\ \A n : ListedBefore(n, date)' => ListedBefore(n, date)
              /\ Ours(date)' => Ours(date) \/ date = clock + 1
  BY <1>1, <1>2, <1>8 DEF ListedSoon, ListedBefore, Ours
<1>12. clock \in Nat /\ ~Ours(clock + 1) /\ ~ListedSoon(clock + 1)
       /\ \A k \in Known : written[k].date <= clock
  <2>1. clock \in Nat /\ \A k \in Known : written[k].date <= clock
    BY GoalsAssumption DEF AllInv, IInv, ScreenInv, DatesInv, DocsInv
  <2> QED
    BY <2>1, OursAreDated, SoonIsOurs
<1>13. WhileFetching'
  <2>1. Nameless => Nameless'
    BY <1>2 DEF Nameless
  <2>2. ASSUME Fetching, NEW k \in Known', NEW date \in Dates, written'[k].date = date
        PROVE  /\ Ours(date)' => k \notin PendingIds("delete")'
               /\ ListedSoon(date)' => k \notin PendingIds("set")'
    <3>1. CASE k = id
      BY <1>3, <1>10, <1>11, <1>12, <2>2, <3>1
    <3>2. CASE k # id
      <4>1. k \in Known /\ written[k].date = date /\ date # clock + 1
        BY <1>3, <1>12, <2>2, <3>2
      <4> QED
        BY <1>10, <1>11, <2>2, <3>2, <4>1 DEF FetchInv, WhileFetching
    <3> QED
      BY <3>1, <3>2
  <2> QED
    BY <1>8, <2>1, <2>2 DEF FetchInv, WhileFetching
<1>14. AnsweredInTime'
  <2> SUFFICES ASSUME NEW n \in DOMAIN mainQueue,
                      mainQueue[n].callback = Fetch, mainQueue[n].ok,
                      NEW k \in server \cap cached, NEW date \in Dates,
                      written'[k].date = date, ListedBefore(n, date)'
               PROVE  k \in mainQueue[n].ids
    BY <1>1, <1>8 DEF AnsweredInTime
  <2>1. written[k].date = date
    BY <1>3, <1>7
  <2> QED
    BY <1>11, <2>1 DEF FetchInv, AnsweredInTime
<1> QED
  BY <1>9, <1>13, <1>14 DEF FetchInv

LEMMA SaveGoalFetch ==
  ASSUME AllInv, DatesInv, FetchInv, SaveGoal
  PROVE  FetchInv'
<1>1. clock' = clock + 1 /\ clock + 1 \in Dates
  BY GoalsAssumption DEF SaveGoal, Dates, AllInv, IInv, ScreenInv
<1>2. PICK title \in Titles :
        LET goal == LocalGoal([title |-> title, date |-> clock + 1])
        IN Persist(goal) \/ Overwrite(goal)
  BY DEF SaveGoal
<1> DEFINE goal == LocalGoal([title |-> title, date |-> clock + 1])
<1>3. goal \in NewGoal /\ goal.date = clock + 1 /\ (Persist(goal) \/ Overwrite(goal))
  BY <1>1, <1>2 DEF LocalGoal, NewGoal
<1> HIDE DEF goal
<1> QED
  BY <1>1, <1>3, PersistFetch, OverwriteFetch

-----------------------------------------------------------------------------
(* Deliveries *)

\* Whatever is delivered, apart from the fetch itself, lists what its event lists.
LEMMA TakenFetch ==
  ASSUME AllInv, FetchInv, TakeEvent, UNCHANGED <<written, server, cached, pending, queries>>,
         Arriving # Fetch =>
           /\ Nameless => Nameless'
           /\ \A date : Listed(date, goals') => Listed(date, goals) \/ Lists(Head(mainQueue), date)
  PROVE  FetchInv'
<1>1. /\ mainQueue # <<>> /\ mainQueue' = Tail(mainQueue)
      /\ \A i \in DOMAIN mainQueue' :
           i \in Nat \ {0} /\ i + 1 \in DOMAIN mainQueue /\ mainQueue'[i] = mainQueue[i + 1]
      /\ 1 \in DOMAIN mainQueue /\ Head(mainQueue) = mainQueue[1]
  BY QueuesTyped, TailElements DEF TakeEvent
<1>2. Fetch' = Fetch /\ Known' = Known /\ Awaited' \subseteq Awaited
      /\ PendingIds("set")' = PendingIds("set") /\ PendingIds("delete")' = PendingIds("delete")
  BY <1>1 DEF Fetch, FetchDone, Known, PendingIds, Awaited
<1>3. SavesQueued'
  BY DEF FetchInv, SavesQueued
<1>4. CASE Arriving = Fetch
  <2>1. mainQueue[1].callback = Fetch /\ queries = {}
    BY <1>1, <1>4 DEF FetchInv, FetchOnce, Arriving
  <2>2. \A i \in DOMAIN mainQueue' : mainQueue'[i].callback # Fetch
    <3> SUFFICES ASSUME NEW i \in DOMAIN mainQueue', mainQueue'[i].callback = Fetch PROVE FALSE
      OBVIOUS
    <3>1. i + 1 = 1 /\ i \in Nat \ {0}
      BY <1>1, <2>1 DEF FetchInv, FetchOnce
    <3> QED
      BY <3>1
  <2>3. ~Fetching'
    BY <1>2, <2>1, <2>2 DEF FetchInv, FetchOnce, Fetching, Awaited
  <2> QED
    BY <1>3, <2>3, FetchOver
<1>5. CASE Arriving # Fetch
  <2>1. FetchOnce'
    <3>1. ASSUME NEW i \in DOMAIN mainQueue', NEW j \in DOMAIN mainQueue',
                 mainQueue'[i].callback = Fetch, mainQueue'[j].callback = Fetch
          PROVE  i = j
      <4>1. i + 1 = j + 1 /\ i \in Nat /\ j \in Nat
        BY <1>1, <3>1 DEF FetchInv, FetchOnce
      <4> QED
        BY <4>1
    <3>2. \A i \in DOMAIN mainQueue' : mainQueue'[i].callback = Fetch => queries' = {}
      BY <1>1 DEF FetchInv, FetchOnce
    <3>3. \A i \in DOMAIN pending' : pending'[i].callback # Fetch
      BY DEF FetchInv, FetchOnce
    <3> QED
      BY <1>2, <3>1, <3>2, <3>3 DEF FetchOnce
  <2>2. ASSUME NEW date
        PROVE  /\ Ours(date)' => Ours(date)
               /\ ListedSoon(date)' => ListedSoon(date)
               /\ \A n \in DOMAIN mainQueue' :
                    ListedBefore(n, date)' => ListedBefore(n + 1, date)
    <3>1. Listed(date, goals') => Listed(date, goals) \/ Lists(mainQueue[1], date)
      BY <1>1, <1>5
    <3>2. Ours(date)' => Ours(date)
      <4>1. \A goal \in NewGoal : Saving(goal)' => Saving(goal)
        BY <1>2 DEF Saving
      <4>2. mainQueue[1].callback \in Awaited
        BY <1>1 DEF Awaited
      <4> QED
        BY <3>1, <4>1, <4>2 DEF Ours, Lists, Saving
    <3>3. \A i \in DOMAIN mainQueue' : Lists(mainQueue'[i], date) => Lists(mainQueue[i + 1], date)
      BY <1>1
    <3>4. ListedSoon(date)' => ListedSoon(date)
      <4>1. ListedSoon(date)' <=>
              Listed(date, goals') \/ \E i \in DOMAIN mainQueue' : Lists(mainQueue'[i], date)
        BY DEF ListedSoon
      <4> QED
        BY <1>1, <3>1, <3>3, <4>1 DEF ListedSoon
    <3>5. ASSUME NEW n \in DOMAIN mainQueue', ListedBefore(n, date)'
          PROVE  ListedBefore(n + 1, date)
      <4>1. \/ Listed(date, goals')
            \/ \E i \in DOMAIN mainQueue' : i < n /\ Lists(mainQueue'[i], date)
        BY <3>5 DEF ListedBefore
      <4>2. n \in Nat \ {0} /\ 1 < n + 1
        BY <1>1
      <4>3. CASE Listed(date, goals')
        BY <1>1, <3>1, <4>2, <4>3 DEF ListedBefore
      <4>4. ASSUME NEW i \in DOMAIN mainQueue', i < n, Lists(mainQueue'[i], date)
            PROVE  ListedBefore(n + 1, date)
        <5>1. i \in Nat /\ i + 1 < n + 1 /\ i + 1 \in DOMAIN mainQueue /\ Lists(mainQueue[i + 1], date)
          BY <1>1, <3>3, <4>2, <4>4
        <5> QED
          BY <5>1 DEF ListedBefore
      <4> QED
        BY <4>1, <4>3, <4>4
    <3> QED
      BY <3>2, <3>4, <3>5
  <2>3. WhileFetching'
    <3>1. Fetching' => Fetching
      BY <1>2 DEF Fetching
    <3>2. ASSUME Fetching, NEW id \in Known, NEW date \in Dates, written[id].date = date
          PROVE  /\ Ours(date)' => id \notin PendingIds("delete")
                 /\ ListedSoon(date)' => id \notin PendingIds("set")
      BY <2>2, <3>2 DEF FetchInv, WhileFetching
    <3> QED
      BY <1>2, <1>5, <3>1, <3>2 DEF FetchInv, WhileFetching
  <2>4. AnsweredInTime'
    <3>1. ASSUME NEW n \in DOMAIN mainQueue', mainQueue'[n].callback = Fetch, mainQueue'[n].ok,
                 NEW id \in server \cap cached, NEW date \in Dates, written[id].date = date,
                 ListedBefore(n, date)'
          PROVE  id \in mainQueue'[n].ids
      <4>1. ListedBefore(n + 1, date) /\ n + 1 \in DOMAIN mainQueue
            /\ mainQueue'[n] = mainQueue[n + 1]
        BY <1>1, <2>2, <3>1
      <4> QED
        BY <3>1, <4>1 DEF FetchInv, AnsweredInTime
    <3> QED
      BY <1>2, <3>1 DEF AnsweredInTime
  <2> QED
    BY <1>3, <2>1, <2>3, <2>4 DEF FetchInv
<1> QED
  BY <1>4, <1>5

LEMMA DeliveryFetch ==
  ASSUME AllInv, FetchInv, MainQueue, app' = "home"
  PROVE  FetchInv'
<1>1. ~Crash /\ mainQueue # <<>>
  <2>1. ~Crash
    BY DEF Crash
  <2> QED
    BY <2>1 DEF MainQueue, FetchDelivered, InsertDelivered, DeleteDelivered, DrawTable, Arrived
<1>2. Arriving \in Callback
  BY <1>1, ArrivingTyped DEF AllInv
<1>3. CASE Ignore
  <2>1. TakeEvent /\ UNCHANGED <<written, server, cached, pending, queries, goals, ui, dialog>>
    BY <1>3 DEF Ignore, screenVars
  <2>2. Nameless => Nameless'
    BY <2>1 DEF Nameless
  <2> QED
    BY <2>1, <2>2, TakenFetch
<1>4. ASSUME NEW rows, Show(rows),
             Arriving # Fetch =>
               /\ (\A row \in DOMAIN goals : goals[row].uuid = NoId)
                    => \A row \in DOMAIN rows : rows[row].uuid = NoId
               /\ \A date : Listed(date, rows) => Listed(date, goals) \/ Lists(Head(mainQueue), date)
      PROVE  FetchInv'
  <2>1. TakeEvent /\ UNCHANGED <<written, server, cached, pending, queries, ui, dialog>>
        /\ goals' = rows
    BY <1>4 DEF Show
  <2>2. Arriving # Fetch => (Nameless => Nameless')
    BY <1>4, <2>1 DEF Nameless
  <2> QED
    BY <1>4, <2>1, <2>2, TakenFetch
<1>5. CASE FetchDelivered /\ ~Ignore
  <2>1. Arriving.kind = "fetch" /\ Arriving.live /\ \E rows : Show(rows)
    BY <1>5 DEF FetchDelivered, Arrived, Arriving
  <2>2. Arriving = Fetch
    BY <1>2, <2>1 DEF Callback, Fetch, FetchDone
  <2> QED
    BY <1>4, <2>1, <2>2
<1>6. CASE InsertDelivered
  <2>1. Arriving.kind = "insert" /\ Arriving.live /\ Show(Cons(Arriving.goal, goals))
    BY <1>1, <1>6 DEF InsertDelivered, Arrived, Arriving
  <2>2. Arriving.goal \in NewGoal /\ Arriving = InsertDone(Arriving.goal, TRUE)
    BY <1>2, <2>1 DEF Callback, InsertDone
  <2> DEFINE goal == Arriving.goal
             rows == Cons(goal, goals)
  <2>3. goal \in KnownRow /\ goal.uuid = NoId /\ goals \in Seq(KnownRow)
    BY <2>2, SaveIsCallback DEF NewGoal, AllInv, IInv, ScreenInv
  <2>4. Show(rows)
    BY <2>1
  <2>5. Lists(Head(mainQueue), goal.date)
    BY <2>2 DEF Lists, Arriving
  <2> HIDE DEF goal
  <2>6. /\ rows[1] = goal /\ Len(rows) = Len(goals) + 1
        /\ \A k \in 2 .. Len(goals) + 1 : rows[k] = goals[k - 1]
        /\ DOMAIN rows = 1 .. Len(rows) /\ DOMAIN goals = 1 .. Len(goals) /\ Len(goals) \in Nat
    <3>1. /\ rows[1] = goal /\ Len(rows) = Len(goals) + 1
          /\ \A k \in 2 .. Len(goals) + 1 : rows[k] = goals[k - 1]
      BY ONLY <2>3, ConsElements
    <3>2. rows \in Seq(KnownRow)
      BY ONLY <2>3, ConsInSeq
    <3> QED BY ONLY <2>3, <3>1, <3>2, LenProperties
  <2> HIDE DEF rows
  <2>7. \A row \in DOMAIN rows : rows[row] = goal \/ \E old \in DOMAIN goals : rows[row] = goals[old]
    BY <2>6
  <2> QED
    BY <1>4, <2>3, <2>4, <2>5, <2>7 DEF Listed
<1>7. CASE DeleteDelivered /\ ~Ignore
  <2> DEFINE rows == RemoveAt(goals, Arriving.row)
  <2>1. Arriving.row \in DOMAIN goals /\ Show(rows) /\ goals \in Seq(KnownRow)
    BY <1>1, <1>7 DEF DeleteDelivered, AllInv, IInv, ScreenInv
  <2>2. /\ Len(rows) = Len(goals) - 1
        /\ \A k \in 1 .. Len(goals) - 1 :
             rows[k] = IF k < Arriving.row THEN goals[k] ELSE goals[k + 1]
        /\ DOMAIN rows = 1 .. Len(rows) /\ DOMAIN goals = 1 .. Len(goals) /\ Len(goals) \in Nat
    BY <2>1, RemoveAtElements, RemoveAtInSeq, LenProperties
  <2> HIDE DEF rows
  <2>3. \A row \in DOMAIN rows : \E old \in DOMAIN goals : rows[row] = goals[old]
    BY <2>2
  <2> QED
    BY <1>4, <2>1, <2>3 DEF Listed
<1> QED
  BY <1>1, <1>3, <1>5, <1>6, <1>7 DEF MainQueue, DrawTable

-----------------------------------------------------------------------------
(* The client's steps *)

\* A write is answered.  Were it the creation of something listed, the fetch would
\* know: that document is on the server, or was, and is nobody's to delete.
LEMMA SettleFetch ==
  ASSUME AllInv, AllInv', DatesInv, LifeInv, FetchInv, Acknowledge \/ Reject, UNCHANGED screenVars
  PROVE  FetchInv'
<1> DEFINE w == Head(pending)
<1>1. pending # <<>>
  BY AnswerNeedsWrite DEF AllInv
<1>2. /\ pending' = Tail(pending) /\ UNCHANGED <<written, server, queries, goals, ui, dialog>>
      /\ \E ok \in BOOLEAN : Post(w.callback, ok)
  BY DEF Acknowledge, Reject, Settle, screenVars
<1>3. /\ \A i \in DOMAIN pending' : i + 1 \in DOMAIN pending /\ pending'[i] = pending[i + 1]
      /\ 1 \in DOMAIN pending /\ w = pending[1] /\ w \in AnyWrite /\ w.id \in Known
  BY <1>1, <1>2, QueuesTyped, TailElements
<1>4. cached' \subseteq cached \cup (IF w.op = "set" THEN {w.id} ELSE {})
  BY DEF Acknowledge, Reject, Effect
<1>5. /\ w.op = "set" => w.id \in PendingIds("set") /\ w.id \notin PendingIds("set")'
      /\ PendingIds("set")' \subseteq PendingIds("set")
      /\ PendingIds("delete")' \subseteq PendingIds("delete")
  <2>1. SetsOf(pending) = PendingIds("set") /\ SetsOf(pending') = PendingIds("set")'
    BY DEF SetsOf, PendingIds
  <2>2. /\ w.op = "set" => w.id \in SetsOf(pending) /\ w.id \notin SetsOf(pending')
        /\ SetsOf(pending') \subseteq SetsOf(pending)
    BY <1>1, <1>2, QueuesTyped, SetsTail DEF LifeInv
  <2>3. PendingIds("delete")' \subseteq PendingIds("delete")
    BY <1>3, PendingIdsAre, PendingIdsAreNext
  <2> QED
    BY <2>1, <2>2, <2>3
<1>6. w.callback # Fetch
      /\ \A goal \in NewGoal : w.callback = InsertDone(goal, TRUE) =>
           w.op = "set" /\ written[w.id].date = goal.date
  BY <1>3 DEF FetchInv, FetchOnce, SavesQueued
<1> HIDE DEF w
<1>7. /\ \A i \in DOMAIN mainQueue : i \in DOMAIN mainQueue' /\ mainQueue'[i] = mainQueue[i]
      /\ \A i \in DOMAIN mainQueue' :
           \/ i \in DOMAIN mainQueue /\ mainQueue'[i] = mainQueue[i]
           \/ /\ mainQueue'[i].callback = w.callback /\ w.callback # NoCallback
              /\ \A j \in DOMAIN mainQueue : j < i
  <2>1. CASE w.callback = NoCallback
    BY <1>2, <2>1 DEF Post
  <2>2. CASE w.callback # NoCallback
    <3>1. PICK ok \in BOOLEAN : mainQueue' = Append(mainQueue, Event(w.callback, ok, {}))
      BY <1>2, <2>2 DEF Post
    <3> DEFINE e == Event(w.callback, ok, {})
    <3>2. mainQueue \in Seq(KnownEvent) /\ e \in KnownEvent /\ e.callback = w.callback
      BY <1>3, <2>2, QueuesTyped DEF Event, KnownEvent, AnyWrite
    <3>3. mainQueue' = Append(mainQueue, e)
      BY <3>1
    <3> HIDE DEF e
    <3>4. /\ \A i \in DOMAIN mainQueue : i \in DOMAIN mainQueue' /\ mainQueue'[i] = mainQueue[i]
          /\ \A i \in DOMAIN mainQueue' :
               \/ i \in DOMAIN mainQueue /\ mainQueue'[i] = mainQueue[i]
               \/ i = Len(mainQueue) + 1 /\ mainQueue'[i] = e
          /\ DOMAIN mainQueue = 1 .. Len(mainQueue) /\ Len(mainQueue) \in Nat
      BY <3>2, <3>3, AppendElements, LenProperties
    <3> QED
      BY <2>2, <3>2, <3>4
  <2> QED
    BY <2>1, <2>2
<1>8. Fetch' = Fetch /\ Known' = Known /\ Awaited' \subseteq Awaited
  <2>1. Awaited' \subseteq Awaited
    BY <1>2, <1>3, <1>7 DEF Awaited
  <2> QED
    BY <1>2, <2>1 DEF Fetch, FetchDone, Known
<1>9. \A i \in DOMAIN mainQueue' : mainQueue'[i].callback = Fetch =>
        i \in DOMAIN mainQueue /\ mainQueue'[i] = mainQueue[i]
  BY <1>6, <1>7
<1>10. SavesQueued' /\ FetchOnce'
  <2>1. ASSUME NEW i \in DOMAIN pending', NEW goal \in NewGoal,
               pending'[i].callback = InsertDone(goal, TRUE)
        PROVE  pending'[i].op = "set" /\ written'[pending'[i].id].date = goal.date
    <3>1. i + 1 \in DOMAIN pending /\ pending'[i] = pending[i + 1]
      BY <1>3
    <3> QED
      BY <1>2, <2>1, <3>1 DEF FetchInv, SavesQueued
  <2>2. FetchOnce'
    BY <1>2, <1>3, <1>8, <1>9 DEF FetchInv, FetchOnce
  <2> QED
    BY <2>1, <2>2 DEF SavesQueued
<1>11. ASSUME NEW date
       PROVE  /\ Ours(date)' => Ours(date)
              /\ ListedSoon(date)' => \/ ListedSoon(date)
                                      \/ w.op = "set" /\ written[w.id].date = date
              /\ \A n \in DOMAIN mainQueue : ListedBefore(n, date)' => ListedBefore(n, date)
  <2>1. Ours(date)' => Ours(date)
    BY <1>2, <1>8 DEF Ours, Saving
  <2>2. ListedSoon(date)' <=>
          Listed(date, goals) \/ \E i \in DOMAIN mainQueue' : Lists(mainQueue'[i], date)
    BY <1>2 DEF ListedSoon
  <2>3. \A i \in DOMAIN mainQueue' : Lists(mainQueue'[i], date) =>
          \/ i \in DOMAIN mainQueue /\ Lists(mainQueue[i], date)
          \/ w.op = "set" /\ written[w.id].date = date
    BY <1>6, <1>7 DEF Lists
  <2>4. ASSUME NEW n \in DOMAIN mainQueue, ListedBefore(n, date)' PROVE ListedBefore(n, date)
    <3>1. \/ Listed(date, goals)
          \/ \E i \in DOMAIN mainQueue' : i < n /\ Lists(mainQueue'[i], date)
      BY <1>2, <2>4 DEF ListedBefore
    <3>2. DOMAIN mainQueue \subseteq Nat /\ \A i \in DOMAIN mainQueue' : i < n => ~(n < i)
      <4>1. mainQueue \in Seq(KnownEvent) /\ mainQueue' \in Seq(KnownEvent')
        BY QueuesTyped DEF AllInv, IInv, QueueInv
      <4> QED
        BY <4>1, LenProperties
    <3> QED
      BY <1>7, <3>1, <3>2 DEF ListedBefore
  <2> QED
    BY <2>1, <2>2, <2>3, <2>4 DEF ListedSoon
<1>12. WhileFetching'
  <2>1. Fetching' => Fetching
    BY <1>8 DEF Fetching
  <2>2. Nameless' <=> Nameless
    BY <1>2 DEF Nameless
  <2>3. ASSUME Fetching, NEW id \in Known, NEW date \in Dates, written[id].date = date
        PROVE  /\ Ours(date)' => id \notin PendingIds("delete")'
               /\ ListedSoon(date)' => id \notin PendingIds("set")'
    <3>1. written[w.id].date = date => w.id = id
      BY <1>3, <2>3 DEF DatesInv, DocsInv
    <3> QED
      BY <1>5, <1>11, <2>3, <3>1 DEF FetchInv, WhileFetching
  <2> QED
    BY <1>2, <1>8, <2>1, <2>2, <2>3 DEF FetchInv, WhileFetching
<1>13. AnsweredInTime'
  <2>1. ASSUME NEW n \in DOMAIN mainQueue', mainQueue'[n].callback = Fetch, mainQueue'[n].ok,
               NEW id \in server \cap cached', NEW date \in Dates, written[id].date = date,
               ListedBefore(n, date)'
        PROVE  id \in mainQueue'[n].ids
    <3>1. n \in DOMAIN mainQueue /\ mainQueue'[n] = mainQueue[n] /\ ListedBefore(n, date)
      BY <1>9, <1>11, <2>1
    <3>2. id \notin PendingIds("set")
      <4>1. Fetching
        BY <2>1, <3>1 DEF Fetching, Awaited
      <4>2. ListedSoon(date) /\ id \in Known
        BY <3>1, SoonIsOurs, QueuesTyped
      <4> QED
        BY <2>1, <4>1, <4>2 DEF FetchInv, WhileFetching
    <3>3. id \in cached
      BY <1>4, <1>5, <2>1, <3>2
    <3> QED
      BY <2>1, <3>1, <3>3 DEF FetchInv, AnsweredInTime
  <2> QED
    BY <1>2, <1>8, <2>1 DEF AnsweredInTime
<1> QED
  BY <1>10, <1>12, <1>13 DEF FetchInv

\* The query is answered: with all that the client knows and nobody here deletes.
LEMMA AnswerFetch ==
  ASSUME AllInv, AllInv', DatesInv, FetchInv, NEW ok \in BOOLEAN, NEW ids \in SUBSET Known,
         Answer(ok, ids), UNCHANGED <<written, server, pending, screenVars>>,
         ok => (server \cap cached') \ PendingIds("delete") \subseteq ids
  PROVE  FetchInv'
<1>1. PICK calls \in SetToSeqs(queries) : mainQueue' = Joined(mainQueue, calls, ok, ids)
  BY DEF Answer, Joined
<1>2. /\ mainQueue \in Seq(KnownEvent) /\ mainQueue' \in Seq(KnownEvent') /\ IsFiniteSet(queries)
      /\ queries # {} /\ queries' = {}
      /\ \A c \in queries : Event(c, ok, ids) \in KnownEvent
  BY DEF AllInv, IInv, QueueInv, Answer, KnownEvent, Event
<1>3. /\ \A i \in DOMAIN mainQueue : i \in DOMAIN mainQueue' /\ mainQueue'[i] = mainQueue[i]
      /\ \A i \in DOMAIN mainQueue' :
           \/ i \in DOMAIN mainQueue /\ mainQueue'[i] = mainQueue[i]
           \/ \E c \in queries : mainQueue'[i] = Event(c, ok, ids)
  BY <1>1, <1>2, EventsJoin
<1>4. \A i, j \in DOMAIN mainQueue' :
        i \notin DOMAIN mainQueue /\ j \notin DOMAIN mainQueue
          /\ mainQueue'[i].callback = mainQueue'[j].callback => i = j
  BY <1>1, <1>2, EventsDiffer
<1>5. /\ UNCHANGED <<goals, ui, dialog>> /\ Fetch' = Fetch /\ Known' = Known
      /\ PendingIds("set")' = PendingIds("set") /\ PendingIds("delete")' = PendingIds("delete")
  BY DEF screenVars, Fetch, FetchDone, Known, PendingIds
<1>6. Awaited' \subseteq Awaited
  BY <1>2, <1>3 DEF Awaited, Event
\* No fetch had been answered, and no save waits for this answer.
<1>7. /\ \A i \in DOMAIN mainQueue : mainQueue[i].callback # Fetch
      /\ \A goal \in NewGoal : InsertDone(goal, TRUE) \notin queries
  BY <1>2 DEF FetchInv, FetchOnce, DatesInv, SavesInv, Once
<1>8. \A i \in DOMAIN mainQueue' : \A date :
        Lists(mainQueue'[i], date) => i \in DOMAIN mainQueue /\ Lists(mainQueue[i], date)
  <2> SUFFICES ASSUME NEW i \in DOMAIN mainQueue', NEW date, Lists(mainQueue'[i], date)
               PROVE  i \in DOMAIN mainQueue /\ Lists(mainQueue[i], date)
    OBVIOUS
  <2>1. PICK goal \in NewGoal : mainQueue'[i].callback = InsertDone(goal, TRUE)
    BY DEF Lists
  <2>2. \A c \in queries : Event(c, ok, ids).callback = c
    BY DEF Event
  <2>3. ~\E c \in queries : mainQueue'[i] = Event(c, ok, ids)
    <3> SUFFICES ASSUME NEW c \in queries, mainQueue'[i] = Event(c, ok, ids) PROVE FALSE
      OBVIOUS
    <3>1. mainQueue'[i].callback = c
      BY <2>2
    <3> QED
      BY <1>7, <2>1, <3>1
  <2>4. i \in DOMAIN mainQueue /\ mainQueue'[i] = mainQueue[i]
    BY <1>3, <2>3
  <2> QED
    BY <2>4
<1>9. SavesQueued' /\ FetchOnce'
  <2>1. SavesQueued'
    BY DEF FetchInv, SavesQueued
  <2>2. \A i \in DOMAIN mainQueue' : mainQueue'[i].callback = Fetch => i \notin DOMAIN mainQueue
    BY <1>3, <1>7
  <2>3. \A i \in DOMAIN pending' : pending'[i].callback # Fetch
    BY DEF FetchInv, FetchOnce
  <2> QED
    BY <1>2, <1>4, <1>5, <2>1, <2>2, <2>3 DEF FetchOnce
<1>10. ASSUME NEW date
       PROVE  /\ Ours(date)' => Ours(date)
              /\ ListedSoon(date)' => ListedSoon(date)
              /\ \A n : ListedBefore(n, date)' => ListedSoon(date)
  <2>1. Ours(date)' => Ours(date)
    BY <1>5, <1>6 DEF Ours, Saving
  <2>2. ListedSoon(date)' =>
          Listed(date, goals) \/ \E i \in DOMAIN mainQueue' : Lists(mainQueue'[i], date)
    BY <1>5 DEF ListedSoon
  <2>3. \A n : ListedBefore(n, date)' => ListedSoon(date)'
    BY DEF ListedBefore, ListedSoon
  <2> QED
    BY <1>8, <2>1, <2>2, <2>3 DEF ListedSoon
<1>11. WhileFetching'
  <2>1. (Fetching' => Fetching) /\ (Nameless' <=> Nameless)
    BY <1>5, <1>6 DEF Fetching, Nameless
  <2>2. ASSUME Fetching, NEW id \in Known, NEW date \in Dates, written[id].date = date
        PROVE  /\ Ours(date)' => id \notin PendingIds("delete")
               /\ ListedSoon(date)' => id \notin PendingIds("set")
    BY <1>10, <2>2 DEF FetchInv, WhileFetching
  <2> QED
    BY <1>5, <2>1, <2>2 DEF FetchInv, WhileFetching
<1>12. AnsweredInTime'
  <2>1. ASSUME NEW n \in DOMAIN mainQueue', mainQueue'[n].callback = Fetch, mainQueue'[n].ok,
               NEW id \in server \cap cached', NEW date \in Dates, written[id].date = date,
               ListedBefore(n, date)'
        PROVE  id \in mainQueue'[n].ids
    <3>1. n \notin DOMAIN mainQueue
      BY <1>3, <1>7, <2>1
    <3>2. PICK c \in queries : mainQueue'[n] = Event(c, ok, ids)
      BY <1>3, <3>1
    <3>3. c = Fetch /\ ok /\ mainQueue'[n].ids = ids
      BY <2>1, <3>2 DEF Event
    <3>4. Fetching /\ Ours(date) /\ id \in Known
      BY <1>10, <2>1, <3>3, SoonIsOurs, QueuesTyped DEF Fetching, Awaited
    <3>5. id \notin PendingIds("delete")
      BY <2>1, <3>4 DEF FetchInv, WhileFetching
    <3> QED
      BY <2>1, <3>3, <3>5
  <2> QED
    BY <1>5, <2>1 DEF AnsweredInTime
<1> QED
  BY <1>9, <1>11, <1>12 DEF FetchInv

\* The collection changes on the server, under ids that the queue creates or deletes,
\* or that another device does.
LEMMA ServerFetch ==
  ASSUME AllInv, DatesInv, FetchInv, UNCHANGED <<cached, pending, queries, mainQueue, screenVars>>,
         \A id \in Known : written'[id] = written[id],
         \A id \in Known' : \/ id \in Known
                            \/ written'[id].date = clock + 1 /\ id \notin PendingIds("delete"),
         \A id \in server' \cap cached : id \in server \/ id \in PendingIds("set")
  PROVE  FetchInv'
<1>1. /\ UNCHANGED <<goals, ui, dialog>> /\ Fetch' = Fetch /\ Awaited' = Awaited
      /\ PendingIds("set")' = PendingIds("set") /\ PendingIds("delete")' = PendingIds("delete")
      /\ Nameless' <=> Nameless
  BY DEF screenVars, Fetch, FetchDone, PendingIds, Awaited, Nameless
<1>2. ASSUME NEW date
      PROVE  /\ Ours(date)' => Ours(date)
             /\ ListedSoon(date)' => ListedSoon(date)
             /\ \A n : ListedBefore(n, date)' => ListedBefore(n, date)
  BY <1>1 DEF Ours, ListedSoon, ListedBefore, Saving
<1>3. SavesQueued' /\ FetchOnce'
  <2>1. ASSUME NEW i \in DOMAIN pending, NEW goal \in NewGoal,
               pending[i].callback = InsertDone(goal, TRUE)
        PROVE  pending[i].op = "set" /\ written'[pending[i].id].date = goal.date
    <3>1. written'[pending[i].id] = written[pending[i].id]
      BY QueuesTyped
    <3>2. pending[i].op = "set" /\ written[pending[i].id].date = goal.date
      BY <2>1 DEF FetchInv, SavesQueued
    <3> QED
      BY <3>1, <3>2
  <2>2. FetchOnce'
    BY <1>1 DEF FetchInv, FetchOnce
  <2> QED
    BY <2>1, <2>2 DEF SavesQueued
<1>4. clock \in Nat /\ ~Ours(clock + 1) /\ ~ListedSoon(clock + 1)
  <2>1. clock \in Nat
    BY GoalsAssumption DEF AllInv, IInv, ScreenInv
  <2> QED
    BY <2>1, OursAreDated, SoonIsOurs
<1>5. WhileFetching'
  <2>1. Fetching' <=> Fetching
    BY <1>1 DEF Fetching
  <2>2. ASSUME Fetching, NEW id \in Known', NEW date \in Dates, written'[id].date = date
        PROVE  /\ Ours(date)' => id \notin PendingIds("delete")
               /\ ListedSoon(date)' => id \notin PendingIds("set")
    BY <1>2, <1>4, <2>2 DEF FetchInv, WhileFetching
  <2> QED
    BY <1>1, <2>1, <2>2 DEF FetchInv, WhileFetching
<1>6. AnsweredInTime'
  <2>1. ASSUME NEW n \in DOMAIN mainQueue, mainQueue[n].callback = Fetch, mainQueue[n].ok,
               NEW id \in server' \cap cached, NEW date \in Dates, written'[id].date = date,
               ListedBefore(n, date)'
        PROVE  id \in mainQueue[n].ids
    <3>1. id \in Known /\ written[id].date = date /\ ListedBefore(n, date)
      BY <1>2, <2>1, QueuesTyped
    <3>2. id \notin PendingIds("set")
      <4>1. Fetching /\ ListedSoon(date)
        BY <2>1, <3>1, SoonIsOurs DEF Fetching, Awaited
      <4> QED
        BY <2>1, <3>1, <4>1 DEF FetchInv, WhileFetching
    <3> QED
      BY <2>1, <3>1, <3>2 DEF FetchInv, AnsweredInTime
  <2> QED
    BY <1>1, <2>1 DEF AnsweredInTime
<1> QED
  BY <1>3, <1>5, <1>6 DEF FetchInv

LEMMA EnvironmentFetch ==
  ASSUME AllInv, AllInv', DatesInv, LifeInv, FetchInv, Environment
  PROVE  FetchInv'
<1>1. UNCHANGED screenVars
  BY DEF Environment, ClientRuns, OtherDeviceSaves, OtherDeviceErases
<1>2. ClientRuns => ClientStep
  BY DEF ClientRuns
<1>3. ASSUME NEW base \in SUBSET Known
      PROVE  /\ View(base) \in SUBSET Known
             /\ base \ PendingIds("delete") \subseteq View(base)
  <2>1. ClientInv(Document, Callback, DocIds)
    BY ClientInvHere DEF AllInv
  <2> QED
    BY <2>1, ViewIsKnown DEF View
<1>4. CASE AnswerFromServer
  <2>1. /\ Answer(TRUE, View(server)) /\ cached' = server
        /\ UNCHANGED <<written, server, pending, screenVars>>
    BY <1>1, <1>4 DEF AnswerFromServer
  <2> QED
    BY <1>3, <2>1, QueuesTyped, AnswerFetch
<1>5. CASE AnswerFromCache
  <2>1. Answer(TRUE, View(cached)) /\ UNCHANGED <<written, server, cached, pending, screenVars>>
    BY <1>1, <1>5 DEF AnswerFromCache
  <2> QED
    BY <1>3, <2>1, QueuesTyped, AnswerFetch
<1>6. CASE FailQuery
  <2>1. Answer(FALSE, {}) /\ UNCHANGED <<written, server, pending, screenVars>>
    BY <1>1, <1>6 DEF FailQuery
  <2> QED
    BY <2>1, AnswerFetch
<1>7. CASE UNCHANGED written /\ (ServerTakes \/ StreamBreaks \/ OtherDeviceDeletes)
  <2>1. UNCHANGED <<cached, pending, queries, mainQueue>> /\ Known' = Known
    BY <1>7 DEF ServerTakes, StreamBreaks, OtherDeviceDeletes, Known
  <2>2. \A id \in server' : id \in server \/ id \in PendingIds("set")
    <3>1. CASE ServerTakes
      <4>1. taken + 1 \in DOMAIN pending
        BY <3>1, LenProperties, QueuesTyped DEF ServerTakes, AllInv, TakenInv
      <4> QED
        BY <3>1, <4>1, PendingIdsAre DEF ServerTakes, Effect
    <3>2. CASE StreamBreaks \/ OtherDeviceDeletes
      BY <3>2 DEF StreamBreaks, OtherDeviceDeletes
    <3> QED
      BY <1>7, <3>1, <3>2
  <2> QED
    BY <1>1, <1>7, <2>1, <2>2, ServerFetch
<1>8. CASE OtherDeviceSaves
  <2>1. PICK title \in Titles, id \in Fresh :
          /\ written' = [written EXCEPT ![id] = [title |-> title, date |-> clock + 1]]
          /\ server' = server \cup {id}
          /\ UNCHANGED <<cached, pending, queries, mainQueue>>
    BY <1>8 DEF OtherDeviceSaves, OtherDeviceAdds
  <2>2. /\ \A k \in Known : written'[k] = written[k]
        /\ \A k \in Known' : k \in Known \/ k = id
        /\ id \notin Known /\ written'[id].date = clock + 1
    BY <2>1 DEF Known, Fresh, AllInv, IInv, StoreInv
  <2>3. PendingIds("delete") \subseteq Known
    BY QueuesTyped, PendingIdsAre
  <2>4. \A k \in server' \cap cached : k \in server
    BY <2>1, <2>2, QueuesTyped
  <2> QED
    BY <1>1, <2>1, <2>2, <2>3, <2>4, ServerFetch
<1>9. ServerTakes \/ StreamBreaks \/ OtherDeviceErases =>
        UNCHANGED written /\ (ServerTakes \/ StreamBreaks \/ OtherDeviceDeletes)
  BY DEF ServerTakes, StreamBreaks, OtherDeviceErases, OtherDeviceDeletes
<1>10. CASE Acknowledge \/ Reject
  BY <1>1, <1>10, SettleFetch
<1> QED
  BY <1>2, <1>4, <1>5, <1>6, <1>7, <1>8, <1>9, <1>10 DEF Environment, ClientStep

-----------------------------------------------------------------------------
(* Every step *)

FetchAll == AllInv /\ DatesInv /\ LifeInv /\ FetchInv

LEMMA NextFetchInv ==
  ASSUME FetchAll, AllInv', [Next]_vars
  PROVE  FetchInv'
<1>1. CASE app' # "home"
  BY <1>1, AwayFetch DEF AllInv
<1>2. CASE UNCHANGED vars
  <2>1. UNCHANGED <<written, server, cached, pending, queries, mainQueue, goals, ui, dialog>>
    BY <1>2 DEF vars, clientVars, screenVars
  <2>2. Nameless' <=> Nameless
    BY <2>1 DEF Nameless
  <2> QED
    BY <2>1, <2>2, QuietFetch DEF FetchAll
<1>3. CASE User /\ app' = "home"
  <2>1. ~SignOut /\ ~Relaunch
    BY <1>3 DEF SignOut, Relaunch
  <2> QED
    BY <1>3, <2>1, OpenGoalsFetch, SaveGoalFetch, ScreenStepsFetch, ConfirmFetch DEF User, FetchAll
<1> QED
  BY <1>1, <1>2, <1>3, DeliveryFetch, EnvironmentFetch DEF Next, FetchAll

LEMMA InitFetch == Init => LifeInv /\ FetchInv
<1> SUFFICES ASSUME Init PROVE LifeInv /\ FetchInv
  OBVIOUS
<1>1. DOMAIN pending = {} /\ DOMAIN mainQueue = {} /\ Awaited = {}
  BY DEF Init, ClientInit, Awaited
<1> QED
  BY <1>1 DEF LifeInv, SetsOnce, FetchInv, SavesQueued, FetchOnce, WhileFetching, Fetching,
       AnsweredInTime

\* The list the fetch delivers takes away no row of a document that the server
\* holds and the client knows, whenever it was asked for and answered (fetchGoals,
\* persistGoalToFireStore).
THEOREM FetchKeepsRows == Spec => FetchKeepsStoredRows
<1>1. Init => FetchAll
  BY InitIInv, InitTakenInv, InitLiveInv, InitDates, InitFetch DEF AllInv, FetchAll
<1>2. FetchAll /\ [Next]_vars => FetchAll'
  <2> SUFFICES ASSUME FetchAll, [Next]_vars PROVE FetchAll'
    OBVIOUS
  <2>1. AllInv'
    BY NextInv, NextTakenInv DEF AllInv, FetchAll
  <2>2. DatesInv' /\ LifeInv'
    BY <2>1, NextDates, NextLife DEF AllInv, FetchAll
  <2> QED
    BY <2>1, <2>2, NextFetchInv DEF FetchAll
<1>3. FetchAll /\ [Next]_vars =>
        [FetchDelivered /\ app' = "home" =>
           \A id \in (server \cap cached) \ PendingIds("delete") :
             Listed(written[id].date, goals) => Listed(written[id].date, goals')]_vars
  <2> SUFFICES ASSUME FetchAll, FetchDelivered, NEW id \in server \cap cached,
                      Listed(written[id].date, goals)
               PROVE  Listed(written[id].date, goals')
    OBVIOUS
  <2>1. CASE Ignore
    BY <2>1 DEF Ignore, screenVars, Listed
  <2>2. CASE ~Ignore
    <3>1. PICK rows \in NewestFirst(Head(mainQueue).ids) : Show(rows)
      BY <2>2 DEF FetchDelivered
    <3>2. Arrived("fetch") /\ Arriving.live /\ Head(mainQueue).ok
      BY <2>2 DEF FetchDelivered
    <3>3. /\ mainQueue # <<>> /\ Arriving \in Callback
          /\ 1 \in DOMAIN mainQueue /\ Head(mainQueue) = mainQueue[1]
      BY <3>2, QueuesTyped, TailElements, ArrivingTyped DEF FetchAll, AllInv, Arrived
    <3>4. mainQueue[1].callback = Fetch /\ mainQueue[1].ok
      BY <3>2, <3>3 DEF Arrived, Arriving, Callback, Fetch, FetchDone
    <3>5. written[id].date \in Dates
      BY QueuesTyped DEF FetchAll, AllInv, IInv, StoreInv, Known, Document
    <3>6. id \in mainQueue[1].ids
      BY <3>3, <3>4, <3>5 DEF FetchAll, FetchInv, AnsweredInTime, ListedBefore
    <3>7. \E row \in DOMAIN rows : rows[row] = FetchedGoal(id)
      BY <3>1, <3>3, <3>6 DEF NewestFirst
    <3> QED
      BY <3>1, <3>7 DEF Show, Listed, FetchedGoal
  <2> QED
    BY <2>1, <2>2
<1> QED
  BY <1>1, <1>2, <1>3, PTL DEF Spec, FetchKeepsStoredRows

-----------------------------------------------------------------------------

(* The book.  A document is what the book has for an entry: no two are the  *)
(* same, for their dates differ (DocsInv), so what is discarded is one.     *)

Shown(rows) == {DocumentOf(rows[i]) : i \in DOMAIN rows}

\* No document is shown twice.
EachOnce(rows) == \A i, j \in DOMAIN rows : DocumentOf(rows[i]) = DocumentOf(rows[j]) => i = j

\* The documents of the collection, as this device sees it.
Collected == {written[id] : id \in View(server)}

IsOpen == app = "home" /\ queries = {}

\* The callback that is to come makes the rows what the device sees of the collection.
Completes(c) ==
  \/ /\ c.kind = "fetch" /\ goals = <<>>
     /\ (Queried(c) \/ (Granted(c) /\ Head(mainQueue).ids = View(server)))
  \/ /\ c.kind = "insert" /\ (Queued(c) \/ Granted(c))
     /\ DocumentOf(c.goal) \notin Shown(goals)
     /\ Collected = Shown(goals) \cup {DocumentOf(c.goal)}
  \/ /\ c.kind = "delete" /\ (Queued(c) \/ Granted(c))
     /\ c.row \in DOMAIN goals /\ Collected = Shown(goals) \ {DocumentOf(goals[c.row])}

PageInv ==
  /\ app # "home" => NoneExpected /\ taken = 0
  /\ EachOnce(goals)
  /\ app = "home" =>
       \/ NoneExpected /\ Collected = Shown(goals)
       \/ \E c \in Callback : c.live /\ Completes(c)
  /\ ui = "confirm" => dialog.goal = goals[dialog.row]

BookInv == ReplayInv /\ PageInv

LEMMA ConsShown ==
  ASSUME NEW S, NEW rows \in Seq(S), NEW row \in S
  PROVE  /\ Shown(Cons(row, rows)) = Shown(rows) \cup {DocumentOf(row)}
         /\ EachOnce(rows) /\ DocumentOf(row) \notin Shown(rows) => EachOnce(Cons(row, rows))
<1> DEFINE all == Cons(row, rows)
<1>1. /\ Len(all) = Len(rows) + 1 /\ all[1] = row
      /\ \A k \in 2 .. Len(rows) + 1 : all[k] = rows[k - 1]
      /\ DOMAIN all = 1 .. Len(all) /\ DOMAIN rows = 1 .. Len(rows) /\ Len(rows) \in Nat
  <2>1. all \in Seq(S)
    BY ConsInSeq
  <2> QED BY <2>1, ConsElements, LenProperties
<1> HIDE DEF all
<1>2. /\ \A k \in DOMAIN all : k = 1 \/ (k - 1 \in DOMAIN rows /\ all[k] = rows[k - 1])
      /\ \A k \in DOMAIN rows : k + 1 \in DOMAIN all /\ all[k + 1] = rows[k]
      /\ 1 \in DOMAIN all /\ \A k \in DOMAIN all : k \in Nat
  <2>1. \A k \in DOMAIN rows : k + 1 \in 2 .. Len(rows) + 1 /\ k + 1 - 1 = k
    BY <1>1
  <2> QED BY <1>1, <2>1
<1>3. Shown(all) = Shown(rows) \cup {DocumentOf(row)}
  <2>1. \A doc \in Shown(all) : doc \in Shown(rows) \cup {DocumentOf(row)}
    BY <1>1, <1>2 DEF Shown
  <2>2. \A doc \in Shown(rows) : doc \in Shown(all)
    BY <1>2 DEF Shown
  <2>3. DocumentOf(row) \in Shown(all)
    BY <1>1, <1>2 DEF Shown
  <2> QED BY <2>1, <2>2, <2>3
<1>4. ASSUME EachOnce(rows), DocumentOf(row) \notin Shown(rows),
             NEW i \in DOMAIN all, NEW j \in DOMAIN all, DocumentOf(all[i]) = DocumentOf(all[j])
      PROVE  i = j
  <2>1. \A k \in DOMAIN all : k # 1 => DocumentOf(all[k]) # DocumentOf(row)
    BY <1>2, <1>4 DEF Shown
  <2>2. CASE i = 1 \/ j = 1
    BY <1>1, <1>4, <2>1, <2>2
  <2>3. CASE i # 1 /\ j # 1
    <3>1. i - 1 = j - 1
      BY <1>2, <1>4, <2>3 DEF EachOnce
    <3> QED BY <1>2, <3>1
  <2> QED BY <2>2, <2>3
<1> QED BY <1>3, <1>4 DEF EachOnce, all

LEMMA RemoveAtShown ==
  ASSUME NEW S, NEW rows \in Seq(S), NEW row \in DOMAIN rows, EachOnce(rows)
  PROVE  /\ Shown(RemoveAt(rows, row)) = Shown(rows) \ {DocumentOf(rows[row])}
         /\ EachOnce(RemoveAt(rows, row))
<1> DEFINE rest == RemoveAt(rows, row)
           old(k) == IF k < row THEN k ELSE k + 1
<1>1. /\ Len(rest) = Len(rows) - 1
      /\ \A k \in 1 .. Len(rows) - 1 : rest[k] = IF k < row THEN rows[k] ELSE rows[k + 1]
      /\ DOMAIN rest = 1 .. Len(rest) /\ DOMAIN rows = 1 .. Len(rows) /\ Len(rows) \in Nat
  <2>1. rest \in Seq(S)
    BY RemoveAtInSeq
  <2> QED BY <2>1, RemoveAtElements, LenProperties
<1> HIDE DEF rest
<1>2. \A k \in DOMAIN rest : /\ old(k) \in DOMAIN rows /\ old(k) # row /\ k \in Nat
                             /\ rest[k] = rows[old(k)]
  BY <1>1
<1>3. \A i \in DOMAIN rows : i # row => \E k \in DOMAIN rest : old(k) = i
  <2> SUFFICES ASSUME NEW i \in DOMAIN rows, i # row PROVE \E k \in DOMAIN rest : old(k) = i
    OBVIOUS
  <2>1. CASE i < row
    <3>1. i \in DOMAIN rest /\ old(i) = i
      BY <1>1, <2>1
    <3> QED BY <3>1
  <2>2. CASE i > row
    <3>1. i - 1 \in DOMAIN rest /\ old(i - 1) = i
      BY <1>1, <2>2
    <3> QED BY <3>1
  <2> QED BY <1>1, <2>1, <2>2
<1>4. \A i, k \in DOMAIN rest : old(i) = old(k) => i = k
  BY <1>1
<1> HIDE DEF old
<1>5. Shown(rest) = Shown(rows) \ {DocumentOf(rows[row])}
  <2>1. \A doc \in Shown(rest) : doc \in Shown(rows) /\ doc # DocumentOf(rows[row])
    BY <1>2 DEF Shown, EachOnce
  <2>2. \A doc \in Shown(rows) \ {DocumentOf(rows[row])} : doc \in Shown(rest)
    <3> SUFFICES ASSUME NEW i \in DOMAIN rows, DocumentOf(rows[i]) # DocumentOf(rows[row])
                 PROVE  DocumentOf(rows[i]) \in Shown(rest)
      BY DEF Shown
    <3>1. PICK k \in DOMAIN rest : old(k) = i
      BY <1>3
    <3> QED BY <1>2, <3>1 DEF Shown
  <2> QED BY <2>1, <2>2
<1>6. EachOnce(rest)
  BY <1>2, <1>4 DEF EachOnce
<1> QED BY <1>5, <1>6 DEF rest

LEMMA CompletesSomething ==
  ASSUME NEW c \in Callback, Completes(c) PROVE Expected(c) /\ ~NoneExpected
<1>1. c # NoCallback
  BY GoalsAssumption
<1>2. Queried(c) \/ Queued(c) \/ Granted(c)
  BY DEF Completes
<1>3. Queried(c) => ~NoneExpected
  BY DEF Queried, NoneExpected
<1>4. Queued(c) => ~NoneExpected
  BY <1>1 DEF Queued, NoneExpected, NoneQueued
<1>5. Granted(c) => ~NoneExpected
  <2> SUFFICES ASSUME Granted(c) PROVE mainQueue # <<>>
    BY DEF NoneExpected
  <2>1. PICK ok \in BOOLEAN, ids \in SUBSET DocIds : mainQueue = <<Event(c, ok, ids)>>
    BY DEF Granted, Answered
  <2> QED BY <2>1
<1> QED BY <1>2, <1>3, <1>4, <1>5 DEF Expected, Granted

\* The page of an open book shows the book, and that of a closed one nothing.
LEMMA PageShowsBook ==
  ScreenInv /\ PageInv => PageSoon = IF IsOpen THEN Collected ELSE {}
<1> SUFFICES ASSUME ScreenInv, PageInv PROVE PageSoon = IF IsOpen THEN Collected ELSE {}
  OBVIOUS
<1>1. AwaitedCallbacks = Carried /\ Listing = Shown(goals)
  BY DEF AwaitedCallbacks, Carried, Listing, Shown
<1>2. PageSoon = IF \E i \in DOMAIN mainQueue : mainQueue[i].callback.kind = "fetch"
                   THEN {written[id] : id \in Head(mainQueue).ids}
                   ELSE (Shown(goals)
                           \cup {DocumentOf(c.goal) : c \in {d \in Carried : d.kind = "insert"}})
                          \ {DocumentOf(goals[c.row]) : c \in {d \in Carried :
                                                 d.kind = "delete" /\ d.row \in DOMAIN goals}}
  BY <1>1 DEF PageSoon
<1>3. CASE NoneExpected
  <2>1. Carried = {} /\ mainQueue = <<>> /\ queries = {}
    BY <1>3, NoneCarried DEF NoneExpected
  <2>2. PageSoon = Shown(goals)
    BY <1>2, <2>1
  <2>3. app # "home" => Shown(goals) = {}
    BY DEF ScreenInv, Shown
  <2>4. app = "home" => Collected = Shown(goals)
    BY <1>3, CompletesSomething DEF PageInv
  <2> QED BY <2>1, <2>2, <2>3, <2>4 DEF IsOpen
<1>4. CASE ~NoneExpected
  <2>1. app = "home"
    BY <1>4 DEF PageInv
  <2>2. PICK c \in Callback : Completes(c)
    BY <1>4, <2>1 DEF PageInv
  <2>3. c # NoCallback
    BY GoalsAssumption
  <2>4. CASE Queried(c)
    <3>1. Carried = {} /\ mainQueue = <<>> /\ queries # {} /\ goals = <<>>
      BY <2>2, <2>3, <2>4, OneCarried DEF Completes, Queried, Queued, Granted, Answered
    <3> QED BY <1>2, <3>1 DEF Shown, IsOpen
  <2>5. CASE Queued(c) \/ Granted(c)
    <3>1. Carried = {c} /\ queries = {} /\ ~Queried(c)
      BY <2>3, <2>5, OneCarried DEF Queued, Granted, Answered, Queried
    <3>2. /\ Queued(c) => mainQueue = <<>>
          /\ Granted(c) => DOMAIN mainQueue = {1} /\ mainQueue[1].callback = c
      BY DEF Queued, Granted, Answered, Event
    <3>3. CASE c.kind = "fetch"
      <4>1. Granted(c) /\ Head(mainQueue).ids = View(server)
        BY <2>2, <3>1, <3>3 DEF Completes
      <4> QED BY <1>2, <2>1, <3>1, <3>2, <3>3, <4>1 DEF IsOpen, Collected
    <3>4. CASE c.kind # "fetch"
      <4>1. ~\E i \in DOMAIN mainQueue : mainQueue[i].callback.kind = "fetch"
        BY <2>5, <3>2, <3>4
      <4>2. CASE c.kind = "insert"
        <5>1. PageSoon = Shown(goals) \cup {DocumentOf(c.goal)}
          BY <1>2, <3>1, <4>1, <4>2
        <5> QED BY <2>1, <2>2, <3>1, <4>2, <5>1 DEF Completes, IsOpen
      <4>3. CASE c.kind = "delete"
        <5>1. c.row \in DOMAIN goals /\ Collected = Shown(goals) \ {DocumentOf(goals[c.row])}
          BY <2>2, <4>3 DEF Completes
        <5>2. PageSoon = Shown(goals) \ {DocumentOf(goals[c.row])}
          BY <1>2, <3>1, <4>1, <4>3, <5>1
        <5> QED BY <2>1, <3>1, <5>1, <5>2 DEF IsOpen
      <4> QED BY <2>2, <3>4, <4>2, <4>3 DEF Completes
    <3> QED BY <3>3, <3>4
  <2> QED BY <2>2, <2>4, <2>5 DEF Completes
<1> QED BY <1>3, <1>4

LEMMA PageShowsBookNext ==
  (ScreenInv /\ PageInv => PageSoon = IF IsOpen THEN Collected ELSE {})'
BY PageShowsBook, PTL

\* What may become of the book and of the page that shows it.
Turns ==
  \/ IsOpen' = IsOpen /\ Collected' = Collected
  \/ IsOpen' # IsOpen /\ Collected' = Collected
  \/ /\ IsOpen /\ IsOpen'
     /\ \E entry \in Document : \/ entry \notin Collected /\ Collected' = Collected \cup {entry}
                                \/ entry \in Collected /\ Collected' = Collected \ {entry}
  \/ /\ ~IsOpen /\ ~IsOpen'
     /\ \E entry \in Document : \/ Collected' = Collected \cup {entry}
                                \/ Collected' = Collected \ {entry}

LEMMA TurnsIsABookStep ==
  ASSUME ScreenInv, ScreenInv', PageInv, PageInv', Turns
  PROVE  [Book!Next]_<<{written[id] : id \in View(server)}, app = "home" /\ queries = {}, PageSoon>>
<1>1. /\ PageSoon = IF IsOpen THEN Collected ELSE {}
      /\ PageSoon' = IF IsOpen' THEN Collected' ELSE {}
  BY PageShowsBook, PageShowsBookNext
<1>2. IsOpen \in BOOLEAN /\ IsOpen' \in BOOLEAN
  BY DEF IsOpen
<1>3. (app = "home" /\ queries = {}) = IsOpen /\ (app = "home" /\ queries = {})' = IsOpen'
  BY DEF IsOpen
<1>4. /\ {written[id] : id \in View(server)} = Collected
      /\ {written[id] : id \in View(server)}' = Collected'
  BY DEF Collected
<1>5. CASE UNCHANGED <<IsOpen, Collected>>
  BY <1>1, <1>3, <1>4, <1>5
<1>6. CASE IsOpen' # IsOpen /\ Collected' = Collected
  <2>1. Book!Open \/ Book!Close
    BY <1>1, <1>2, <1>3, <1>4, <1>6 DEF Book!Open, Book!Close
  <2> QED BY <2>1 DEF Book!Next
<1>7. ASSUME IsOpen, IsOpen', NEW entry \in Document,
             entry \notin Collected, Collected' = Collected \cup {entry}
      PROVE  Book!Next
  BY <1>1, <1>3, <1>4, <1>7 DEF Book!Keep, Book!Next
<1>8. ASSUME IsOpen, IsOpen', NEW entry \in Document,
             entry \in Collected, Collected' = Collected \ {entry}
      PROVE  Book!Next
  BY <1>1, <1>3, <1>4, <1>8 DEF Book!Discard, Book!Next
<1>9. ASSUME ~IsOpen, ~IsOpen', NEW entry \in Document,
             Collected' = Collected \cup {entry} \/ Collected' = Collected \ {entry}
      PROVE  Book!Next
  BY <1>1, <1>3, <1>4, <1>9 DEF Book!EditElsewhere, Book!Next
<1> QED BY <1>2, <1>5, <1>6, <1>7, <1>8, <1>9 DEF Turns

-----------------------------------------------------------------------------

BookInvs == AllInv /\ DatesInv /\ CalmInv /\ BookInv

LEMMA ClientInvBook ==
  ASSUME AllInv
  PROVE  ClientInv(Document, Callback, DocIds) /\ GoalsInv
BY ClientInvHere DEF AllInv, GoalsInv

LEMMA ViewKnown == ClientInv(Document, Callback, DocIds) => View(server) \subseteq Known
<1> SUFFICES ASSUME ClientInv(Document, Callback, DocIds) PROVE View(server) \subseteq Known
  OBVIOUS
<1> QED BY ViewIsKnown, ClientInvIs

LEMMA ViewKnownNext ==
  (ClientInv(Document, Callback, DocIds) => View(server) \subseteq Known)'
BY ViewKnown, PTL

\* What a step of the collection makes of the book.
LEMMA CollectedMoves ==
  ASSUME AllInv, DocsInv, \A id \in Known : written'[id] = written[id]
  PROVE  /\ View(server)' = View(server) => Collected' = Collected
         /\ \A id : View(server)' = View(server) \cup {id}
                      => Collected' = Collected \cup {written'[id]}
         /\ \A id \in Known : View(server)' = View(server) \ {id}
                      => Collected' = Collected \ {written[id]}
<1>1. View(server) \subseteq Known
  BY ClientInvBook, ViewKnown
<1>2. \A id \in View(server) : written'[id] = written[id]
  BY <1>1
<1>3. \A a, b \in Known : written[a] = written[b] => a = b
  BY DEF DocsInv
<1> PICK shown : shown = View(server)'
  OBVIOUS
<1>4. Collected' = {written'[id] : id \in shown}
  BY DEF Collected
<1>5. View(server)' = View(server) => Collected' = Collected
  BY <1>2, <1>4 DEF Collected
<1>6. ASSUME NEW id, View(server)' = View(server) \cup {id}
      PROVE  Collected' = Collected \cup {written'[id]}
  BY <1>2, <1>4, <1>6 DEF Collected
<1>7. ASSUME NEW id \in Known, View(server)' = View(server) \ {id}
      PROVE  Collected' = Collected \ {written[id]}
  BY <1>1, <1>2, <1>3, <1>4, <1>7 DEF Collected
<1> QED BY <1>5, <1>6, <1>7

LEMMA PageWhenQuiet ==
  ASSUME PageInv, NoneExpected, app = "home"
  PROVE  Collected = Shown(goals) /\ IsOpen
BY CompletesSomething DEF PageInv, IsOpen, NoneExpected

LEMMA NoRowsNoPage == goals = <<>> => Shown(goals) = {} /\ EachOnce(goals)
BY DEF Shown, EachOnce

LEMMA NoRowsNoPageNext == (goals = <<>> => Shown(goals) = {} /\ EachOnce(goals))'
BY NoRowsNoPage, PTL

\* The client stays as it is, and each row goes on showing its document.
LEMMA ScreenBook ==
  ASSUME BookInv, UNCHANGED <<clientVars, app>>,
         goals = <<>> => goals' = <<>>, DOMAIN goals' = DOMAIN goals,
         \A row \in DOMAIN goals : DocumentOf(goals'[row]) = DocumentOf(goals[row]),
         ui' = "confirm" => dialog'.goal = goals'[dialog'.row]
  PROVE  BookInv' /\ Turns
<1>1. UNCHANGED <<written, server, pending, taken, queries, mainQueue>>
  BY DEF clientVars
<1>2. ReplayInv' /\ View(server)' = View(server)
  BY <1>1, StreamReplays DEF BookInv
<1>3. Shown(goals)' = Shown(goals) /\ (EachOnce(goals) => EachOnce(goals)')
  BY DEF Shown, EachOnce
<1>4. IsOpen' = IsOpen /\ (NoneExpected => NoneExpected') /\ Collected' = Collected
  BY <1>1, <1>2 DEF IsOpen, NoneExpected, NoneQueued, Collected
<1>5. \A c : /\ Queried(c) => Queried(c)'
             /\ Queued(c) => Queued(c)'
             /\ Granted(c) => Granted(c)'
  BY <1>1 DEF Granted, Queried, Queued, Answered, NoneQueued
<1>6. \A c : Completes(c) => Completes(c)'
  BY <1>1, <1>2, <1>3, <1>4, <1>5 DEF Completes
<1>7. PageInv'
  BY <1>1, <1>2, <1>3, <1>4, <1>6 DEF BookInv, PageInv
<1> QED BY <1>2, <1>4, <1>7 DEF BookInv, Turns

LEMMA ScreenStepsBook ==
  ASSUME BookInv,
         \/ OpenForm \/ CancelForm \/ SwipeComplete \/ TouchCheckbox \/ DismissAlert
         \/ CancelDelete \/ SwipeDelete
  PROVE  BookInv' /\ Turns
<1>1. CASE OpenForm \/ CancelForm \/ DismissAlert \/ CancelDelete \/ SwipeDelete
  <2>1. /\ UNCHANGED <<clientVars, app, goals>>
        /\ ui' = "confirm" => dialog'.goal = goals'[dialog'.row]
    BY <1>1 DEF OpenForm, CancelForm, DismissAlert, CancelDelete, SwipeDelete
  <2> QED BY <2>1, ScreenBook
<1>2. CASE SwipeComplete \/ TouchCheckbox
  <2>1. PICK row \in DOMAIN goals : goals' = [goals EXCEPT ![row] = Toggled(@)]
    BY <1>2 DEF SwipeComplete, TouchCheckbox
  <2>2. DocumentOf(Toggled(goals[row])) = DocumentOf(goals[row])
    BY DEF Toggled, LocalGoal, DocumentOf
  <2>3. DOMAIN goals' = DOMAIN goals /\ goals # <<>>
        /\ \A i \in DOMAIN goals : DocumentOf(goals'[i]) = DocumentOf(goals[i])
    BY <2>1, <2>2
  <2>4. UNCHANGED <<clientVars, app>> /\ ui' # "confirm"
    BY <1>2 DEF SwipeComplete, TouchCheckbox, TableUsable
  <2> QED BY <2>3, <2>4, ScreenBook
<1> QED BY <1>1, <1>2

LEMMA OpenBook ==
  ASSUME BookInvs, OpenGoals
  PROVE  BookInv' /\ Turns
<1>1. /\ app = "signedOut" /\ app' = "home" /\ ui' = "list" /\ goals' = <<>>
      /\ NoneExpected /\ UNCHANGED <<written, server, pending, taken, mainQueue>>
      /\ queries' = queries \cup {FetchDone(TRUE)}
  BY DEF OpenGoals, NoScreen, GetDocuments, BookInvs, BookInv, PageInv
<1> PICK c \in Callback : c = FetchDone(TRUE)
  BY DEF FetchDone, Callback
<1>2. ReplayInv' /\ View(server)' = View(server)
  BY <1>1, StreamReplays DEF BookInvs, BookInv
<1>3. Collected' = Collected
  BY <1>1, <1>2 DEF Collected
<1>4. Queried(c)' /\ c.kind = "fetch" /\ c.live
  BY <1>1 DEF FetchDone, Queried, NoneExpected, NoneQueued
<1>5. Completes(c)'
  BY <1>1, <1>4 DEF Completes
<1>6. PageInv'
  BY <1>1, <1>4, <1>5, NoRowsNoPageNext DEF PageInv
<1>7. ~IsOpen /\ ~IsOpen'
  BY <1>1 DEF IsOpen
<1> QED BY <1>2, <1>3, <1>6, <1>7 DEF BookInv, Turns

\* The screen goes, and nothing is to come.
LEMMA AwayBook ==
  ASSUME ReplayInv', View(server)' = View(server), written' = written, app' = "signedOut",
         NoScreen, NoneExpected', taken' = 0
  PROVE  BookInv' /\ Turns
<1>1. /\ goals' = <<>> /\ ui' = "list" /\ Collected' = Collected
      /\ IsOpen' \in BOOLEAN /\ IsOpen \in BOOLEAN
  BY DEF NoScreen, Collected, IsOpen
<1>2. PageInv'
  BY <1>1, NoRowsNoPageNext DEF PageInv
<1> QED BY <1>1, <1>2 DEF BookInv, Turns

LEMMA CloseBook ==
  ASSUME BookInvs, CalmInv', (Quiet /\ SignOut) \/ Relaunch
  PROVE  BookInv' /\ Turns
<1>1. ClientInv(Document, Callback, DocIds)
  BY ClientInvBook DEF BookInvs
<1>2. CASE Quiet /\ SignOut
  <2>1. /\ UNCHANGED <<written, server>> /\ taken' = 0 /\ app' = "signedOut" /\ NoScreen
        /\ pending' = [i \in DOMAIN pending |-> [pending[i] EXCEPT !.callback = Orphaned(@)]]
    BY <1>2 DEF SignOut
  <2>2. NoneExpected'
    BY <2>1 DEF CalmInv
  <2>3. OrphanedWrites
    <3>1. \A w \in Writes(Callback, DocIds) :
            /\ [w EXCEPT !.callback = Orphaned(@)].op = w.op
            /\ [w EXCEPT !.callback = Orphaned(@)].id = w.id
      BY DEF Writes
    <3> QED BY <1>1, <2>1, <3>1, PendingIs DEF OrphanedWrites
  <2> QED BY <2>1, <2>2, <2>3, OrphansReplay, AwayBook DEF BookInvs, BookInv
<1>3. CASE Relaunch
  <2>1. ProcessDies /\ app' = "signedOut" /\ NoScreen /\ taken' = 0 /\ written' = written
    BY <1>3 DEF Relaunch, ProcessDies
  <2>2. NoneExpected' /\ ReplayInv' /\ View(server)' = View(server)
    BY <1>1, <2>1, DeadExpectNothing, DyingReplays DEF BookInvs, BookInv
  <2> QED BY <2>1, <2>2, AwayBook
<1> QED BY <1>2, <1>3

LEMMA SaveBook ==
  ASSUME BookInvs, Quiet, SaveGoal, Unidentified = {}
  PROVE  BookInv' /\ Turns
<1>1. /\ ClientInv(Document, Callback, DocIds) /\ NoneExpected /\ app = "home"
      /\ written \in [DocIds -> Document \cup {NoDoc}] /\ clock \in 0 .. MaxClock
  BY ClientInvBook
     DEF BookInvs, AllInv, IInv, StoreInv, ScreenInv, SaveGoal, Quiet, NoneExpected, NoneQueued
<1>2. PICK title \in Titles :
        Persist(LocalGoal([title |-> title, date |-> clock + 1]))
  BY DEF SaveGoal
<1> PICK doc \in Document : doc = [title |-> title, date |-> clock + 1] /\ doc.date = clock + 1
  <2>1. clock + 1 \in Dates
    BY <1>1, GoalsAssumption DEF SaveGoal, Dates
  <2>2. [title |-> title, date |-> clock + 1] \in Document
    BY <2>1 DEF Document
  <2>3. [title |-> title, date |-> clock + 1].date = clock + 1
    OBVIOUS
  <2> QED BY ONLY <2>2, <2>3
<1> PICK goal \in NewGoal : goal = LocalGoal(doc) /\ DocumentOf(goal) = doc
  <2>1. LocalGoal(doc) \in NewGoal /\ DocumentOf(LocalGoal(doc)) = doc
    BY DEF LocalGoal, NewGoal, Document, DocumentOf
  <2> QED BY <2>1
<1> PICK c \in Callback : c = InsertDone(goal, TRUE)
  BY DEF InsertDone, Callback
<1>3. c.live /\ c.kind = "insert" /\ DocumentOf(c.goal) = doc
  BY DEF InsertDone
<1>4. /\ UNCHANGED <<app, goals>> /\ ui' = "list"
      /\ \E id \in Fresh : SetDocument(id, doc, c)
  BY <1>2 DEF Persist, AddDocument
<1>5. PICK id \in Fresh : SetDocument(id, doc, c)
  BY <1>4
<1>6. /\ ReplayInv' /\ View(server)' = View(server) \cup {id} /\ id \in DocIds
  <2>1. ReplayInv
    BY DEF BookInvs, BookInv
  <2>2. id \in DocIds /\ DocIds \subseteq DocIds
    BY DEF Fresh
  <2>3. NoDoc \notin Document
    BY GoalsAssumption
  <2>4. ClientInv(Document, Callback, DocIds)
    BY <1>1
  <2>5. ReplayInv' /\ View(server)' = View(server) \cup {id}
    BY ONLY <2>1, <2>2, <2>3, <2>4, <1>5, id \in Fresh, doc \in Document, c \in Callback, SetReplays
  <2> QED BY <2>2, <2>5
<1>7. /\ written' = [written EXCEPT ![id] = doc] /\ UNCHANGED <<queries, mainQueue>>
      /\ pending' = Append(pending, Write("set", id, c))
  BY <1>5 DEF SetDocument
<1>8. Queued(c)'
  BY <1>1, <1>6, <1>7, CallExpected
<1>9. Collected = Shown(goals) /\ IsOpen
  BY <1>1, PageWhenQuiet DEF BookInvs, BookInv
<1>10. Collected' = Collected \cup {doc}
  <2>1. written'[id] = doc /\ \A other \in Known : written'[other] = written[other]
    BY <1>1, <1>6, <1>7 DEF Known, Fresh
  <2> QED BY <1>6, <2>1, CollectedMoves DEF BookInvs, DatesInv
<1>11. doc \notin Collected
  <2>1. View(server) \subseteq Known
    BY <1>1, ViewKnown
  <2>2. \A other \in View(server) : written[other].date <= clock
    BY <2>1 DEF BookInvs, DatesInv, DocsInv
  <2>3. ~(clock + 1 <= clock)
    BY <1>1
  <2> QED BY <2>2, <2>3 DEF Collected
<1>12. Completes(c)'
  BY <1>3, <1>4, <1>8, <1>9, <1>10, <1>11 DEF Completes, Shown
<1>13. PageInv'
  BY <1>1, <1>3, <1>4, <1>12 DEF BookInvs, BookInv, PageInv, EachOnce
<1>14. Turns
  BY <1>4, <1>7, <1>9, <1>10, <1>11 DEF Turns, IsOpen
<1> QED BY <1>6, <1>13, <1>14 DEF BookInv

LEMMA ConfirmBook ==
  ASSUME BookInvs, ConfirmDelete
  PROVE  BookInv' /\ Turns
<1>1. /\ ClientInv(Document, Callback, DocIds) /\ NoneExpected /\ app = "home" /\ ui = "confirm"
      /\ dialog \in [row : Nat \ {0}, goal : KnownRow]
      /\ dialog.row \in DOMAIN goals /\ dialog.goal.uuid # NoId
      /\ dialog.goal = goals[dialog.row]
      /\ written \in [DocIds -> Document \cup {NoDoc}]
  BY ClientInvBook
     DEF BookInvs, AllInv, IInv, StoreInv, ScreenInv, CalmInv, BookInv, PageInv, ConfirmDelete
<1> PICK c \in Callback : c = DeleteDone(dialog.row, TRUE)
  BY <1>1 DEF DeleteDone, Callback
<1> PICK id \in Known : id = dialog.goal.uuid
  BY <1>1 DEF KnownRow
<1>2. id \in DocIds /\ written[id] \in Document
  BY <1>1 DEF Known
<1>3. DocumentOf(goals[dialog.row]) = written[id]
  <2>1. goals[dialog.row] = FetchedGoal(id)
    BY <1>1 DEF KnownRow
  <2> QED BY <1>2, <2>1 DEF FetchedGoal, DocumentOf, Document
<1>4. /\ DeleteDocument(id, c) /\ ui' = "list" /\ UNCHANGED <<app, goals>>
  BY <1>1 DEF ConfirmDelete
<1>5. ReplayInv' /\ View(server)' = View(server) \ {id}
  <2>1. ReplayInv
    BY DEF BookInvs, BookInv
  <2>2. id \in DocIds /\ id \in Known /\ DeleteDocument(id, c)
    BY <1>2, <1>4
  <2>3. ClientInv(Document, Callback, DocIds)
    BY <1>1
  <2> QED BY ONLY <2>1, <2>2, <2>3, c \in Callback, DeleteReplays
<1>6. /\ UNCHANGED <<written, queries, mainQueue>>
      /\ pending' = Append(pending, Write("delete", id, c))
  BY <1>4 DEF DeleteDocument
<1>7. Queued(c)'
  BY <1>1, <1>2, <1>6, CallExpected
<1>8. Collected = Shown(goals) /\ IsOpen
  BY <1>1, PageWhenQuiet DEF BookInvs, BookInv
<1>9. Collected' = Collected \ {written[id]}
  BY <1>5, <1>6, CollectedMoves DEF BookInvs, DatesInv
<1>10. c.kind = "delete" /\ c.row = dialog.row /\ c.live
  BY DEF DeleteDone
<1>11. Completes(c)'
  <2>1. c.row \in DOMAIN goals'
    BY <1>1, <1>4, <1>10
  <2>2. Collected' = Shown(goals) \ {DocumentOf(goals[c.row])}
    BY <1>3, <1>8, <1>9, <1>10
  <2>3. Shown(goals)' = Shown(goals)
    BY <1>4 DEF Shown
  <2> QED BY <1>4, <1>7, <1>10, <2>1, <2>2, <2>3 DEF Completes
<1>12. PageInv'
  BY <1>1, <1>4, <1>10, <1>11 DEF BookInvs, BookInv, PageInv, EachOnce
<1>13. written[id] \in Collected
  BY <1>1, <1>3, <1>8 DEF Shown
<1>14. Turns
  BY <1>2, <1>4, <1>6, <1>8, <1>9, <1>13 DEF Turns, IsOpen
<1> QED BY <1>5, <1>12, <1>14 DEF BookInv

\* A fetched list shows each document of the answer once.
LEMMA FetchedEachOnce ==
  ASSUME IInv, DocsInv, NEW ids \in SUBSET Known, NEW rows \in NewestFirst(ids)
  PROVE  Shown(rows) = {written[id] : id \in ids} /\ EachOnce(rows)
<1>1. /\ rows \in [1 .. Cardinality(ids) -> {FetchedGoal(id) : id \in ids}]
      /\ \A id \in ids : \E row \in DOMAIN rows : rows[row] = FetchedGoal(id)
  BY DEF NewestFirst
<1>2. \A id \in ids : DocumentOf(FetchedGoal(id)) = written[id]
  <2>1. \A id \in ids : written[id] \in Document
    BY DEF IInv, StoreInv, Known
  <2> QED BY <2>1 DEF FetchedGoal, DocumentOf, Document
<1>3. Shown(rows) = {written[id] : id \in ids}
  BY <1>1, <1>2 DEF Shown
<1>4. ASSUME NEW i \in DOMAIN rows, NEW j \in DOMAIN rows, DocumentOf(rows[i]) = DocumentOf(rows[j])
      PROVE  i = j
  <2>1. rows[i].date = rows[j].date
    BY <1>4 DEF DocumentOf
  <2>2. OneRow(rows, rows[i].date)
    BY FetchedRows
  <2> QED BY <2>1, <2>2 DEF OneRow
<1> QED BY <1>3, <1>4 DEF EachOnce

LEMMA DeliveryBook ==
  ASSUME BookInvs, MainQueue
  PROVE  BookInv' /\ Turns
<1>1. mainQueue # <<>> /\ ~DrawTable
  BY DEF BookInvs, CalmInv, DrawTable, MainQueue, FetchDelivered, InsertDelivered,
         DeleteDelivered, Arrived
<1>2. PICK c \in Callback : app = "home" /\ c.live /\ Completes(c)
  BY <1>1 DEF BookInvs, BookInv, PageInv, NoneExpected
<1>3. Expected(c) /\ ui # "confirm"
  BY <1>2, CompletesSomething DEF BookInvs, CalmInv
<1>4. Answered(c) /\ Arriving = c
  BY <1>1, <1>3, ExpectedIsNext DEF Arriving
<1>5. Granted(c) /\ ~Queried(c)
  BY <1>1, <1>2 DEF Completes, Queried, Queued
<1>6. goals \in Seq(Goal)
  BY SeqMonotonic DEF BookInvs, AllInv, IInv, ScreenInv, KnownRow
<1>7. ASSUME NEW rows, Show(rows), Shown(rows) = Collected, EachOnce(rows)
      PROVE  BookInv' /\ Turns
  <2>1. /\ TakeEvent /\ UNCHANGED <<written, server, pending, taken, queries, app, ui>>
        /\ goals' = rows
    BY <1>7 DEF Show
  <2>2. ReplayInv' /\ View(server)' = View(server)
    BY <2>1, StreamReplays DEF BookInvs, BookInv
  <2>3. NoneExpected' /\ Collected' = Collected
    BY <1>3, <2>1, <2>2, ExpectedArrives DEF Collected
  <2>4. Shown(goals)' = Collected' /\ EachOnce(goals)'
    BY <1>7, <2>1, <2>3 DEF Shown, EachOnce
  <2>5. PageInv'
    BY <1>2, <1>3, <2>1, <2>3, <2>4 DEF PageInv
  <2>6. IsOpen' = IsOpen
    BY <2>1 DEF IsOpen
  <2> QED BY <2>2, <2>3, <2>5, <2>6 DEF BookInv, Turns
<1>8. CASE FetchDelivered
  <2>1. c.kind = "fetch" /\ Head(mainQueue).ids = View(server)
    BY <1>2, <1>4, <1>5, <1>8 DEF FetchDelivered, Arrived, Arriving, Completes
  <2>2. PICK rows \in NewestFirst(Head(mainQueue).ids) : Show(rows)
    BY <1>2, <1>4, <1>5, <1>8 DEF FetchDelivered, Granted
  <2>3. View(server) \in SUBSET Known
    BY ClientInvBook, ViewKnown DEF BookInvs
  <2>4. Shown(rows) = Collected /\ EachOnce(rows)
    BY <2>1, <2>2, <2>3, FetchedEachOnce DEF Collected, BookInvs, AllInv, DatesInv
  <2> QED BY <1>7, <2>2, <2>4
<1>9. CASE InsertDelivered
  <2>1. /\ c.kind = "insert" /\ DocumentOf(c.goal) \notin Shown(goals)
        /\ Collected = Shown(goals) \cup {DocumentOf(c.goal)}
    BY <1>2, <1>4, <1>9 DEF InsertDelivered, Arrived, Arriving, Completes
  <2>2. Show(Cons(c.goal, goals))
    BY <1>2, <1>4, <1>9 DEF InsertDelivered
  <2>3. c.goal \in Goal
    BY <2>1, NewGoalsAreKnown DEF Callback
  <2>4. Shown(Cons(c.goal, goals)) = Collected /\ EachOnce(Cons(c.goal, goals))
    BY <1>6, <2>1, <2>3, ConsShown DEF BookInvs, BookInv, PageInv
  <2> QED BY <1>7, <2>2, <2>4
<1>10. CASE DeleteDelivered
  <2>1. /\ c.kind = "delete" /\ c.row \in DOMAIN goals
        /\ Collected = Shown(goals) \ {DocumentOf(goals[c.row])}
    BY <1>2, <1>4, <1>10 DEF DeleteDelivered, Arrived, Arriving, Completes
  <2>2. Show(RemoveAt(goals, c.row))
    BY <1>2, <1>4, <1>5, <1>10, <2>1 DEF DeleteDelivered, Granted
  <2>3. Shown(RemoveAt(goals, c.row)) = Collected /\ EachOnce(RemoveAt(goals, c.row))
    BY <1>6, <2>1, RemoveAtShown DEF BookInvs, BookInv, PageInv
  <2> QED BY <1>7, <2>2, <2>3
<1> QED BY <1>1, <1>8, <1>9, <1>10 DEF MainQueue

LEMMA ServerBook ==
  ASSUME BookInvs, FriendlyServer
  PROVE  BookInv' /\ Turns
<1>1. /\ ClientInv(Document, Callback, DocIds) /\ app = "home"
      /\ ServerTakes \/ StreamBreaks \/ Acknowledge \/ AnswerFromServer
      /\ UNCHANGED <<app, goals, ui, dialog>>
  BY ClientInvBook DEF BookInvs, FriendlyServer, screenVars
<1>2. ReplayInv' /\ View(server)' = View(server)
  BY <1>1, ServerReplays DEF BookInvs, BookInv
<1>3. NoneExpected => NoneExpected'
  BY <1>1, ServerExpects, GoalsAssumption
<1>4. Collected' = Collected
  <2>1. written' = written
    BY <1>1 DEF ServerTakes, StreamBreaks, Acknowledge, Settle, AnswerFromServer, Answer
  <2> QED BY <1>2, <2>1 DEF Collected
<1>5. ASSUME NEW c \in Callback, Completes(c) PROVE Completes(c)'
  <2>1. /\ Queried(c) => \/ Queried(c)'
                         \/ Granted(c)' /\ Head(mainQueue)'.ids = View(server)
        /\ Queued(c) => Queued(c)' \/ Granted(c)'
        /\ Granted(c) => Granted(c)' /\ UNCHANGED mainQueue
    BY <1>1, ServerExpects, GoalsAssumption
  <2> QED BY <1>1, <1>2, <1>4, <1>5, <2>1 DEF Completes, Shown
<1>6. PageInv'
  BY <1>1, <1>3, <1>4, <1>5 DEF BookInvs, BookInv, PageInv, EachOnce, Shown
<1>7. IsOpen \in BOOLEAN /\ IsOpen' \in BOOLEAN
  BY DEF IsOpen
<1> QED BY <1>2, <1>4, <1>6, <1>7 DEF BookInv, Turns

LEMMA OthersBook ==
  ASSUME BookInvs, OthersStayAway
  PROVE  BookInv' /\ Turns
<1>1. /\ app # "home" /\ taken = 0 /\ NoneExpected
      /\ UNCHANGED <<app, goals, ui, dialog, pending, taken, queries, mainQueue>>
      /\ OtherDeviceDeletes \/ \E doc \in Document : OtherDeviceAdds(doc)
  <2>1. app # "home" /\ taken = 0 /\ NoneExpected /\ clock \in 0 .. MaxClock
    BY DEF OthersStayAway, BookInvs, BookInv, PageInv, AllInv, IInv, ScreenInv
  <2>2. OtherDeviceDeletes \/ \E doc \in Document : OtherDeviceAdds(doc)
    <3>1. ASSUME clock < MaxClock, NEW title \in Titles
          PROVE  [title |-> title, date |-> clock + 1] \in Document
      BY <2>1, <3>1, GoalsAssumption DEF Document, Dates
    <3> QED BY <3>1 DEF OthersStayAway, OtherDeviceSaves, OtherDeviceErases
  <2> QED BY <2>1, <2>2 DEF OthersStayAway, OtherDeviceSaves, OtherDeviceErases,
                            OtherDeviceAdds, OtherDeviceDeletes, screenVars
<1>2. ClientInv(Document, Callback, DocIds) /\ GoalsInv
  BY ClientInvBook DEF BookInvs
<1>3. /\ ReplayInv'
      /\ \E id \in DocIds : \/ View(server)' = View(server) \cup {id}
                            \/ View(server)' = View(server) \ {id}
                            \/ View(server)' = View(server)
  BY <1>1, <1>2, OthersReplay, GoalsAssumption DEF BookInvs, BookInv
<1>4. ClientInv(Document, Callback, DocIds)' /\ WrittenKept
  BY <1>1, <1>2, OtherDeviceKeeps, GoalsAssumption
<1>5. \A id \in Known : written'[id] = written[id]
  BY <1>4, KnownKept DEF WrittenKept
<1>6. Collected' = Collected \/ \E entry \in Document :
        Collected' = Collected \cup {entry} \/ Collected' = Collected \ {entry}
  <2>1. PICK id \in DocIds : \/ View(server)' = View(server) \cup {id}
                             \/ View(server)' = View(server) \ {id}
                             \/ View(server)' = View(server)
    BY <1>3
  <2>2. CASE View(server)' = View(server)
    BY <1>5, <2>2, CollectedMoves DEF BookInvs, DatesInv
  <2>3. CASE View(server)' = View(server) \cup {id}
    <3>1. View(server)' \subseteq Known' /\ written' \in [DocIds -> Document \cup {NoDoc}]
      BY <1>4, ViewKnownNext, ClientInvIsNext
    <3>2. written'[id] \in Document
      BY <2>3, <3>1 DEF Known
    <3> QED BY <1>5, <2>3, <3>2, CollectedMoves DEF BookInvs, DatesInv
  <2>4. CASE View(server)' = View(server) \ {id} /\ id \in Known
    <3>1. written[id] \in Document
      BY <2>4 DEF Known, BookInvs, AllInv, IInv, StoreInv
    <3> QED BY <1>5, <2>4, <3>1, CollectedMoves DEF BookInvs, DatesInv
  <2>5. CASE View(server)' = View(server) \ {id} /\ id \notin Known
    <3>1. View(server)' = View(server)
      BY <1>2, <2>5, ViewKnown
    <3> QED BY <1>5, <3>1, CollectedMoves DEF BookInvs, DatesInv
  <2> QED BY <2>1, <2>2, <2>3, <2>4, <2>5
<1>7. ~IsOpen /\ ~IsOpen' /\ NoneExpected'
  BY <1>1 DEF IsOpen, NoneExpected, NoneQueued
<1>8. ui # "confirm"
  BY <1>1 DEF BookInvs, AllInv, IInv, ScreenInv
<1>9. PageInv'
  BY <1>1, <1>7, <1>8 DEF BookInvs, BookInv, PageInv, EachOnce
<1> QED BY <1>3, <1>6, <1>7, <1>9 DEF BookInv, Turns

LEMMA NextBook ==
  ASSUME BookInvs, CalmInv', [CalmNext]_vars
  PROVE  BookInv' /\ Turns
<1>1. CASE UNCHANGED vars
  <2>1. UNCHANGED <<clientVars, app, goals>>
        /\ (ui' = "confirm" => dialog'.goal = goals'[dialog'.row])
    BY <1>1 DEF vars, screenVars, BookInvs, BookInv, PageInv
  <2> QED BY <2>1, ScreenBook DEF BookInvs
<1>2. CASE CalmNext
  <2>1. SaveGoal => Unidentified = {}
    BY <1>2 DEF CalmNext, CarefulStep
  <2>2. CASE PatientUser
    BY <2>1, <2>2, OpenBook, CloseBook, SaveBook, ConfirmBook, ScreenStepsBook
       DEF PatientUser, BookInvs
  <2> QED BY <1>2, <2>2, DeliveryBook, ServerBook, OthersBook DEF CalmNext
<1> QED BY <1>1, <1>2

LEMMA InitBook == Init => BookInv /\ Book!Init
<1> SUFFICES ASSUME Init PROVE BookInv /\ Book!Init
  OBVIOUS
<1>1. /\ ClientInit /\ app = "signedOut" /\ ui = "list" /\ taken = 0 /\ goals = <<>>
      /\ queries = {} /\ mainQueue = <<>> /\ pending = <<>>
  BY DEF Init, ClientInit
<1>2. ReplayInv /\ View(server) = {} /\ NoneExpected /\ ~IsOpen
  BY <1>1, InitReplays DEF NoneExpected, NoneQueued, IsOpen
<1>3. PageInv
  BY <1>1, <1>2, NoRowsNoPage DEF PageInv
<1>4. PageSoon = {}
  BY <1>2, <1>3, InitIInv, PageShowsBook DEF IInv
<1> QED BY <1>2, <1>3, <1>4 DEF BookInv, Book!Init, IsOpen

\* Used calmly, the Goals tab implements the book its user takes it for: while the
\* tab is open, every save and every confirmed deletion changes at once what the
\* device sees of the collection and what the list shows, or will show when the
\* answers that are due have come; nothing else changes either; and across sign-outs,
\* kills and relaunches nothing that was kept is lost (fetchGoals,
\* persistGoalToFireStore, deleteGoal, with the client's queue and the server).
THEOREM CalmUseIsTheBook == CalmSpec => IsTheBook
<1>1. CalmSpec => [](AllInv /\ DatesInv) /\ []CalmInv
  <2>1. AllInv => GoalsInv
    BY DEF AllInv, GoalsInv
  <2> QED BY <2>1, CalmIsUse, DatesInvariant, NextCalm, InitCalm, PTL DEF CalmSpec
<1>2. AllInv /\ DatesInv /\ CalmInv /\ CalmInv' /\ (AllInv /\ DatesInv)' /\ BookInv /\ [CalmNext]_vars
        => /\ BookInv'
           /\ [Book!Next]_<<{written[id] : id \in View(server)}, app = "home" /\ queries = {}, PageSoon>>
  BY NextBook, TurnsIsABookStep DEF BookInvs, BookInv, AllInv, IInv
<1> QED BY <1>1, <1>2, InitBook, PTL DEF CalmSpec, IsTheBook, Book!Spec

=============================================================================
