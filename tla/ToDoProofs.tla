------------------------------ MODULE ToDoProofs ------------------------------
(***************************************************************************)
(* Theorems about the Today tab, for every set of ids and titles and every *)
(* bound.                                                                  *)
(*                                                                         *)
(* HeldInv is that of the Journal tab: no rows without a holder.  SavesInv *)
(* is why a task is never listed three times: the fetch lists it once, its *)
(* save's closure lists it once more, and while that closure is still to   *)
(* come, which it does once, one row is the most there is.                 *)
(* CalmInv is calm use: one call at a time, answered on the screen that    *)
(* made it.  BookInv is that of the Journal tab.                           *)
(***************************************************************************)
EXTENDS ToDoProperties, ClientProofs

KnownRow == {t \in Todo : t.doc \in Known /\ (t.uuid # DefaultId => t.uuid = t.doc)}

StoreInv ==
  /\ ClientInv(Titles, Callback, DocIds \cup {DefaultId})
  /\ PendingIds("delete") \subseteq swiped \cup {DefaultId}
  /\ swiped \subseteq DocIds

ScreenInv ==
  /\ app \in {"signedOut", "home", "crashed"}
  /\ session \in 0 .. MaxSessions
  /\ ui \in {"list", "form", "edit"}
  /\ app = "home" => session \in Sessions
  /\ app # "home" => ui = "list"

RowsInv == todos \in [Sessions -> Seq(KnownRow)]

HeldInv == \A s \in Sessions : OnScreen(s) \/ Held(s, mainQueue) \/ todos[s] = <<>>

OneRow(rows, id) ==
  \A i, j \in DOMAIN rows : rows[i].doc = id /\ rows[j].doc = id => i = j

TwoRows(rows, id) ==
  \A i, j, k \in DOMAIN rows :
    rows[i].doc = id /\ rows[j].doc = id /\ rows[k].doc = id => i = j \/ j = k \/ i = k

\* The save of the task is under way for this session's list.
Saving(id, s) == InsertDone(id, s) \in Awaited

SavesInv ==
  \A id \in DocIds, s \in Sessions :
    /\ Once(InsertDone(id, s))
    /\ TwoRows(todos[s], id)
    /\ Saving(id, s) => id \in Known /\ OneRow(todos[s], id)

IInv == StoreInv /\ ScreenInv /\ RowsInv /\ HeldInv /\ SavesInv

-----------------------------------------------------------------------------
(* Rows *)

LEMMA OneIsTwo ==
  ASSUME NEW rows, NEW id, OneRow(rows, id) PROVE TwoRows(rows, id)
BY DEF OneRow, TwoRows

LEMMA EmptyRows ==
  ASSUME NEW id PROVE OneRow(<<>>, id) /\ TwoRows(<<>>, id)
BY DEF OneRow, TwoRows

LEMMA KnownRowsGrow ==
  ASSUME StoreInv', WrittenKept
  PROVE  Known \subseteq Known' /\ KnownRow \subseteq KnownRow' /\ Seq(KnownRow) \subseteq Seq(KnownRow')
<1>1. written' \in [DocIds -> Titles \cup {NoDoc}]
  BY ClientInvIsNext DEF StoreInv
<1>2. Known \subseteq Known'
  BY <1>1, KnownKept
<1>3. KnownRow \subseteq KnownRow'
  BY <1>2 DEF KnownRow
<1> QED
  BY <1>2, <1>3, SeqMonotonic

LEMMA ListsKept ==
  ASSUME RowsInv, StoreInv', WrittenKept, UNCHANGED todos
  PROVE  RowsInv'
BY KnownRowsGrow DEF RowsInv

LEMMA NewList ==
  ASSUME RowsInv, StoreInv', WrittenKept,
         NEW s \in Sessions, NEW rows \in Seq(KnownRow), todos' = [todos EXCEPT ![s] = rows]
  PROVE  RowsInv'
BY KnownRowsGrow DEF RowsInv

\* A row of the table is one of its list.
LEMMA RowIsKnown ==
  ASSUME RowsInv, NEW s \in Sessions, NEW row \in DOMAIN todos[s]
  PROVE  todos[s][row] \in KnownRow /\ row \in Nat \ {0} /\ todos[s] \in Seq(KnownRow)
<1>1. PICK rows \in Seq(KnownRow) : rows = todos[s]
  BY DEF RowsInv
<1> QED
  BY <1>1, LenProperties, ElementOfSeq

\* A document nobody has written yet is shown by no row.
LEMMA FreshIsNotShown ==
  ASSUME RowsInv, NEW s \in Sessions, NEW id \in Fresh
  PROVE  OneRow(todos[s], id)
<1>1. id \notin Known
  BY DEF Fresh, Known
<1>2. \A row \in DOMAIN todos[s] : todos[s][row].doc # id
  BY <1>1, RowIsKnown DEF KnownRow
<1> QED
  BY <1>2 DEF OneRow

-----------------------------------------------------------------------------
(* Controllers *)

\* The callback is of a closure that holds the session's controller.
Of(c, s) == c # NoCallback /\ c.session = s

LEMMA HeldIsAwaited ==
  ASSUME ClientInv(Titles, Callback, DocIds \cup {DefaultId}), NEW s
  PROVE  Held(s, mainQueue) <=> \E c \in Awaited : Of(c, s)
<1>1. \A c \in queries : c # NoCallback
  BY ClientInvIs, ToDoAssumption
<1>2. \A i \in DOMAIN mainQueue : mainQueue[i].callback # NoCallback
  <2> TAKE i \in DOMAIN mainQueue
  <2>1. mainQueue[i] \in Events(Callback)
    BY ClientInvIs, LenProperties, ElementOfSeq
  <2> QED
    BY <2>1, ToDoAssumption DEF Events
<1> QED
  BY <1>1, <1>2 DEF Held, Awaited, Of

LEMMA HeldIsAwaitedNext ==
  ASSUME ClientInv(Titles, Callback, DocIds \cup {DefaultId})', NEW s
  PROVE  Held(s, mainQueue)' <=> \E c \in Awaited' : Of(c, s)
<1>1. \A c \in queries' : c # NoCallback
  BY ClientInvIsNext, ToDoAssumption
<1>2. \A i \in DOMAIN mainQueue' : mainQueue'[i].callback # NoCallback
  <2> TAKE i \in DOMAIN mainQueue'
  <2>1. mainQueue'[i] \in Events(Callback)
    BY ClientInvIsNext, LenProperties, ElementOfSeq
  <2> QED
    BY <2>1, ToDoAssumption DEF Events
<1> QED
  BY <1>1, <1>2 DEF Held, Awaited, Of

LEMMA HeldGrows ==
  ASSUME StoreInv, StoreInv', Awaited \subseteq Awaited' \cup {NoCallback},
         NEW s, Held(s, mainQueue)
  PROVE  Held(s, mainQueue)'
BY HeldIsAwaited, HeldIsAwaitedNext DEF StoreInv, Of

LEMMA HoldersKept ==
  ASSUME StoreInv, StoreInv', HeldInv, Awaited \subseteq Awaited' \cup {NoCallback},
         UNCHANGED <<app, session>>, \A s \in Sessions : todos[s] = <<>> => todos'[s] = <<>>
  PROVE  HeldInv'
BY HeldGrows DEF HeldInv, OnScreen

LEMMA InsertIsCallback ==
  ASSUME NEW id \in DocIds, NEW s \in Sessions
  PROVE  InsertDone(id, s) \in Callback /\ InsertDone(id, s) # NoCallback
BY ToDoAssumption DEF InsertDone, Callback

\* No save begins, and the rows are the same.
LEMMA SavesKept ==
  ASSUME StoreInv', WrittenKept, SavesInv, UNCHANGED todos,
         \A id \in DocIds, s \in Sessions :
           Once(InsertDone(id, s))' /\ (Saving(id, s)' => Saving(id, s))
  PROVE  SavesInv'
BY KnownRowsGrow DEF SavesInv

-----------------------------------------------------------------------------
(* Parts of actions that several of them share *)

LEMMA InitInv == Init => IInv
<1> SUFFICES ASSUME Init PROVE IInv
  OBVIOUS
<1>1. StoreInv /\ Awaited = {}
  BY InitClientInv DEF Init, StoreInv
<1>2. ScreenInv
  BY ToDoAssumption DEF Init, ScreenInv
<1>3. RowsInv /\ HeldInv
  BY EmptySeq DEF Init, RowsInv, HeldInv, NoRows
<1>4. SavesInv
  BY <1>1, EmptyRows DEF SavesInv, Saving, Once, Init, ClientInit, NoRows
<1> QED
  BY <1>1, <1>2, <1>3, <1>4 DEF IInv

\* The client and the history are untouched.
LEMMA StoreUntouched ==
  ASSUME StoreInv, UNCHANGED <<clientVars, swiped>>
  PROVE  /\ StoreInv' /\ WrittenKept /\ Awaited' = Awaited
         /\ \A c : Once(c) => Once(c)'
<1>1. ClientInv(Titles, Callback, DocIds \cup {DefaultId})'
  BY DEF StoreInv, clientVars, ClientInv, ClientTypeOK, Known, PendingIds
<1>2. PendingIds("delete")' = PendingIds("delete")
  BY DEF clientVars, PendingIds
<1>3. \A c : Once(c) => Once(c)'
  BY DEF clientVars, Once
<1> QED
  BY <1>1, <1>2, <1>3 DEF StoreInv, WrittenKept, Awaited, clientVars

\* The process ends, and the lists with it.
LEMMA Dies ==
  ASSUME StoreInv, ProcessDies, UNCHANGED swiped, todos' = NoRows
  PROVE  StoreInv' /\ RowsInv' /\ HeldInv' /\ SavesInv'
<1>1. /\ ClientInv(Titles, Callback, DocIds \cup {DefaultId})' /\ UNCHANGED <<written, server>>
      /\ PendingIds("delete")' \subseteq PendingIds("delete")
      /\ Awaited' \subseteq {NoCallback}
  BY DyingKeeps DEF StoreInv
<1>2. StoreInv'
  BY <1>1 DEF StoreInv
<1>3. \A s \in Sessions : todos'[s] = <<>>
  BY DEF NoRows
<1>4. RowsInv' /\ HeldInv'
  BY <1>3, EmptySeq DEF RowsInv, HeldInv, NoRows
<1>5. ASSUME NEW id \in DocIds, NEW s \in Sessions
      PROVE  Once(InsertDone(id, s))' /\ ~Saving(id, s)'
  <2>1. InsertDone(id, s) \notin Awaited'
    BY <1>1, InsertIsCallback
  <2> QED
    BY <2>1 DEF Saving, Once, Awaited
<1>6. SavesInv'
  BY <1>3, <1>5, EmptyRows DEF SavesInv
<1> QED
  BY <1>2, <1>4, <1>6

LEMMA CrashInv ==
  ASSUME IInv, Crash, UNCHANGED swiped
  PROVE  IInv'
<1>1. ScreenInv'
  BY ToDoAssumption DEF Crash, ScreenInv
<1> QED
  BY <1>1, Dies DEF Crash, IInv

-----------------------------------------------------------------------------
(* The session *)

LEMMA OpenTodayInv ==
  ASSUME IInv, OpenToday
  PROVE  IInv'
<1> DEFINE c == FetchDone(session + 1)
<1>1. session + 1 \in Sessions /\ app = "signedOut" /\ app' = "home" /\ session' = session + 1
      /\ UNCHANGED <<todos, ui, swiped>>
  BY ToDoAssumption DEF OpenToday, IInv, ScreenInv, Sessions
<1>2. c \in Callback /\ \A id \in DocIds, s \in Sessions : InsertDone(id, s) # c
  BY <1>1 DEF FetchDone, InsertDone, Callback
<1>3. GetDocuments(c)
  BY DEF OpenToday
<1>4. /\ ClientInv(Titles, Callback, DocIds \cup {DefaultId})'
      /\ UNCHANGED <<written, server, pending>> /\ Awaited \subseteq Awaited'
  BY <1>2, <1>3, GetDocumentsKeeps DEF IInv, StoreInv
<1>5. StoreInv' /\ WrittenKept
  BY <1>1, <1>4 DEF IInv, StoreInv, WrittenKept, PendingIds
<1>6. ScreenInv'
  BY <1>1, ToDoAssumption DEF IInv, ScreenInv, Sessions
<1>7. HeldInv'
  BY <1>1, <1>4, <1>5, HeldGrows DEF IInv, HeldInv, OnScreen
<1>8. queries' = queries \cup {c} /\ UNCHANGED <<pending, mainQueue>>
  BY <1>3 DEF GetDocuments
<1> HIDE DEF c
<1>9. \A id \in DocIds, s \in Sessions :
         Once(InsertDone(id, s))' /\ (Saving(id, s)' => Saving(id, s))
  BY <1>2, <1>8 DEF IInv, SavesInv, Once, Saving, Awaited
<1> QED
  BY <1>1, <1>5, <1>6, <1>7, <1>9, ListsKept, SavesKept DEF IInv

LEMMA SignOutInv ==
  ASSUME IInv, SignOut
  PROVE  IInv'
<1>1. app = "home" /\ session \in Sessions
      /\ app' = "signedOut" /\ ui' = "list" /\ UNCHANGED <<session, swiped>> /\ StreamsStop
  BY DEF SignOut, IInv, ScreenInv
<1>2. /\ ClientInv(Titles, Callback, DocIds \cup {DefaultId})'
      /\ UNCHANGED <<written, server, queries, pending, mainQueue>>
  BY <1>1, StreamsStopKeeps DEF IInv, StoreInv
<1>3. StoreInv' /\ WrittenKept /\ Awaited' = Awaited
      /\ \A id \in DocIds, s \in Sessions :
           Once(InsertDone(id, s))' /\ (Saving(id, s)' => Saving(id, s))
  BY <1>1, <1>2 DEF IInv, StoreInv, WrittenKept, PendingIds, Awaited, SavesInv, Once, Saving
<1>4. ScreenInv'
  BY <1>1 DEF IInv, ScreenInv
<1>5. CASE Held(session, mainQueue)
  <2>1. UNCHANGED todos
    BY <1>5 DEF SignOut
  <2>2. HeldInv'
    BY <1>1, <1>3, <1>5, <2>1, HeldGrows DEF IInv, HeldInv, OnScreen
  <2> QED
    BY <1>3, <1>4, <2>1, <2>2, ListsKept, SavesKept DEF IInv
<1>6. CASE ~Held(session, mainQueue)
  <2>1. todos' = [todos EXCEPT ![session] = <<>>]
    BY <1>6 DEF SignOut
  <2>2. RowsInv'
    BY <1>1, <1>3, <2>1, EmptySeq, NewList DEF IInv
  <2>3. \A s \in Sessions : todos'[s] = IF s = session THEN <<>> ELSE todos[s]
    BY <1>1, <2>1 DEF IInv, RowsInv
  <2>4. HeldInv'
    BY <1>3, <2>3, HeldGrows DEF IInv, HeldInv, OnScreen
  <2>5. SavesInv'
    BY <1>3, <2>3, EmptyRows, KnownRowsGrow DEF IInv, SavesInv
  <2> QED
    BY <1>3, <1>4, <2>2, <2>4, <2>5 DEF IInv
<1> QED
  BY <1>5, <1>6

LEMMA RelaunchInv ==
  ASSUME IInv, Relaunch
  PROVE  IInv'
<1>1. ScreenInv'
  BY ToDoAssumption DEF Relaunch, ScreenInv
<1> QED
  BY <1>1, Dies DEF Relaunch, IInv

-----------------------------------------------------------------------------
(* The form and the rows *)

LEMMA ScreenStepsInv ==
  ASSUME IInv, OpenForm \/ TapRow \/ CancelForm
  PROVE  IInv'
<1>1. UNCHANGED <<clientVars, app, session, todos, swiped>> /\ app = "home"
      /\ ui' \in {"list", "form", "edit"}
  BY DEF OpenForm, TapRow, TableUsable, CancelForm
<1>2. /\ StoreInv' /\ WrittenKept /\ Awaited' = Awaited
      /\ \A c : Once(c) => Once(c)'
  BY <1>1, StoreUntouched DEF IInv
<1>3. ScreenInv'
  BY <1>1 DEF IInv, ScreenInv
<1>4. \A id \in DocIds, s \in Sessions :
         Once(InsertDone(id, s))' /\ (Saving(id, s)' => Saving(id, s))
  BY <1>2 DEF IInv, SavesInv, Saving
<1> QED
  BY <1>1, <1>2, <1>3, <1>4, ListsKept, HoldersKept, SavesKept DEF IInv

LEMMA ToggleInv ==
  ASSUME IInv, ToggleComplete
  PROVE  IInv'
<1>1. UNCHANGED <<clientVars, app, session, ui, swiped>> /\ app = "home" /\ session \in Sessions
  BY DEF ToggleComplete, TableUsable, IInv, ScreenInv
<1>2. /\ StoreInv' /\ WrittenKept /\ Awaited' = Awaited
      /\ \A c : Once(c) => Once(c)'
  BY <1>1, StoreUntouched DEF IInv
<1>3. ScreenInv'
  BY <1>1 DEF IInv, ScreenInv
<1>4. PICK row \in DOMAIN todos[session] :
        todos' = [todos EXCEPT ![session] =
                    [todos[session] EXCEPT ![row] = Toggled(todos[session][row])]]
  BY DEF ToggleComplete
<1>5. todos[session][row] \in KnownRow /\ todos[session] \in Seq(KnownRow)
  BY <1>1, RowIsKnown DEF IInv
<1> DEFINE rows == [todos[session] EXCEPT ![row] = Toggled(todos[session][row])]
<1>6. Toggled(todos[session][row]) \in KnownRow
      /\ Toggled(todos[session][row]).doc = todos[session][row].doc
  BY <1>5 DEF Toggled, LocalTodo, KnownRow, Todo
<1>7. rows \in Seq(KnownRow)
  BY <1>5, <1>6, ReplaceInSeq
<1>8. DOMAIN rows = DOMAIN todos[session]
      /\ \A i \in DOMAIN rows : rows[i].doc = todos[session][i].doc
  BY <1>6
<1>9. \A s \in Sessions : todos'[s] = IF s = session THEN rows ELSE todos[s]
  BY <1>1, <1>4 DEF IInv, RowsInv
<1> HIDE DEF rows
<1>10. RowsInv'
  BY <1>1, <1>2, <1>4, <1>7, NewList DEF IInv, rows
<1>11. HeldInv'
  BY <1>1, <1>2, <1>9, HoldersKept DEF IInv, HeldInv, Held, OnScreen, clientVars
<1>12. \A id : /\ OneRow(todos[session], id) => OneRow(rows, id)
               /\ TwoRows(todos[session], id) => TwoRows(rows, id)
  BY <1>8 DEF OneRow, TwoRows
<1>13. SavesInv'
  BY <1>1, <1>2, <1>9, <1>12, KnownRowsGrow DEF IInv, SavesInv, Saving
<1> QED
  BY <1>2, <1>3, <1>10, <1>11, <1>13 DEF IInv

LEMMA SaveTaskInv ==
  ASSUME IInv, SaveTask
  PROVE  IInv'
<1>1. app = "home" /\ ui' = "list" /\ session \in Sessions
      /\ UNCHANGED <<app, session, todos, swiped>>
  BY DEF SaveTask, IInv, ScreenInv
<1>2. PICK id \in Fresh, title \in Titles : SetDocument(id, title, InsertDone(id, session))
  BY DEF SaveTask
<1> DEFINE c == InsertDone(id, session)
<1>3. c \in Callback /\ id \in DocIds /\ id \in DocIds \cup {DefaultId} /\ id \notin Known
  BY <1>1 DEF InsertDone, Callback, Fresh, Known
<1>4. /\ ClientInv(Titles, Callback, DocIds \cup {DefaultId})' /\ WrittenKept
      /\ PendingIds("delete")' \subseteq PendingIds("delete")
      /\ Awaited \subseteq Awaited'
  BY <1>2, <1>3, SetDocumentKeeps, ToDoAssumption DEF IInv, StoreInv
<1>5. StoreInv'
  BY <1>1, <1>4 DEF IInv, StoreInv
<1>6. ScreenInv'
  BY <1>1 DEF IInv, ScreenInv
<1>7. /\ pending' = Append(pending, Write("set", id, c)) /\ UNCHANGED <<queries, mainQueue>>
      /\ written'[id] = title
  BY <1>2, <1>3, ClientInvIs DEF SetDocument, IInv, StoreInv
<1>8. id \in Known'
  BY <1>2, <1>3, <1>7, ToDoAssumption DEF Known
<1>9. c \notin Awaited
  BY <1>1, <1>3 DEF IInv, SavesInv, Saving
<1>10. \A d \in DocIds, s \in Sessions : InsertDone(d, s) = c <=> d = id /\ s = session
  BY <1>3 DEF InsertDone
<1> HIDE DEF c
<1>11. ASSUME NEW d \in DocIds, NEW s \in Sessions
       PROVE  /\ Once(InsertDone(d, s))' /\ TwoRows(todos[s], d)'
              /\ Saving(d, s)' => (d \in Known /\ OneRow(todos[s], d))'
  <2>1. Once(InsertDone(d, s))
    BY DEF IInv, SavesInv
  <2>2. Once(InsertDone(d, s))' /\ Awaited' \subseteq Awaited \cup {c}
    <3>1. ClientInv(Titles, Callback, DocIds \cup {DefaultId})
      BY DEF IInv, StoreInv
    <3>2. PICK other : other = InsertDone(d, s)
      OBVIOUS
    <3>3. Once(other)' /\ Awaited' \subseteq Awaited \cup {c}
      BY ONLY <1>3, <1>7, <1>9, <2>1, <3>1, <3>2, QueuedOnce
    <3> QED BY <3>2, <3>3
  <2>3. CASE d = id /\ s = session
    BY <1>1, <1>2, <1>8, <2>2, <2>3, FreshIsNotShown, OneIsTwo DEF IInv
  <2>4. CASE ~(d = id /\ s = session)
    BY <1>1, <1>4, <1>5, <1>10, <2>2, <2>4, KnownRowsGrow DEF IInv, SavesInv, Saving
  <2> QED
    BY <2>3, <2>4
<1>12. SavesInv'
  BY <1>11 DEF SavesInv
<1> QED
  BY <1>1, <1>4, <1>5, <1>6, <1>12, ListsKept, HoldersKept DEF IInv

LEMMA SwipeDeleteInv ==
  ASSUME IInv, SwipeDelete
  PROVE  IInv'
<1>1. app = "home" /\ session \in Sessions /\ UNCHANGED <<app, session, todos, ui>>
  BY DEF SwipeDelete, TableUsable, screenVars, IInv, ScreenInv
<1>2. PICK row \in DOMAIN todos[session] :
        /\ DeleteDocument(todos[session][row].uuid, DeleteDone(row, session))
        /\ swiped' = swiped \cup {todos[session][row].doc}
  BY DEF SwipeDelete
<1> DEFINE id == todos[session][row].uuid
           c == DeleteDone(row, session)
<1>3. todos[session][row] \in KnownRow /\ row \in Nat \ {0}
  BY <1>1, RowIsKnown DEF IInv
<1>4. id \in DocIds \cup {DefaultId} /\ id \in swiped' \cup {DefaultId} /\ swiped' \subseteq DocIds
  BY <1>2, <1>3 DEF KnownRow, Todo, IInv, StoreInv
<1>5. c \in Callback /\ \A d \in DocIds, s \in Sessions : InsertDone(d, s) # c
  BY <1>1, <1>3 DEF DeleteDone, InsertDone, Callback
<1>6. /\ ClientInv(Titles, Callback, DocIds \cup {DefaultId})' /\ UNCHANGED <<written, server>>
      /\ PendingIds("delete")' \subseteq PendingIds("delete") \cup {id}
      /\ Awaited \subseteq Awaited'
  BY <1>2, <1>4, <1>5, DeleteDocumentKeeps DEF IInv, StoreInv
<1>7. StoreInv' /\ WrittenKept
  BY <1>2, <1>4, <1>6 DEF IInv, StoreInv, WrittenKept
<1>8. ScreenInv'
  BY <1>1 DEF IInv, ScreenInv
<1>9. pending' = Append(pending, Write("delete", id, c)) /\ UNCHANGED <<queries, mainQueue>>
  BY <1>2 DEF DeleteDocument
<1> HIDE DEF id, c
<1>10. ASSUME NEW d \in DocIds, NEW s \in Sessions
       PROVE  Once(InsertDone(d, s))' /\ (Saving(d, s)' => Saving(d, s))
  <2>1. Once(InsertDone(d, s)) /\ InsertDone(d, s) # c
    BY <1>5 DEF IInv, SavesInv
  <2>2. Once(InsertDone(d, s))' /\ Awaited' \subseteq Awaited \cup {c}
    BY <1>4, <1>5, <1>9, <2>1, QueuedOnce DEF IInv, StoreInv
  <2> QED
    BY <2>1, <2>2 DEF Saving
<1> QED
  BY <1>1, <1>6, <1>7, <1>8, <1>10, ListsKept, HoldersKept, SavesKept DEF IInv

-----------------------------------------------------------------------------
(* Deliveries *)

LEMMA FetchedRows ==
  ASSUME NEW ids \in SUBSET Known, NEW rows \in InIdOrder(ids)
  PROVE  rows \in Seq(KnownRow) /\ \A id : OneRow(rows, id)
<1>1. Cardinality(ids) \in Nat
  BY ToDoAssumption, FS_Subset, FS_CardinalityType DEF Known
<1>2. \A id \in ids : FetchedTodo(id) \in KnownRow /\ FetchedTodo(id).doc \in Nat
  BY ToDoAssumption DEF FetchedTodo, KnownRow, Todo, Known
<1>3. /\ rows \in [1 .. Cardinality(ids) -> {FetchedTodo(id) : id \in ids}]
      /\ \A i, j \in DOMAIN rows : i < j => rows[i].doc < rows[j].doc
  BY DEF InIdOrder
<1>4. rows \in [1 .. Cardinality(ids) -> KnownRow] /\ \A i \in DOMAIN rows : rows[i].doc \in Nat
  BY <1>2, <1>3
<1>5. rows \in Seq(KnownRow)
  BY <1>1, <1>4, IsASeq
<1>6. ASSUME NEW i \in DOMAIN rows, NEW j \in DOMAIN rows, rows[i].doc = rows[j].doc PROVE i = j
  <2>1. i \in Nat /\ j \in Nat /\ rows[i].doc \in Nat
    BY <1>1, <1>3, <1>4
  <2>2. ~(i < j) /\ ~(j < i)
    BY <1>3, <1>4, <1>6, <2>1
  <2> QED
    BY <2>1, <2>2
<1> QED
  BY <1>5, <1>6 DEF OneRow

LEMMA InsertedRow ==
  ASSUME NEW rows \in Seq(KnownRow), NEW doc \in Known
  PROVE  /\ Cons(LocalTodo(doc), rows) \in Seq(KnownRow)
         /\ OneRow(rows, doc) => TwoRows(Cons(LocalTodo(doc), rows), doc)
         /\ \A id : id # doc =>
              /\ OneRow(rows, id) => OneRow(Cons(LocalTodo(doc), rows), id)
              /\ TwoRows(rows, id) => TwoRows(Cons(LocalTodo(doc), rows), id)
<1> DEFINE row == LocalTodo(doc)
           all == Cons(row, rows)
<1>1. row \in KnownRow /\ row.doc = doc
  BY DEF LocalTodo, KnownRow, Todo, Known
<1>2. all \in Seq(KnownRow)
  BY <1>1, ConsInSeq
<1>3. /\ Len(all) = Len(rows) + 1 /\ all[1] = row
      /\ \A k \in 2 .. Len(rows) + 1 : all[k] = rows[k - 1]
  BY <1>1, ConsElements
<1>4. DOMAIN all = 1 .. Len(all) /\ DOMAIN rows = 1 .. Len(rows) /\ Len(rows) \in Nat
  BY <1>2, LenProperties
<1> HIDE DEF row, all
<1>5. \A i \in DOMAIN all : i # 1 => i \in Nat /\ i - 1 \in DOMAIN rows /\ all[i].doc = rows[i - 1].doc
  BY <1>3, <1>4
<1>6. all[1].doc = doc /\ 1 \in DOMAIN all /\ \A i \in DOMAIN all : i \in Nat
  BY <1>1, <1>3, <1>4
<1>7. OneRow(rows, doc) => TwoRows(all, doc)
  <2> SUFFICES ASSUME OneRow(rows, doc),
                      NEW i \in DOMAIN all, NEW j \in DOMAIN all, NEW k \in DOMAIN all,
                      all[i].doc = doc, all[j].doc = doc, all[k].doc = doc,
                      i # j, j # k, i # k
               PROVE  FALSE
    BY DEF TwoRows
  <2>1. ASSUME NEW m \in DOMAIN all, NEW n \in DOMAIN all, m # 1, n # 1,
               all[m].doc = doc, all[n].doc = doc
        PROVE  m = n
    <3>1. m - 1 = n - 1
      BY <1>5, <2>1 DEF OneRow
    <3> QED
      BY <1>6, <3>1
  <2> QED
    BY <2>1
<1>8. ASSUME NEW id, id # doc
      PROVE  /\ OneRow(rows, id) => OneRow(all, id)
             /\ TwoRows(rows, id) => TwoRows(all, id)
  <2>1. \A i \in DOMAIN all : all[i].doc = id =>
          i \in Nat /\ i - 1 \in DOMAIN rows /\ rows[i - 1].doc = id
    BY <1>5, <1>6, <1>8
  <2>2. OneRow(rows, id) => OneRow(all, id)
    <3> SUFFICES ASSUME OneRow(rows, id), NEW i \in DOMAIN all, NEW j \in DOMAIN all,
                        all[i].doc = id, all[j].doc = id
                 PROVE  i = j
      BY DEF OneRow
    <3>1. i \in Nat /\ j \in Nat /\ i - 1 = j - 1
      BY <2>1 DEF OneRow
    <3> QED
      BY <3>1
  <2>3. TwoRows(rows, id) => TwoRows(all, id)
    <3> SUFFICES ASSUME TwoRows(rows, id),
                        NEW i \in DOMAIN all, NEW j \in DOMAIN all, NEW k \in DOMAIN all,
                        all[i].doc = id, all[j].doc = id, all[k].doc = id
                 PROVE  i = j \/ j = k \/ i = k
      BY DEF TwoRows
    <3>1. i \in Nat /\ j \in Nat /\ k \in Nat
          /\ (i - 1 = j - 1 \/ j - 1 = k - 1 \/ i - 1 = k - 1)
      BY <2>1 DEF TwoRows
    <3> QED
      BY <3>1
  <2> QED
    BY <2>2, <2>3
<1> QED
  BY <1>2, <1>7, <1>8 DEF row, all

LEMMA RowsThatStay ==
  ASSUME NEW rows \in Seq(KnownRow), NEW row \in DOMAIN rows
  PROVE  /\ RemoveAt(rows, row) \in Seq(KnownRow)
         /\ \A id : /\ OneRow(rows, id) => OneRow(RemoveAt(rows, row), id)
                    /\ TwoRows(rows, id) => TwoRows(RemoveAt(rows, row), id)
<1> DEFINE rest == RemoveAt(rows, row)
           From(i) == IF i < row THEN i ELSE i + 1
<1>1. rest \in Seq(KnownRow)
  BY RemoveAtInSeq
<1>2. /\ Len(rest) = Len(rows) - 1
      /\ \A k \in 1 .. Len(rows) - 1 : rest[k] = IF k < row THEN rows[k] ELSE rows[k + 1]
  BY RemoveAtElements
<1>3. DOMAIN rest = 1 .. Len(rest) /\ DOMAIN rows = 1 .. Len(rows) /\ Len(rows) \in Nat
      /\ row \in 1 .. Len(rows)
  BY <1>1, LenProperties
<1> HIDE DEF rest
<1>4. \A i \in DOMAIN rest : From(i) \in DOMAIN rows /\ rest[i] = rows[From(i)]
  BY <1>2, <1>3
<1>5. \A i, j \in DOMAIN rest : From(i) = From(j) => i = j
  BY <1>2, <1>3
<1> HIDE DEF From
<1>6. \A id : /\ OneRow(rows, id) => OneRow(rest, id)
              /\ TwoRows(rows, id) => TwoRows(rest, id)
  BY <1>4, <1>5 DEF OneRow, TwoRows
<1> QED
  BY <1>1, <1>6 DEF rest

\* A controller's list is replaced by a good one, or goes with its controller.
LEMMA ShowsInv ==
  ASSUME IInv, NEW rows \in Seq(KnownRow), Shows(rows), UNCHANGED swiped,
         \A id \in DocIds :
           /\ TwoRows(rows, id)
           /\ Saving(id, Arriving.session) /\ Arriving # InsertDone(id, Arriving.session)
                => OneRow(rows, id)
  PROVE  IInv'
<1>1. /\ TakeEvent
      /\ UNCHANGED <<written, server, cached, pending, taken, queries, app, session, ui>>
      /\ todos' = [todos EXCEPT ![Arriving.session] =
                     IF OnScreen(Arriving.session) \/ Held(Arriving.session, Tail(mainQueue))
                       THEN rows ELSE <<>>]
  BY DEF Shows
<1>2. /\ ClientInv(Titles, Callback, DocIds \cup {DefaultId})'
      /\ Awaited \subseteq Awaited' \cup {Arriving}
      /\ Head(mainQueue) \in Events(Callback)
  BY <1>1, TakeEventKeeps DEF IInv, StoreInv, Arriving
<1>3. StoreInv' /\ WrittenKept
  BY <1>1, <1>2 DEF IInv, StoreInv, WrittenKept, PendingIds
<1>4. ScreenInv'
  BY <1>1 DEF IInv, ScreenInv
<1>5. Arriving.session \in Sessions
  BY <1>2 DEF Events, Callback, Arriving
<1> DEFINE new == IF OnScreen(Arriving.session) \/ Held(Arriving.session, Tail(mainQueue))
                    THEN rows ELSE <<>>
<1>6. new \in Seq(KnownRow) /\ todos' = [todos EXCEPT ![Arriving.session] = new]
  BY <1>1, EmptySeq
<1>7. \A s \in Sessions : todos'[s] = IF s = Arriving.session THEN new ELSE todos[s]
  BY <1>6 DEF IInv, RowsInv
<1>8. RowsInv'
  BY <1>3, <1>5, <1>6, NewList DEF IInv
<1>9. HeldInv'
  <2> SUFFICES ASSUME NEW s \in Sessions
               PROVE  (OnScreen(s) \/ Held(s, mainQueue) \/ todos[s] = <<>>)'
    BY DEF HeldInv
  <2>1. OnScreen(s)' <=> OnScreen(s)
    BY <1>1 DEF OnScreen
  <2>2. CASE s = Arriving.session
    <3>1. Held(s, Tail(mainQueue)) <=> Held(s, mainQueue)'
      BY <1>1 DEF TakeEvent, Held
    <3> QED
      BY <1>7, <2>1, <2>2, <3>1
  <2>3. CASE s # Arriving.session
    <3>1. Held(s, mainQueue) => Held(s, mainQueue)'
      BY <1>2, <2>3, HeldIsAwaited, HeldIsAwaitedNext DEF Of, IInv, StoreInv
    <3> QED
      BY <1>7, <2>1, <2>3, <3>1 DEF IInv, HeldInv
  <2> QED
    BY <2>2, <2>3
<1>10. \A id \in DocIds :
         /\ TwoRows(new, id)
         /\ Saving(id, Arriving.session) /\ Arriving # InsertDone(id, Arriving.session)
              => OneRow(new, id)
  BY EmptyRows
<1> HIDE DEF new
<1>11. ASSUME NEW id \in DocIds, NEW s \in Sessions
       PROVE  /\ Once(InsertDone(id, s))' /\ TwoRows(todos'[s], id)
              /\ Saving(id, s)' => id \in Known' /\ OneRow(todos'[s], id)
  <2>1. Once(InsertDone(id, s)) /\ TwoRows(todos[s], id)
        /\ (Saving(id, s) => id \in Known /\ OneRow(todos[s], id))
    BY DEF IInv, SavesInv
  <2>2. /\ Once(InsertDone(id, s))' /\ Awaited' \subseteq Awaited
        /\ InsertDone(id, s) = Arriving => InsertDone(id, s) \notin Awaited'
    BY <1>1, <2>1, TakenOnce DEF IInv, StoreInv, Arriving
  <2>3. Saving(id, s)' => Saving(id, s) /\ InsertDone(id, s) # Arriving
    BY <2>2 DEF Saving
  <2> QED
    BY <1>3, <1>7, <1>10, <2>1, <2>2, <2>3, KnownRowsGrow
<1>12. SavesInv'
  BY <1>11 DEF SavesInv
<1> QED
  BY <1>3, <1>4, <1>8, <1>9, <1>12 DEF IInv

LEMMA DeliveryInv ==
  ASSUME IInv, MainQueue
  PROVE  IInv'
<1>1. UNCHANGED swiped /\ (~Crash => mainQueue # <<>>)
  BY DEF MainQueue, FetchDelivered, InsertDelivered, DeleteDelivered, DrawTable, Arrived
<1>2. CASE Crash
  BY <1>1, <1>2, CrashInv
<1>3. CASE ~Crash
  <2>1. mainQueue # <<>> /\ mainQueue \in Seq(Events(Callback))
        /\ \A i \in DOMAIN mainQueue : mainQueue[i].ids \subseteq Known
    BY <1>1, <1>3, ClientInvIs DEF IInv, StoreInv
  <2>2. Head(mainQueue) \in Events(Callback) /\ Head(mainQueue).ids \subseteq Known
        /\ 1 \in DOMAIN mainQueue /\ Head(mainQueue) = mainQueue[1]
    BY <2>1, HeadTailProperties, TailElements
  <2>3. Arriving \in Callback /\ Arriving \in Awaited
    BY <2>2 DEF Arriving, Events, Awaited
  <2>4. Arriving.session \in Sessions
    BY <2>3 DEF Callback
  <2>5. /\ Mine \in Seq(KnownRow)
        /\ \A id \in DocIds : /\ TwoRows(Mine, id)
                              /\ Saving(id, Arriving.session) => OneRow(Mine, id)
    BY <2>4 DEF IInv, RowsInv, SavesInv, Mine
  <2>6. CASE Ignore
    BY <1>1, <2>5, <2>6, ShowsInv DEF Ignore
  <2>7. CASE FetchDelivered /\ ~Ignore
    <3>1. PICK rows \in InIdOrder(Head(mainQueue).ids) : Shows(rows)
      BY <2>7 DEF FetchDelivered
    <3>2. rows \in Seq(KnownRow) /\ \A id : OneRow(rows, id) /\ TwoRows(rows, id)
      BY <2>2, <3>1, FetchedRows, OneIsTwo
    <3> QED
      BY <1>1, <3>1, <3>2, ShowsInv
  <2>8. CASE InsertDelivered /\ ~Ignore
    <3>1. Shows(Cons(LocalTodo(Arriving.doc), Mine)) /\ Arriving.kind = "insert"
      BY <2>8 DEF InsertDelivered, Arrived, Arriving
    <3>2. Arriving.doc \in DocIds /\ Arriving = InsertDone(Arriving.doc, Arriving.session)
      BY <2>3, <3>1 DEF Callback, InsertDone
    <3>3. Arriving.doc \in Known /\ OneRow(Mine, Arriving.doc)
      BY <2>3, <2>4, <3>2 DEF IInv, SavesInv, Saving, Mine
    <3> DEFINE rows == Cons(LocalTodo(Arriving.doc), Mine)
    <3>4. /\ rows \in Seq(KnownRow)
          /\ OneRow(Mine, Arriving.doc) => TwoRows(rows, Arriving.doc)
          /\ \A id : id # Arriving.doc =>
               /\ OneRow(Mine, id) => OneRow(rows, id)
               /\ TwoRows(Mine, id) => TwoRows(rows, id)
      BY <2>5, <3>3, InsertedRow
    <3> HIDE DEF rows
    <3>5. \A id \in DocIds :
            /\ TwoRows(rows, id)
            /\ Saving(id, Arriving.session) /\ Arriving # InsertDone(id, Arriving.session)
                 => OneRow(rows, id)
      BY <2>5, <3>2, <3>3, <3>4
    <3> QED
      BY <1>1, <3>1, <3>4, <3>5, ShowsInv DEF rows
  <2>9. CASE DeleteDelivered /\ ~Ignore
    <3>1. Arriving.row \in DOMAIN Mine /\ Shows(RemoveAt(Mine, Arriving.row))
      BY <1>3, <2>9 DEF DeleteDelivered
    <3>2. /\ RemoveAt(Mine, Arriving.row) \in Seq(KnownRow)
          /\ \A id : /\ OneRow(Mine, id) => OneRow(RemoveAt(Mine, Arriving.row), id)
                     /\ TwoRows(Mine, id) => TwoRows(RemoveAt(Mine, Arriving.row), id)
      BY <2>5, <3>1, RowsThatStay
    <3> QED
      BY <1>1, <2>5, <3>1, <3>2, ShowsInv
  <2> QED
    BY <1>3, <2>6, <2>7, <2>8, <2>9 DEF MainQueue, DrawTable
<1> QED
  BY <1>2, <1>3

-----------------------------------------------------------------------------
(* The environment *)

LEMMA EnvironmentInv ==
  ASSUME IInv, Environment
  PROVE  IInv'
<1>1. UNCHANGED <<screenVars, swiped>>
  BY DEF Environment, ClientRuns, OtherDeviceSaves, OtherDeviceErases
<1>2. /\ ClientInv(Titles, Callback, DocIds \cup {DefaultId})' /\ WrittenKept
      /\ PendingIds("delete")' \subseteq PendingIds("delete")
      /\ Awaited \subseteq Awaited' \cup {NoCallback}
      /\ \A id \in DocIds, s \in Sessions :
           Once(InsertDone(id, s))' /\ (Saving(id, s)' => Saving(id, s))
  <2>1. CASE ClientRuns
    <3>1. /\ ClientInv(Titles, Callback, DocIds \cup {DefaultId})' /\ WrittenKept
          /\ PendingIds("delete")' \subseteq PendingIds("delete")
          /\ Awaited \subseteq Awaited' \cup {NoCallback}
      BY <2>1, ClientStepKeeps DEF ClientRuns, Kept, WrittenKept, IInv, StoreInv
    <3>2. ASSUME NEW id \in DocIds, NEW s \in Sessions
          PROVE  Once(InsertDone(id, s))' /\ (Saving(id, s)' => Saving(id, s))
      <4>1. Once(InsertDone(id, s)) /\ InsertDone(id, s) # NoCallback
        BY InsertIsCallback DEF IInv, SavesInv
      <4> QED
        BY <2>1, <4>1, ClientStepOnce DEF ClientRuns, IInv, StoreInv, Saving
    <3> QED
      BY <3>1, <3>2
  <2>2. CASE OtherDeviceSaves \/ OtherDeviceErases
    <3>1. OtherDeviceDeletes \/ \E title \in Titles : OtherDeviceAdds(title)
      BY <2>2 DEF OtherDeviceSaves, OtherDeviceErases
    <3>2. /\ ClientInv(Titles, Callback, DocIds \cup {DefaultId})' /\ WrittenKept
          /\ UNCHANGED <<pending, queries, mainQueue>>
      BY <3>1, OtherDeviceKeeps, ToDoAssumption DEF IInv, StoreInv
    <3> QED
      BY <3>2 DEF PendingIds, Awaited, IInv, SavesInv, Once, Saving
  <2> QED
    BY <2>1, <2>2 DEF Environment
<1>3. StoreInv'
  BY <1>1, <1>2 DEF IInv, StoreInv
<1>4. ScreenInv' /\ UNCHANGED <<app, session, todos>>
  BY <1>1 DEF IInv, ScreenInv, screenVars
<1> QED
  BY <1>2, <1>3, <1>4, ListsKept, HoldersKept, SavesKept DEF IInv

LEMMA NextInv ==
  ASSUME IInv, [Next]_vars
  PROVE  IInv'
<1>1. CASE User
  BY <1>1, OpenTodayInv, SignOutInv, RelaunchInv, ScreenStepsInv, ToggleInv, SaveTaskInv,
     SwipeDeleteInv DEF User
<1>2. CASE UNCHANGED vars
  <2>1. /\ StoreInv' /\ WrittenKept /\ Awaited' = Awaited
        /\ \A c : Once(c) => Once(c)'
    BY <1>2, StoreUntouched DEF IInv, vars
  <2>2. \A id \in DocIds, s \in Sessions :
           Once(InsertDone(id, s))' /\ (Saving(id, s)' => Saving(id, s))
    BY <2>1 DEF IInv, SavesInv, Saving
  <2>3. ScreenInv' /\ UNCHANGED <<app, session, todos>>
    BY <1>2 DEF IInv, ScreenInv, vars, screenVars
  <2> QED
    BY <2>1, <2>2, <2>3, ListsKept, HoldersKept, SavesKept DEF IInv
<1> QED
  BY <1>1, <1>2, DeliveryInv, EnvironmentInv DEF Next

LEMMA Invariant == Spec => []IInv
BY InitInv, NextInv, PTL DEF Spec

-----------------------------------------------------------------------------
(* Theorems *)

\* Type correctness, for any ids, titles and bounds: among it, that a controller
\* which is neither on the screen nor held by a closure is gone with its rows.
THEOREM TypeCorrect == Spec => []TypeOK
<1>1. IInv => TypeOK
  <2> SUFFICES ASSUME IInv PROVE TypeOK
    OBVIOUS
  <2>1. Seq(KnownRow) \subseteq Seq(Todo)
    BY SeqMonotonic DEF KnownRow
  <2>2. todos \in [Sessions -> Seq(Todo)]
    BY <2>1 DEF IInv, RowsInv
  <2>3. ClientTypeOK(Titles, Callback, DocIds \cup {DefaultId})
    BY DEF IInv, StoreInv, ClientInv
  <2> QED
    BY <2>2, <2>3 DEF TypeOK, IInv, StoreInv, ScreenInv, HeldInv
<1> QED
  BY <1>1, Invariant, PTL

\* A task is shown twice at most, however the fetch, the save and their answers
\* interleave, sessions end and controllers outlive them (fetch in viewDidLoad,
\* persistTodoToFireStore).
THEOREM ListedTwiceAtMost == Spec => []AtMostTwoRowsPerTask
<1>1. IInv => AtMostTwoRowsPerTask
  <2> SUFFICES ASSUME IInv, NEW s \in Sessions,
                      NEW i \in DOMAIN todos[s], NEW j \in DOMAIN todos[s], NEW k \in DOMAIN todos[s],
                      todos[s][i].doc = todos[s][j].doc, todos[s][j].doc = todos[s][k].doc
               PROVE  i = j \/ j = k \/ i = k
    BY DEF AtMostTwoRowsPerTask
  <2>1. todos[s][i].doc \in DocIds
    BY RowIsKnown DEF IInv, KnownRow, Known
  <2> QED
    BY <2>1 DEF IInv, SavesInv, TwoRows
<1> QED
  BY <1>1, Invariant, PTL

\* This device removes only documents whose row was swiped away, however late the
\* deletion reaches the server and whatever the list shows by then.
THEOREM ErasesOnlySwiped == Spec => DeletesOnlySwiped
<1>1. IInv /\ [Next]_vars => [~OtherDeviceErases => server \ server' \subseteq swiped]_vars
  <2> SUFFICES ASSUME IInv, Next, ~OtherDeviceErases PROVE server \ server' \subseteq swiped
    OBVIOUS
  <2>1. CASE ClientRuns
    <3>1. server \ server' \subseteq PendingIds("delete")
      BY <2>1, ClientStepKeeps DEF ClientRuns, Kept, IInv, StoreInv
    <3>2. server \subseteq DocIds /\ PendingIds("delete") \subseteq swiped \cup {DefaultId}
      BY ClientInvIs DEF IInv, StoreInv, Known
    <3> QED
      BY <3>1, <3>2, ToDoAssumption
  <2>2. CASE ~ClientRuns
    <3>1. server \subseteq server'
      BY <2>2 DEF Next, User, MainQueue, Environment, OpenToday, GetDocuments, SignOut,
           StreamsStop, Relaunch, ProcessDies, OpenForm, TapRow, CancelForm, SaveTask, SetDocument,
           ToggleComplete, SwipeDelete, DeleteDocument, FetchDelivered, InsertDelivered,
           DeleteDelivered, DrawTable, Ignore, Shows, Crash, OtherDeviceSaves, OtherDeviceAdds,
           clientVars
    <3> QED
      BY <3>1
  <2> QED
    BY <2>1, <2>2
<1> QED
  BY <1>1, Invariant, PTL DEF Spec, DeletesOnlySwiped

-----------------------------------------------------------------------------
(* Calm use *)

\* What the callback that is still to come will do when it runs is possible then.
Suits(c) ==
  /\ c.session = session
  /\ c.kind = "delete" => c.row \in DOMAIN todos[session]

TasksNamed == \A id \in Known : written[id] # EmptyTitle

\* At most one callback is to come, and it suits the list on the screen.
CalmInv ==
  /\ app # "crashed" /\ TasksNamed
  /\ \/ NoneExpected
     \/ app = "home" /\ \E c \in Callback : Expected(c) /\ Suits(c)

\* Calm use is use: what always holds holds under it.
LEMMA CalmIsUse == CalmSpec => Spec /\ [][CalmNext]_vars
<1>1. [CalmNext]_vars => [Next]_vars
  BY DEF CalmNext, PatientUser, FriendlyServer, OthersStayAway, Next, User, Environment,
         ClientRuns, ClientStep
<1> QED BY <1>1, PTL DEF CalmSpec, Spec

\* Quiet is when no callback is expected.
LEMMA QuietIsNone ==
  ASSUME IInv, Quiet
  PROVE  NoneExpected
<1>1. /\ pending \in Seq(Writes(Callback, DocIds \cup {DefaultId}))
      /\ mainQueue \in Seq(Events(Callback))
  BY ClientInvIs DEF IInv, StoreInv
<1>2. \A c \in Callback : c.session \in Sessions
  BY DEF Callback
<1>3. mainQueue = <<>>
  <2> SUFFICES ASSUME mainQueue # <<>> PROVE FALSE
    OBVIOUS
  <2>1. mainQueue[1] \in Events(Callback) /\ 1 \in DOMAIN mainQueue
    BY <1>1, TailElements, HeadTailProperties
  <2>2. mainQueue[1].callback.session \in Sessions
    BY <1>2, <2>1 DEF Events
  <2> QED BY <2>1, <2>2 DEF Quiet, Held
<1>4. NoneQueued
  <2> SUFFICES ASSUME NEW i \in DOMAIN pending, pending[i].callback # NoCallback PROVE FALSE
    BY DEF NoneQueued
  <2>1. pending[i] \in Writes(Callback, DocIds \cup {DefaultId})
    BY <1>1, ElementOfSeq, LenProperties
  <2>2. pending[i].callback.session \in Sessions
    BY <1>2, <2>1 DEF Writes
  <2> QED BY <2>2 DEF Quiet, Held
<1> QED BY <1>3, <1>4 DEF Quiet, NoneExpected

\* Nothing is called and nothing is delivered, and the rows stay where they are.
LEMMA ScreenCalm ==
  ASSUME CalmInv, TasksNamed', UNCHANGED <<pending, queries, mainQueue, app, session>>,
         DOMAIN todos[session]' = DOMAIN todos[session]
  PROVE  CalmInv'
<1>1. /\ NoneExpected => NoneExpected'
      /\ \A c : Expected(c) /\ Suits(c) => Expected(c)' /\ Suits(c)'
  BY DEF NoneExpected, Expected, Queried, Queued, Answered, NoneQueued, Suits
<1> QED BY <1>1 DEF CalmInv

LEMMA ScreenStepsCalm ==
  ASSUME IInv, CalmInv, TasksNamed', OpenForm \/ TapRow \/ CancelForm \/ ToggleComplete
  PROVE  CalmInv'
<1>1. UNCHANGED <<pending, queries, mainQueue, app, session>>
  BY DEF OpenForm, TapRow, CancelForm, ToggleComplete, clientVars
<1>2. DOMAIN todos[session]' = DOMAIN todos[session]
  <2>1. CASE OpenForm \/ TapRow \/ CancelForm
    BY <2>1 DEF OpenForm, TapRow, CancelForm
  <2>2. CASE ToggleComplete
    BY <2>2 DEF ToggleComplete, TableUsable, IInv, ScreenInv, RowsInv
  <2> QED BY <2>1, <2>2
<1> QED BY <1>1, <1>2, ScreenCalm

LEMMA SessionCalm ==
  ASSUME IInv, CalmInv, TasksNamed', OpenToday \/ (Quiet /\ SignOut) \/ Relaunch
  PROVE  CalmInv'
<1>1. CASE OpenToday
  <2>1. NoneExpected /\ app' = "home" /\ session' = session + 1
        /\ queries' = queries \cup {FetchDone(session + 1)} /\ UNCHANGED <<pending, mainQueue>>
        /\ session + 1 \in Sessions
    BY <1>1, ToDoAssumption
       DEF OpenToday, CalmInv, GetDocuments, IInv, ScreenInv, Sessions
  <2> PICK c \in Callback : c = FetchDone(session + 1)
    BY <2>1 DEF FetchDone, Callback
  <2>2. Expected(c)'
    BY <2>1 DEF NoneExpected, Expected, Queried, NoneQueued
  <2>3. Suits(c)'
    BY <2>1 DEF FetchDone, Suits
  <2> QED BY <2>1, <2>2, <2>3 DEF CalmInv
<1>2. CASE Quiet /\ SignOut
  <2>1. NoneExpected'
    BY <1>2, QuietIsNone DEF SignOut, StreamsStop, NoneExpected, NoneQueued
  <2> QED BY <1>2, <2>1 DEF CalmInv, SignOut
<1>3. CASE Relaunch
  BY <1>3, DeadExpectNothing DEF Relaunch, CalmInv, IInv, StoreInv
<1> QED BY <1>1, <1>2, <1>3

\* A write is queued for the screen's controller while nothing is expected.
LEMMA CallCalm ==
  ASSUME IInv, CalmInv, TasksNamed', Quiet, app = "home", UNCHANGED <<app, session, todos>>,
         NEW op \in {"set", "delete"}, NEW id \in DocIds \cup {DefaultId}, NEW c \in Callback,
         Suits(c), pending' = Append(pending, Write(op, id, c)), UNCHANGED <<queries, mainQueue>>
  PROVE  CalmInv'
<1>1. Queued(c)'
  BY QuietIsNone, CallExpected DEF IInv, StoreInv
<1>2. Suits(c)'
  BY DEF Suits
<1> QED BY <1>1, <1>2 DEF CalmInv, Expected

LEMMA CallsCalm ==
  ASSUME IInv, CalmInv, TasksNamed', Quiet, SaveTask \/ SwipeDelete
  PROVE  CalmInv'
<1>1. session \in Sessions /\ app = "home" /\ UNCHANGED <<app, session, todos>>
  BY DEF IInv, ScreenInv, SaveTask, SwipeDelete, TableUsable, screenVars
<1>2. CASE SaveTask
  <2>1. PICK id \in Fresh, title \in Titles : SetDocument(id, title, InsertDone(id, session))
    BY <1>2 DEF SaveTask
  <2> PICK c \in Callback : c = InsertDone(id, session)
    BY <1>1 DEF InsertDone, Callback, Fresh
  <2>2. Suits(c)
    BY DEF Suits, InsertDone
  <2> QED BY <1>1, <2>1, <2>2, CallCalm DEF SetDocument, Fresh
<1>3. CASE SwipeDelete
  <2>1. PICK row \in DOMAIN todos[session] :
          DeleteDocument(todos[session][row].uuid, DeleteDone(row, session))
    BY <1>3 DEF SwipeDelete
  <2>2. row \in Nat \ {0} /\ todos[session][row] \in KnownRow
    BY <1>1, <2>1, RowIsKnown DEF IInv
  <2>3. todos[session][row].uuid \in DocIds \cup {DefaultId}
    BY <2>2 DEF KnownRow, Todo
  <2> PICK c \in Callback : c = DeleteDone(row, session)
    BY <1>1, <2>2 DEF DeleteDone, Callback
  <2>4. Suits(c)
    BY <2>1 DEF Suits, DeleteDone
  <2> QED BY <1>1, <2>1, <2>3, <2>4, CallCalm DEF DeleteDocument
<1> QED BY <1>2, <1>3

LEMMA DeliveryCalm ==
  ASSUME IInv, CalmInv, TasksNamed', MainQueue
  PROVE  CalmInv'
<1>1. ~DrawTable
  <2> SUFFICES ASSUME NEW s \in Sessions, NEW row \in DOMAIN todos[s]
               PROVE  written[todos[s][row].doc] # EmptyTitle
    BY DEF DrawTable, Drawable
  <2>1. todos[s][row] \in KnownRow
    BY RowIsKnown DEF IInv
  <2> QED BY <2>1 DEF KnownRow, CalmInv, TasksNamed
<1>2. mainQueue # <<>>
  BY <1>1 DEF MainQueue, FetchDelivered, InsertDelivered, DeleteDelivered, Arrived
<1>3. PICK c \in Callback : app = "home" /\ Expected(c) /\ Suits(c)
  BY <1>2 DEF CalmInv, NoneExpected
<1>4. Arriving = c
  BY <1>2, <1>3, ExpectedIsNext DEF Arriving
<1>5. \E rows : Shows(rows)
  <2>1. CASE FetchDelivered \/ InsertDelivered
    BY <2>1 DEF FetchDelivered, InsertDelivered, Ignore
  <2>2. CASE DeleteDelivered
    <3>1. c.kind = "delete"
      BY <1>4, <2>2 DEF DeleteDelivered, Arrived, Arriving
    <3>2. Arriving.row \in DOMAIN Mine
      BY <1>3, <1>4, <3>1 DEF Suits, Mine
    <3> QED BY <2>2, <3>2 DEF DeleteDelivered, Ignore
  <2> QED BY <1>1, <2>1, <2>2 DEF MainQueue
<1>6. NoneExpected' /\ UNCHANGED app
  BY <1>3, <1>5, ExpectedArrives DEF Shows
<1> QED BY <1>3, <1>6 DEF CalmInv

LEMMA ServerCalm ==
  ASSUME IInv, CalmInv, TasksNamed', FriendlyServer
  PROVE  CalmInv'
<1>1. ClientInv(Titles, Callback, DocIds \cup {DefaultId}) /\ ClientStep
      /\ UNCHANGED <<app, session, todos>>
  BY DEF IInv, StoreInv, FriendlyServer, ClientStep, screenVars
<1>2. /\ NoneExpected => NoneExpected'
      /\ \A c \in Callback : Expected(c) => Expected(c)'
  BY <1>1, ClientStepExpects, ToDoAssumption
<1>3. \A c : Suits(c) => Suits(c)'
  BY <1>1 DEF Suits
<1> QED BY <1>1, <1>2, <1>3 DEF CalmInv

LEMMA NextCalm ==
  ASSUME IInv, CalmInv, [CalmNext]_vars
  PROVE  CalmInv'
<1>1. CASE UNCHANGED vars
  <2>1. UNCHANGED <<written, pending, queries, mainQueue, app, session, todos>>
    BY <1>1 DEF vars, clientVars, screenVars
  <2>2. TasksNamed'
    BY <2>1 DEF CalmInv, TasksNamed, Known
  <2> QED BY <2>1, <2>2, ScreenCalm
<1>2. CASE CalmNext
  <2>1. TasksNamed'
    BY <1>2 DEF CalmNext, CarefulStep, TasksNamed, Known
  <2>2. CASE PatientUser
    BY <2>1, <2>2, SessionCalm, CallsCalm, ScreenStepsCalm DEF PatientUser
  <2>3. CASE MainQueue
    BY <2>1, <2>3, DeliveryCalm
  <2>4. CASE FriendlyServer
    BY <2>1, <2>4, ServerCalm
  <2>5. CASE OthersStayAway
    <3>1. UNCHANGED <<pending, queries, mainQueue, app, session, todos>>
      BY <2>5 DEF OthersStayAway, OtherDeviceSaves, OtherDeviceErases, OtherDeviceAdds,
                  OtherDeviceDeletes, screenVars
    <3> QED BY <2>1, <3>1, ScreenCalm
  <2> QED BY <1>2, <2>2, <2>3, <2>4, <2>5 DEF CalmNext
<1> QED BY <1>1, <1>2

LEMMA InitCalm == Init => CalmInv
BY DEF Init, ClientInit, CalmInv, TasksNamed, Known, NoneExpected, NoneQueued

\* Used calmly, the Today tab does not crash: no row is drawn without a title, and
\* no deletion's answer finds its row gone (updateChecked, removeFromFireStore).
THEOREM CalmUseNeverCrashes == CalmSpec => []CalmNeverCrashes
<1>1. CalmSpec => []IInv /\ Init /\ [][CalmNext]_vars
  BY CalmIsUse, Invariant, PTL DEF Spec
<1>2. IInv /\ CalmInv /\ [CalmNext]_vars => CalmInv'
  BY NextCalm
<1>3. CalmInv => CalmNeverCrashes
  BY DEF CalmInv, CalmNeverCrashes
<1> QED BY <1>1, <1>2, <1>3, InitCalm, PTL

-----------------------------------------------------------------------------
(* The book *)

IsOpen == app = "home" /\ queries = {}

\* The callback that is to come makes the rows what the device sees of the collection.
Completes(c) ==
  \/ /\ c.kind = "fetch" /\ Rows = <<>>
     /\ (Queried(c) \/ (Granted(c) /\ Head(mainQueue).ids = View(server)))
  \/ /\ c.kind = "insert" /\ (Queued(c) \/ Granted(c))
     /\ c.doc \notin DocsOf(Rows) /\ View(server) = DocsOf(Rows) \cup {c.doc}
  \/ /\ c.kind = "delete" /\ (Queued(c) \/ Granted(c))
     /\ c.row \in DOMAIN Rows /\ View(server) = DocsOf(Rows) \ {Rows[c.row].doc}

PageInv ==
  /\ app # "home" => NoneExpected /\ taken = 0
  /\ OneEach(Rows)
  /\ app = "home" =>
       \/ NoneExpected /\ View(server) = DocsOf(Rows)
       \/ \E c \in Callback : c.session = session /\ Completes(c)

BookInv == ReplayInv /\ PageInv

\* The page of an open book shows the book, and that of a closed one nothing.
LEMMA PageShowsBook == PageInv => PageSoon = IF IsOpen THEN View(server) ELSE {}
<1> SUFFICES ASSUME PageInv PROVE PageSoon = IF IsOpen THEN View(server) ELSE {}
  OBVIOUS
<1>1. AwaitedCallbacks = Carried
  BY DEF AwaitedCallbacks, Carried
<1>2. PageSoon = IF \E i \in DOMAIN mainQueue : mainQueue[i].callback.kind = "fetch"
                   THEN Head(mainQueue).ids
                   ELSE (DocsOf(Rows) \cup {c.doc : c \in {d \in Carried : d.kind = "insert"}})
                          \ {Rows[c.row].doc : c \in {d \in Carried :
                                                 d.kind = "delete" /\ d.row \in DOMAIN Rows}}
  BY <1>1 DEF PageSoon, DocsOf
<1>3. CASE NoneExpected
  <2>1. Carried = {} /\ mainQueue = <<>> /\ queries = {}
    BY <1>3, NoneCarried DEF NoneExpected
  <2>2. PageSoon = DocsOf(Rows)
    BY <1>2, <2>1
  <2>3. app # "home" => DocsOf(Rows) = {}
    BY DEF Rows, DocsOf
  <2>4. app = "home" => View(server) = DocsOf(Rows)
    <3>1. ASSUME NEW c \in Callback, Completes(c) PROVE FALSE
      <4>1. c # NoCallback
        BY ToDoAssumption
      <4> QED BY <1>3, <3>1, <4>1
              DEF Completes, Granted, Queried, Queued, Answered, NoneExpected, NoneQueued
    <3> QED BY <3>1 DEF PageInv
  <2> QED BY <2>1, <2>2, <2>3, <2>4 DEF IsOpen
<1>4. CASE ~NoneExpected
  <2>1. app = "home"
    BY <1>4 DEF PageInv
  <2>2. PICK c \in Callback : Completes(c)
    BY <1>4, <2>1 DEF PageInv
  <2>3. c # NoCallback
    BY ToDoAssumption
  <2>4. CASE Queried(c)
    <3>1. Carried = {} /\ mainQueue = <<>> /\ queries # {} /\ Rows = <<>>
      BY <2>2, <2>3, <2>4, OneCarried DEF Completes, Queried, Queued, Granted, Answered
    <3> QED BY <1>2, <3>1 DEF DocsOf, IsOpen
  <2>5. CASE Queued(c) \/ Granted(c)
    <3>1. Carried = {c} /\ queries = {} /\ ~Queried(c)
      BY <2>3, <2>5, OneCarried DEF Queued, Granted, Answered, Queried
    <3>2. /\ Queued(c) => mainQueue = <<>>
          /\ Granted(c) => DOMAIN mainQueue = {1} /\ mainQueue[1].callback = c
      BY DEF Queued, Granted, Answered, Event
    <3>3. CASE c.kind = "fetch"
      <4>1. Granted(c) /\ Head(mainQueue).ids = View(server)
        BY <2>2, <3>1, <3>3 DEF Completes
      <4> QED BY <1>2, <2>1, <3>1, <3>2, <3>3, <4>1 DEF IsOpen
    <3>4. CASE c.kind # "fetch"
      <4>1. ~\E i \in DOMAIN mainQueue : mainQueue[i].callback.kind = "fetch"
        BY <2>5, <3>2, <3>4
      <4>2. CASE c.kind = "insert"
        <5>1. PageSoon = DocsOf(Rows) \cup {c.doc}
          BY <1>2, <3>1, <4>1, <4>2
        <5> QED BY <2>1, <2>2, <3>1, <4>2, <5>1 DEF Completes, IsOpen
      <4>3. CASE c.kind = "delete"
        <5>1. c.row \in DOMAIN Rows /\ View(server) = DocsOf(Rows) \ {Rows[c.row].doc}
          BY <2>2, <4>3 DEF Completes
        <5>2. PageSoon = DocsOf(Rows) \ {Rows[c.row].doc}
          BY <1>2, <3>1, <4>1, <4>3, <5>1
        <5> QED BY <2>1, <3>1, <5>1, <5>2 DEF IsOpen
      <4> QED BY <2>2, <3>4, <4>2, <4>3 DEF Completes
    <3> QED BY <3>3, <3>4
  <2> QED BY <2>2, <2>4, <2>5 DEF Completes
<1> QED BY <1>3, <1>4

LEMMA PageShowsBookNext == (PageInv => PageSoon = IF IsOpen THEN View(server) ELSE {})'
BY PageShowsBook, PTL

\* What may become of the book and of the page that shows it.
Turns ==
  \/ IsOpen' = IsOpen /\ View(server)' = View(server)
  \/ IsOpen' # IsOpen /\ View(server)' = View(server)
  \/ /\ IsOpen /\ IsOpen'
     /\ \E entry \in DocIds : \/ entry \notin View(server) /\ View(server)' = View(server) \cup {entry}
                              \/ entry \in View(server) /\ View(server)' = View(server) \ {entry}
  \/ /\ ~IsOpen /\ ~IsOpen'
     /\ \E entry \in DocIds : \/ View(server)' = View(server) \cup {entry}
                              \/ View(server)' = View(server) \ {entry}

LEMMA TurnsIsABookStep ==
  ASSUME PageInv, PageInv', Turns
  PROVE  [Book!Next]_<<View(server), app = "home" /\ queries = {}, PageSoon>>
<1>1. /\ PageSoon = IF IsOpen THEN View(server) ELSE {}
      /\ PageSoon' = IF IsOpen' THEN View(server)' ELSE {}
  BY PageShowsBook, PageShowsBookNext
<1>2. IsOpen \in BOOLEAN /\ IsOpen' \in BOOLEAN
  BY DEF IsOpen
<1>3. (app = "home" /\ queries = {}) = IsOpen /\ (app = "home" /\ queries = {})' = IsOpen'
  BY DEF IsOpen
<1>4. CASE UNCHANGED <<IsOpen, View(server)>>
  BY <1>1, <1>3, <1>4
<1>5. CASE IsOpen' # IsOpen /\ View(server)' = View(server)
  <2>1. Book!Open \/ Book!Close
    BY <1>1, <1>2, <1>3, <1>5 DEF Book!Open, Book!Close
  <2> QED BY <2>1 DEF Book!Next
<1>6. ASSUME IsOpen, IsOpen', NEW entry \in DocIds, entry \notin View(server),
             View(server)' = View(server) \cup {entry}
      PROVE  Book!Next
  BY <1>1, <1>3, <1>6 DEF Book!Keep, Book!Next
<1>7. ASSUME IsOpen, IsOpen', NEW entry \in DocIds, entry \in View(server),
             View(server)' = View(server) \ {entry}
      PROVE  Book!Next
  BY <1>1, <1>3, <1>7 DEF Book!Discard, Book!Next
<1>8. ASSUME ~IsOpen, ~IsOpen', NEW entry \in DocIds,
             View(server)' = View(server) \cup {entry} \/ View(server)' = View(server) \ {entry}
      PROVE  Book!Next
  BY <1>1, <1>3, <1>8 DEF Book!EditElsewhere, Book!Next
<1> QED BY <1>2, <1>4, <1>5, <1>6, <1>7, <1>8 DEF Turns

LEMMA CompletesSomething ==
  ASSUME NEW c \in Callback, Completes(c) PROVE Expected(c) /\ ~NoneExpected
<1>1. c # NoCallback
  BY ToDoAssumption
<1>2. Queried(c) \/ Queued(c) \/ Granted(c)
  BY DEF Completes
<1>3. Queried(c) => ~NoneExpected
  BY DEF Queried, NoneExpected
<1>4. Queued(c) => ~NoneExpected
  BY <1>1 DEF Queued, NoneExpected, NoneQueued
<1>5. Granted(c) => ~NoneExpected
  <2> SUFFICES ASSUME Granted(c) PROVE mainQueue # <<>>
    BY DEF NoneExpected
  <2>1. PICK ok \in BOOLEAN, ids \in SUBSET DocIds : mainQueue = <<Event(c, ok, ids)>>
    BY DEF Granted, Answered
  <2> QED BY <2>1
<1> QED BY <1>2, <1>3, <1>4, <1>5 DEF Expected, Granted

LEMMA PageWhenQuiet ==
  ASSUME PageInv, NoneExpected, app = "home"
  PROVE  View(server) = DocsOf(Rows) /\ IsOpen
BY CompletesSomething DEF PageInv, IsOpen, NoneExpected

LEMMA NoRowsNoPage == Rows = <<>> => DocsOf(Rows) = {} /\ OneEach(Rows)
BY DEF DocsOf, OneEach

LEMMA NoRowsNoPageNext == (Rows = <<>> => DocsOf(Rows) = {} /\ OneEach(Rows))'
BY NoRowsNoPage, PTL

\* The client stays as it is, and each row goes on showing its document.
LEMMA ScreenBook ==
  ASSUME BookInv, UNCHANGED <<clientVars, app, session>>,
         Rows = <<>> => Rows' = <<>>, DOMAIN Rows' = DOMAIN Rows,
         \A row \in DOMAIN Rows : Rows'[row].doc = Rows[row].doc
  PROVE  BookInv' /\ Turns
<1>1. UNCHANGED <<written, server, pending, taken, queries, mainQueue>>
  BY DEF clientVars
<1>2. ReplayInv' /\ View(server)' = View(server)
  BY <1>1, StreamReplays DEF BookInv
<1>3. DocsOf(Rows)' = DocsOf(Rows) /\ (OneEach(Rows) => OneEach(Rows)')
  BY DEF DocsOf, OneEach
<1>4. IsOpen' = IsOpen /\ (NoneExpected => NoneExpected')
  BY <1>1 DEF IsOpen, NoneExpected, NoneQueued
<1>5. \A c : /\ Queried(c) => Queried(c)'
             /\ Queued(c) => Queued(c)'
             /\ Granted(c) => Granted(c)'
  BY <1>1 DEF Granted, Queried, Queued, Answered, NoneQueued
<1>6. \A c : Completes(c) => Completes(c)'
  BY <1>1, <1>2, <1>3, <1>5 DEF Completes
<1>7. PageInv'
  BY <1>1, <1>2, <1>3, <1>4, <1>6 DEF BookInv, PageInv
<1> QED BY <1>2, <1>4, <1>7 DEF BookInv, Turns

LEMMA ScreenStepsBook ==
  ASSUME IInv, BookInv, OpenForm \/ TapRow \/ CancelForm \/ ToggleComplete
  PROVE  BookInv' /\ Turns
<1>1. UNCHANGED <<clientVars, app, session>> /\ app = "home" /\ session \in Sessions
  BY DEF OpenForm, TapRow, CancelForm, ToggleComplete, TableUsable, IInv, ScreenInv
<1>2. Rows = todos[session] /\ Rows' = todos'[session]
  BY <1>1 DEF Rows
<1>3. CASE UNCHANGED todos
  BY <1>1, <1>2, <1>3, ScreenBook
<1>4. CASE ToggleComplete
  <2>1. PICK row \in DOMAIN todos[session] :
          todos' = [todos EXCEPT ![session][row] = Toggled(@)]
    BY <1>4 DEF ToggleComplete
  <2>2. Rows' = [Rows EXCEPT ![row] = Toggled(@)] /\ row \in DOMAIN Rows
    BY <1>1, <1>2, <2>1 DEF IInv, RowsInv
  <2>3. Toggled(Rows[row]).doc = Rows[row].doc
    BY DEF Toggled, LocalTodo
  <2>4. DOMAIN Rows' = DOMAIN Rows /\ Rows # <<>>
        /\ \A i \in DOMAIN Rows : Rows'[i].doc = Rows[i].doc
    BY <2>2, <2>3
  <2> QED BY <1>1, <2>4, ScreenBook
<1> QED BY <1>3, <1>4 DEF OpenForm, TapRow, CancelForm

LEMMA OpenBook ==
  ASSUME IInv, CalmInv, BookInv, OpenToday
  PROVE  BookInv' /\ Turns
<1>1. /\ app = "signedOut" /\ app' = "home" /\ session' = session + 1 /\ session + 1 \in Sessions
      /\ NoneExpected /\ UNCHANGED <<written, server, pending, taken, mainQueue, todos>>
      /\ queries' = queries \cup {FetchDone(session + 1)}
  BY ToDoAssumption
     DEF OpenToday, GetDocuments, CalmInv, IInv, ScreenInv, Sessions
<1> PICK c \in Callback : c = FetchDone(session + 1)
  BY <1>1 DEF FetchDone, Callback
<1>2. ReplayInv' /\ View(server)' = View(server)
  BY <1>1, StreamReplays DEF BookInv
<1>3. todos[session + 1] = <<>>
  <2>1. ~Held(session + 1, mainQueue)
    BY <1>1 DEF Held, NoneExpected, NoneQueued
  <2> QED BY <1>1, <2>1 DEF IInv, HeldInv, OnScreen
<1>4. Rows' = <<>>
  BY <1>1, <1>3 DEF Rows
<1>5. Queried(c)' /\ c.kind = "fetch" /\ c.session = session'
  BY <1>1 DEF FetchDone, Queried, NoneExpected, NoneQueued
<1>6. Completes(c)'
  BY <1>4, <1>5 DEF Completes
<1>7. PageInv'
  BY <1>1, <1>4, <1>5, <1>6, NoRowsNoPageNext DEF PageInv
<1>8. ~IsOpen /\ ~IsOpen'
  BY <1>1 DEF IsOpen
<1> QED BY <1>2, <1>7, <1>8 DEF BookInv, Turns

\* The screen goes, and nothing is to come.
LEMMA AwayBook ==
  ASSUME ReplayInv', View(server)' = View(server), app' = "signedOut", NoneExpected',
         taken' = 0
  PROVE  BookInv' /\ Turns
<1>1. Rows' = <<>> /\ IsOpen' \in BOOLEAN /\ IsOpen \in BOOLEAN
  BY DEF Rows, IsOpen
<1>2. PageInv'
  BY <1>1, NoRowsNoPageNext DEF PageInv
<1> QED BY <1>1, <1>2 DEF BookInv, Turns

LEMMA CloseBook ==
  ASSUME IInv, CalmInv, BookInv, (Quiet /\ SignOut) \/ Relaunch
  PROVE  BookInv' /\ Turns
<1>1. CASE Quiet /\ SignOut
  <2>1. /\ UNCHANGED <<written, server, pending, queries, mainQueue>> /\ taken' = 0
        /\ app' = "signedOut" /\ NoneExpected
    BY <1>1, QuietIsNone DEF SignOut, StreamsStop
  <2>2. NoneExpected' /\ ReplayInv' /\ View(server)' = View(server)
    BY <2>1, StreamReplays DEF NoneExpected, NoneQueued, BookInv
  <2> QED BY <2>1, <2>2, AwayBook
<1>2. CASE Relaunch
  <2>1. ProcessDies /\ app' = "signedOut" /\ taken' = 0
    BY <1>2 DEF Relaunch, ProcessDies
  <2>2. NoneExpected' /\ ReplayInv' /\ View(server)' = View(server)
    BY <2>1, DeadExpectNothing, DyingReplays DEF IInv, StoreInv, BookInv
  <2> QED BY <2>1, <2>2, AwayBook
<1> QED BY <1>1, <1>2

LEMMA SaveBook ==
  ASSUME IInv, CalmInv, BookInv, Quiet, SaveTask
  PROVE  BookInv' /\ Turns
<1>1. /\ session \in Sessions /\ app = "home" /\ NoneExpected
      /\ UNCHANGED <<app, session, todos>> /\ Rows' = Rows
  BY QuietIsNone DEF IInv, ScreenInv, SaveTask, Rows
<1>2. PICK id \in Fresh, title \in Titles : SetDocument(id, title, InsertDone(id, session))
  BY DEF SaveTask
<1> PICK c \in Callback : c = InsertDone(id, session)
  BY <1>1 DEF InsertDone, Callback, Fresh
<1>3. /\ ReplayInv' /\ id \notin View(server) /\ View(server)' = View(server) \cup {id}
      /\ id \in DocIds
  BY <1>2, SetReplays, ToDoAssumption DEF IInv, StoreInv, BookInv, Fresh
<1>4. Queued(c)' /\ UNCHANGED queries
  <2>1. pending' = Append(pending, Write("set", id, c)) /\ UNCHANGED <<queries, mainQueue>>
    BY <1>2 DEF SetDocument
  <2> QED BY <1>1, <1>3, <2>1, CallExpected DEF IInv, StoreInv
<1>5. View(server) = DocsOf(Rows) /\ IsOpen
  BY <1>1, PageWhenQuiet DEF BookInv
<1>6. c.kind = "insert" /\ c.doc = id /\ c.session = session
  BY DEF InsertDone
<1>7. Completes(c)'
  BY <1>1, <1>3, <1>4, <1>5, <1>6 DEF Completes
<1>8. PageInv'
  BY <1>1, <1>6, <1>7 DEF BookInv, PageInv
<1>9. Turns
  BY <1>1, <1>3, <1>4, <1>5 DEF Turns, IsOpen
<1> QED BY <1>3, <1>8, <1>9 DEF BookInv

LEMMA SwipeBook ==
  ASSUME IInv, CalmInv, BookInv, Quiet, SwipeDelete, CarefulStep
  PROVE  BookInv' /\ Turns
<1>1. /\ session \in Sessions /\ app = "home" /\ NoneExpected
      /\ UNCHANGED <<app, session, todos>> /\ Rows' = Rows /\ Rows = todos[session]
  BY QuietIsNone DEF IInv, ScreenInv, SwipeDelete, TableUsable, screenVars, Rows
<1>2. PICK row \in DOMAIN Rows : DeleteDocument(Rows[row].uuid, DeleteDone(row, session))
  BY <1>1 DEF SwipeDelete
<1>3. Rows[row] \in KnownRow /\ row \in Nat \ {0}
  BY <1>1, RowIsKnown DEF IInv
<1>4. Rows[row].uuid # DefaultId
  <2> DEFINE w == Write("delete", Rows[row].uuid, DeleteDone(row, session))
  <2>1. pending' = Append(pending, w) /\ w.id = Rows[row].uuid
    BY <1>2 DEF DeleteDocument, Write
  <2>2. pending \in Seq(Writes(Callback, DocIds \cup {DefaultId}))
    BY ClientInvIs DEF IInv, StoreInv
  <2> HIDE DEF w
  <2>3. pending'[Len(pending')] = w
    BY <2>1, <2>2
  <2> QED BY <2>1, <2>3 DEF CarefulStep
<1> PICK id \in Known : id = Rows[row].uuid
  BY <1>3, <1>4 DEF KnownRow
<1>5. id = Rows[row].doc /\ id \in DocIds
  BY <1>3, <1>4 DEF KnownRow, Known
<1> PICK c \in Callback : c = DeleteDone(row, session)
  BY <1>1, <1>3 DEF DeleteDone, Callback
<1>6. ReplayInv' /\ View(server)' = View(server) \ {id}
  BY <1>2, <1>5, DeleteReplays DEF IInv, StoreInv, BookInv
<1>7. Queued(c)' /\ UNCHANGED queries
  <2>1. pending' = Append(pending, Write("delete", id, c)) /\ UNCHANGED <<queries, mainQueue>>
    BY <1>2 DEF DeleteDocument
  <2>2. /\ ClientInv(Titles, Callback, DocIds \cup {DefaultId})
        /\ id \in DocIds \cup {DefaultId} /\ NoneExpected
    BY <1>1, <1>5 DEF IInv, StoreInv
  <2>3. Queued(c)'
    BY ONLY <2>1, <2>2, c \in Callback, CallExpected
  <2> QED BY <2>1, <2>3
<1>8. View(server) = DocsOf(Rows) /\ IsOpen
  BY <1>1, PageWhenQuiet DEF BookInv
<1>9. c.kind = "delete" /\ c.row = row /\ c.session = session
  BY DEF DeleteDone
<1>10. Completes(c)'
  BY <1>1, <1>5, <1>6, <1>7, <1>8, <1>9 DEF Completes
<1>11. PageInv'
  BY <1>1, <1>9, <1>10 DEF BookInv, PageInv
<1>12. id \in View(server)
  BY <1>1, <1>5, <1>8 DEF DocsOf
<1>13. Turns
  BY <1>1, <1>5, <1>6, <1>7, <1>8, <1>12 DEF Turns, IsOpen
<1> QED BY <1>6, <1>11, <1>13 DEF BookInv

\* A fetched list shows each document of the answer once.
LEMMA FetchedOneEach ==
  ASSUME NEW ids \in SUBSET Known, NEW rows \in InIdOrder(ids)
  PROVE  DocsOf(rows) = ids /\ OneEach(rows)
<1>1. IsFiniteSet(ids) /\ Cardinality(ids) \in Nat
  BY ToDoAssumption, FS_Subset, FS_CardinalityType DEF Known
<1>2. rows \in [1 .. Cardinality(ids) -> {FetchedTodo(id) : id \in ids}]
  BY DEF InIdOrder
<1>3. \A row \in DOMAIN rows : rows[row].doc \in ids
  BY <1>2 DEF FetchedTodo
<1>4. OneEach(rows)
  <2> SUFFICES ASSUME NEW i \in DOMAIN rows, NEW j \in DOMAIN rows, rows[i].doc = rows[j].doc
               PROVE  i = j
    BY DEF OneEach
  <2>1. OneRow(rows, rows[i].doc)
    BY FetchedRows
  <2> QED BY <2>1 DEF OneRow
<1> DEFINE shown == [row \in 1 .. Cardinality(ids) |-> rows[row].doc]
<1>5. shown \in Injection(1 .. Cardinality(ids), ids)
  BY <1>2, <1>3, <1>4 DEF OneEach, Injection, IsInjective
<1>6. shown \in Surjection(1 .. Cardinality(ids), ids)
  <2>1. IsFiniteSet(1 .. Cardinality(ids)) /\ Cardinality(1 .. Cardinality(ids)) = Cardinality(ids)
    BY <1>1, FS_Interval
  <2> HIDE DEF shown
  <2> QED BY <1>1, <1>5, <2>1, FS_Injection
<1>7. \A id \in ids : \E row \in DOMAIN rows : rows[row].doc = id
  BY <1>2, <1>6 DEF Surjection
<1> QED BY <1>3, <1>4, <1>7 DEF DocsOf

\* A row without a title would be drawn, which calm use has none of.
LEMMA NoDrawing ==
  ASSUME IInv, CalmInv
  PROVE  ~DrawTable
<1> SUFFICES ASSUME NEW s \in Sessions, NEW row \in DOMAIN todos[s]
             PROVE  written[todos[s][row].doc] # EmptyTitle
  BY DEF DrawTable, Drawable
<1>1. todos[s][row] \in KnownRow
  BY RowIsKnown DEF IInv
<1> QED BY <1>1 DEF KnownRow, CalmInv, TasksNamed

LEMMA DeliveryBook ==
  ASSUME IInv, CalmInv, BookInv, MainQueue
  PROVE  BookInv' /\ Turns
<1>1. mainQueue # <<>> /\ ~DrawTable
  BY NoDrawing DEF MainQueue, FetchDelivered, InsertDelivered, DeleteDelivered, Arrived
<1>2. PICK c \in Callback : app = "home" /\ c.session = session /\ Completes(c)
  BY <1>1 DEF BookInv, PageInv, NoneExpected
<1>3. Expected(c)
  BY <1>2, CompletesSomething
<1>4. Answered(c) /\ Arriving = c
  BY <1>1, <1>3, ExpectedIsNext DEF Arriving
<1>5. Granted(c) /\ ~Queried(c)
  BY <1>1, <1>2 DEF Completes, Queried, Queued
<1>6. OnScreen(Arriving.session) /\ Mine = Rows /\ session \in Sessions
  BY <1>2, <1>4 DEF OnScreen, Mine, Rows, Callback
<1>7. Rows \in Seq(Todo)
  BY <1>2, <1>6, SeqMonotonic DEF Rows, IInv, RowsInv, KnownRow
<1>8. ASSUME NEW rows, Shows(rows), DocsOf(rows) = View(server), OneEach(rows)
      PROVE  BookInv' /\ Turns
  <2>1. /\ TakeEvent /\ UNCHANGED <<written, server, pending, taken, queries, app, session, ui>>
        /\ todos' = [todos EXCEPT ![session] = rows]
    BY <1>2, <1>4, <1>6, <1>8 DEF Shows
  <2>2. ReplayInv' /\ View(server)' = View(server)
    BY <2>1, StreamReplays DEF BookInv
  <2>3. Rows' = rows
    BY <1>2, <1>6, <2>1 DEF Rows, IInv, RowsInv
  <2>4. NoneExpected'
    BY <1>3, <2>1, ExpectedArrives
  <2>5. DocsOf(Rows)' = View(server)' /\ OneEach(Rows)'
    BY <1>8, <2>2, <2>3 DEF DocsOf, OneEach
  <2>6. PageInv'
    BY <1>2, <1>3, <2>1, <2>4, <2>5 DEF PageInv
  <2>7. IsOpen' = IsOpen
    BY <2>1 DEF IsOpen
  <2> QED BY <2>2, <2>6, <2>7 DEF BookInv, Turns
<1>9. CASE FetchDelivered
  <2>1. c.kind = "fetch" /\ Head(mainQueue).ids = View(server)
    BY <1>2, <1>4, <1>5, <1>9 DEF FetchDelivered, Arrived, Arriving, Completes
  <2>2. PICK rows \in InIdOrder(Head(mainQueue).ids) : Shows(rows)
    BY <1>5, <1>9 DEF FetchDelivered, Granted
  <2>3. View(server) \in SUBSET Known
    BY ViewIsKnown, ClientInvIs DEF IInv, StoreInv
  <2> QED BY <1>8, <2>1, <2>2, <2>3, FetchedOneEach
<1>10. CASE InsertDelivered
  <2>1. c.kind = "insert" /\ c.doc \notin DocsOf(Rows) /\ View(server) = DocsOf(Rows) \cup {c.doc}
    BY <1>2, <1>4, <1>10 DEF InsertDelivered, Arrived, Arriving, Completes
  <2>2. Shows(Cons(LocalTodo(c.doc), Rows))
    BY <1>4, <1>5, <1>6, <1>10 DEF InsertDelivered, Granted
  <2>4. c.doc \in DocIds
    BY <2>1 DEF Callback
  <2>5. LocalTodo(c.doc) \in Todo
    BY <2>4 DEF LocalTodo, Todo
  <2> PICK row \in Todo : row = LocalTodo(c.doc) /\ row.doc = c.doc
    BY <2>5 DEF LocalTodo
  <2>3. DocsOf(Cons(row, Rows)) = View(server) /\ OneEach(Cons(row, Rows))
    BY <1>7, <2>1, ConsOneEach DEF BookInv, PageInv
  <2> QED BY <1>8, <2>2, <2>3
<1>11. CASE DeleteDelivered
  <2>1. c.kind = "delete" /\ c.row \in DOMAIN Rows /\ View(server) = DocsOf(Rows) \ {Rows[c.row].doc}
    BY <1>2, <1>4, <1>11 DEF DeleteDelivered, Arrived, Arriving, Completes
  <2>2. Shows(RemoveAt(Rows, c.row))
    BY <1>4, <1>5, <1>6, <1>11, <2>1 DEF DeleteDelivered, Granted
  <2>3. DocsOf(RemoveAt(Rows, c.row)) = View(server) /\ OneEach(RemoveAt(Rows, c.row))
    BY <1>7, <2>1, RemoveAtOneEach DEF BookInv, PageInv
  <2> QED BY <1>8, <2>2, <2>3
<1> QED BY <1>1, <1>9, <1>10, <1>11 DEF MainQueue

LEMMA ServerBook ==
  ASSUME IInv, CalmInv, BookInv, FriendlyServer
  PROVE  BookInv' /\ Turns
<1>1. /\ ClientInv(Titles, Callback, DocIds \cup {DefaultId}) /\ app = "home"
      /\ ServerTakes \/ StreamBreaks \/ Acknowledge \/ AnswerFromServer
      /\ UNCHANGED <<app, session, todos>> /\ Rows' = Rows
  BY DEF IInv, StoreInv, FriendlyServer, screenVars, Rows
<1>2. ReplayInv' /\ View(server)' = View(server)
  BY <1>1, ServerReplays DEF BookInv
<1>3. NoneExpected => NoneExpected'
  BY <1>1, ServerExpects, ToDoAssumption
<1>4. ASSUME NEW c \in Callback, Completes(c) PROVE Completes(c)'
  <2>1. /\ Queried(c) => \/ Queried(c)'
                         \/ Granted(c)' /\ Head(mainQueue)'.ids = View(server)
        /\ Queued(c) => Queued(c)' \/ Granted(c)'
        /\ Granted(c) => Granted(c)' /\ UNCHANGED mainQueue
    BY <1>1, ServerExpects, ToDoAssumption
  <2> QED BY <1>1, <1>2, <1>4, <2>1 DEF Completes
<1>5. PageInv'
  BY <1>1, <1>2, <1>3, <1>4 DEF BookInv, PageInv
<1> QED BY <1>2, <1>5 DEF BookInv, Turns

LEMMA OthersBook ==
  ASSUME IInv, BookInv, OthersStayAway
  PROVE  BookInv' /\ Turns
<1>1. /\ app # "home" /\ taken = 0 /\ NoneExpected
      /\ UNCHANGED <<app, session, todos, pending, taken, queries, mainQueue>>
      /\ OtherDeviceDeletes \/ \E title \in Titles : OtherDeviceAdds(title)
  BY DEF OthersStayAway, OtherDeviceSaves, OtherDeviceErases, OtherDeviceAdds,
         OtherDeviceDeletes, screenVars, BookInv, PageInv
<1>2. /\ ReplayInv'
      /\ \E id \in DocIds : \/ View(server)' = View(server) \cup {id}
                            \/ View(server)' = View(server) \ {id}
                            \/ View(server)' = View(server)
  BY <1>1, OthersReplay, ToDoAssumption DEF IInv, StoreInv, BookInv
<1>3. ~IsOpen /\ ~IsOpen' /\ NoneExpected' /\ Rows' = Rows
  BY <1>1 DEF IsOpen, NoneExpected, NoneQueued, Rows
<1>4. PageInv'
  BY <1>1, <1>3 DEF BookInv, PageInv
<1>5. Turns
  BY <1>2, <1>3 DEF Turns
<1> QED BY <1>2, <1>4, <1>5 DEF BookInv

LEMMA NextBook ==
  ASSUME IInv, CalmInv, BookInv, [CalmNext]_vars
  PROVE  BookInv' /\ Turns
<1>1. CASE UNCHANGED vars
  <2>1. UNCHANGED <<clientVars, app, session>> /\ Rows' = Rows
    BY <1>1 DEF vars, screenVars, Rows
  <2> QED BY <2>1, ScreenBook
<1>2. CASE CalmNext
  BY <1>2, OpenBook, CloseBook, SaveBook, SwipeBook, ScreenStepsBook, DeliveryBook,
     ServerBook, OthersBook DEF CalmNext, PatientUser
<1> QED BY <1>1, <1>2

LEMMA InitBook == Init => BookInv /\ Book!Init
<1> SUFFICES ASSUME Init PROVE BookInv /\ Book!Init
  OBVIOUS
<1>1. /\ ClientInit /\ app = "signedOut" /\ taken = 0
      /\ queries = {} /\ mainQueue = <<>> /\ pending = <<>>
  BY DEF Init, ClientInit
<1>2. ReplayInv /\ View(server) = {} /\ NoneExpected /\ Rows = <<>> /\ ~IsOpen
  BY <1>1, InitReplays DEF NoneExpected, NoneQueued, Rows, IsOpen
<1>3. PageInv
  BY <1>1, <1>2, NoRowsNoPage DEF PageInv
<1>4. PageSoon = {}
  BY <1>2, <1>3, PageShowsBook
<1> QED BY <1>2, <1>3, <1>4 DEF BookInv, Book!Init, IsOpen

\* Used calmly, the Today tab implements the book its user takes it for: while the
\* tab is open, every save and every swipe changes at once what the device sees of
\* the collection and what the list shows, or will show when the answers that are due
\* have come; nothing else changes either; and across sign-outs, kills and relaunches
\* nothing that was kept is lost (viewDidLoad, persistTodoToFireStore,
\* removeFromFireStore, with the client's queue and the server behind them).
THEOREM CalmUseIsTheBook == CalmSpec => IsTheBook
<1>1. CalmSpec => Init /\ [][CalmNext]_vars /\ []IInv /\ []CalmInv
  <2>1. CalmSpec => Init /\ [][CalmNext]_vars /\ []IInv
    BY CalmIsUse, Invariant, PTL DEF Spec
  <2> QED BY <2>1, NextCalm, InitCalm, PTL
<1>2. IInv /\ CalmInv /\ BookInv /\ [CalmNext]_vars
        => BookInv' /\ [Book!Next]_<<View(server), app = "home" /\ queries = {}, PageSoon>>
  BY NextBook, TurnsIsABookStep DEF BookInv
<1> QED BY <1>1, <1>2, InitBook, PTL DEF IsTheBook, Book!Spec

=============================================================================
