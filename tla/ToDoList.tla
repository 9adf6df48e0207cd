------------------------------- MODULE ToDoList -------------------------------
(***************************************************************************)
(* The Today tab: ToDoViewController with the form that creates a task     *)
(* (AddTaskViewController), its table cells and the Tasks collection.      *)
(*                                                                         *)
(* Its closures hold the controller strongly: one that was signed out of   *)
(* lives, with its rows, until its last answer has come, and a late answer *)
(* still acts on those rows.  Controllers are numbered by the sessions     *)
(* they belong to.  A row names the document it shows, which the code only *)
(* knows by the row's uuid: the document's id when it was fetched, the     *)
(* default "1234" when it was made or toggled here.                        *)
(*                                                                         *)
(* UIKit draws rows some time after the list has changed: at the next      *)
(* layout, when the form goes away, or not at all for a table that has no  *)
(* window.                                                                 *)
(***************************************************************************)
EXTENDS FirestoreClient, SequencesExt

CONSTANTS Titles,       \* what the user may type in the form
          EmptyTitle,   \* the untouched text field
          DefaultId,    \* uuid of a Todo not made from a document: "1234"
          MaxSessions,  \* bound: sign-ins of one process
          MaxCalls      \* bound: calls to Firestore under way at any time

Sessions == 1 .. MaxSessions
Todo == [doc : DocIds, uuid : DocIds \cup {DefaultId}]

\* The closures handed to Firestore: what they captured, and whose they are.
Callback ==
  [kind : {"fetch"}, session : Sessions]
    \cup [kind : {"insert"}, doc : DocIds, session : Sessions]
    \cup [kind : {"delete"}, row : Nat \ {0}, session : Sessions]

ASSUME ToDoAssumption ==
  /\ DocIds \subseteq Nat /\ IsFiniteSet(DocIds)
  /\ DefaultId \notin DocIds
  /\ NoDoc \notin Titles
  /\ NoCallback \notin Callback
  /\ MaxSessions \in Nat /\ MaxCalls \in Nat

VARIABLES app,      \* "signedOut", "home" (the tab is open) or "crashed"
          session,  \* how many home screens this process has opened
          todos,    \* session -> ToDoViewController.todos
          ui,       \* "list", "form", or "edit": the form opened from a row
          swiped    \* history: documents whose row was swiped away

screenVars == <<app, session, todos, ui>>
vars == <<clientVars, screenVars, swiped>>

\* Todo(title:isComplete:) leaves uuid at its default.
LocalTodo(doc) == [doc |-> doc, uuid |-> DefaultId]

\* viewDidLoad, a task made of a document
FetchedTodo(id) == [doc |-> id, uuid |-> id]

NoRows == [s \in Sessions |-> <<>>]

FetchDone(s) == [kind |-> "fetch", session |-> s]
InsertDone(doc, s) == [kind |-> "insert", doc |-> doc, session |-> s]
DeleteDone(row, s) == [kind |-> "delete", row |-> row, session |-> s]

Init ==
  /\ ClientInit
  /\ app = "signedOut" /\ session = 0 /\ ui = "list"
  /\ todos = NoRows
  /\ swiped = {}

-----------------------------------------------------------------------------
(* Controllers *)

OnScreen(s) == app = "home" /\ s = session

\* Some closure still holds the session's controller, these events pending.
Held(s, events) ==
  \/ \E callback \in queries : callback.session = s
  \/ \E i \in DOMAIN pending :
       pending[i].callback # NoCallback /\ pending[i].callback.session = s
  \/ \E i \in DOMAIN events : events[i].callback.session = s

\* An uncaught exception or a trap ends the process.
Crash ==
  /\ app' = "crashed" /\ session' = 0 /\ ui' = "list" /\ todos' = NoRows
  /\ ProcessDies

\* updateChecked strikes through NSMakeRange(0, length - 1), a range that does
\* not exist in an empty title.
Drawable(rows) == \A row \in DOMAIN rows : written[rows[row].doc] # EmptyTitle

DrawTable ==
  /\ \E s \in Sessions : ~Drawable(todos[s])
  /\ Crash
  /\ UNCHANGED swiped

-----------------------------------------------------------------------------
(* The session. *)

MayCall == Len(pending) + Cardinality(queries) + Len(mainQueue) < MaxCalls

\* Signing in opens the tab bar on this tab: viewDidLoad.
OpenToday ==
  /\ app = "signedOut" /\ session < MaxSessions
  /\ app' = "home" /\ session' = session + 1
  /\ GetDocuments(FetchDone(session + 1))
  /\ UNCHANGED <<todos, ui, swiped>>

\* Mutant of SignOut: the form stays open.
SignOutKeepsForm ==
  /\ app = "home"
  /\ app' = "signedOut"
  /\ StreamsStop
  /\ UNCHANGED <<session, todos, ui, swiped>>

\* The controller is deallocated unless a closure holds it.
SignOut ==
  /\ app = "home"
  /\ app' = "signedOut" /\ ui' = "list"
  /\ todos' = IF Held(session, mainQueue) THEN todos ELSE [todos EXCEPT ![session] = <<>>]
  /\ StreamsStop
  /\ UNCHANGED <<session, swiped>>

Relaunch ==
  /\ app' = "signedOut" /\ session' = 0 /\ ui' = "list" /\ todos' = NoRows
  /\ ProcessDies
  /\ UNCHANGED swiped

-----------------------------------------------------------------------------
(* The form. *)

OpenForm ==
  /\ app = "home" /\ ui = "list"
  /\ ui' = "form"
  /\ UNCHANGED <<clientVars, app, session, todos, swiped>>

TableUsable == app = "home" /\ ui = "list" /\ Drawable(todos[session])

\* Tapping a row opens the form with its title; didSelectRowAt deselects the row.
TapRow ==
  /\ TableUsable /\ todos[session] # <<>>
  /\ ui' = "edit"
  /\ UNCHANGED <<clientVars, app, session, todos, swiped>>

CancelForm ==
  /\ app = "home" /\ ui # "list"
  /\ ui' = "list"
  /\ UNCHANGED <<clientVars, app, session, todos, swiped>>

\* save, didSaveTodo and persistTodoToFireStore.  No row is selected any more, so
\* it is always a new task; the title is not checked.
SaveTask ==
  /\ app = "home" /\ ui # "list" /\ MayCall
  /\ \E id \in Fresh, title \in Titles : SetDocument(id, title, InsertDone(id, session))
  /\ ui' = "list"
  /\ UNCHANGED <<app, session, todos, swiped>>

-----------------------------------------------------------------------------
(* The rows. *)

\* completeToggled(), and the value the checkbox handler builds.  The flag itself
\* only decides how the row is drawn and is left out; that the copy has no id matters.
Toggled(todo) == LocalTodo(todo.doc)

\* Swiping "Complete" on a row, or touching its checkbox.
ToggleComplete ==
  /\ TableUsable
  /\ \E row \in DOMAIN todos[session] : todos' = [todos EXCEPT ![session][row] = Toggled(@)]
  /\ UNCHANGED <<clientVars, app, session, ui, swiped>>

\* Mutant of SwipeDelete: the row is counted from one.
SwipeDeleteNextRow ==
  /\ TableUsable /\ MayCall
  /\ \E row \in DOMAIN todos[session] :
       LET todo == todos[session][row]
       IN /\ DeleteDocument(todo.uuid, DeleteDone(row + 1, session))
          /\ swiped' = swiped \cup {todo.doc}
  /\ UNCHANGED screenVars

\* Swiping "Delete" on a row asks nothing; the row stays until the answer.
SwipeDelete ==
  /\ TableUsable /\ MayCall
  /\ \E row \in DOMAIN todos[session] :
       LET todo == todos[session][row]
       IN /\ DeleteDocument(todo.uuid, DeleteDone(row, session))
          /\ swiped' = swiped \cup {todo.doc}
  /\ UNCHANGED screenVars

-----------------------------------------------------------------------------
(* Callbacks on the main queue. *)

Arrived(kind) == mainQueue # <<>> /\ Head(mainQueue).callback.kind = kind
Arriving == Head(mainQueue).callback
Mine == todos[Arriving.session]

\* The event is consumed and its controller's list is these rows from now on; the
\* last closure to run lets go of a controller that is not on the screen.
Shows(rows) ==
  /\ TakeEvent
  /\ UNCHANGED <<written, server, cached, pending, taken, queries, app, session, ui>>
  /\ todos' = [todos EXCEPT ![Arriving.session] =
                  IF OnScreen(Arriving.session) \/ Held(Arriving.session, Tail(mainQueue))
                    THEN rows ELSE <<>>]

Ignore == Shows(Mine)

\* The documents of a snapshot come in the order of their ids.
InIdOrder(ids) ==
  {rows \in [1 .. Cardinality(ids) -> {FetchedTodo(id) : id \in ids}] :
     \A i, j \in DOMAIN rows : i < j => rows[i].doc < rows[j].doc}

FetchDelivered ==
  /\ Arrived("fetch")
  /\ UNCHANGED swiped
  /\ IF Head(mainQueue).ok
       THEN \E rows \in InIdOrder(Head(mainQueue).ids) : Shows(rows)
       ELSE Ignore

\* Mutant of InsertDelivered: a refused task is listed and saved again.
InsertRetries ==
  /\ Arrived("insert")
  /\ OnScreen(Arriving.session)
  /\ UNCHANGED <<server, cached, taken, queries, app, session, ui, swiped>>
  /\ TakeEvent
  /\ IF Head(mainQueue).ok
       THEN UNCHANGED <<written, pending>>
       ELSE UNCHANGED written /\ pending' = Append(pending, Write("set", Arriving.doc, Arriving))
  /\ todos' = [todos EXCEPT ![session] = Cons(LocalTodo(Arriving.doc), @)]

\* Mutant of InsertDelivered: the list is not told.
InsertForgotten ==
  /\ Arrived("insert")
  /\ UNCHANGED swiped
  /\ Ignore

\* persistTodoToFireStore reports an error, which is only printed.
InsertDelivered ==
  /\ Arrived("insert")
  /\ UNCHANGED swiped
  /\ IF Head(mainQueue).ok THEN Shows(Cons(LocalTodo(Arriving.doc), Mine)) ELSE Ignore

\* Mutant of DeleteDelivered: a refused deletion is tried again, by row.
DeleteRetries ==
  /\ Arrived("delete")
  /\ OnScreen(Arriving.session) /\ Arriving.row \in DOMAIN Mine
  /\ UNCHANGED <<written, server, cached, taken, queries, app, session, ui, swiped>>
  /\ TakeEvent
  /\ IF Head(mainQueue).ok
       THEN /\ todos' = [todos EXCEPT ![session] = RemoveAt(@, Arriving.row)]
            /\ UNCHANGED pending
       ELSE /\ pending' = Append(pending, Write("delete", Mine[Arriving.row].uuid, Arriving))
            /\ UNCHANGED todos

\* The row of the time of the swipe is removed, on whatever screen it was.
DeleteDelivered ==
  /\ Arrived("delete")
  /\ UNCHANGED swiped
  /\ IF ~Head(mainQueue).ok
       THEN Ignore
       ELSE \/ Arriving.row \in DOMAIN Mine /\ Shows(RemoveAt(Mine, Arriving.row))
            \/ Arriving.row \notin DOMAIN Mine /\ Crash

-----------------------------------------------------------------------------
(* The client, which runs while a user is signed in, and the other devices. *)

ClientRuns ==
  /\ app = "home"
  /\ ClientStep
  /\ UNCHANGED <<screenVars, swiped>>

OtherDeviceSaves ==
  /\ \E title \in Titles : OtherDeviceAdds(title)
  /\ UNCHANGED <<screenVars, swiped>>

OtherDeviceErases ==
  /\ OtherDeviceDeletes
  /\ UNCHANGED <<screenVars, swiped>>

User ==
  \/ OpenToday \/ SignOut \/ Relaunch
  \/ OpenForm \/ TapRow \/ CancelForm \/ SaveTask
  \/ ToggleComplete \/ SwipeDelete

MainQueue == FetchDelivered \/ InsertDelivered \/ DeleteDelivered \/ DrawTable

Environment == ClientRuns \/ OtherDeviceSaves \/ OtherDeviceErases

Next == User \/ MainQueue \/ Environment

Spec == Init /\ [][Next]_vars

=============================================================================
