----------------------------- MODULE JournalList -----------------------------
(***************************************************************************)
(* The Journal tab: JournalViewController with the form that creates an    *)
(* entry (AddJournalViewController) and the journal collection.            *)
(*                                                                         *)
(* The closures of the fetch and of a save hold the controller strongly,   *)
(* and so does the block which a successful fetch posts to the main queue  *)
(* to draw the table once more; the closure of a deletion holds it weakly. *)
(* A controller that was signed out of lives while one of the former is    *)
(* outstanding, and only then does the latter act.  As in ToDoList,        *)
(* controllers are numbered by their sessions and a row names the document *)
(* it shows, which the code knows by its uuid only if the row was fetched. *)
(* Of an entry the model keeps its date.                                   *)
(***************************************************************************)
EXTENDS FirestoreClient, SequencesExt

CONSTANTS DefaultId,    \* uuid of a Journal not made from a document: "1234"
          MaxDate,      \* bound: the days the date picker offers
          MaxSessions,  \* bound: sign-ins of one process
          MaxCalls      \* bound: calls and posted blocks under way at any time

Dates == 1 .. MaxDate
Sessions == 1 .. MaxSessions
Journal == [doc : DocIds, uuid : DocIds \cup {DefaultId}]

\* The closures handed to Firestore or to the main queue: what they captured, and
\* whose they are.
Callback ==
  [kind : {"fetch", "reload"}, session : Sessions]
    \cup [kind : {"insert"}, doc : DocIds, session : Sessions]
    \cup [kind : {"delete"}, row : Nat \ {0}, session : Sessions]

ASSUME JournalAssumption ==
  /\ IsFiniteSet(DocIds)
  /\ DefaultId \notin DocIds
  /\ NoDoc \notin Dates
  /\ NoCallback \notin Callback
  /\ MaxDate \in Nat /\ MaxSessions \in Nat /\ MaxCalls \in Nat

VARIABLES app,       \* "signedOut", "home" (the tab is open) or "crashed"
          session,   \* how many home screens this process has opened
          journals,  \* session -> JournalViewController.journals
          ui,        \* "list", "form" or "confirm" (the delete dialog)
          dialog,    \* the row and the entry the dialog's closure captured
          confirmed  \* history: documents whose deletion the user confirmed

screenVars == <<app, session, journals, ui, dialog>>
vars == <<clientVars, screenVars, confirmed>>

\* Journal(title:date:body:) leaves uuid at its default; viewDidLoad sets it.
LocalJournal(doc) == [doc |-> doc, uuid |-> DefaultId]
FetchedJournal(id) == [doc |-> id, uuid |-> id]

NoRows == [s \in Sessions |-> <<>>]
NoDialog == [row |-> 0]

FetchDone(s) == [kind |-> "fetch", session |-> s]
ReloadData(s) == [kind |-> "reload", session |-> s]
InsertDone(doc, s) == [kind |-> "insert", doc |-> doc, session |-> s]
DeleteDone(row, s) == [kind |-> "delete", row |-> row, session |-> s]

Init ==
  /\ ClientInit
  /\ app = "signedOut" /\ session = 0 /\ ui = "list"
  /\ journals = NoRows /\ dialog = NoDialog
  /\ confirmed = {}

-----------------------------------------------------------------------------
(* Controllers *)

OnScreen(s) == app = "home" /\ s = session

Holds(callback, s) ==
  callback # NoCallback /\ callback.session = s /\ callback.kind # "delete"

\* Some closure holds the session's controller strongly, these events pending.
Held(s, events) ==
  \/ \E callback \in queries : Holds(callback, s)
  \/ \E i \in DOMAIN pending : Holds(pending[i].callback, s)
  \/ \E i \in DOMAIN events : Holds(events[i].callback, s)

\* Swift traps when a row is removed that is not there.
Crash ==
  /\ app' = "crashed" /\ session' = 0 /\ ui' = "list"
  /\ journals' = NoRows /\ dialog' = NoDialog
  /\ ProcessDies

-----------------------------------------------------------------------------
(* The session. *)

MayCall == Len(pending) + Cardinality(queries) + Len(mainQueue) < MaxCalls

OpenJournal ==
  /\ app = "signedOut" /\ session < MaxSessions
  /\ app' = "home" /\ session' = session + 1
  /\ GetDocuments(FetchDone(session + 1))
  /\ UNCHANGED <<journals, ui, dialog, confirmed>>

\* Mutant of SignOut: the controller is part of a retain cycle and never goes.
SignOutLeaks ==
  /\ app = "home" /\ ui # "confirm"
  /\ app' = "signedOut" /\ ui' = "list"
  /\ StreamsStop
  /\ UNCHANGED <<session, journals, dialog, confirmed>>

\* The tab bar is out of reach under the dialog.
SignOut ==
  /\ app = "home" /\ ui # "confirm"
  /\ app' = "signedOut" /\ ui' = "list"
  /\ journals' = IF Held(session, mainQueue) THEN journals
                 ELSE [journals EXCEPT ![session] = <<>>]
  /\ StreamsStop
  /\ UNCHANGED <<session, dialog, confirmed>>

Relaunch ==
  /\ app' = "signedOut" /\ session' = 0 /\ ui' = "list"
  /\ journals' = NoRows /\ dialog' = NoDialog
  /\ ProcessDies
  /\ UNCHANGED confirmed

-----------------------------------------------------------------------------
(* The form.  savePressed does nothing while the title is empty. *)

OpenForm ==
  /\ app = "home" /\ ui = "list"
  /\ ui' = "form"
  /\ UNCHANGED <<clientVars, app, session, journals, dialog, confirmed>>

CancelForm ==
  /\ app = "home" /\ ui = "form"
  /\ ui' = "list"
  /\ UNCHANGED <<clientVars, app, session, journals, dialog, confirmed>>

\* savePressed with a title, and addJournal.
SaveJournal ==
  /\ app = "home" /\ ui = "form" /\ MayCall
  /\ \E id \in Fresh, date \in Dates : SetDocument(id, date, InsertDone(id, session))
  /\ ui' = "list"
  /\ UNCHANGED <<app, session, journals, dialog, confirmed>>

-----------------------------------------------------------------------------
(* The rows. *)

\* Swiping "Delete" captures the entry and its row and asks.
SwipeDelete ==
  /\ app = "home" /\ ui = "list"
  /\ \E row \in DOMAIN journals[session] :
       dialog' = [row |-> row, journal |-> journals[session][row]]
  /\ ui' = "confirm"
  /\ UNCHANGED <<clientVars, app, session, journals, confirmed>>

CancelDelete ==
  /\ app = "home" /\ ui = "confirm"
  /\ ui' = "list" /\ dialog' = NoDialog
  /\ UNCHANGED <<clientVars, app, session, journals, confirmed>>

\* Mutant of ConfirmDelete: the entry is looked up when the user confirms.
ConfirmLooksUpRow ==
  /\ app = "home" /\ ui = "confirm" /\ MayCall
  /\ dialog.row \in DOMAIN journals[session]
  /\ DeleteDocument(journals[session][dialog.row].uuid, DeleteDone(dialog.row, session))
  /\ confirmed' = confirmed \cup {dialog.journal.doc}
  /\ ui' = "list" /\ dialog' = NoDialog
  /\ UNCHANGED <<app, session, journals>>

\* Mutant of ConfirmDelete: the row is counted from one.
ConfirmNextRow ==
  /\ app = "home" /\ ui = "confirm" /\ MayCall
  /\ DeleteDocument(dialog.journal.uuid, DeleteDone(dialog.row + 1, session))
  /\ confirmed' = confirmed \cup {dialog.journal.doc}
  /\ ui' = "list" /\ dialog' = NoDialog
  /\ UNCHANGED <<app, session, journals>>

ConfirmDelete ==
  /\ app = "home" /\ ui = "confirm" /\ MayCall
  /\ DeleteDocument(dialog.journal.uuid, DeleteDone(dialog.row, session))
  /\ confirmed' = confirmed \cup {dialog.journal.doc}
  /\ ui' = "list" /\ dialog' = NoDialog
  /\ UNCHANGED <<app, session, journals>>

-----------------------------------------------------------------------------
(* Closures on the main queue. *)

Arrived(kind) == mainQueue # <<>> /\ Head(mainQueue).callback.kind = kind
Arriving == Head(mainQueue).callback
Mine == journals[Arriving.session]

Alive == OnScreen(Arriving.session) \/ Held(Arriving.session, Tail(mainQueue))

\* The event is consumed and its controller's list is these rows from now on; the
\* last closure to run lets go of a controller that is not on the screen.
Show(rows) ==
  /\ TakeEvent
  /\ UNCHANGED <<written, server, cached, pending, taken, queries, app, session, ui, dialog>>
  /\ journals' = [journals EXCEPT ![Arriving.session] = IF Alive THEN rows ELSE <<>>]

Ignore == Show(Mine)

\* sorted(by: { $0.date < $1.date })
OldestFirst(ids) ==
  {rows \in [1 .. Cardinality(ids) -> {FetchedJournal(id) : id \in ids}] :
     /\ \A id \in ids : \E row \in DOMAIN rows : rows[row] = FetchedJournal(id)
     /\ \A i, j \in DOMAIN rows : i < j => written[rows[i].doc] <= written[rows[j].doc]}

\* The controller's list is these rows from now on, and the block that will draw it
\* once more, which holds the controller, goes to the end of the queue.
ShowAndReload(rows) ==
  /\ mainQueue' = Append(Tail(mainQueue), Event(ReloadData(Arriving.session), TRUE, {}))
  /\ UNCHANGED <<written, server, cached, pending, taken, queries, app, session, ui, dialog>>
  /\ journals' = [journals EXCEPT ![Arriving.session] = rows]

FetchDelivered ==
  /\ Arrived("fetch")
  /\ UNCHANGED confirmed
  /\ IF Head(mainQueue).ok
       THEN \E rows \in OldestFirst(Head(mainQueue).ids) : ShowAndReload(rows)
       ELSE Ignore

\* The block draws what is there and lets go of the controller.
ReloadDelivered ==
  /\ Arrived("reload")
  /\ UNCHANGED confirmed
  /\ Ignore

\* Mutant of InsertDelivered: the entry is appended.
InsertAtEnd ==
  /\ Arrived("insert")
  /\ UNCHANGED confirmed
  /\ IF Head(mainQueue).ok THEN Show(Append(Mine, LocalJournal(Arriving.doc))) ELSE Ignore

InsertDelivered ==
  /\ Arrived("insert")
  /\ UNCHANGED confirmed
  /\ IF Head(mainQueue).ok THEN Show(Cons(LocalJournal(Arriving.doc), Mine)) ELSE Ignore

\* Mutant of DeleteDelivered: the list is not told.
DeleteKeepsRow ==
  /\ Arrived("delete")
  /\ UNCHANGED confirmed
  /\ Ignore

\* guard let self: only a controller that still lives removes the row of the
\* time of the swipe.
DeleteDelivered ==
  /\ Arrived("delete")
  /\ UNCHANGED confirmed
  /\ IF Alive /\ Head(mainQueue).ok
       THEN \/ Arriving.row \in DOMAIN Mine /\ Show(RemoveAt(Mine, Arriving.row))
            \/ Arriving.row \notin DOMAIN Mine /\ Crash
       ELSE Ignore

-----------------------------------------------------------------------------
(* The client, which runs while a user is signed in, and the other devices. *)

ClientRuns ==
  /\ app = "home"
  /\ ClientStep
  /\ UNCHANGED <<screenVars, confirmed>>

OtherDeviceSaves ==
  /\ \E date \in Dates : OtherDeviceAdds(date)
  /\ UNCHANGED <<screenVars, confirmed>>

OtherDeviceErases ==
  /\ OtherDeviceDeletes
  /\ UNCHANGED <<screenVars, confirmed>>

User ==
  \/ OpenJournal \/ SignOut \/ Relaunch
  \/ OpenForm \/ CancelForm \/ SaveJournal
  \/ SwipeDelete \/ CancelDelete \/ ConfirmDelete

MainQueue == FetchDelivered \/ ReloadDelivered \/ InsertDelivered \/ DeleteDelivered

Environment == ClientRuns \/ OtherDeviceSaves \/ OtherDeviceErases

Next == User \/ MainQueue \/ Environment

Spec == Init /\ [][Next]_vars

=============================================================================
