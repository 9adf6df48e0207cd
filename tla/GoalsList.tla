------------------------------ MODULE GoalsList ------------------------------
(***************************************************************************)
(* The Goals tab: GoalsViewController with the form that creates a goal    *)
(* (GoalCategoryViewController, AddGoalViewController), its table cells    *)
(* and the Goals collection behind it.                                     *)
(*                                                                         *)
(* Everything the application does runs on the main thread; what           *)
(* interleaves is the user, the callbacks the Firestore client posts to    *)
(* the main queue, the client itself, other devices, and the death of the  *)
(* process.  A callback belongs to the controller that made the call: it   *)
(* is "live" until that controller is deallocated by signing out.          *)
(***************************************************************************)
EXTENDS FirestoreClient, SequencesExt

CONSTANTS Titles,      \* what the user may type in the form
          EmptyTitle,  \* the untouched text field
          NoId,        \* uuid of a Goal not made from a document: ""
          MaxClock,    \* bound: how many goals are ever saved, on all devices
          MaxCalls     \* bound: calls to Firestore under way at any time

Dates == 1 .. MaxClock
Document == [title : Titles, date : Dates]
Goal == [uuid : DocIds \cup {NoId}, title : Titles, date : Dates]
NewGoal == [uuid : {NoId}, title : Titles, date : Dates]

\* The closures handed to Firestore: what they captured, and whether their
\* controller still exists.
Callback ==
  [kind : {"fetch"}, live : BOOLEAN]
    \cup [kind : {"insert"}, goal : NewGoal, live : BOOLEAN]
    \cup [kind : {"delete"}, row : Nat \ {0}, live : BOOLEAN]

ASSUME GoalsAssumption ==
  /\ IsFiniteSet(DocIds)
  /\ NoId \notin DocIds
  /\ NoDoc \notin Document
  /\ NoCallback \notin Callback
  /\ MaxClock \in Nat /\ MaxCalls \in Nat

VARIABLES app,         \* "signedOut", "home" (the tab is open) or "crashed"
          goals,       \* GoalsViewController.goals, the rows of the table
          ui,          \* "list", "form" or "confirm" (the delete dialog)
          dialog,      \* the goal and index path the dialog's closure captured
          alert,       \* MyAlert's overlay covers the table
          clock,       \* Date() as the number of goals saved so far
          confirmed    \* history: documents whose deletion the user confirmed

screenVars == <<app, goals, ui, dialog, alert>>
vars == <<clientVars, screenVars, clock, confirmed>>

NoDialog == [row |-> 0]

\* Goal(title:isComplete:date:category:) leaves uuid at its default.
LocalGoal(doc) == [uuid |-> NoId, title |-> doc.title, date |-> doc.date]

\* Goal(document:)
FetchedGoal(id) ==
  [uuid |-> id, title |-> written[id].title, date |-> written[id].date]

DocumentOf(goal) == [title |-> goal.title, date |-> goal.date]

\* completeToggled(), and the value the checkbox handler builds.  The flag itself
\* only decides how the row is drawn and is left out; that the copy has no id matters.
Toggled(goal) == LocalGoal(DocumentOf(goal))

FetchDone(live) == [kind |-> "fetch", live |-> live]
InsertDone(goal, live) == [kind |-> "insert", goal |-> goal, live |-> live]
DeleteDone(row, live) == [kind |-> "delete", row |-> row, live |-> live]

Init ==
  /\ ClientInit
  /\ app = "signedOut" /\ goals = <<>> /\ ui = "list"
  /\ dialog = NoDialog /\ alert = FALSE
  /\ clock = 0 /\ confirmed = {}

-----------------------------------------------------------------------------
(* The end of a screen and of the process. *)

\* Mutant of NoScreen: the overlay is the window's and stays.
NoScreenUnderAlert ==
  /\ goals' = <<>> /\ ui' = "list" /\ dialog' = NoDialog /\ UNCHANGED alert

\* The controllers of the home screen are gone.
NoScreen ==
  /\ goals' = <<>> /\ ui' = "list" /\ dialog' = NoDialog /\ alert' = FALSE

\* An uncaught exception or a trap ends the process.
Crash ==
  /\ app' = "crashed"
  /\ NoScreen
  /\ ProcessDies
  /\ UNCHANGED confirmed

-----------------------------------------------------------------------------
(* Drawing.  updateChecked strikes through NSMakeRange(0, length - 1), a   *)
(* range that does not exist in an empty title: drawing such a row raises. *)
(* UIKit draws the rows some time after the list has changed: at the next  *)
(* layout, or when the form goes away.                                     *)

Drawable(rows) == \A row \in DOMAIN rows : rows[row].title # EmptyTitle

DrawTable ==
  /\ app = "home" /\ ~Drawable(goals)
  /\ Crash
  /\ UNCHANGED clock

-----------------------------------------------------------------------------
(* The session. *)

MayCall == Len(pending) + Cardinality(queries) + Len(mainQueue) < MaxCalls

\* Signing in replaces the root controller; selecting the tab runs viewDidLoad.
OpenGoals ==
  /\ app = "signedOut" /\ MayCall
  /\ app' = "home"
  /\ NoScreen
  /\ GetDocuments(FetchDone(TRUE))
  /\ UNCHANGED <<clock, confirmed>>

Orphaned(callback) ==
  IF callback = NoCallback THEN callback ELSE [callback EXCEPT !.live = FALSE]

\* Signing out replaces the root controller; the tab bar is out of reach only
\* under the dialog.  The client and its queues belong to the process and stay;
\* the write stream of the user who leaves is closed.
SignOut ==
  /\ app = "home" /\ ui # "confirm"
  /\ app' = "signedOut"
  /\ NoScreen
  /\ pending' = [i \in DOMAIN pending |->
                  [pending[i] EXCEPT !.callback = Orphaned(@)]]
  /\ taken' = 0
  /\ queries' = {Orphaned(callback) : callback \in queries}
  /\ mainQueue' = [i \in DOMAIN mainQueue |->
                    [mainQueue[i] EXCEPT !.callback = Orphaned(@)]]
  /\ UNCHANGED <<written, server, cached, clock, confirmed>>

\* The process is killed, or has crashed, and is started again.
Relaunch ==
  /\ app' = "signedOut"
  /\ NoScreen
  /\ ProcessDies
  /\ UNCHANGED <<clock, confirmed>>

-----------------------------------------------------------------------------
(* The form. *)

\* The navigation bar's button works whether or not the overlay is up.
OpenForm ==
  /\ app = "home" /\ ui = "list"
  /\ ui' = "form"
  /\ UNCHANGED <<clientVars, app, goals, dialog, alert, clock, confirmed>>

CancelForm ==
  /\ app = "home" /\ ui = "form"
  /\ ui' = "list"
  /\ UNCHANGED <<clientVars, app, goals, dialog, alert, clock, confirmed>>

\* persistGoalToFireStore
Persist(goal) ==
  /\ AddDocument(DocumentOf(goal), InsertDone(goal, TRUE))
  /\ ui' = "list"
  /\ UNCHANGED <<app, goals, dialog, alert, confirmed>>

\* didSaveGoal looks for a row with the new goal's uuid, which is always "".
Unidentified == {row \in DOMAIN goals : goals[row].uuid = NoId}

Overwrite(goal) ==
  \E row \in Unidentified :
    /\ \A other \in Unidentified : row <= other
    /\ goals' = [goals EXCEPT ![row] = goal]
  /\ ui' = "list"
  /\ UNCHANGED <<clientVars, app, dialog, alert, confirmed>>

\* AddGoalViewController.save: the date is the time of saving, the title is not checked.
SaveGoal ==
  /\ app = "home" /\ ui = "form" /\ clock < MaxClock /\ MayCall
  /\ clock' = clock + 1
  /\ \E title \in Titles :
       LET goal == LocalGoal([title |-> title, date |-> clock + 1])
       IN IF Unidentified = {} THEN Persist(goal) ELSE Overwrite(goal)

-----------------------------------------------------------------------------
(* The rows. *)

TableUsable == app = "home" /\ ui = "list" /\ ~alert /\ Drawable(goals)

\* Swiping "Complete" on a row.
SwipeComplete ==
  /\ TableUsable
  /\ \E row \in DOMAIN goals : goals' = [goals EXCEPT ![row] = Toggled(@)]
  /\ UNCHANGED <<clientVars, app, ui, dialog, alert, clock, confirmed>>

\* Touching the checkbox: the cell updates the row and didTapButton shows the alert.
TouchCheckbox ==
  /\ TableUsable
  /\ \E row \in DOMAIN goals : goals' = [goals EXCEPT ![row] = Toggled(@)]
  /\ alert' = TRUE
  /\ UNCHANGED <<clientVars, app, ui, dialog, clock, confirmed>>

DismissAlert ==
  /\ app = "home" /\ ui = "list" /\ alert
  /\ alert' = FALSE
  /\ UNCHANGED <<clientVars, app, goals, ui, dialog, clock, confirmed>>

\* Swiping "Delete" captures the goal and its row and asks.
SwipeDelete ==
  /\ TableUsable
  /\ \E row \in DOMAIN goals : dialog' = [row |-> row, goal |-> goals[row]]
  /\ ui' = "confirm"
  /\ UNCHANGED <<clientVars, app, goals, alert, clock, confirmed>>

CancelDelete ==
  /\ app = "home" /\ ui = "confirm"
  /\ ui' = "list" /\ dialog' = NoDialog
  /\ UNCHANGED <<clientVars, app, goals, alert, clock, confirmed>>

\* Mutant of ConfirmDelete: the goal is looked up when the user confirms.
ConfirmLooksUpRow ==
  /\ app = "home" /\ ui = "confirm" /\ MayCall
  /\ dialog.row \in DOMAIN goals /\ goals[dialog.row].uuid # NoId
  /\ DeleteDocument(goals[dialog.row].uuid, DeleteDone(dialog.row, TRUE))
  /\ confirmed' = confirmed \cup {DocumentOf(dialog.goal)}
  /\ ui' = "list" /\ dialog' = NoDialog
  /\ UNCHANGED <<app, goals, alert, clock>>

\* Mutant of ConfirmDelete: the row is counted from one.
ConfirmNextRow ==
  /\ app = "home" /\ ui = "confirm" /\ MayCall
  /\ dialog.goal.uuid # NoId
  /\ DeleteDocument(dialog.goal.uuid, DeleteDone(dialog.row + 1, TRUE))
  /\ confirmed' = confirmed \cup {DocumentOf(dialog.goal)}
  /\ ui' = "list" /\ dialog' = NoDialog
  /\ UNCHANGED <<app, goals, alert, clock>>

\* The dialog's Delete; document("") raises.
ConfirmDelete ==
  /\ app = "home" /\ ui = "confirm"
  /\ MayCall
  /\ UNCHANGED clock
  /\ \/ /\ dialog.goal.uuid # NoId
        /\ DeleteDocument(dialog.goal.uuid, DeleteDone(dialog.row, TRUE))
        /\ confirmed' = confirmed \cup {DocumentOf(dialog.goal)}
        /\ ui' = "list" /\ dialog' = NoDialog
        /\ UNCHANGED <<app, goals, alert>>
     \/ /\ dialog.goal.uuid = NoId
        /\ Crash

-----------------------------------------------------------------------------
(* Callbacks on the main queue. *)

Arrived(kind) == mainQueue # <<>> /\ Head(mainQueue).callback.kind = kind
Arriving == Head(mainQueue).callback

\* The event is consumed without effect.
Ignore == TakeEvent /\ UNCHANGED <<written, server, cached, pending, taken, queries, screenVars>>

\* The event is consumed and the rows of the list are these from now on.
Show(rows) ==
  /\ TakeEvent
  /\ goals' = rows
  /\ UNCHANGED <<written, server, cached, pending, taken, queries, app, ui, dialog, alert>>

\* documents.map { Goal(document: $0) }.sorted(by: { $0.date > $1.date })
NewestFirst(ids) ==
  {rows \in [1 .. Cardinality(ids) -> {FetchedGoal(id) : id \in ids}] :
     /\ \A id \in ids : \E row \in DOMAIN rows : rows[row] = FetchedGoal(id)
     /\ \A i, j \in DOMAIN rows : i < j => rows[i].date >= rows[j].date}

\* fetchGoals: a weak self; an error is only printed.
FetchDelivered ==
  /\ Arrived("fetch")
  /\ UNCHANGED <<clock, confirmed>>
  /\ IF Arriving.live /\ Head(mainQueue).ok
       THEN \E rows \in NewestFirst(Head(mainQueue).ids) : Show(rows)
       ELSE Ignore

\* Mutant of InsertDelivered: a list that is not in view, under the form, is not told.
InsertIfInView ==
  /\ Arrived("insert")
  /\ UNCHANGED <<clock, confirmed>>
  /\ IF Arriving.live /\ ui = "form"
       THEN Ignore
       ELSE \/ Arriving.live /\ Show(Cons(Arriving.goal, goals))
            \/ ~Arriving.live /\ Crash

\* Mutant of InsertDelivered: the row is given the id of a document just stored.
InsertWithStoredId ==
  /\ Arrived("insert") /\ Arriving.live
  /\ UNCHANGED <<clock, confirmed>>
  /\ \E id \in cached : Show(Cons([Arriving.goal EXCEPT !.uuid = id], goals))

\* Mutant of InsertDelivered: a failed write is tried again and listed again.
InsertRetries ==
  /\ Arrived("insert") /\ Arriving.live
  /\ UNCHANGED <<server, cached, taken, queries, app, ui, dialog, alert, clock, confirmed>>
  /\ goals' = Cons(Arriving.goal, goals)
  /\ TakeEvent
  /\ IF Head(mainQueue).ok
       THEN UNCHANGED <<written, pending>>
       ELSE \E id \in Fresh :
              /\ written' = [written EXCEPT ![id] = DocumentOf(Arriving.goal)]
              /\ pending' = Append(pending, Write("set", id, Arriving))

\* persistGoalToFireStore's callback: the error is not looked at, self is forced.
InsertDelivered ==
  /\ Arrived("insert")
  /\ UNCHANGED <<clock, confirmed>>
  /\ \/ Arriving.live /\ Show(Cons(Arriving.goal, goals))
     \/ ~Arriving.live /\ Crash

\* Mutant of DeleteDelivered: the table is not told.
DeleteKeepsRow ==
  /\ Arrived("delete")
  /\ Ignore
  /\ UNCHANGED <<clock, confirmed>>

\* The delete callback removes the row of the time of the swipe.
DeleteDelivered ==
  /\ Arrived("delete")
  /\ UNCHANGED <<clock, confirmed>>
  /\ IF Arriving.live /\ Head(mainQueue).ok
       THEN \/ Arriving.row \in DOMAIN goals /\ Show(RemoveAt(goals, Arriving.row))
            \/ Arriving.row \notin DOMAIN goals /\ Crash
       ELSE Ignore

-----------------------------------------------------------------------------
(* The client, which runs while a user is signed in, and the other devices. *)

ClientRuns ==
  /\ app = "home"
  /\ ClientStep
  /\ UNCHANGED <<screenVars, clock, confirmed>>

OtherDeviceSaves ==
  /\ clock < MaxClock
  /\ clock' = clock + 1
  /\ \E title \in Titles : OtherDeviceAdds([title |-> title, date |-> clock + 1])
  /\ UNCHANGED <<screenVars, confirmed>>

OtherDeviceErases ==
  /\ OtherDeviceDeletes
  /\ UNCHANGED <<screenVars, clock, confirmed>>

User ==
  \/ OpenGoals \/ SignOut \/ Relaunch
  \/ OpenForm \/ CancelForm \/ SaveGoal
  \/ SwipeComplete \/ TouchCheckbox \/ DismissAlert
  \/ SwipeDelete \/ CancelDelete \/ ConfirmDelete

MainQueue == FetchDelivered \/ InsertDelivered \/ DeleteDelivered \/ DrawTable

Environment == ClientRuns \/ OtherDeviceSaves \/ OtherDeviceErases

Next == User \/ MainQueue \/ Environment

Spec == Init /\ [][Next]_vars

=============================================================================
