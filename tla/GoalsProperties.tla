--------------------------- MODULE GoalsProperties ---------------------------
(***************************************************************************)
(* What the Goals tab gets right in every behaviour of GoalsList, and, at  *)
(* the end, what the repository's texts say of it and the code does not.   *)
(***************************************************************************)
EXTENDS GoalsList

\* Every variable has its type; the dialog holds a row exactly while it is up,
\* and no controller state is left when no home screen exists.
TypeOK ==
  /\ ClientTypeOK(Document, Callback, DocIds)
  /\ app \in {"signedOut", "home", "crashed"}
  /\ goals \in Seq(Goal)
  /\ ui \in {"list", "form", "confirm"}
  /\ IF ui = "confirm" THEN dialog \in [row : Nat \ {0}, goal : Goal]
                       ELSE dialog = NoDialog
  /\ alert \in BOOLEAN
  /\ clock \in 0 .. MaxClock
  /\ confirmed \subseteq Document
  /\ app # "home" => goals = <<>> /\ ui = "list" /\ ~alert

-----------------------------------------------------------------------------
(* Safety *)

\* A row that carries a document's id shows that document as it was stored,
\* whatever was toggled, overwritten or inserted around it; so does the goal
\* the delete dialog holds.  (Deleting goes by this id.)
ShowsItsDocument(goal) == goal.uuid # NoId => goal = FetchedGoal(goal.uuid)

RowsShowTheirDocuments ==
  /\ \A row \in DOMAIN goals : ShowsItsDocument(goals[row])
  /\ ui = "confirm" => ShowsItsDocument(dialog.goal)

\* This device removes a document from the server only if the user confirmed
\* the deletion of a row that showed that very title and date, however the list
\* changed between the swipe, the confirmation and the server's answer.
DeletesOnlyConfirmed ==
  [][~OtherDeviceErases =>
       \A id \in server \ server' : written[id] \in confirmed]_vars

Listed(date, rows) == \E row \in DOMAIN rows : rows[row].date = date

\* The list the fetch delivers replaces rows inserted while it was under way
\* (fetchGoals, persistGoalToFireStore); it never takes away one whose document
\* the server holds, and the client knows it, and nobody on this device is deleting.
FetchKeepsStoredRows ==
  [][FetchDelivered /\ app' = "home" =>
       \A id \in (server \cap cached) \ PendingIds("delete") :
         Listed(written[id].date, goals) => Listed(written[id].date, goals')]_vars

\* One save is shown by at most two rows, the fetched document and the row its
\* callback inserted, however sessions, fetches and callbacks interleave.
AtMostTwoRowsPerGoal ==
  \A i, j, k \in DOMAIN goals :
    goals[i].date = goals[j].date /\ goals[j].date = goals[k].date
      => i = j \/ j = k \/ i = k

\* Where a document is in the life DocumentLife describes.
LifeOf(id) ==
  CASE written[id] = NoDoc -> "unused"
    [] written[id] # NoDoc /\ id \in PendingIds("set") -> "queued"
    [] written[id] # NoDoc /\ id \notin PendingIds("set") /\ id \in server -> "stored"
    [] OTHER -> "gone"

lifeBar == [id \in DocIds |-> LifeOf(id)]

Lives == INSTANCE DocumentLife WITH life <- lifeBar

\* Saves, refusals, deletions, sign-outs, crashes and restarts together never
\* create a document twice and never bring one back: GoalsList implements
\* DocumentLife.
DocumentsLiveOnce == Lives!Spec

-----------------------------------------------------------------------------
(* Liveness.  The run loop serves the main queue and, while the user stays  *)
(* signed in, the server answers writes; nothing is assumed of the user.    *)

ServerAnswersWrites ==
  /\ app = "home"
  /\ Acknowledge \/ Reject
  /\ UNCHANGED <<screenVars, clock, confirmed>>

LiveSpec == Spec /\ WF_vars(ServerAnswersWrites) /\ WF_vars(MainQueue)

\* A goal whose insertion this controller still waits for, queued or answered.
AwaitsRow(date) ==
  \/ \E i \in DOMAIN pending :
       /\ pending[i].callback # NoCallback
       /\ pending[i].callback.kind = "insert"
       /\ pending[i].callback.live
       /\ pending[i].callback.goal.date = date
  \/ \E i \in DOMAIN mainQueue :
       /\ mainQueue[i].callback.kind = "insert"
       /\ mainQueue[i].callback.live
       /\ mainQueue[i].callback.goal.date = date

\* The answer that has come for this goal is a refusal.
Refused(date) ==
  \E i \in DOMAIN mainQueue :
    /\ mainQueue[i].callback.kind = "insert"
    /\ mainQueue[i].callback.goal.date = date
    /\ ~mainQueue[i].ok

\* A goal handed to Firestore gets its row, unless the server refuses it or the
\* session ends first: however many streams break, and whatever the user and the
\* other callbacks do to the list or the screen meanwhile (persistGoalToFireStore).
SavedGoalAppears ==
  \A date \in Dates :
    AwaitsRow(date) ~> (Listed(date, goals) \/ Refused(date) \/ app # "home")

-----------------------------------------------------------------------------
(* What the texts say and the code does not do. *)

\* "Would you like to delete this Goal now?": the row that leaves the list when
\* the deletion succeeds is the goal that was asked about.
DeletesTheGoalAskedAbout ==
  [][DeleteDelivered /\ Len(goals') < Len(goals) /\ app' = "home" =>
       DocumentOf(goals[Arriving.row]) \in confirmed]_vars

\* "writing down your daily tasks or your long term goals": each goal saved on a
\* device is written to the collection.
SavingWritesDown == [][clock' # clock => written' # written]_vars

=============================================================================
