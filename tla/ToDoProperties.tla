---------------------------- MODULE ToDoProperties ----------------------------
(***************************************************************************)
(* What the Today tab gets right in every behaviour of ToDoList, how it    *)
(* must be used to be the book of tasks its user takes it for, and what    *)
(* the code's own comment says of it and the code does not.                *)
(***************************************************************************)
EXTENDS ToDoList

\* Every variable has its type; a controller that is neither on the screen nor
\* awaited by a closure holds no rows, and the form is open on no other screen.
TypeOK ==
  /\ ClientTypeOK(Titles, Callback, DocIds \cup {DefaultId})
  /\ app \in {"signedOut", "home", "crashed"}
  /\ session \in 0 .. MaxSessions
  /\ todos \in [Sessions -> Seq(Todo)]
  /\ ui \in {"list", "form", "edit"}
  /\ swiped \subseteq DocIds
  /\ app = "home" => session \in Sessions
  /\ app # "home" => ui = "list"
  /\ \A s \in Sessions : OnScreen(s) \/ Held(s, mainQueue) \/ todos[s] = <<>>

-----------------------------------------------------------------------------
(* Safety *)

\* This device removes a document from the server only if the user swiped away a
\* row that showed it, however rows moved, sessions ended and answers were late:
\* removeFromFireStore goes by the row of the time of the swipe.
DeletesOnlySwiped ==
  [][~OtherDeviceErases => server \ server' \subseteq swiped]_vars

\* One task is shown by at most two rows of a list, the fetched one and the one
\* its save inserted, however the fetch, the save and their answers interleave.
AtMostTwoRowsPerTask ==
  \A s \in Sessions : \A i, j, k \in DOMAIN todos[s] :
    todos[s][i].doc = todos[s][j].doc /\ todos[s][j].doc = todos[s][k].doc
      => i = j \/ j = k \/ i = k

-----------------------------------------------------------------------------
(* Calm use: each condition fences off one hazard of the code.  The process *)
(* may still die at any moment.                                             *)

\* No callback of this process is outstanding, so no row can move.
Quiet == queries = {} /\ \A s \in Sessions : ~Held(s, mainQueue)

PatientUser ==
  \/ Quiet /\ (SignOut \/ SaveTask \/ SwipeDelete)
  \/ OpenToday \/ Relaunch
  \/ OpenForm \/ TapRow \/ CancelForm
  \/ ToggleComplete

\* Give every task a title; delete only a row that was fetched and not toggled.
CarefulStep ==
  /\ \A id \in DocIds : (written[id])' # EmptyTitle
  /\ SwipeDelete => pending'[Len(pending')].id # DefaultId

FriendlyServer ==
  /\ app = "home"
  /\ ServerTakes \/ StreamBreaks \/ Acknowledge \/ AnswerFromServer
  /\ UNCHANGED <<screenVars, swiped>>

OthersStayAway == app # "home" /\ (OtherDeviceSaves \/ OtherDeviceErases)

CalmNext ==
  /\ PatientUser \/ MainQueue \/ FriendlyServer \/ OthersStayAway
  /\ CarefulStep

\* The run loop serves the main queue, a user whose tab is gone comes back, and
\* the server takes a write if it is given the chance again and again, for the
\* tab may be closed before any one chance is used.
CalmSpec ==
  /\ Init /\ [][CalmNext]_vars
  /\ WF_vars(MainQueue) /\ WF_vars(OpenToday \/ (app # "home" /\ Relaunch))
  /\ SF_vars(FriendlyServer /\ ServerTakes)
  /\ SF_vars(FriendlyServer /\ Acknowledge)

Rows == IF app = "home" THEN todos[session] ELSE <<>>

\* The callbacks outstanding, in the queue or answered.
AwaitedCallbacks ==
  {pending[i].callback : i \in {j \in DOMAIN pending : pending[j].callback # NoCallback}}
    \cup {mainQueue[i].callback : i \in DOMAIN mainQueue}

\* What the table shows once the outstanding callbacks have run.
PageSoon ==
  IF \E i \in DOMAIN mainQueue : mainQueue[i].callback.kind = "fetch"
    THEN Head(mainQueue).ids
    ELSE ({Rows[row].doc : row \in DOMAIN Rows}
           \cup {c.doc : c \in {d \in AwaitedCallbacks : d.kind = "insert"}})
           \ {Rows[c.row].doc : c \in {d \in AwaitedCallbacks :
                                       d.kind = "delete" /\ d.row \in DOMAIN Rows}}

Book == INSTANCE Notebook WITH
          Entries <- DocIds,
          book <- View(server),
          open <- app = "home" /\ queries = {},
          page <- PageSoon

\* Used calmly, the tab is the book of tasks, across sign-outs, kills and
\* relaunches: a saved task is kept and listed, the swiped one is discarded, and
\* the list is what the collection holds.
IsTheBook == Book!Spec

\* Used calmly, every task handed to Firestore is stored and acknowledged, even if
\* every session in between ends in a sign-out or with the process.
QueuedTasksSettle ==
  \A id \in DocIds : id \in PendingIds("set") ~> id \notin PendingIds("set")

\* Used calmly, the application does not crash.
CalmNeverCrashes == app # "crashed"

=============================================================================
