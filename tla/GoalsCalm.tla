------------------------------ MODULE GoalsCalm ------------------------------
(***************************************************************************)
(* How the Goals tab must be used for it to be the book of goals its user  *)
(* takes it for.  CalmSpec is GoalsList with each hazard of the code       *)
(* fenced off by one condition, named below; the process may still die at  *)
(* any moment.  Under these conditions the tab implements Notebook.        *)
(***************************************************************************)
EXTENDS GoalsProperties

\* No callback of this process is outstanding, so no row can move.
Quiet ==
  /\ queries = {} /\ mainQueue = <<>>
  /\ \A i \in DOMAIN pending : pending[i].callback = NoCallback

TitlesGiven == \A id \in DocIds \ Fresh : written[id].title # EmptyTitle

\* Wait for every answer before saving, deleting or signing out.
PatientUser ==
  \/ Quiet /\ (SignOut \/ SwipeDelete \/ SaveGoal)
  \/ OpenGoals \/ Relaunch
  \/ OpenForm \/ CancelForm
  \/ SwipeComplete \/ TouchCheckbox \/ DismissAlert
  \/ CancelDelete \/ ConfirmDelete

\* Give every goal a title; save only while every row has its id; delete only
\* a row that has one.
CarefulStep ==
  /\ TitlesGiven'
  /\ SaveGoal => Unidentified = {}
  /\ SwipeDelete => dialog'.goal.uuid # NoId

\* The server is reachable and accepts what it is asked.
FriendlyServer ==
  /\ app = "home"
  /\ ServerTakes \/ StreamBreaks \/ Acknowledge \/ AnswerFromServer
  /\ UNCHANGED <<screenVars, clock, confirmed>>

\* Nobody else edits the collection while the tab is open.
OthersStayAway == app # "home" /\ (OtherDeviceSaves \/ OtherDeviceErases)

CalmNext ==
  /\ PatientUser \/ MainQueue \/ FriendlyServer \/ OthersStayAway
  /\ CarefulStep

CalmSpec == Init /\ [][CalmNext]_vars

-----------------------------------------------------------------------------

Listing == {DocumentOf(goals[row]) : row \in DOMAIN goals}

\* The writes the controller waits for, in the queue or answered.
AwaitedCallbacks ==
  {pending[i].callback : i \in {j \in DOMAIN pending : pending[j].callback # NoCallback}}
    \cup {mainQueue[i].callback : i \in DOMAIN mainQueue}

\* What the table shows once the outstanding callbacks have run.
PageSoon ==
  IF \E i \in DOMAIN mainQueue : mainQueue[i].callback.kind = "fetch"
    THEN {written[id] : id \in Head(mainQueue).ids}
    ELSE (Listing
           \cup {DocumentOf(c.goal) : c \in {d \in AwaitedCallbacks : d.kind = "insert"}})
           \ {DocumentOf(goals[c.row]) : c \in {d \in AwaitedCallbacks :
                                              d.kind = "delete" /\ d.row \in DOMAIN goals}}

Book == INSTANCE Notebook WITH
          Entries <- Document,
          book <- {written[id] : id \in View(server)},
          open <- app = "home" /\ queries = {},
          page <- PageSoon

\* Used calmly, the tab is the book: what is saved is kept and listed,
\* what is deleted is the goal that was asked about, and what is listed is what
\* the collection holds, across sign-outs, kills and relaunches.
IsTheBook == Book!Spec

\* Used calmly, the application does not crash.
CalmNeverCrashes == app # "crashed"

=============================================================================
