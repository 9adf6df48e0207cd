-------------------------- MODULE JournalProperties --------------------------
(***************************************************************************)
(* What the Journal tab gets right in every behaviour of JournalList, how  *)
(* it must be used to be the journal its user takes it for, and what its   *)
(* dialog says and the code does not do.                                   *)
(***************************************************************************)
EXTENDS JournalList

\* Every variable has its type; the dialog holds an entry exactly while it is up,
\* and a controller nobody holds has no rows.
TypeOK ==
  /\ ClientTypeOK(Dates, Callback, DocIds \cup {DefaultId})
  /\ app \in {"signedOut", "home", "crashed"}
  /\ session \in 0 .. MaxSessions
  /\ journals \in [Sessions -> Seq(Journal)]
  /\ ui \in {"list", "form", "confirm"}
  /\ IF ui = "confirm" THEN dialog \in [row : Nat \ {0}, journal : Journal]
                       ELSE dialog = NoDialog
  /\ confirmed \subseteq DocIds
  /\ app = "home" => session \in Sessions
  /\ app # "home" => ui = "list"
  /\ \A s \in Sessions : OnScreen(s) \/ Held(s, mainQueue) \/ journals[s] = <<>>

-----------------------------------------------------------------------------
(* Safety *)

\* This device removes a document from the server only if the user confirmed the
\* deletion of a row that showed it, however the list changed under the dialog.
DeletesOnlyConfirmed ==
  [][~OtherDeviceErases => server \ server' \subseteq confirmed]_vars

\* The entries viewDidLoad fetched stay sorted by date, oldest first, below those
\* saved since: whatever is inserted or removed, in whatever order answers come.
FetchedStayInOrder ==
  \A s \in Sessions : \A i, j \in DOMAIN journals[s] :
    i < j /\ journals[s][i].uuid # DefaultId =>
      /\ journals[s][j].uuid # DefaultId
      /\ written[journals[s][i].doc] <= written[journals[s][j].doc]

-----------------------------------------------------------------------------
(* Calm use: each condition fences off one hazard of the code.  The process *)
(* may still die at any moment.                                             *)

\* Some closure of the session's controller is among these writes or events.
Outstanding(events, s) ==
  \E i \in DOMAIN events :
    events[i].callback # NoCallback /\ events[i].callback.session = s

\* No closure of this process is outstanding, so no row can move.
Quiet ==
  /\ queries = {}
  /\ \A s \in Sessions : ~Outstanding(pending, s) /\ ~Outstanding(mainQueue, s)

PatientUser ==
  \/ Quiet /\ (SignOut \/ SaveJournal \/ SwipeDelete)
  \/ OpenJournal \/ Relaunch
  \/ OpenForm \/ CancelForm
  \/ CancelDelete \/ ConfirmDelete

\* Delete only an entry that was fetched.
CarefulStep == SwipeDelete => dialog'.journal.uuid # DefaultId

FriendlyServer ==
  /\ app = "home"
  /\ ServerTakes \/ StreamBreaks \/ Acknowledge \/ AnswerFromServer
  /\ UNCHANGED <<screenVars, confirmed>>

OthersStayAway == app # "home" /\ (OtherDeviceSaves \/ OtherDeviceErases)

CalmNext ==
  /\ PatientUser \/ MainQueue \/ FriendlyServer \/ OthersStayAway
  /\ CarefulStep

CalmSpec == Init /\ [][CalmNext]_vars

Rows == IF app = "home" THEN journals[session] ELSE <<>>

\* The callbacks outstanding, in the queue or answered.
AwaitedCallbacks ==
  {pending[i].callback : i \in {j \in DOMAIN pending : pending[j].callback # NoCallback}}
    \cup {mainQueue[i].callback : i \in DOMAIN mainQueue}

\* What the table shows once the outstanding callbacks have run.
PageSoon ==
  IF \E i \in DOMAIN mainQueue : mainQueue[i].callback.kind = "fetch"
    THEN Head(mainQueue).ids
    ELSE ({Rows[row].doc : row \in DOMAIN Rows}
           \cup {c.doc : c \in {d \in AwaitedCallbacks : d.kind = "insert"}})
           \ {Rows[c.row].doc : c \in {d \in AwaitedCallbacks :
                                         d.kind = "delete" /\ d.row \in DOMAIN Rows}}

Book == INSTANCE Notebook WITH
          Entries <- DocIds,
          book <- View(server),
          open <- app = "home" /\ queries = {},
          page <- PageSoon

\* Used calmly, the tab is the journal, across sign-outs, kills and relaunches: a
\* saved entry is kept and listed, the confirmed one is discarded, and the list
\* is what the collection holds.
IsTheBook == Book!Spec

\* Used calmly, the application does not crash.
CalmNeverCrashes == app # "crashed"

-----------------------------------------------------------------------------
(* What the texts say and the code does not do. *)

\* "Would you like to delete this Journal now?": the entry whose row leaves the
\* list because its deletion succeeded is not in the collection any more.
DeletedJournalIsGone ==
  [][DeleteDelivered /\ Alive /\ app' # "crashed" /\ Len(journals'[Arriving.session]) < Len(Mine)
       => Mine[Arriving.row].doc \notin View(server)]_vars

=============================================================================
