# GoalTracker, verified

TLA+ models of GoalTracker, an iOS application (Swift, UIKit, Firebase) in which
a user keeps goals, daily tasks and a journal. The application is about 2,600
lines of Swift under `src/GoalTracker/GoalTracker/`; everything else in the
repository is vendored (CocoaPods), of which the part of the Firestore client
that the application relies on is modelled too, twice: as the application sees it,
and, in C++ terms, as the two streams to the backend that make it so.

The program is small and its logic looks simple: three lists, each fetched once,
inserted into and deleted from. What is hard is that every change is answered
later, on the main queue, by a closure that remembers a row number, while the
user goes on, signs out, or the process dies. None of this is tested in the
repository, which has no tests.

## 1. Inventory

### Components, their state and their operations

| Component | State | Operations |
| --- | --- | --- |
| Goals tab (`GoalsViewController`, `GoalCategoryViewController`, `AddGoalViewController`, `GoalsTableViewCell`, `Goal`) | `goals`, the rows; what the delete dialog captured; the alert's overlay | `viewDidLoad`/`fetchGoals`, `addGaolCategory`, `save`/`didSaveGoal`/`persistGoalToFireStore`, complete (swipe, checkbox with `didTapButton`), delete (swipe, dialog, `deleteGoal`) |
| Today tab (`ToDoViewController`, `AddTaskViewController`, `CheckTableViewCell`, `Todo`) | `todos`, the table's selection | `viewDidLoad`, the form from the button or from a row, `save`/`didSaveTodo`/`persistTodoToFireStore`, complete, delete without a dialog (`removeFromFireStore`), one reminder |
| Journal tab (`JournalViewController`, `AddJournalViewController`, `Journal`) | `journals`; what the delete dialog captured | `viewDidLoad`, `savePressed`/`addJournal`, delete with a dialog (`deleteJournal`), details |
| Firestore client (vendored), as a tab sees it | the persisted queue of writes, the local store, outstanding queries, callbacks on the main queue | `addDocument`, `delete`, `getDocuments`; sending, answers, offline answers; restart |
| Firestore client, the streams (`RemoteStore`, `SyncEngine`, `Stream`, `WriteStream`, `WatchStream`, `OnlineStateTracker`, the credentials providers) | the write pipeline, each user's mutation queue, the listen targets, two streams with their tokens, timers and back-off, the online state, one worker queue | `WriteMutations`, `Listen`/`StopListening`; the streams' start, handshake, results, failures, idling; `HandleCredentialChange`; restarts by connectivity and by relaunch |
| Accounts (`MainViewController`, `LoginViewController`, `SignUpViewController`, `LoadingViewController`) | the window's root controller, the current user of Firebase Auth, the `users` documents | `loginTapped`, `validateFields`, `signUpTapped`, `transitionToHome` |
| Profile tab (`ProfileViewController`, `FirebaseManager`) | the two names; a snapshot listener that is never removed | `viewDidLoad`/`fetchUserInfo`, `signOutPressed` |
| `MyAlert` | overlay and alert views, their animations | `showAlert`, `dismissAlert` |
| Password and field rules (`Utilities.isPasswordValid`, `validateFields`) | none | predicates |
| Helpers (`Checkbox`, `Category`, `Constants`, `K`, details and collection cells, `SceneDelegate`) | a checkbox's flag | drawing |

### How they interact

Everything the application does runs on the main thread: the user's gestures,
and the closures it passes to Firebase, which the client runs on the main queue
(`MainThread.run` therefore runs its block at once). The client works by itself
on its own worker queue; Auth and App Check answer its requests for tokens and
announce changes of user from other queues, and their answers wait in it. The collections `Goals`, `Tasks` and `journal` are one for all
users, so other devices are part of every list's environment. Signing in and
out replaces the window's root controller: the tabs' controllers are deallocated
unless something holds them. The closures of the Goals tab hold theirs weakly
(one of them then forces it), those of the Today tab strongly, those of the
Journal tab strongly except for the one of a deletion; a successful fetch of the
journal also posts a block to the main queue, to draw the table once more, which holds
the controller until its turn comes. The client and its queues
belong to the process; queued writes are persisted and survive it.

### What is hard

* *Stale rows*: all three tabs remove, when a deletion is answered, the row at
  the index path of the time of the swipe.
* *Answers out of order with gestures*: a save under way during the fetch, a
  second save before the first is listed, a deletion under a dialog.
* *Ends of sessions*: late answers to controllers that are gone or off screen, or that
  one more closure or block keeps alive.
* *Identity*: rows made here have no document id: `""` in the Goals tab, `"1234"`
  in the others.
* *Streams*: a result on the write stream does not say which write it is about; a
  token asked for one user may come after the next has signed in; a stream may be
  needed again while its idle timer runs; a refusal can overtake the answers before it.
* *Nested completions*: the alert's second animation begins in the completion of the
  first, and checkboxes can be touched in between.
* *Crashes and restarts*: persisted writes without callbacks, an empty title that
  crashes the drawing of every table that lists it.
* *Partial failure*: ignored errors, an account without a profile document.
* *Liveness*: a saved thing is listed, a queued write answered.

`PROJECT.json` lists each hazard at its line, with the properties that cover it.

### What makes each component correct

* The client: a document is created once and never comes back (`DocumentLife`).
* The streams: every answer is taken for the write it is about, nothing queued or
  waited for is forgotten, a user's writes travel with that user's token, timers run
  only when the code's assertions allow it, and each user's part of it is the client
  the tabs are built on.
* Each tab: only what the user asked to delete is deleted; a row shows the
  document it claims to show; nothing is listed three times; the fetch takes
  nothing stored away; a saved thing is listed or answered in the end; and, used
  calmly, the tab is a notebook (`Notebook`): the page is the book.
* Accounts: an account has one profile document unless a step failed in between,
  the home screen is only there for a signed-in user, a password is never refused
  for its blanks, the loading screen goes away.
* Profile: who waits for every answer sees the names of the current user.
* `MyAlert`: once nothing moves, the table or the Dismiss button is within reach; an
  alert shown or dismissed reaches its end.
* Rules: the predicates accept what the form's texts say.

## 2. Modules

| Module | What it is |
| --- | --- |
| `FirestoreClient` | one collection: server, local store, write queue, queries, main queue; extended by each tab, and what `RemoteStore` is shown to implement |
| `Streams`, `WriteStream`, `WatchStream` | what both streams share; the write pipeline and its answers; listening and the online state |
| `RemoteStore`, `RemoteStoreProperties` | both streams composed, restarted by users, connectivity and relaunches; what holds of them |
| `RemoteStoreRefinement` | each user's part of them (the `Owner`'s, any user's) implements `FirestoreClient` |
| `DocumentLife` | abstract: the life of a document |
| `Notebook` | abstract: a tab as its user understands it |
| `GoalsList`, `GoalsProperties`, `GoalsCalm` | the Goals tab; what holds of every behaviour; calm use and the refinement of `Notebook` |
| `ToDoList`, `ToDoProperties` | the same for the Today tab |
| `JournalList`, `JournalProperties` | the same for the Journal tab |
| `Accounts`, `AccountsProperties` | sign-up, login, the home screen's user, the Profile tab; what holds of them |
| `Alert` | the Goals tab's congratulation and its animations |
| `MCGoals`, `MCToDo`, `MCJournal`, `MCRemoteStore` | instances for TLC |
| `GoalsProofs`, `GoalsSavesProofs` | theorems about the Goals tab |
| `ClientProofs` | lemmas about `FirestoreClient` and about sequences of rows, for the tabs' proofs |
| `ToDoProofs`, `JournalProofs` | theorems about the Today and the Journal tab |
| `AccountsProofs` | theorems about the accounts |
| `RemoteStoreProofs` | theorems about the streams |
| `AlertProofs` | theorems about the alert |

### State and actions against the code

`FirestoreClient` keeps `written` (what a document was created with; the
application never updates one), `server`, `cached`, `pending` (the mutation queue
with each write's callback), `queries` and `mainQueue`. `AddDocument`,
`DeleteDocument` and `GetDocuments` are the calls; `Acknowledge` and `Reject` are
`SyncEngine::HandleSuccessfulWrite` and `HandleRejectedWrite`. The writes travel in
a pipeline: `taken` counts those at the head of the queue that the server has applied
and the client has not heard about; `StreamBreaks` and `StreamsStop` forget them, and
they are sent again. `AnswerFromServer`,
`AnswerFromCache` and `FailQuery` are the ways a `getDocuments` ends: the calls that
wait for one collection are listeners of one query, and `EventManager` tells them all
together, so an answer takes every waiting call. `ProcessDies` keeps the queue and drops
the callbacks. A query sees pending writes laid over
the stored documents (`View`).

A tab has one action per gesture and one per kind of closure (`FetchDelivered`,
`InsertDelivered`, `DeleteDelivered`), each the whole closure. Closures are
records of what they captured. The Goals tab's callbacks carry `live`, false once
the controller is gone; in the other tabs controllers can outlive their screens,
so they are numbered by sessions and `Held` says whether a closure still holds
one. In the Journal tab `ShowAndReload` puts the block that a fetch posts at the end of
the main queue, and `ReloadDelivered` is its turn: an answer that was queued before it,
of a deletion say, still finds the controller of a session that is over. `app = "crashed"` is the result of each trap or exception the code can run
into: `remove(at:)` out of range, `self!` after deallocation, `document("")`, and
`DrawTable`, the drawing of a row with an empty title, which UIKit does some time
after the list has changed. `confirmed` and `swiped` are history variables and
have no counterpart in the code.

`Accounts` has one action per gesture on the screens before the tabs and on the
Profile tab, the two completions of Auth's calls, the dismissal of the loading
screen, and what the network does: `Serve` (Auth's server takes a call), `Answer`
(the call ends, truthfully or with an error of the network although the server took
it; a success makes its user current *before* the callback is posted, as
`signInFlowAuthDataResultCallbackByDecoratingCallback:` does), `NamesArrive` (the
snapshot listener) and `ProfileSettles`. Firestore keeps a mutation queue per user
(`LocalStore::HandleUserChange`) and hears of users on the main queue, where Auth posts
each just before the callback of the same call; or it starts with whoever is current
when the callback is its first use. So `AddProfile` puts a profile document into the
queue of the account just created or into that of the current user, which differ when
two calls cross. Elsewhere in `Accounts` Firestore's user is taken to be the current
one. `asked`, `patient` and `lost` are history variables.

`WriteStream` keeps the mutation queue of each user, `write_pipeline_` as `pipeline`,
and the wire in two directions: `up` holds the writes sent that the server has not
taken, `down` those whose answer is coming. The client cannot see `down`'s contents:
`MutationResult` takes each answer for one about the head of the pipeline. Every place
where the code calls `FillWritePipeline` is an action that ends in it. `WatchStream`
keeps `listen_targets_` as `targets`, the calls without an answer as `waiting` and
`OnlineStateTracker` as `tracker`. `Streams` has the states of the class `Stream`
(`Starting` split in three, see the module) and the worker queue's tasks that come from
other queues, `tasks`: a change of user, and a token whose stream may have been closed
since (`fresh` is the code's comparison of `close_count_`). `RemoteStore` composes the
two and adds what stops and starts both.

`Alert` keeps where the two views are, and the animations under way, in order. An
action is a touch or the end of one animation with its completion.

What is abstracted: a goal is its title and date (a logical clock: the date is the
time of saving, so it identifies the save), a task its title, a journal entry its
date. Categories, bodies and wording only pass through. Of the streams, the contents of
documents and snapshots, the length of back-offs, the stream token that a failed
handshake resets and the state `Healthy` are left out, and a read is its collection. A
collection is listened to only while a call waits for it: the snapshots the client goes on
receiving between a call's answer and the removal of its listener, which `ListenOnce`
does in the same callback, are left out. In the Today and Journal tabs a row also
names the document it shows, which the code does not know; no action's guard
depends on it, only what is drawn (the title), the order of the fetched entries
and the properties do.

### Assumptions about what is not in the source

* `dismiss(animated:completion:)` runs its completion although nothing is presented
  (the task form is pushed, not presented), so `didSaveTodo`'s body runs.
* Tapping a row calls `didSelectRowAt`, which deselects it; whether the form then
  shows the old title makes no difference to what saving does.
* The server serves one write stream of a client at a time, takes writes in the order
  in which they were sent, and takes nothing more from a stream that was closed.
* The client serves the collection only while a user is signed in, and in the tabs'
  models signing in again is by the same account: Firestore keeps a mutation queue per
  user (`RemoteStore` has several users, who name only their own documents, `Author`).
* A screen has one `getDocuments` call per collection under way at a time.
* UIKit gives no touch to a view that is being animated or is transparent; the
  animations of removed views, and of an app that leaves the screen, end unfinished.
* Revealing a swipe action and tapping it are one step; gestures that need the
  table are not offered under the overlay, the form or the dialog.
* All rows are on the screen: `cellForRow(at:) as!` finds its cell.
* A form that was popped or dismissed, or whose root controller was replaced, has no
  `view.window`; the loading screen takes every touch.
* Auth's server accepts every password that `isPasswordValid` does, keeps it as it was
  sent and never removes an account; a call whose process died may still reach it.
* A profile document that reached Firestore is accepted or refused once; no other
  device writes to `users`.

## 3. Runs

All passing runs finish within two minutes on four workers. `MaxCalls` bounds the calls
under way, posted blocks included (2: two answers can be reordered against each other and against every
gesture), `DocIds` the documents (2 or 3), `MaxClock` the saves of goals on all
devices, `MaxSessions` the home screens of one process, `MaxDate` the days.

| Run | Shows | Bounds |
| --- | --- | --- |
| `goals_safety` | `TypeOK`, `RowsShowTheirDocuments`, `AtMostTwoRowsPerGoal`, `DeletesOnlyConfirmed`, `FetchKeepsStoredRows`, `DocumentsLiveOnce`, `SavedGoalAppears` over everything that can happen | 2 ids, 2 titles, 2 saves |
| `goals_calm` | `CalmNeverCrashes`, `IsTheBook` | 3 ids, 2 titles, 3 saves |
| `todo_safety` | `TypeOK`, `AtMostTwoRowsPerTask`, `DeletesOnlySwiped` | 2 ids, 2 titles, 2 sessions |
| `todo_calm` | `CalmNeverCrashes`, `IsTheBook`, `QueuedTasksSettle` | 3 ids, 2 titles, 2 sessions |
| `journal_safety` | `TypeOK`, `FetchedStayInOrder`, `DeletesOnlyConfirmed` | 2 ids, 2 days, 2 sessions |
| `journal_calm` | `CalmNeverCrashes`, `IsTheBook` | 3 ids, 2 days, 2 sessions |
| `accounts` | `TypeOK`, `ProfilesMatchAccounts`, `HomeHasUser`, `PatientUserIsCurrent`, `AcceptsItsPassword`, `LoadingEnds`, `NamesAppear` | 2 people, a valid and an invalid word with and without blanks, 2 forms per process, 2 calls |
| `remote_store` | `TypeOK`, `AnswersMatchTheirWrites`, `NothingIsForgotten`, `IdleStreamsAreNotNeeded`, `WritesCarryTheirUsersToken`, `TimerOnlyWhileUnknown`, `KeepsFirestorePromises`, `QueuedWritesSettle`, `ReadsTimeOut` | 2 users, a document each, a pipeline of 2, 2 collections, the loads below |
| `alert` | `TypeOK`, `OnlyInterruptionTraps`, `AlertsArrive` | 4 touches between two starts |

The type invariants say a little more than types: the Goals tab's controller has no rows
and no dialog without a home screen; a controller of the other two that is off the screen
and that nothing holds has no rows; the Profile tab is only there with the home screen,
and no error is left for a screen that has no label for it; the pipeline keeps to its limit.

`SavedGoalAppears` leaves two ends open besides the row: the session may end, and the server may refuse
the goal. Of a refused goal it says nothing: the code lists it, since the closure ignores
its error.

Two ids make every pair of rows collide and every row shift by one; a row that is
listed twice makes a third row without a third document. Three are needed for a
shift between two others. The counterexample `goals_stale_row` needs the third row too
and is sought in one session (`OneSession`). Ids are interchangeable in the Goals and
Journal tabs (symmetry, in runs without liveness only); the Today tab lists documents in the order of
their ids, so there they are numbers.

`remote_store` starts with one of four loads: how many writes, reads, faults and
changes of user it may still see. Three writes overfill a pipeline of two, so that an
answer, a refusal or a failure finds a write waiting behind it; with two changes of
user a token can come too late and another user's queue be served in between; three
faults let a back-off follow a back-off; and one of each lets the streams meet. The
counters are the only bound; one may be used up at any time, so every fault can strike
in every state. Since the loads end, so does the behaviour, and the deadlock check is
off.

In `accounts`, two calls under way are a double tap, or a sign-up that was left
beside a sign-in; two forms are one that was left while its call was under way and
another one that its answer meets. The calls are a set, for they go over the network
in no order; equal ones are numbered. A sign-up that outlives its process waits for
nobody (`form = 0`); two equal ones merge then, since the server would refuse the
second one unheard.

`goals_stale_row` and `remote_store` switch the deadlock check off: one session ends
for good, and so does a load. Everywhere else `Relaunch` or another gesture is always
possible.

### Calm use

The tabs are not the notebook their user takes them for in every behaviour; the
calm specifications say when they are. Each condition fences off one hazard: wait
for every answer before saving, deleting or signing out, and in the Journal tab for the
posted block, too (`Quiet`); give titles;
delete only what was fetched (and, in the Goals tab, save only while every row has
its id); let the server be reachable and nobody else edit the collection while the
tab is open. Kills and relaunches are allowed at any moment. Dropping a condition
makes `IsTheBook` or `CalmNeverCrashes` fail. So these properties tell which use is safe;
they do not guard the hazards they fence off, where the code does go wrong (stale rows
that trap or hide another row, `self!`, `document("")`, empty titles). `PROJECT.json` lists
those without a property, and the violated runs below show some of them.

### Fairness

`goals_safety`: weak fairness of the main queue (the run loop runs) and of the server
answering writes while the user stays signed in (the client resends until it is
answered, with success or a refusal); nothing is assumed of the user, so the conclusion
allows the session to end, and the goal to be refused. `todo_calm`: the user may close the tab before any one answer, so the
server's taking of a write and its answer need strong fairness (a chance given again
and again is taken), and the user comes back (weak fairness of `OpenToday` or
`Relaunch`); without either the write may stay in the queue for ever. `accounts`: weak
fairness of the ends of Auth's calls (the SDK ends each with an answer or a network
error), of the main queue with UIKit's animations, and of the listener; none of the
user or of Auth's server. `remote_store`: weak fairness of the worker queue, of Auth's
and App Check's answers, of timers and back-offs, and of a server that has a write
before it; none of faults, of the user, or of the server's answers to reads, for it is
the online-state timer that must end the wait for those. `alert`: an animation ends.

### What the code does not do as it says

Three runs end in a counterexample:

* `goals_stale_row`: the row that goes is not the goal the dialog asked about, once
  the list has moved.
* `goals_lost_save`: a goal saved while some row has no id replaces that row and is
  written nowhere.
* `journal_delete`: an entry saved in this session leaves the list when deleted, but
  the document deleted is `"1234"` and the entry's own stays.

Two things the code's comments promise fail only in corners that the properties of
passing runs must leave out:

* A read may wait without a timer. The online-state timer and the count of failures
  are there so that a listener gets an event from the cache "rather than waiting
  indefinitely" (the comment on `kOnlineStateTimeout`, `online_state_tracker.cc`). But
  when the last listener goes while the watch stream is still starting,
  `StopListening` sets the online state to Unknown, which ends the timer, and leaves
  the stream starting; a `Listen` that follows finds it started and starts no timer.
  If the server then takes the call and says nothing, that `getDocuments` waits until
  the stream fails. So `ReadsTimeOut` speaks of a read that waits under a running
  timer, and of silence only until the server speaks on the stream.
* The congratulation can trap the user. When the animations are cut short (the app
  leaves the screen, another tab is chosen), their completions do nothing, and the
  dimmed background may stay over the table with the alert, and its button, off the
  screen: only a restart helps. `OnlyInterruptionTraps` shows that nothing else does
  this; `GoalsList` leaves such interruptions out.

More disagreements need no run to be seen: in `didSaveTodo` the branch `// update` is
never reached, for tapping the row has deselected it, so saving an existing task's
form adds a task; `"Error saving user data"` is written on a sign-up form
that has left the window; `didTapButton` says "You have
reached your Goal." when a completed goal is unchecked, too, and where
a deletion's error should be shown (`// Show user error`) it is only printed.

## 4. Proofs

`GoalsProofs` proves, for every finite set of ids, all titles and all bounds,
under `GoalsAssumption` (the constants are distinct where the code's values are):

* `TypeCorrect`: `Spec => []TypeOK`;
* `RowsAreTheirDocuments`: `Spec => []RowsShowTheirDocuments`;
* `ErasesOnlyConfirmed`: `Spec => DeletesOnlyConfirmed`.

All rest on one invariant, `IInv`. `TypeOK` is not inductive by itself: a fetched
row is a goal only if its document was ever written, so every id that travels
through a queue or an answer must be `Known`, every row with an id must equal its
document, and every queued deletion must name a confirmed document. The proof
notes that what is known stays so (`Grows`, `KnownGrows`): `written` never changes under a
known id and `confirmed` only grows, hence each queue stays a sequence over its set
(`SequencesGrow`). There is then a lemma per group of actions.

`GoalsSavesProofs` proves `ImplementsDocumentLife`: `Spec => DocumentsLiveOnce`, the
refinement of `DocumentLife` under the mapping `lifeBar`. Its invariant adds that an id has at
most one creation in the queue (`LifeInv`); `StepKinds` reduces every step of the tab to
what a step can do to the documents.

It also proves `ListedTwiceAtMost`: `Spec => []AtMostTwoRowsPerGoal`. A row of
this tab loses its id when it is toggled, so rows are told apart by date: no two
documents have the same date, and nothing is dated later than the clock (`DocsInv`,
`NoLater`). While a save's closure is still to come it comes once, and its date has one
row at most (`SavesInv`); a step that begins no save and gives no date a row more
(`Fits`) keeps that, and the two that do not, saving and the closure itself, are done
separately.

The third is `FetchKeepsRows`: `Spec => FetchKeepsStoredRows`. The property
compares the answer to a query with the collection at the time the answer is delivered,
any number of steps later, so the invariant says of every answer to the fetch that waits in
the main queue what it must hold (`AnsweredInTime`): each document that is on the server
and in the cache and has a row, or has one before that answer's turn. That stays true
because such a document cannot come to the server or to the cache meanwhile: its creation
has been answered, once (`LifeInv`, `SavesQueued`), so it no longer waits to be taken or
answered. And it is in the answer to begin with because the client takes away
only what is being deleted here: a row without an id cannot be, and no row has one before
the fetch is delivered (`WhileFetching`), which happens once (`FetchOnce`).

`RemoteStoreProofs` proves, for all users, documents, queries, loads and pipeline
lengths, under `UsersAssumption` (nobody's token is no user's), `WriteAssumption` and, for
the last, `RefinementAssumption` (the values that stand for no document and no callback are
none):

* `CallsAreTheUsers`: `Spec => []WritesCarryTheirUsersToken`;
* `TimerIsForUnknown`: `Spec => []TimerOnlyWhileUnknown`;
* `StreamsAreTyped`: `Spec => []TypeOK`;
* `AnswersAreTheirWrites`: `Spec => []AnswersMatchTheirWrites`;
* `NothingForgotten`: `Spec => []NothingIsForgotten`;
* `IdleStreamsStop`: `Spec => []IdleStreamsAreNotNeeded`;
* `StreamsImplementClient`: `Spec => KeepsFirestorePromises`.

The first speaks of the worker queue's user, while a token is that of the user Auth
has when it answers, which may be ahead of it. What closes the gap is the order of the
worker queue: every change of user goes into it before any token of the new user does.
So its invariant (`TokenInv`) speaks of what no queued change of user precedes
(`Undisturbed`): a fresh token queued before every change is the worker queue's user's
(`QueuedAsUser`), and so are, while no change is queued at all, a token that App Check
still holds (`AnsweredAsUser`) and the user who is signed in (`UserIsKnown`). A change
leaves the queue with whatever was behind it still to be judged; that all is well then
follows because `HandleCredentialChange` voids every fresh token, and because the last
change queued announces who is signed in (`LastIsSignedIn`). The second theorem's
invariant (`TimerInv`) only adds the types of the online-state tracker.

The next four rest on `StreamInv`. The property about answers is not inductive: that the
answer of a write finds it at the head of the pipeline afterwards too needs to know
that the batch numbers of each queue grow and are nobody else's (`QueuesInv`), so that what
leaves the queue (`Without`) is its first write and the pipeline, refilled, is again the
oldest part that fits (`WriteInv`). The mutation queue may grow behind a full pipeline while
writes are answered; `Missing`, the loop of `FillWritePipeline`, is shown to lengthen a
prefix of the queue to the longest that fits. A token that is waited for is waited for once
(`TicketInv`): otherwise a second one would resume a stream that is already open, and the
wire would not be what the pipeline has sent. `WatchInv` is the counterpart for reads.

`StreamsImplementClient` maps the owner's share of the streams to a `FirestoreClient`: its
queue without batch numbers, a callback being the batch's number while its process
lives, `taken` being what is on its way down while the owner is the client's user. Each
step of the streams is then a client's step for the owner, or a stutter: a break of the
stream is `StreamBreaks`, a change of user and a restart are `StreamsStop`, and the
server's taking of `up`'s head is that of the queue's write after the `taken` ones, for
`down \o up` is the pipeline and the pipeline is the head of the queue. The tabs' theorems
are about every behaviour of `FirestoreClient`; this one says that the streams are among
them as far as a user's writes go. Reads are not in the mapping (`queries` is empty): the
streams' model knows of a read only whether it waits. TLC follows the part of one user, and
the theorem is about any.

`ClientProofs` says of the client, under any types of documents and callbacks, what the
tabs' proofs share: `ClientInv` says that every id in a
store, a queue or an answer is `Known`, and there is a lemma for each call and for the
client's own steps: they keep `ClientInv`, rewrite no document (`WrittenKept`), lose no
callback except to the process's death (`Awaited`), and run none twice (`Once`).

`JournalProofs` and `ToDoProofs` prove, for all ids (and titles) and all bounds, under
`JournalAssumption` and `ToDoAssumption`:

* `TypeCorrect`: `Spec => []TypeOK`, twice;
* `StaysInOrder`: `Spec => []FetchedStayInOrder`, of the journal;
* `ListedTwiceAtMost`: `Spec => []AtMostTwoRowsPerTask`, of the tasks;
* `ErasesOnlyConfirmed` and `ErasesOnlySwiped`: `Spec => DeletesOnlyConfirmed` and
  `Spec => DeletesOnlySwiped`;
* `CalmUseNeverCrashes` and `CalmUseIsTheBook`, twice, as below.

The type invariants say that a controller which is off the screen and which no closure
holds is gone with its rows. That is a fact about two places, the screen and the
client's queues, so the invariants keep it as `HeldInv`: whatever posts an answer keeps
its holder, and the answer that was the last holder takes the rows with it. In the Journal
tab a fetch's answer is not the last one if it succeeds: `BlockPosted` says that the block it
posts takes its place among what is awaited, at the end of the queue. The order of
the journal's fetched entries (`Ordered`) rests on rows that are `KnownRow`s: a
document that is written is never rewritten, so what was sorted at the fetch stays so.
`AtMostTwoRowsPerTask` needs `SavesInv`: while a save's closure is still to come it
comes once, and its task has one row at most, the fetched one; after it there may be
two, and nothing is left that adds a third.

Of calm use the three tabs' modules (`GoalsSavesProofs` for the second in the Goals tab) prove

* `CalmUseNeverCrashes`: `CalmSpec => []CalmNeverCrashes`;
* `CalmUseIsTheBook`: `CalmSpec => IsTheBook`, the refinement of `Notebook`.

A crash needs an answer that meets a list it was not made for. `CalmInv` says that there is
at most one callback to come (`Expected`: with a query, in the queue of writes or on the
main queue, and in one of these once), that it suits the list and the controller on the
screen, and that none is to come while the dialog stands. The lemmas about `Expected` in
`ClientProofs` say what a call, an answer, a delivery and a death make of "at most one";
writes that an earlier process left may still be in the queue, before it and behind it,
without callbacks. In the tabs with titles it adds that no document has the empty one
(`TitlesGiven`, `TasksNamed`), which calm use asks of this device and of the others.

That the tab is the book relates the server, the queue and the page. What the device sees
of the collection (`View`) is the server's documents with the queue laid over them, and a
step of the client must not change it: the server takes a write while the write is still
queued, the answer removes the write, a broken stream makes the client send it again. That
holds because a deletion is queued behind the creation it undoes, and because the server
shows what it has taken (`ReplayInv`). `PageInv` says that the page is what the device sees, or
that the one callback to come will make it so (`Completes`): a query not answered or
answered with all of it, the block that draws the journal again, a creation that the page lacks, a deletion of a row it still
has. So the page that `IsTheBook` speaks of, the one that will be when the answers due have
come, is the book whenever it is open (`PageShowsBook`), and what a step does to the book
(`Turns`) is what it does to both. Each row shows another document (`OneEach`; in the Goals
tab, whose rows lose their ids, `EachOnce`: no two documents have one date, `DocsInv`), and so
the row removed is the document discarded.

These theorems speak of calm use only; section 3 says what its conditions fence off.

`AlertProofs` proves, for every bound on touches, `TypeCorrect` and `RestsInReach`:
`Spec => []OnlyInterruptionTraps`. Any number of animations may be under way, and which of
them ends last is open. The invariant (`CoveredIsFreed`) therefore does not follow one: while
the background covers the table and the alert is not in the centre, some animation is
under way whose completion brings it there or clears the background.

`AccountsProofs` proves, for all e-mails, passwords and bounds, under
`AccountsAssumption` (nobody is not an e-mail, a missing account no password):

* `TypeCorrect`: `Spec => []TypeOK`;
* `TabsBelongToSomebody`: `Spec => []HomeHasUser`;
* `OneProfileEach`: `Spec => []ProfilesMatchAccounts`;
* `PatientUserIsThemselves`: `Spec => []PatientUserIsCurrent`;
* `BlanksNeverRefused`: `Spec => []AcceptsItsPassword`.

`HomeHasUser` says nothing of the answers that are still to come, so its invariant
does (`UserBehindHome`): while an answer can open the home screen, somebody is signed
in. Only a sign-out makes the current user nobody, and it is done on the home screen,
where no answer can do that: a sign-in has been under way only under the loading screen
(`SignInLoads`), one at a time (`OneSignIn`), and a sign-up's answer only counts while
its own form is shown. A form opened later has a number that no answer under way has
(`FormsOpened`). An account's profile is counted where it can be (`OneProfile`): stored,
in a queue, in an answer, in a call that the server carried out; a step takes it from one
place to the next, or puts the account among the `lost`. What one place has left when
an element is taken out of its sequence is `HitsWithout`, by the bijection that closes
the gap. Of somebody who waits (`Patience`), at most one call or answer is under way, its
e-mail is the one asked for, and only the form or the loading screen is there meanwhile.
`AcceptsItsPassword` needs that what is kept and what travels is trimmed (`Trimmed`),
so that two texts that differ have different words.

What is only model-checked: liveness, everything under fairness (`SavedGoalAppears`,
`QueuedTasksSettle`, `QueuedWritesSettle`, `ReadsTimeOut`, `LoadingEnds`, `NamesAppear`,
`AlertsArrive`). Temporal formulas with fairness or `ENABLED` are out of this prover's
reach, as are induction over data and recursive operators; the modules with theorems
declare none. Every other property of a passing run is a theorem.

## 5. Plan

Done: the inventory; the client as the tabs see it and as its streams make it; the three
tabs, their abstract specifications and runs; the accounts with the Profile tab; the
alert; and theorems for every safety property, every action property and every refinement
that a passing run checks. In the order of importance, what is left:

1. Proofs: that the streams of all users together keep the client's promises to each
   collection of a user, so that the two refinements compose; the conditions of calm
   use weakened as far as the proofs allow.
2. `HomeScreen`: the three tabs on the client's one write queue, where a crash of
   one is a crash of all.
3. `PasswordRules`: `isPasswordValid` and `validateFields` against a reference over
   bounded inputs.

### Not modelled

Drawing and styling, the calendar, the reminder (it fires once, five seconds after the
tab opens, and nothing reads it back), the details screens, and code that nothing calls
(`addGoal`, `goalVC`, `addTask`, `moveRowAt`) hold no state that another part reads.
Of the vendored code, which is most of the repository by far, the application's logic
rests on the Firestore client: its documents' contents, updates, transactions,
snapshot listeners on collections, limbo resolution and garbage collection are left
out, since the tabs never use them, as are the stream token, the length of back-offs
and the ten-second health check of a stream. gRPC, LevelDB, BoringSSL, FSCalendar and
the rest of Firebase appear only as what they promise to the modelled code.
