------------------------ MODULE RemoteStoreProperties ------------------------
(***************************************************************************)
(* What the client's streams get right, whatever breaks: among it the      *)
(* assertions of the code.                                                 *)
(***************************************************************************)
EXTENDS RemoteStore

CONSTANT MaxWrites   \* bound: the most writes a load allows

Writing == [batch : 1 .. lastBatch, op : {"set", "delete"}, id : DocIds]
Task == [kind : {"user"}, user : Users]
          \cup [kind : {"token"}, stream : StreamNames, user : Users, fresh : BOOLEAN]

\* Every variable has its type; a batch number is never given twice.
TypeOK ==
  /\ signedIn \in Users /\ user \in Users
  /\ tasks \in Seq(Task)
  /\ phase \in [StreamNames -> Phases] /\ phase["watch"] # "ready"
  /\ token \in [StreamNames -> Users \cup {NoUser}]
  /\ idle \in [StreamNames -> BOOLEAN]
  /\ queue \in [Users -> Seq(Writing)]
  /\ callbacks \subseteq 1 .. lastBatch
  /\ pipeline \in Seq(Writing) /\ Len(pipeline) <= MaxPending
  /\ up \in Seq(Writing) /\ down \in Seq(Writing) /\ refused \in BOOLEAN
  /\ created \subseteq DocIds /\ server \subseteq DocIds /\ cached \subseteq DocIds
  /\ targets \subseteq Queries /\ waiting \subseteq targets
  /\ tracker \in Tracker

-----------------------------------------------------------------------------
(* Safety *)

\* The client takes every answer for one about the oldest write of its pipeline
\* (OnWriteStreamMutationResult), and it is: what is on its way to the server and
\* back is the pipeline, in order.  "Got result for empty write pipeline" never fires.
AnswersMatchTheirWrites ==
  IF phase["write"] = "ready" THEN down \o up = pipeline
                              ELSE down = <<>> /\ up = <<>> /\ ~refused

\* No queued write and no unanswered read is forgotten: the pipeline is the oldest
\* part of the user's queue, as much of it as fits, and a stream that is needed is
\* on its way (FillWritePipeline, ShouldStartWriteStream, ShouldStartWatchStream).
NothingIsForgotten ==
  /\ pipeline = Missing(<<>>, queue[user])
  /\ pipeline # <<>> => IsStarted("write")
  /\ waiting # {} => IsStarted("watch")

\* A stream the idle timer will stop is open and not needed: neither "Write stream
\* was stopped gracefully while still needed" nor its counterpart ever fires.
IdleStreamsAreNotNeeded ==
  /\ idle["write"] => IsOpen("write") /\ pipeline = <<>>
  /\ idle["watch"] => IsOpen("watch") /\ targets = {}

\* The writes of a user's queue travel only on a call made with that user's token,
\* however sign-ins and answers of Auth cross each other.
WritesCarryTheirUsersToken == IsOpen("write") => token["write"] = user

\* The online-state timer runs only in the first attempt of a stream that is started,
\* and only while the state is Unknown: none of the assertions of OnlineStateTracker
\* ("online_state_timer_ shouldn't be started yet", "Timer should be canceled ...")
\* ever fires.
TimerOnlyWhileUnknown ==
  tracker.timer => IsStarted("watch") /\ tracker.online = "Unknown" /\ ~tracker.failed

-----------------------------------------------------------------------------
(* Liveness.  The worker queue runs, Auth answers, timers fire; a server that   *)
(* has a handshake or a write before it answers, and an answer or a refusal it  *)
(* has given arrives unless the stream breaks first.  Nothing is assumed of the *)
(* server's answers to reads, nor of the user.                                  *)

LiveSpec ==
  /\ Spec
  /\ WF_vars(Connects) /\ WF_vars(HandleCredentialChange)
  /\ WF_vars(Writes) /\ WF_vars(ServerServesWrites) /\ WF_vars(RefusalArrives)
  /\ WF_vars(WatchTimers)

Queued(u, n) == \E i \in DOMAIN queue[u] : queue[u][i].batch = n

\* A queued write is answered if its user stays, after however many failures.
QueuedWritesSettle ==
  \A u \in Users : \A n \in 1 .. MaxWrites :
    Queued(u, n) /\ user = u ~> ~Queued(u, n) \/ user # u

\* A getDocuments call that waits under the online-state timer is answered, be it
\* from the cache, even if the server never speaks; only a server that does speak
\* can keep it waiting.  ("rather than waiting indefinitely")
ReadsTimeOut ==
  \A q \in Queries :
    q \in waiting /\ tracker.timer ~> q \notin waiting \/ tracker.online = "Online"

=============================================================================
