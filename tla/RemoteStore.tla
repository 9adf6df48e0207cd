----------------------------- MODULE RemoteStore -----------------------------
(***************************************************************************)
(* RemoteStore and SyncEngine: the two streams together, restarted when    *)
(* the user or the connection changes and when the process is started      *)
(* again.                                                                  *)
(***************************************************************************)
EXTENDS WriteStream, WatchStream

CONSTANT Loads         \* bounds: how much a behaviour may still do, in each respect

VARIABLE load          \* what is left of the load chosen at the start

vars == <<streamVars, writeVars, watchVars, load>>

Init ==
  /\ StreamsInit /\ WriteInit /\ WatchInit
  /\ load \in Loads

Spend(what) == load[what] > 0 /\ load' = [load EXCEPT ![what] = @ - 1]

-----------------------------------------------------------------------------
(* Both streams *)

\* Mutant of RestartStreams: the pipeline of the user before is kept.
RestartKeepsPipeline(queued) ==
  /\ tasks' = Void(queued, StreamNames)
  /\ token' = [s \in StreamNames |-> NoUser]
  /\ idle' = [s \in StreamNames |-> FALSE]
  /\ up' = <<>> /\ down' = <<>> /\ refused' = FALSE
  /\ pipeline' = pipeline \o Missing(pipeline, queue[user'])
  /\ phase' = [write |-> IF pipeline' # <<>> THEN "asking" ELSE "initial",
               watch |-> IF targets' # {} THEN "asking" ELSE "initial"]
  /\ tracker' = IF targets' # {} THEN HandleWatchStreamStart(UpdateState("Unknown"))
                                 ELSE UpdateState("Unknown")

\* DisableNetworkInternal, UpdateState, InhibitBackoff, EnableNetwork: both streams
\* are stopped, forget what they held, and start afresh if they are needed.
RestartStreams(queued) ==
  /\ tasks' = Void(queued, StreamNames)
  /\ token' = [s \in StreamNames |-> NoUser]
  /\ idle' = [s \in StreamNames |-> FALSE]
  /\ up' = <<>> /\ down' = <<>> /\ refused' = FALSE
  /\ pipeline' = Missing(<<>>, queue[user'])
  /\ phase' = [write |-> IF pipeline' # <<>> THEN "asking" ELSE "initial",
               watch |-> IF targets' # {} THEN "asking" ELSE "initial"]
  /\ tracker' = IF targets' # {} THEN HandleWatchStreamStart(UpdateState("Unknown"))
                                 ELSE UpdateState("Unknown")

Stored == <<queue, lastBatch, created, server, cached>>

\* The connectivity monitor's callback.
ConnectivityChanges ==
  /\ Spend("faults")
  /\ UNCHANGED <<signedIn, user, callbacks, answers, targets, waiting, Stored>>
  /\ RestartStreams(tasks)

\* SyncEngine::HandleCredentialChange; the streams restart even if the user is the same.
HandleCredentialChange ==
  /\ tasks # <<>> /\ Head(tasks).kind = "user"
  /\ user' = Head(tasks).user
  /\ UNCHANGED <<signedIn, callbacks, answers, targets, waiting, Stored, load>>
  /\ RestartStreams(Tail(tasks))

\* The process dies and is started again, with the user Auth remembers.
Relaunch ==
  /\ Spend("faults")
  /\ user' = signedIn
  /\ callbacks' = {} /\ answers' = [u \in Users |-> <<>>]
  /\ targets' = {} /\ waiting' = {}
  /\ UNCHANGED <<signedIn, Stored>>
  /\ RestartStreams(<<>>)

-----------------------------------------------------------------------------
(* The application *)

\* A call made before its user left is on the worker queue before the change of user.
Write(op, id) ==
  /\ Spend("writes")
  /\ Author[id] = user
  /\ op = "set" => id \notin created
  /\ WriteMutations(op, id)
  /\ UNCHANGED watchVars

Read(q) ==
  /\ Spend("reads")
  /\ GetDocuments(q)
  /\ UNCHANGED writeVars

ChangeUser(u) ==
  /\ Spend("users")
  /\ SignIn(u)
  /\ UNCHANGED <<writeVars, watchVars>>

-----------------------------------------------------------------------------
(* The streams on their own *)

\* A stream's start, token by token.
Connects ==
  /\ \/ SkipToken
     \/ \E s \in StreamNames :
          AuthAnswers(s) \/ AppCheckAnswers(s) \/ Resumes(s) \/ BackoffElapses(s)
  /\ UNCHANGED <<writeVars, watchVars, load>>

Writes ==
  /\ HandshakeCompletes \/ MutationResult \/ WriteStreamIdles
  /\ UNCHANGED <<watchVars, load>>

Unlistens ==
  /\ \E q \in Queries : StopListening(q)
  /\ UNCHANGED <<writeVars, load>>

ServerServesWrites ==
  /\ ServerTakes
  /\ UNCHANGED <<streamVars, watchVars, load>>

ServerRefusesWrite ==
  /\ Spend("faults")
  /\ ServerRefuses
  /\ UNCHANGED <<streamVars, watchVars>>

RefusalArrives ==
  /\ WriteRefused
  /\ UNCHANGED <<watchVars, load>>

ServerServesReads ==
  /\ WatchChange \/ \E q \in Queries : WatchSnapshot(q)
  /\ UNCHANGED <<writeVars, load>>

ServerRefusesRead ==
  /\ Spend("faults")
  /\ \E q \in Queries : TargetRefused(q)
  /\ UNCHANGED writeVars

WatchTimers ==
  /\ OnlineTimerFires \/ WatchStreamIdles
  /\ UNCHANGED <<writeVars, load>>

StreamFails ==
  /\ Spend("faults")
  /\ \/ WriteStreamFails /\ UNCHANGED watchVars
     \/ WatchStreamFails /\ UNCHANGED writeVars

Next ==
  \/ \E op \in {"set", "delete"}, id \in DocIds : Write(op, id)
  \/ \E q \in Queries : Read(q)
  \/ \E u \in Users : ChangeUser(u)
  \/ Connects \/ Writes \/ Unlistens \/ HandleCredentialChange
  \/ ServerServesWrites \/ ServerRefusesWrite \/ RefusalArrives
  \/ ServerServesReads \/ ServerRefusesRead \/ WatchTimers
  \/ StreamFails \/ ConnectivityChanges \/ Relaunch

Spec == Init /\ [][Next]_vars

=============================================================================
