----------------------------- MODULE WatchStream -----------------------------
(***************************************************************************)
(* How a getDocuments call gets its one answer: the call is a listener of  *)
(* its query that goes away with its first event.  That event is the       *)
(* server's snapshot, or the local documents as soon as the client counts  *)
(* itself offline, which OnlineStateTracker decides: after one failed      *)
(* attempt, or ten seconds after the first attempt began in silence.       *)
(* Which documents are answered is FirestoreClient's subject, not ours.    *)
(***************************************************************************)
EXTENDS Streams

CONSTANT Queries       \* the collections the screens read

VARIABLES targets,     \* RemoteStore::listen_targets_
          waiting,     \* the queries whose getDocuments has no answer
          tracker      \* OnlineStateTracker: its state, failures and timer

watchVars == <<targets, waiting, tracker>>

OnlineStates == {"Unknown", "Online", "Offline"}
Tracker == [online : OnlineStates, failed : BOOLEAN, timer : BOOLEAN]

-----------------------------------------------------------------------------
(* OnlineStateTracker.  One failure is kMaxWatchStreamFailures, so all that *)
(* matters of watch_stream_failures_ is whether it is 0.                    *)

UpdateState(state) == [online |-> state, failed |-> FALSE, timer |-> FALSE]

HandleWatchStreamStart(t) ==
  IF t.failed THEN t ELSE [t EXCEPT !.online = "Unknown", !.timer = TRUE]

\* Mutant of HandleWatchStreamFailure: the timer runs on.
FailureKeepsTimer(t) ==
  IF t.online = "Online" THEN [t EXCEPT !.online = "Unknown"]
                         ELSE [t EXCEPT !.online = "Offline", !.failed = TRUE]

\* The loss of a working stream is forgiven, any other failure means offline.
HandleWatchStreamFailure(t) ==
  IF t.online = "Online" THEN [t EXCEPT !.online = "Unknown"]
                         ELSE [online |-> "Offline", failed |-> TRUE, timer |-> FALSE]

\* Mutant of Tracks: going offline is told to no listener.
TracksSilently(t) == tracker' = t /\ UNCHANGED waiting

\* SetAndBroadcast: once offline, every listener without an event has its event.
Tracks(t) ==
  /\ tracker' = t
  /\ waiting' = IF t.online = "Offline" THEN {} ELSE waiting

WatchInit == targets = {} /\ waiting = {} /\ tracker = UpdateState("Unknown")

\* The timer's operation on the worker queue.
OnlineTimerFires ==
  /\ tracker.timer
  /\ Tracks([tracker EXCEPT !.timer = FALSE, !.online = "Offline"])
  /\ UNCHANGED <<streamVars, targets>>

-----------------------------------------------------------------------------
(* Listening *)

\* Query::GetDocuments, EventManager::AddQueryListener, RemoteStore::Listen: the event
\* comes at once if the client is offline; the target is watched in any case.
GetDocuments(q) ==
  /\ q \notin targets
  /\ targets' = targets \cup {q}
  /\ waiting' = IF tracker.online = "Offline" THEN waiting ELSE waiting \cup {q}
  /\ \/ /\ IsStarted("watch")
        /\ idle' = [idle EXCEPT !["watch"] = FALSE]
        /\ UNCHANGED <<phase, tracker>>
     \/ /\ ~IsStarted("watch")
        /\ phase' = [phase EXCEPT !["watch"] = Started(@)]
        /\ tracker' = HandleWatchStreamStart(tracker)
        /\ UNCHANGED idle
  /\ UNCHANGED <<signedIn, tasks, token>>

\* RemoteStore::StopListening, some time after the query's event.
StopListening(q) ==
  /\ q \in targets \ waiting
  /\ targets' = targets \ {q}
  /\ tracker' = IF targets' # {} \/ IsOpen("watch") THEN tracker ELSE UpdateState("Unknown")
  /\ idle' = [idle EXCEPT !["watch"] = @ \/ (targets' = {} /\ IsOpen("watch"))]
  /\ UNCHANGED <<signedIn, tasks, phase, token, waiting>>

-----------------------------------------------------------------------------
(* The stream *)

\* OnWatchStreamChange without a snapshot: the server is there.
WatchChange ==
  /\ phase["watch"] = "open" /\ tracker.online # "Online"
  /\ Tracks(UpdateState("Online"))
  /\ UNCHANGED <<streamVars, targets>>

\* OnWatchStreamChange, RaiseWatchSnapshot: the query's documents are current.
WatchSnapshot(q) ==
  /\ phase["watch"] = "open" /\ q \in waiting
  /\ tracker' = UpdateState("Online")
  /\ waiting' = waiting \ {q}
  /\ UNCHANGED <<streamVars, targets>>

\* ProcessTargetError, HandleRejectedListen: the listener gets the error and is gone.
TargetRefused(q) ==
  /\ phase["watch"] = "open" /\ q \in targets
  /\ tracker' = UpdateState("Online")
  /\ targets' = targets \ {q} /\ waiting' = waiting \ {q}
  /\ UNCHANGED streamVars

\* OnWatchStreamClose with an error: the stream is started again if it is needed.
WatchStreamFails ==
  /\ MayFail("watch")
  /\ IF targets # {}
       THEN /\ Closes("watch", "backoff")
            /\ Tracks(HandleWatchStreamStart(HandleWatchStreamFailure(tracker)))
       ELSE /\ Closes("watch", "error")
            /\ Tracks(UpdateState("Unknown"))
  /\ UNCHANGED targets

\* The idle timer stops the stream, and OnWatchStreamClose hears of no error.
WatchStreamIdles ==
  /\ idle["watch"]
  /\ Closes("watch", "initial")
  /\ Tracks(UpdateState("Unknown"))
  /\ UNCHANGED targets

=============================================================================
