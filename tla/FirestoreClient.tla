--------------------------- MODULE FirestoreClient ---------------------------
(***************************************************************************)
(* One Firestore collection as the screens of GoalTracker see it: the      *)
(* documents on the server, the copy the client keeps on the device, the   *)
(* persisted queue of writes that the server has not answered, and the     *)
(* main dispatch queue on which the client runs the application's          *)
(* callbacks.  The application only adds documents under generated ids,    *)
(* deletes them by id and reads the whole collection once; it never        *)
(* updates a document, so what an id was created with never changes and    *)
(* "written" records it.                                                   *)
(*                                                                         *)
(* The client sends its writes one after the other without waiting.  The   *)
(* server has "taken" the first of them and the client has not heard so    *)
(* yet; when the stream breaks, they are all sent again.  WriteStream is   *)
(* how this comes about.                                                   *)
(***************************************************************************)
EXTENDS Naturals, Sequences, FiniteSets, SequencesExt

CONSTANTS DocIds,      \* the ids CreateAutoId can generate
          NoDoc,       \* "no document was ever written under this id"
          NoCallback   \* a queued write that survived a restart

VARIABLES written,     \* id -> what the document was created with, or NoDoc
          server,      \* ids of the documents the server holds
          cached,      \* ids of the documents in the local store
          pending,     \* writes the client has no answer for, oldest first
          taken,       \* how many of them the server has applied
          queries,     \* callbacks of the outstanding getDocuments calls
          mainQueue    \* callback invocations posted to the main queue

clientVars == <<written, server, cached, pending, taken, queries, mainQueue>>

Write(op, id, callback) == [op |-> op, id |-> id, callback |-> callback]
Event(callback, ok, ids) == [callback |-> callback, ok |-> ok, ids |-> ids]

Fresh == {id \in DocIds : written[id] = NoDoc}
PendingIds(op) == {pending[i].id : i \in {j \in DOMAIN pending : pending[j].op = op}}

\* What a query sees: the documents of the base with the pending writes laid over them.
View(base) == (base \cup PendingIds("set")) \ PendingIds("delete")

\* Run a write's callback, if the process that issued the write still lives.
Post(callback, ok) ==
  mainQueue' = IF callback = NoCallback THEN mainQueue
               ELSE Append(mainQueue, Event(callback, ok, {}))

ClientInit ==
  /\ written = [id \in DocIds |-> NoDoc]
  /\ server = {} /\ cached = {} /\ queries = {}
  /\ pending = <<>> /\ taken = 0 /\ mainQueue = <<>>

-----------------------------------------------------------------------------
(* What the application calls. *)

\* The document's data is queued under its id.
SetDocument(id, doc, callback) ==
  /\ written' = [written EXCEPT ![id] = doc]
  /\ pending' = Append(pending, Write("set", id, callback))
  /\ UNCHANGED <<server, cached, taken, queries, mainQueue>>

\* Mutant of AddDocument: the id is derived from something that may recur.
AddUnderAnyId(doc, callback) == \E id \in DocIds : SetDocument(id, doc, callback)

\* addDocument(data:completion:)
AddDocument(doc, callback) == \E id \in Fresh : SetDocument(id, doc, callback)

\* document(id).delete(completion:): no precondition, an unknown id is no error.
DeleteDocument(id, callback) ==
  /\ pending' = Append(pending, Write("delete", id, callback))
  /\ UNCHANGED <<written, server, cached, taken, queries, mainQueue>>

\* getDocuments(completion:)
GetDocuments(callback) ==
  /\ queries' = queries \cup {callback}
  /\ UNCHANGED <<written, server, cached, pending, taken, mainQueue>>

-----------------------------------------------------------------------------
(* What the client does by itself, on its own queue. *)

Effect(write, ids) == IF write.op = "set" THEN ids \cup {write.id} ELSE ids \ {write.id}

\* The server applies the oldest write it has not taken yet.
ServerTakes ==
  /\ taken < Len(pending)
  /\ server' = Effect(pending[taken + 1], server)
  /\ taken' = taken + 1
  /\ UNCHANGED <<written, cached, pending, queries, mainQueue>>

\* The stream breaks before the answers arrive: every write will be sent again.
StreamBreaks ==
  /\ taken > 0
  /\ taken' = 0
  /\ UNCHANGED <<written, server, cached, pending, queries, mainQueue>>

\* The oldest pending write is answered.
Settle(ok) ==
  /\ Post(Head(pending).callback, ok)
  /\ pending' = Tail(pending)
  /\ UNCHANGED <<written, server, queries>>

\* Mutant of Acknowledge: the write is answered and sent again.
AcknowledgeRequeues ==
  /\ taken > 0
  /\ Post(Head(pending).callback, TRUE)
  /\ pending' = Append(Tail(pending), [Head(pending) EXCEPT !.callback = NoCallback])
  /\ taken' = taken - 1
  /\ cached' = Effect(Head(pending), cached)
  /\ UNCHANGED <<written, server, queries>>

\* The server's answer to the oldest write it has taken arrives.
Acknowledge ==
  /\ taken > 0
  /\ Settle(TRUE)
  /\ taken' = taken - 1
  /\ cached' = Effect(Head(pending), cached)

\* The stream ends with a refusal, which the client takes for one of its oldest
\* pending write; that write's local effect is undone.  The server may have taken
\* it, and refused a later one, if the answer was lost with the stream.
Reject ==
  /\ pending # <<>>
  /\ Settle(FALSE)
  /\ taken' = 0
  /\ UNCHANGED cached

\* The calls that wait listen to one query and get the same event (OnViewSnapshots,
\* OnError): a call made while an earlier one waits is answered with it.
Answer(ok, ids) ==
  /\ queries # {} /\ queries' = {}
  /\ \E calls \in SetToSeqs(queries) :
       mainQueue' = mainQueue \o [i \in DOMAIN calls |-> Event(calls[i], ok, ids)]

\* Mutant of AnswerFromServer: the view is brought up to date too late.
AnswerBeforeUpdate ==
  /\ Answer(TRUE, View(cached))
  /\ cached' = server
  /\ UNCHANGED <<written, server, pending, taken>>

\* The query is answered from a view the server has brought up to date ...
AnswerFromServer ==
  /\ Answer(TRUE, View(server))
  /\ cached' = server
  /\ UNCHANGED <<written, server, pending, taken>>

\* ... or, when the client believes it is offline, from the local store alone ...
AnswerFromCache ==
  /\ Answer(TRUE, View(cached))
  /\ UNCHANGED <<written, server, cached, pending, taken>>

\* ... or the server refuses the query.
FailQuery ==
  /\ Answer(FALSE, {})
  /\ UNCHANGED <<written, server, cached, pending, taken>>

ClientStep ==
  \/ ServerTakes
  \/ StreamBreaks
  \/ Acknowledge
  \/ Reject
  \/ AnswerFromServer
  \/ AnswerFromCache
  \/ FailQuery

-----------------------------------------------------------------------------
(* The other devices: the collection is one for all users. *)

OtherDeviceAdds(doc) ==
  \E id \in Fresh :
    /\ written' = [written EXCEPT ![id] = doc]
    /\ server' = server \cup {id}
    /\ UNCHANGED <<cached, pending, taken, queries, mainQueue>>

OtherDeviceDeletes ==
  \E id \in server :
    /\ server' = server \ {id}
    /\ UNCHANGED <<written, cached, pending, taken, queries, mainQueue>>

-----------------------------------------------------------------------------
(* The process dies: queued writes survive it, callbacks and streams do not. *)
ProcessDies ==
  /\ pending' = [i \in DOMAIN pending |-> [pending[i] EXCEPT !.callback = NoCallback]]
  /\ taken' = 0
  /\ queries' = {}
  /\ mainQueue' = <<>>
  /\ UNCHANGED <<written, server, cached>>

\* The user signs out: the client closes the write stream and keeps the rest.
StreamsStop ==
  /\ taken' = 0
  /\ UNCHANGED <<written, server, cached, pending, queries, mainQueue>>

\* The main queue takes its next event; the handler is the component's.
TakeEvent ==
  /\ mainQueue # <<>>
  /\ mainQueue' = Tail(mainQueue)

\* Ids are the ids the screen may name in a deletion.
ClientTypeOK(Docs, Callbacks, Ids) ==
  /\ written \in [DocIds -> Docs \cup {NoDoc}]
  /\ server \subseteq DocIds
  /\ cached \subseteq DocIds
  /\ pending \in Seq([op : {"set", "delete"}, id : Ids,
                      callback : Callbacks \cup {NoCallback}])
  /\ taken \in 0 .. Len(pending)
  /\ queries \subseteq Callbacks
  /\ mainQueue \in Seq([callback : Callbacks, ok : BOOLEAN, ids : SUBSET DocIds])

=============================================================================
