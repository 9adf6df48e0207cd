------------------------ MODULE RemoteStoreRefinement ------------------------
(***************************************************************************)
(* Each user's part of the client is a FirestoreClient, the one the models *)
(* of the tabs are built on.  What that one does in one step, the server's *)
(* taking of a write and the loss of all answers, is here a stream with    *)
(* its pipeline.                                                           *)
(***************************************************************************)
EXTENDS RemoteStoreProperties

CONSTANTS Owner,       \* the user whose part is looked at, any of them
          NoDoc, NoCallback

ASSUME RefinementAssumption ==
  /\ Owner \in Users
  /\ NoCallback \notin Nat
  /\ NoDoc # "document"

OwnDocs == {id \in DocIds : Author[id] = Owner}

CallbackOf(write) == IF write.batch \in callbacks THEN write.batch ELSE NoCallback

OwnQueue ==
  [i \in DOMAIN queue[Owner] |->
     [op |-> queue[Owner][i].op, id |-> queue[Owner][i].id,
      callback |-> CallbackOf(queue[Owner][i])]]

OwnWritten == [id \in OwnDocs |-> IF id \in created THEN "document" ELSE NoDoc]
OwnTaken == IF Owner = user THEN Len(down) ELSE 0

Client == INSTANCE FirestoreClient WITH
  DocIds <- OwnDocs,
  written <- OwnWritten,
  server <- server \cap OwnDocs,
  cached <- cached \cap OwnDocs,
  pending <- OwnQueue,
  taken <- OwnTaken,
  queries <- {},
  mainQueue <- answers[Owner]

\* What may happen to a client, whatever the application does with it.
ClientNext ==
  \/ \E batch \in {lastBatch + 1} : Client!AddDocument("document", batch)
  \/ \E id \in OwnDocs : Client!DeleteDocument(id, lastBatch + 1)
  \/ Client!ClientStep
  \/ Client!StreamsStop
  \/ Client!ProcessDies

\* Through broken streams, lost and late answers, refusals, changes of user and
\* relaunches, a user's writes are taken and answered in order, each callback is
\* run once and with the answer to its own write or a refusal, as FirestoreClient
\* promises.
KeepsFirestorePromises ==
  Client!ClientInit /\ [][ClientNext]_(Client!clientVars)

=============================================================================
