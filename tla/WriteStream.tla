----------------------------- MODULE WriteStream -----------------------------
(***************************************************************************)
(* How the Firestore client gets queued writes to the server and answers   *)
(* back to the application: the mutation queue of each user, the pipeline  *)
(* of writes handed to the stream (RemoteStore::write_pipeline_), the two  *)
(* directions of the stream, and the callbacks of the process.             *)
(*                                                                         *)
(* An answer on the wire carries nothing but success: "down" holds the     *)
(* write each one is really about, which the client has no way to see.  It *)
(* takes every answer for one about the oldest write in the pipeline.      *)
(***************************************************************************)
EXTENDS Streams, SequencesExt

CONSTANTS DocIds,      \* the documents the application may name
          Author,      \* who creates and deletes each of them
          MaxPending   \* kMaxPendingWrites

ASSUME WriteAssumption ==
  /\ Author \in [DocIds -> Users]
  /\ MaxPending \in Nat \ {0}

VARIABLES user,        \* SyncEngine::current_user_
          queue,       \* user -> the writes in the user's persisted queue
          lastBatch,   \* the number of the last write queued
          callbacks,   \* the writes this process has a callback for
          pipeline,    \* RemoteStore::write_pipeline_
          up, down,    \* writes sent and not taken; writes whose answer is coming
          refused,     \* the server has ended the stream over the next write
          created,     \* documents whose creation was ever queued
          server,      \* documents the server holds
          cached,      \* documents in the local store
          answers      \* user -> what the process's callbacks were told, in order

wireVars == <<up, down, refused>>
writeVars == <<user, queue, lastBatch, callbacks, pipeline, wireVars,
               created, server, cached, answers>>

Batch(number, op, id) == [batch |-> number, op |-> op, id |-> id]
Effect(write, ids) == IF write.op = "set" THEN ids \cup {write.id} ELSE ids \ {write.id}

WriteInit ==
  /\ user = signedIn
  /\ queue = [u \in Users |-> <<>>]
  /\ lastBatch = 0 /\ callbacks = {} /\ answers = [u \in Users |-> <<>>]
  /\ pipeline = <<>> /\ up = <<>> /\ down = <<>> /\ refused = FALSE
  /\ created = {} /\ server = {} /\ cached = {}

-----------------------------------------------------------------------------
(* The pipeline *)

\* GetNextMutationBatch's: the oldest of q that is younger than all of p, 0 if none is.
NextAfter(p, q) ==
  IF p = <<>> THEN 1 ELSE SelectInSeq(q, LAMBDA w : w.batch > Last(p).batch)

\* Mutant of Missing: the limit of the pipeline is off.
MissingUnlimited(p, q) ==
  IF NextAfter(p, q) = 0 THEN <<>> ELSE SubSeq(q, NextAfter(p, q), Len(q))

\* What p lacks of q, until the pipeline is full.
Missing(p, q) ==
  LET first == NextAfter(p, q)
      last == first + (MaxPending - Len(p)) - 1
  IN IF first = 0 THEN <<>> ELSE SubSeq(q, first, IF last <= Len(q) THEN last ELSE Len(q))

\* FillWritePipeline, with the pipeline, the queue, the stream's phase and what has
\* been sent as the code before it leaves them.  A stopped stream that is needed is
\* started; an open one that is not is marked idle.
FillWritePipeline(p, q, at, sent) ==
  LET more == Missing(p, q)
      full == p \o more
  IN /\ pipeline' = full
     /\ up' = IF at = "ready" THEN sent \o more ELSE sent
     /\ phase' = [phase EXCEPT !["write"] =
                    IF full # <<>> /\ at \in {"initial", "error"} THEN Started(at) ELSE at]
     /\ idle' = [idle EXCEPT !["write"] =
                   \/ at \in {"open", "ready"} /\ full = <<>>
                   \/ at = "open" /\ @
                   \/ at = "ready" /\ @ /\ more = <<>>]

\* SyncEngine::WriteMutations
WriteMutations(op, id) ==
  LET write == Batch(lastBatch + 1, op, id)
  IN /\ lastBatch' = lastBatch + 1
     /\ queue' = [queue EXCEPT ![user] = Append(@, write)]
     /\ callbacks' = callbacks \cup {write.batch}
     /\ created' = IF op = "set" THEN created \cup {id} ELSE created
     /\ FillWritePipeline(pipeline, Append(queue[user], write), phase["write"], up)
     /\ UNCHANGED <<signedIn, tasks, token, user, down, refused, server, cached, answers>>

-----------------------------------------------------------------------------
(* The server *)

ServerTakes ==
  /\ up # <<>> /\ ~refused
  /\ server' = Effect(Head(up), server)
  /\ up' = Tail(up)
  /\ down' = Append(down, Head(up))
  /\ UNCHANGED <<user, queue, lastBatch, callbacks, pipeline, refused, created, cached, answers>>

\* The next write is refused for good, which ends the stream.
ServerRefuses ==
  /\ up # <<>> /\ ~refused
  /\ refused' = TRUE
  /\ UNCHANGED <<user, queue, lastBatch, callbacks, pipeline, up, down, created, server, cached,
                 answers>>

-----------------------------------------------------------------------------
(* The client *)

\* Mutant of HandshakeCompletes: only the oldest write is sent again.
HandshakeSendsOldest ==
  /\ phase["write"] = "open"
  /\ phase' = [phase EXCEPT !["write"] = "ready"]
  /\ idle' = [idle EXCEPT !["write"] = @ /\ pipeline = <<>>]
  /\ up' = SubSeq(pipeline, 1, 1)
  /\ UNCHANGED <<signedIn, tasks, token, user, queue, lastBatch, callbacks, pipeline, down,
                 refused, created, server, cached, answers>>

\* OnWriteStreamHandshakeComplete: the whole pipeline is sent.
HandshakeCompletes ==
  /\ phase["write"] = "open"
  /\ phase' = [phase EXCEPT !["write"] = "ready"]
  /\ idle' = [idle EXCEPT !["write"] = @ /\ pipeline = <<>>]
  /\ up' = pipeline
  /\ UNCHANGED <<signedIn, tasks, token, user, queue, lastBatch, callbacks, pipeline, down,
                 refused, created, server, cached, answers>>

Without(q, write) == RemoveFirstMatch(q, LAMBDA w : w.batch = write.batch)

\* NotifyUser: only the process that issued a write has a callback for it.
NotifyUser(write, ok) ==
  /\ callbacks' = callbacks \ {write.batch}
  /\ answers' = IF write.batch \notin callbacks THEN answers ELSE
                  [answers EXCEPT ![user] =
                     Append(@, [callback |-> write.batch, ok |-> ok, ids |-> {}])]

\* Mutant of Settle: the write leaves the pipeline and stays in the queue.
SettleKeepsQueued(write, ok, at, sent) ==
  /\ NotifyUser(write, ok)
  /\ FillWritePipeline(Tail(pipeline), queue[user], at, sent)
  /\ UNCHANGED <<user, queue, lastBatch, created, server>>

\* A write has its answer: it leaves queue and pipeline, which may free a slot.
Settle(write, ok, at, sent) ==
  LET rest == Without(queue[user], write)
  IN /\ queue' = [queue EXCEPT ![user] = rest]
     /\ NotifyUser(write, ok)
     /\ FillWritePipeline(Tail(pipeline), rest, at, sent)
     /\ UNCHANGED <<user, lastBatch, created, server>>

\* OnWriteStreamMutationResult, HandleSuccessfulWrite
MutationResult ==
  /\ phase["write"] = "ready" /\ down # <<>> /\ pipeline # <<>>
  /\ down' = Tail(down)
  /\ cached' = Effect(Head(pipeline), cached)
  /\ Settle(Head(pipeline), TRUE, "ready", up)
  /\ UNCHANGED <<signedIn, tasks, token, refused>>

\* Stop() or an error that does not condemn a write: the call is gone and the
\* pipeline is kept; what was sent on the call is sent again on the next.
WriteStreamCloses(after) ==
  /\ Closes("write", after)
  /\ up' = <<>> /\ down' = <<>> /\ refused' = FALSE
  /\ UNCHANGED <<user, queue, lastBatch, callbacks, pipeline, created, server, cached, answers>>

\* OnWriteStreamClose, HandleHandshakeError, HandleWriteError, when the error is
\* transient or the handshake was not complete.
WriteStreamFails ==
  /\ MayFail("write")
  /\ WriteStreamCloses(IF pipeline # <<>> THEN "backoff" ELSE "error")

\* Mutant of WriteRefused: the last write in the pipeline is condemned.
WriteRefusedLast ==
  /\ refused /\ phase["write"] = "ready" /\ down = <<>>
  /\ Settle(Last(pipeline), FALSE, "initial", <<>>)
  /\ tasks' = Void(tasks, {"write"}) /\ token' = [token EXCEPT !["write"] = NoUser]
  /\ down' = <<>> /\ refused' = FALSE
  /\ UNCHANGED <<signedIn, cached>>

\* OnWriteStreamClose, HandleWriteError, HandleRejectedWrite: the oldest write of the
\* pipeline is condemned, and the stream starts again without backing off.  Answers
\* that came before the refusal are lost when the call was still busy sending a later
\* write: its failure cancels the reads that wait on the worker queue
\* (GrpcStream::FastFinishCompletionsBlocking).
WriteRefused ==
  /\ refused /\ phase["write"] = "ready" /\ pipeline # <<>>
  /\ down = <<>> \/ Len(up) > 1
  /\ Settle(Head(pipeline), FALSE, "initial", <<>>)
  /\ tasks' = Void(tasks, {"write"}) /\ token' = [token EXCEPT !["write"] = NoUser]
  /\ down' = <<>> /\ refused' = FALSE
  /\ UNCHANGED <<signedIn, cached>>

\* The idle timer stops the stream.
WriteStreamIdles ==
  /\ idle["write"]
  /\ WriteStreamCloses("initial")

=============================================================================
