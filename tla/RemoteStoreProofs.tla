-------------------------- MODULE RemoteStoreProofs --------------------------
(***************************************************************************)
(* However sign-ins, answers of Auth and App Check, broken streams and     *)
(* restarts cross each other, the writes of a user's queue travel only on  *)
(* a call made with that user's token: for any set of users and any load.  *)
(*                                                                         *)
(* A token is asked for in one step, granted in a second, queued in a      *)
(* third and used in a fourth, and the user may change between any two.    *)
(* What saves it is the one worker queue: a token that is overtaken by a   *)
(* change of user lies behind that change in the queue, and the change     *)
(* makes it void.  TokenInv says this of every token on its way.           *)
(*                                                                         *)
(* The second half is about what travels on those calls.  The pipeline is  *)
(* the oldest part of the user's queue, the wire holds what the pipeline   *)
(* has sent, and the answers on their way are about its first writes, in   *)
(* order: StreamInv says so, and from it follow the streams' types, that   *)
(* an answer finds the write it is about, that nothing waiting is          *)
(* forgotten, and that no stream is stopped while it is needed.  The last  *)
(* part shows that each user's share of the streams behaves as             *)
(* FirestoreClient, on which the tabs are built, says.                     *)
(***************************************************************************)
EXTENDS RemoteStoreRefinement, TLAPS, SequenceTheorems

\* The first k tasks are tokens: no change of user is among them.
Undisturbed(k) == \A i \in 1 .. k : tasks[i].kind = "token"

StreamsType ==
  /\ signedIn \in Users /\ user \in Users
  /\ tasks \in Seq(Task)
  /\ phase \in [StreamNames -> Phases]
  /\ token \in [StreamNames -> Users \cup {NoUser}]
  /\ \A s \in StreamNames : phase[s] = "answered" => token[s] \in Users

\* A stream that is open has its token from the user, ...
OpenAsUser == \A s \in StreamNames : IsOpen(s) => token[s] = user

\* ... and so will one whose token is not queued yet, unless a change of user is, ...
AnsweredAsUser ==
  \A s \in StreamNames :
    phase[s] = "answered" /\ Undisturbed(Len(tasks)) => token[s] = user

\* ... or one whose token is queued before any change of user.
QueuedAsUser ==
  \A i \in 1 .. Len(tasks) :
    tasks[i].kind = "token" /\ tasks[i].fresh /\ Undisturbed(i) => tasks[i].user = user

\* Auth's user is the client's, or the one the last queued change announces.
UserIsKnown == Undisturbed(Len(tasks)) => signedIn = user

LastIsSignedIn ==
  \A i \in 1 .. Len(tasks) :
    /\ tasks[i].kind = "user"
    /\ \A j \in i + 1 .. Len(tasks) : tasks[j].kind = "token"
    => tasks[i].user = signedIn

TokenInv ==
  /\ StreamsType
  /\ OpenAsUser /\ AnsweredAsUser /\ QueuedAsUser
  /\ UserIsKnown /\ LastIsSignedIn

-----------------------------------------------------------------------------
(* Voiding tokens changes nothing else *)

\* What a task becomes when some streams are closed.
Voided(t, closed) ==
  IF t.kind = "token" /\ t.stream \in closed THEN [t EXCEPT !.fresh = FALSE] ELSE t

\* A voided task is a task of the same kind and user, no fresher than before.
LEMMA VoidedTask ==
  ASSUME NEW t \in Task, NEW closed
  PROVE  /\ Voided(t, closed) \in Task
         /\ Voided(t, closed).kind = t.kind
         /\ Voided(t, closed).user = t.user
         /\ t.kind = "token" =>
              /\ Voided(t, closed).fresh => t.fresh
              /\ t.stream \in closed => ~Voided(t, closed).fresh
<1>1. CASE t \in [kind : {"user"}, user : Users]
  BY <1>1 DEF Voided
<1>2. CASE t \in [kind : {"token"}, stream : StreamNames, user : Users, fresh : BOOLEAN]
  <2>1. CASE t.stream \in closed
    <3>1. Voided(t, closed) = [t EXCEPT !.fresh = FALSE]
      BY <1>2, <2>1 DEF Voided
    <3>2. [t EXCEPT !.fresh = FALSE] \in
            [kind : {"token"}, stream : StreamNames, user : Users, fresh : BOOLEAN]
      BY <1>2
    <3>3. /\ [t EXCEPT !.fresh = FALSE].kind = t.kind
          /\ [t EXCEPT !.fresh = FALSE].user = t.user
          /\ [t EXCEPT !.fresh = FALSE].fresh = FALSE
      BY <1>2
    <3> QED BY <3>1, <3>2, <3>3 DEF Task
  <2>2. CASE t.stream \notin closed
    BY <2>2 DEF Voided
  <2> QED BY <2>1, <2>2
<1> QED BY <1>1, <1>2 DEF Task

\* Void keeps the queue's length and voids its tasks one by one.
LEMMA VoidTasks ==
  ASSUME NEW q \in Seq(Task), NEW closed
  PROVE  /\ Void(q, closed) \in Seq(Task)
         /\ Len(Void(q, closed)) = Len(q)
         /\ \A i \in 1 .. Len(q) :
              /\ Void(q, closed)[i].kind = q[i].kind
              /\ Void(q, closed)[i].user = q[i].user
              /\ q[i].kind = "token" =>
                   /\ Void(q, closed)[i].fresh => q[i].fresh
                   /\ q[i].stream \in closed => ~Void(q, closed)[i].fresh
<1>1. Void(q, closed) = [i \in 1 .. Len(q) |-> Voided(q[i], closed)]
  BY DEF Void, Voided
<1>2. \A i \in 1 .. Len(q) : q[i] \in Task
  OBVIOUS
<1>3. \A i \in 1 .. Len(q) : Voided(q[i], closed) \in Task
  BY <1>2, VoidedTask
<1>4. Void(q, closed) \in Seq(Task) /\ Len(Void(q, closed)) = Len(q)
  BY <1>1, <1>3
<1>5. \A i \in 1 .. Len(q) : Void(q, closed)[i] = Voided(q[i], closed)
  BY <1>1
<1> QED BY <1>2, <1>4, <1>5, VoidedTask

-----------------------------------------------------------------------------
(* Steps that neither begin nor grant a call *)

\* No stream is opened or granted a token; some may be closed.
OpensNothing ==
  /\ UNCHANGED <<signedIn, user>>
  /\ tasks' = tasks \/ \E closed \in SUBSET StreamNames : tasks' = Void(tasks, closed)
  /\ phase' \in [StreamNames -> Phases]
  /\ token' \in [StreamNames -> Users \cup {NoUser}]
  /\ \A s \in StreamNames :
       /\ IsOpen(s)' => IsOpen(s) /\ token'[s] = token[s]
       /\ phase'[s] = "answered" => phase[s] = "answered" /\ token'[s] = token[s]

LEMMA OpensNothingKeepsTokenInv ==
  ASSUME TokenInv, OpensNothing PROVE TokenInv'
<1> USE DEF TokenInv, StreamsType
<1>1. /\ tasks' \in Seq(Task) /\ Len(tasks') = Len(tasks)
      /\ \A i \in 1 .. Len(tasks) :
           /\ tasks'[i].kind = tasks[i].kind /\ tasks'[i].user = tasks[i].user
           /\ tasks[i].kind = "token" => (tasks'[i].fresh => tasks[i].fresh)
  BY VoidTasks DEF OpensNothing
<1>2. \A k \in 0 .. Len(tasks) : Undisturbed(k)' <=> Undisturbed(k)
  BY <1>1 DEF Undisturbed
<1>3. StreamsType'
  BY <1>1 DEF OpensNothing
<1>4. OpenAsUser'
  BY DEF OpensNothing, OpenAsUser
<1>5. AnsweredAsUser'
  BY <1>1, <1>2 DEF OpensNothing, AnsweredAsUser
<1>6. QueuedAsUser'
  BY <1>1, <1>2 DEF OpensNothing, QueuedAsUser
<1>7. UserIsKnown'
  BY <1>1, <1>2 DEF OpensNothing, UserIsKnown
<1>8. LastIsSignedIn'
  <2> SUFFICES ASSUME NEW i \in 1 .. Len(tasks), tasks'[i].kind = "user",
                      \A j \in i + 1 .. Len(tasks) : tasks'[j].kind = "token"
               PROVE  tasks'[i].user = signedIn'
    BY <1>1 DEF LastIsSignedIn
  <2>1. \A j \in i + 1 .. Len(tasks) : j \in 1 .. Len(tasks)
    BY LenProperties
  <2>2. tasks[i].kind = "user" /\ \A j \in i + 1 .. Len(tasks) : tasks[j].kind = "token"
    BY <1>1, <2>1
  <2> QED BY <1>1, <2>2 DEF OpensNothing, LastIsSignedIn
<1> QED BY <1>3, <1>4, <1>5, <1>6, <1>7, <1>8

\* Closing a stream for whatever reason.
LEMMA ClosingOpensNothing ==
  ASSUME TokenInv, NEW s \in StreamNames, NEW after \in {"initial", "error", "backoff"},
         Closes(s, after), UNCHANGED user
  PROVE  OpensNothing
<1> USE DEF TokenInv, StreamsType
<1>1. /\ phase' \in [StreamNames -> Phases] /\ token' \in [StreamNames -> Users \cup {NoUser}]
      /\ phase'[s] = after
      /\ \A r \in StreamNames \ {s} : phase'[r] = phase[r] /\ token'[r] = token[r]
  BY DEF Closes, Phases
<1>2. {s} \in SUBSET StreamNames /\ tasks' = Void(tasks, {s})
  BY DEF Closes
<1> QED BY <1>1, <1>2 DEF Closes, OpensNothing, IsOpen

\* A stream starts, or its handshake is answered, or nothing happens to it.
LEMMA PhaseStepOpensNothing ==
  ASSUME TokenInv, NEW s \in StreamNames, NEW after \in Phases,
         \/ after \in {"asking", "backoff", "initial", "error", phase[s]}
         \/ after = "ready" /\ phase[s] = "open",
         phase' = [phase EXCEPT ![s] = after],
         UNCHANGED <<signedIn, user, tasks, token>>
  PROVE  OpensNothing
<1> USE DEF TokenInv, StreamsType
<1>1. /\ phase' \in [StreamNames -> Phases] /\ phase'[s] = after
      /\ \A r \in StreamNames \ {s} : phase'[r] = phase[r]
  OBVIOUS
<1> QED BY <1>1 DEF OpensNothing, IsOpen

\* FillWritePipeline starts the stream at most.
LEMMA FillingStartsAtMost ==
  ASSUME NEW p, NEW q, NEW at \in Phases, NEW sent, FillWritePipeline(p, q, at, sent)
  PROVE  \E after \in Phases :
           /\ phase' = [phase EXCEPT !["write"] = after]
           /\ \/ after = at
              \/ at \in {"initial", "error"} /\ after \in {"asking", "backoff"}
<1> DEFINE more == Missing(p, q)
           full == p \o more
           after == IF full # <<>> /\ at \in {"initial", "error"} THEN Started(at) ELSE at
<1>1. /\ after \in Phases
      /\ \/ after = at
         \/ at \in {"initial", "error"} /\ after \in {"asking", "backoff"}
  <2>1. Started(at) \in {"asking", "backoff"}
    BY DEF Started
  <2> QED BY <2>1 DEF Phases
<1>2. phase' = [phase EXCEPT !["write"] = after]
  BY DEF FillWritePipeline
<1> QED BY <1>1, <1>2

LEMMA WriteKeepsTokenInv ==
  ASSUME TokenInv, NEW op, NEW id, Write(op, id) PROVE TokenInv'
<1>1. phase["write"] \in Phases /\ "write" \in StreamNames
  BY DEF TokenInv, StreamsType, StreamNames
<1>2. PICK q \in {Append(queue[user], Batch(lastBatch + 1, op, id))} :
        FillWritePipeline(pipeline, q, phase["write"], up)
  BY DEF Write, WriteMutations
<1>3. PICK after \in Phases :
        /\ phase' = [phase EXCEPT !["write"] = after]
        /\ \/ after = phase["write"]
           \/ phase["write"] \in {"initial", "error"} /\ after \in {"asking", "backoff"}
  BY <1>1, <1>2, FillingStartsAtMost
<1>4. UNCHANGED <<signedIn, user, tasks, token>>
  BY DEF Write, WriteMutations
<1>5. OpensNothing
  BY <1>1, <1>3, <1>4, PhaseStepOpensNothing
<1> QED BY <1>5, OpensNothingKeepsTokenInv

LEMMA ReadKeepsTokenInv ==
  ASSUME TokenInv, NEW q, Read(q) PROVE TokenInv'
<1>1. "watch" \in StreamNames /\ phase["watch"] \in Phases
  BY DEF TokenInv, StreamsType, StreamNames
<1>2. UNCHANGED <<signedIn, user, tasks, token>>
  BY DEF Read, GetDocuments, writeVars
<1>3. phase' = phase \/ phase' = [phase EXCEPT !["watch"] = Started(phase["watch"])]
  BY DEF Read, GetDocuments
<1>4. CASE phase' = phase
  <2>1. OpensNothing
    BY <1>2, <1>4 DEF OpensNothing, TokenInv, StreamsType, IsOpen
  <2> QED BY <2>1, OpensNothingKeepsTokenInv
<1>5. CASE phase' = [phase EXCEPT !["watch"] = Started(phase["watch"])]
  <2>1. Started(phase["watch"]) \in {"asking", "backoff"} \cap Phases
    BY DEF Started, Phases
  <2>2. OpensNothing
    BY <1>1, <1>2, <1>5, <2>1, PhaseStepOpensNothing
  <2> QED BY <2>2, OpensNothingKeepsTokenInv
<1> QED BY <1>3, <1>4, <1>5

\* A step that leaves the streams and the user alone.
LEMMA StreamsLeftAlone ==
  ASSUME TokenInv, UNCHANGED <<signedIn, user, tasks, phase, token>> PROVE TokenInv'
<1>1. OpensNothing
  BY DEF OpensNothing, TokenInv, StreamsType, IsOpen
<1> QED BY <1>1, OpensNothingKeepsTokenInv

LEMMA WriteStreamCloses_KeepsTokenInv ==
  ASSUME TokenInv, NEW after \in {"initial", "error", "backoff"}, WriteStreamCloses(after)
  PROVE  TokenInv'
<1>1. Closes("write", after) /\ UNCHANGED user /\ "write" \in StreamNames
  BY DEF WriteStreamCloses, StreamNames
<1>2. OpensNothing
  BY <1>1, ClosingOpensNothing
<1> QED BY <1>2, OpensNothingKeepsTokenInv

LEMMA WritesKeepTokenInv ==
  ASSUME TokenInv, Writes PROVE TokenInv'
<1>1. "write" \in StreamNames /\ "ready" \in Phases
  BY DEF StreamNames, Phases
<1>2. CASE HandshakeCompletes
  <2>1. /\ phase["write"] = "open" /\ phase' = [phase EXCEPT !["write"] = "ready"]
        /\ UNCHANGED <<signedIn, user, tasks, token>>
    BY <1>2 DEF HandshakeCompletes
  <2>2. OpensNothing
    BY <1>1, <2>1, PhaseStepOpensNothing
  <2> QED BY <2>2, OpensNothingKeepsTokenInv
<1>3. CASE MutationResult
  <2>1. /\ phase["write"] = "ready" /\ UNCHANGED <<signedIn, user, tasks, token>>
    BY <1>3 DEF MutationResult, Settle
  <2>2. PICK q \in {Without(queue[user], Head(pipeline))} :
          FillWritePipeline(Tail(pipeline), q, "ready", up)
    BY <1>3 DEF MutationResult, Settle
  <2>3. PICK after \in Phases :
          /\ phase' = [phase EXCEPT !["write"] = after]
          /\ after = "ready"
    BY <1>1, <2>2, FillingStartsAtMost
  <2>4. OpensNothing
    BY <1>1, <2>1, <2>3, PhaseStepOpensNothing
  <2> QED BY <2>4, OpensNothingKeepsTokenInv
<1>4. CASE WriteStreamIdles
  <2>1. WriteStreamCloses("initial")
    BY <1>4 DEF WriteStreamIdles
  <2> QED BY <2>1, WriteStreamCloses_KeepsTokenInv
<1> QED BY <1>2, <1>3, <1>4 DEF Writes

LEMMA RefusalKeepsTokenInv ==
  ASSUME TokenInv, WriteRefused PROVE TokenInv'
<1> USE DEF TokenInv, StreamsType
<1>1. "write" \in StreamNames /\ "initial" \in Phases
  BY DEF StreamNames, Phases
<1>2. PICK q \in {Without(queue[user], Head(pipeline))} :
        FillWritePipeline(Tail(pipeline), q, "initial", <<>>)
  BY DEF WriteRefused, Settle
<1>3. PICK after \in Phases :
        /\ phase' = [phase EXCEPT !["write"] = after]
        /\ after \in {"initial", "asking", "backoff"}
  BY <1>1, <1>2, FillingStartsAtMost
<1>4. /\ tasks' = Void(tasks, {"write"}) /\ {"write"} \in SUBSET StreamNames
      /\ token' = [token EXCEPT !["write"] = NoUser]
      /\ UNCHANGED <<signedIn, user>>
  BY <1>1 DEF WriteRefused, Settle
<1>5. /\ phase' \in [StreamNames -> Phases] /\ token' \in [StreamNames -> Users \cup {NoUser}]
      /\ phase'["write"] \in {"initial", "asking", "backoff"}
      /\ \A r \in StreamNames \ {"write"} : phase'[r] = phase[r] /\ token'[r] = token[r]
  BY <1>1, <1>3, <1>4
<1>6. OpensNothing
  BY <1>4, <1>5 DEF OpensNothing, IsOpen
<1> QED BY <1>6, OpensNothingKeepsTokenInv

LEMMA WatchStreamFailsKeepsTokenInv ==
  ASSUME TokenInv, WatchStreamFails \/ WatchStreamIdles, UNCHANGED user PROVE TokenInv'
<1>1. PICK after \in {"initial", "error", "backoff"} : Closes("watch", after)
  BY DEF WatchStreamFails, WatchStreamIdles
<1>2. OpensNothing
  BY <1>1, ClosingOpensNothing DEF StreamNames
<1> QED BY <1>2, OpensNothingKeepsTokenInv

-----------------------------------------------------------------------------
(* Tokens on their way *)

\* The queue loses its first task, a token.
LEMMA FirstTokenGone ==
  ASSUME TokenInv, tasks # <<>>, Head(tasks).kind = "token", tasks' = Tail(tasks),
         UNCHANGED <<signedIn, user>>
  PROVE  /\ tasks' \in Seq(Task)
         /\ Undisturbed(Len(tasks))' => Undisturbed(Len(tasks))
         /\ QueuedAsUser' /\ UserIsKnown' /\ LastIsSignedIn'
<1> USE DEF TokenInv, StreamsType
<1>1. /\ tasks' \in Seq(Task) /\ Len(tasks') = Len(tasks) - 1 /\ Len(tasks) \in Nat \ {0}
      /\ \A i \in 1 .. Len(tasks) - 1 : tasks'[i] = tasks[i + 1]
      /\ tasks[1].kind = "token"
  OBVIOUS
<1>2. \A k \in 0 .. Len(tasks) - 1 : Undisturbed(k)' => Undisturbed(k + 1)
  <2> SUFFICES ASSUME NEW k \in 0 .. Len(tasks) - 1, Undisturbed(k)',
                      NEW i \in 1 .. k + 1
               PROVE  tasks[i].kind = "token"
    BY DEF Undisturbed
  <2>1. CASE i = 1
    BY <2>1, <1>1
  <2>2. CASE i # 1
    <3>1. i - 1 \in 1 .. k /\ tasks'[i - 1] = tasks[i]
      BY <2>2, <1>1
    <3> QED BY <3>1 DEF Undisturbed
  <2> QED BY <2>1, <2>2
<1>3. Undisturbed(Len(tasks))' => Undisturbed(Len(tasks))
  BY <1>1, <1>2
<1>4. UserIsKnown'
  BY <1>3 DEF UserIsKnown
<1>5. QueuedAsUser'
  <2> SUFFICES ASSUME NEW i \in 1 .. Len(tasks'), tasks'[i].kind = "token", tasks'[i].fresh,
                      Undisturbed(i)'
               PROVE  tasks'[i].user = user
    BY DEF QueuedAsUser
  <2>1. i + 1 \in 1 .. Len(tasks) /\ tasks'[i] = tasks[i + 1] /\ Undisturbed(i + 1)
    BY <1>1, <1>2
  <2> QED BY <2>1 DEF QueuedAsUser
<1>6. LastIsSignedIn'
  <2> SUFFICES ASSUME NEW i \in 1 .. Len(tasks'), tasks'[i].kind = "user",
                      \A j \in i + 1 .. Len(tasks') : tasks'[j].kind = "token"
               PROVE  tasks'[i].user = signedIn
    BY DEF LastIsSignedIn
  <2>1. i + 1 \in 1 .. Len(tasks) /\ tasks'[i] = tasks[i + 1]
    BY <1>1
  <2>2. \A j \in i + 2 .. Len(tasks) : tasks[j].kind = "token"
    <3> TAKE j \in i + 2 .. Len(tasks)
    <3>1. j - 1 \in i + 1 .. Len(tasks') /\ tasks'[j - 1] = tasks[j]
      BY <1>1
    <3> QED BY <3>1
  <2> QED BY <2>1, <2>2 DEF LastIsSignedIn
<1> QED BY <1>1, <1>3, <1>4, <1>5, <1>6

\* The queue gets one more task.
LEMMA OneMoreTask ==
  ASSUME TokenInv, NEW t \in Task, tasks' = Append(tasks, t)
  PROVE  /\ tasks' \in Seq(Task) /\ Len(tasks') = Len(tasks) + 1 /\ Len(tasks) \in Nat
         /\ \A i \in 1 .. Len(tasks) : tasks'[i] = tasks[i]
         /\ tasks'[Len(tasks) + 1] = t
         /\ \A k \in 0 .. Len(tasks) : Undisturbed(k)' <=> Undisturbed(k)
<1>1. /\ tasks' \in Seq(Task) /\ Len(tasks') = Len(tasks) + 1 /\ Len(tasks) \in Nat
      /\ \A i \in 1 .. Len(tasks) : tasks'[i] = tasks[i]
      /\ tasks'[Len(tasks) + 1] = t
  BY DEF TokenInv, StreamsType
<1> QED BY <1>1 DEF Undisturbed

LEMMA ChangeUserKeepsTokenInv ==
  ASSUME TokenInv, NEW u \in Users, ChangeUser(u) PROVE TokenInv'
<1> USE DEF TokenInv, StreamsType
<1> DEFINE t == NewUser(u)
<1>1. /\ signedIn' = u /\ tasks' = Append(tasks, t)
      /\ UNCHANGED <<phase, token, user>>
  BY DEF ChangeUser, SignIn, writeVars
<1>2. t \in Task /\ t.kind = "user" /\ t.user = u
  BY DEF NewUser, Task
<1> HIDE DEF t
<1>3. /\ tasks' \in Seq(Task) /\ Len(tasks') = Len(tasks) + 1 /\ Len(tasks) \in Nat
      /\ \A i \in 1 .. Len(tasks) : tasks'[i] = tasks[i]
      /\ tasks'[Len(tasks) + 1] = t
      /\ \A k \in 0 .. Len(tasks) : Undisturbed(k)' <=> Undisturbed(k)
  BY <1>1, <1>2, OneMoreTask
<1>4. ~Undisturbed(Len(tasks))'
  BY <1>2, <1>3 DEF Undisturbed
<1>5. QueuedAsUser'
  BY <1>1, <1>2, <1>3 DEF QueuedAsUser
<1>6. LastIsSignedIn'
  <2> SUFFICES ASSUME NEW i \in 1 .. Len(tasks'), tasks'[i].kind = "user",
                      \A j \in i + 1 .. Len(tasks') : tasks'[j].kind = "token"
               PROVE  tasks'[i].user = signedIn'
    BY DEF LastIsSignedIn
  <2>1. i = Len(tasks) + 1
    BY <1>2, <1>3
  <2> QED BY <2>1, <1>1, <1>2, <1>3
<1> QED BY <1>1, <1>3, <1>4, <1>5, <1>6 DEF OpenAsUser, AnsweredAsUser, UserIsKnown, IsOpen

LEMMA AuthAnswersKeepsTokenInv ==
  ASSUME TokenInv, UNCHANGED user, NEW s \in StreamNames, AuthAnswers(s) PROVE TokenInv'
<1> USE DEF TokenInv, StreamsType
<1>1. /\ UNCHANGED <<signedIn, user, tasks>>
      /\ phase'[s] = "answered" /\ token'[s] = signedIn
      /\ \A r \in StreamNames \ {s} : phase'[r] = phase[r] /\ token'[r] = token[r]
      /\ phase' \in [StreamNames -> Phases] /\ token' \in [StreamNames -> Users \cup {NoUser}]
  BY DEF AuthAnswers, Phases
<1>2. \A k : Undisturbed(k)' <=> Undisturbed(k)
  BY <1>1 DEF Undisturbed
<1>3. OpenAsUser'
  BY <1>1 DEF OpenAsUser, IsOpen
<1>4. AnsweredAsUser'
  BY <1>1 DEF AnsweredAsUser, UserIsKnown, Undisturbed
<1> QED BY <1>1, <1>3, <1>4 DEF QueuedAsUser, UserIsKnown, LastIsSignedIn, Undisturbed

LEMMA AppCheckAnswersKeepsTokenInv ==
  ASSUME TokenInv, UNCHANGED user, NEW s \in StreamNames, AppCheckAnswers(s)
  PROVE  TokenInv'
<1> USE DEF TokenInv, StreamsType
<1> DEFINE t == NewToken(s, token[s])
<1>1. /\ UNCHANGED <<signedIn, user, token>> /\ tasks' = Append(tasks, t)
      /\ phase[s] = "answered" /\ phase'[s] = "granted"
      /\ \A r \in StreamNames \ {s} : phase'[r] = phase[r]
      /\ phase' \in [StreamNames -> Phases]
  BY DEF AppCheckAnswers, Phases
<1>2. t \in Task /\ t.kind = "token" /\ t.user = token[s]
  BY <1>1 DEF NewToken, Task
<1> HIDE DEF t
<1>3. /\ tasks' \in Seq(Task) /\ Len(tasks') = Len(tasks) + 1 /\ Len(tasks) \in Nat
      /\ \A i \in 1 .. Len(tasks) : tasks'[i] = tasks[i]
      /\ tasks'[Len(tasks) + 1] = t
      /\ \A k \in 0 .. Len(tasks) : Undisturbed(k)' <=> Undisturbed(k)
  BY <1>1, <1>2, OneMoreTask
<1>4. Undisturbed(Len(tasks))' <=> Undisturbed(Len(tasks))
  BY <1>2, <1>3 DEF Undisturbed
<1>5. OpenAsUser' /\ AnsweredAsUser'
  BY <1>1, <1>4 DEF OpenAsUser, AnsweredAsUser, IsOpen
<1>6. QueuedAsUser'
  <2> SUFFICES ASSUME NEW i \in 1 .. Len(tasks'), tasks'[i].kind = "token", tasks'[i].fresh,
                      Undisturbed(i)'
               PROVE  tasks'[i].user = user
    BY <1>1 DEF QueuedAsUser
  <2>1. CASE i \in 1 .. Len(tasks)
    BY <2>1, <1>3 DEF QueuedAsUser
  <2>2. CASE i = Len(tasks')
    BY <2>2, <1>1, <1>2, <1>3, <1>4 DEF AnsweredAsUser
  <2> QED BY <1>3, <2>1, <2>2
<1>7. UserIsKnown'
  BY <1>1, <1>4 DEF UserIsKnown
<1>8. LastIsSignedIn'
  <2> SUFFICES ASSUME NEW i \in 1 .. Len(tasks'), tasks'[i].kind = "user",
                      \A j \in i + 1 .. Len(tasks') : tasks'[j].kind = "token"
               PROVE  tasks'[i].user = signedIn
    BY <1>1 DEF LastIsSignedIn
  <2>1. i \in 1 .. Len(tasks) /\ tasks'[i] = tasks[i]
    BY <1>2, <1>3
  <2>2. \A j \in i + 1 .. Len(tasks) : tasks[j].kind = "token"
    BY <1>3
  <2> QED BY <2>1, <2>2 DEF LastIsSignedIn
<1> QED BY <1>1, <1>3, <1>5, <1>6, <1>7, <1>8

LEMMA ResumesKeepsTokenInv ==
  ASSUME TokenInv, UNCHANGED user, NEW s \in StreamNames, Resumes(s) PROVE TokenInv'
<1> USE DEF TokenInv, StreamsType
<1>1. /\ tasks # <<>> /\ Head(tasks).kind = "token" /\ tasks' = Tail(tasks)
      /\ UNCHANGED <<signedIn, user>>
      /\ phase'[s] = "open" /\ token'[s] = Head(tasks).user
      /\ \A r \in StreamNames \ {s} : phase'[r] = phase[r] /\ token'[r] = token[r]
      /\ phase' \in [StreamNames -> Phases]
  BY DEF Resumes, Phases
<1>2. Head(tasks) = tasks[1] /\ 1 \in 1 .. Len(tasks) /\ tasks[1] \in Task
  BY <1>1
<1>3. Head(tasks).user = user
  <2>1. tasks[1].fresh /\ Undisturbed(1)
    BY <1>1, <1>2 DEF Resumes, Undisturbed
  <2> QED BY <1>1, <1>2, <2>1 DEF QueuedAsUser
<1>4. token' \in [StreamNames -> Users \cup {NoUser}]
  BY <1>3 DEF Resumes
<1>5. /\ tasks' \in Seq(Task)
      /\ Undisturbed(Len(tasks))' => Undisturbed(Len(tasks))
      /\ QueuedAsUser' /\ UserIsKnown' /\ LastIsSignedIn'
  BY <1>1, FirstTokenGone
<1>6. OpenAsUser'
  BY <1>1, <1>3 DEF OpenAsUser, IsOpen
<1>7. AnsweredAsUser'
  BY <1>1, <1>5 DEF AnsweredAsUser
<1> QED BY <1>1, <1>4, <1>5, <1>6, <1>7

LEMMA SkipKeepsTokenInv ==
  ASSUME TokenInv, UNCHANGED user, SkipToken PROVE TokenInv'
<1>1. /\ tasks # <<>> /\ Head(tasks).kind = "token" /\ tasks' = Tail(tasks)
      /\ UNCHANGED <<signedIn, user, phase, token>>
  BY DEF SkipToken
<1>2. /\ tasks' \in Seq(Task)
      /\ Undisturbed(Len(tasks))' => Undisturbed(Len(tasks))
      /\ QueuedAsUser' /\ UserIsKnown' /\ LastIsSignedIn'
  BY <1>1, FirstTokenGone
<1> QED BY <1>1, <1>2 DEF TokenInv, StreamsType, OpenAsUser, AnsweredAsUser, IsOpen

LEMMA ConnectsKeepsTokenInv ==
  ASSUME TokenInv, Connects PROVE TokenInv'
<1>1. UNCHANGED user
  BY DEF Connects, writeVars
<1>2. CASE SkipToken
  BY <1>1, <1>2, SkipKeepsTokenInv
<1>3. ASSUME NEW s \in StreamNames, AuthAnswers(s) PROVE TokenInv'
  BY <1>1, <1>3, AuthAnswersKeepsTokenInv
<1>4. ASSUME NEW s \in StreamNames, AppCheckAnswers(s) PROVE TokenInv'
  BY <1>1, <1>4, AppCheckAnswersKeepsTokenInv
<1>5. ASSUME NEW s \in StreamNames, Resumes(s) PROVE TokenInv'
  BY <1>1, <1>5, ResumesKeepsTokenInv
<1>6. ASSUME NEW s \in StreamNames, BackoffElapses(s) PROVE TokenInv'
  <2>1. /\ phase' = [phase EXCEPT ![s] = "asking"] /\ "asking" \in Phases
        /\ UNCHANGED <<signedIn, user, tasks, token>>
    BY <1>1, <1>6 DEF BackoffElapses, Phases
  <2>2. OpensNothing
    BY <2>1, PhaseStepOpensNothing
  <2> QED BY <2>2, OpensNothingKeepsTokenInv
<1> QED BY <1>2, <1>3, <1>4, <1>5, <1>6 DEF Connects

-----------------------------------------------------------------------------
(* Restarts *)

\* After a restart no stream is open or answered, and every token queued is void.
LEMMA RestartVoids ==
  ASSUME NEW q \in Seq(Task), RestartStreams(q)
  PROVE  /\ tasks' \in Seq(Task) /\ Len(tasks') = Len(q)
         /\ \A i \in 1 .. Len(q) :
              /\ tasks'[i].kind = q[i].kind /\ tasks'[i].user = q[i].user
              /\ q[i].kind = "token" => ~tasks'[i].fresh
         /\ phase' \in [StreamNames -> Phases]
         /\ \A s \in StreamNames : phase'[s] \in {"initial", "asking"}
         /\ token' = [s \in StreamNames |-> NoUser]
<1>1. \A i \in 1 .. Len(q) : q[i].kind = "token" => q[i].stream \in StreamNames
  <2> TAKE i \in 1 .. Len(q)
  <2>1. q[i] \in Task
    OBVIOUS
  <2> QED BY <2>1 DEF Task
<1>2. tasks' = Void(q, StreamNames) /\ token' = [s \in StreamNames |-> NoUser]
  BY DEF RestartStreams
<1>3. phase' = [write |-> IF pipeline' # <<>> THEN "asking" ELSE "initial",
                watch |-> IF targets' # {} THEN "asking" ELSE "initial"]
  BY DEF RestartStreams
<1>4. phase' \in [StreamNames -> Phases]
      /\ \A s \in StreamNames : phase'[s] \in {"initial", "asking"}
  BY <1>3 DEF StreamNames, Phases
<1> QED BY <1>1, <1>2, <1>4, VoidTasks

\* What a restart needs of the user then current and of the queue it leaves.
LEMMA RestartKeepsTokenInv ==
  ASSUME NEW q \in Seq(Task), RestartStreams(q),
         signedIn' \in Users, user' \in Users,
         (\A i \in 1 .. Len(q) : q[i].kind = "token") => signedIn' = user',
         \A i \in 1 .. Len(q) :
           /\ q[i].kind = "user"
           /\ \A j \in i + 1 .. Len(q) : q[j].kind = "token"
           => q[i].user = signedIn'
  PROVE  TokenInv'
<1>1. /\ tasks' \in Seq(Task) /\ Len(tasks') = Len(q)
      /\ \A i \in 1 .. Len(q) :
           /\ tasks'[i].kind = q[i].kind /\ tasks'[i].user = q[i].user
           /\ q[i].kind = "token" => ~tasks'[i].fresh
      /\ phase' \in [StreamNames -> Phases]
      /\ \A s \in StreamNames : phase'[s] \in {"initial", "asking"}
      /\ token' = [s \in StreamNames |-> NoUser]
  BY RestartVoids
<1>2. StreamsType' /\ OpenAsUser' /\ AnsweredAsUser'
  BY <1>1 DEF StreamsType, OpenAsUser, AnsweredAsUser, IsOpen
<1>3. QueuedAsUser'
  BY <1>1 DEF QueuedAsUser
<1>4. UserIsKnown'
  BY <1>1 DEF UserIsKnown, Undisturbed
<1>5. LastIsSignedIn'
  <2> SUFFICES ASSUME NEW i \in 1 .. Len(q), tasks'[i].kind = "user",
                      \A j \in i + 1 .. Len(q) : tasks'[j].kind = "token"
               PROVE  tasks'[i].user = signedIn'
    BY <1>1 DEF LastIsSignedIn
  <2>1. \A j \in i + 1 .. Len(q) : j \in 1 .. Len(q)
    BY LenProperties
  <2>2. q[i].kind = "user" /\ \A j \in i + 1 .. Len(q) : q[j].kind = "token"
    BY <1>1, <2>1
  <2> QED BY <1>1, <2>2
<1> QED BY <1>2, <1>3, <1>4, <1>5 DEF TokenInv

LEMMA ConnectivityKeepsTokenInv ==
  ASSUME TokenInv, ConnectivityChanges PROVE TokenInv'
<1>1. RestartStreams(tasks) /\ UNCHANGED <<signedIn, user>> /\ tasks \in Seq(Task)
  BY DEF ConnectivityChanges, TokenInv, StreamsType
<1>2. signedIn' \in Users /\ user' \in Users
  BY <1>1 DEF TokenInv, StreamsType
<1>3. (\A i \in 1 .. Len(tasks) : tasks[i].kind = "token") => signedIn' = user'
  BY <1>1 DEF TokenInv, UserIsKnown, Undisturbed
<1>4. \A i \in 1 .. Len(tasks) :
        /\ tasks[i].kind = "user"
        /\ \A j \in i + 1 .. Len(tasks) : tasks[j].kind = "token"
        => tasks[i].user = signedIn'
  BY <1>1 DEF TokenInv, LastIsSignedIn
<1> QED BY <1>1, <1>2, <1>3, <1>4, RestartKeepsTokenInv

LEMMA CredentialChangeKeepsTokenInv ==
  ASSUME TokenInv, HandleCredentialChange PROVE TokenInv'
<1> USE DEF TokenInv, StreamsType
<1> DEFINE q == Tail(tasks)
<1>1. /\ tasks # <<>> /\ Head(tasks).kind = "user" /\ user' = Head(tasks).user
      /\ RestartStreams(q) /\ UNCHANGED signedIn
  BY DEF HandleCredentialChange
<1>2. /\ q \in Seq(Task) /\ Len(q) = Len(tasks) - 1 /\ Len(tasks) \in Nat \ {0}
      /\ \A i \in 1 .. Len(q) : q[i] = tasks[i + 1]
      /\ tasks[1] = Head(tasks) /\ tasks[1] \in Task
  BY <1>1
<1>3. user' \in Users
  BY <1>1, <1>2 DEF Task
<1> HIDE DEF q
<1>4. ASSUME \A i \in 1 .. Len(q) : q[i].kind = "token" PROVE signedIn' = user'
  <2>1. \A j \in 2 .. Len(tasks) : tasks[j].kind = "token"
    <3> TAKE j \in 2 .. Len(tasks)
    <3>1. j - 1 \in 1 .. Len(q) /\ q[j - 1] = tasks[j]
      BY <1>2
    <3> QED BY <3>1, <1>4
  <2> QED BY <1>1, <1>2, <2>1 DEF LastIsSignedIn
<1>5. ASSUME NEW i \in 1 .. Len(q), q[i].kind = "user",
             \A j \in i + 1 .. Len(q) : q[j].kind = "token"
      PROVE  q[i].user = signedIn'
  <2>1. i + 1 \in 1 .. Len(tasks) /\ q[i] = tasks[i + 1]
    BY <1>2
  <2>2. \A j \in i + 2 .. Len(tasks) : tasks[j].kind = "token"
    <3> TAKE j \in i + 2 .. Len(tasks)
    <3>1. j - 1 \in i + 1 .. Len(q) /\ q[j - 1] = tasks[j]
      BY <1>2
    <3> QED BY <3>1, <1>5
  <2> QED BY <1>1, <1>5, <2>1, <2>2 DEF LastIsSignedIn
<1> QED BY <1>1, <1>2, <1>3, <1>4, <1>5, RestartKeepsTokenInv

LEMMA RelaunchKeepsTokenInv ==
  ASSUME TokenInv, Relaunch PROVE TokenInv'
<1>1. RestartStreams(<<>>) /\ user' = signedIn /\ UNCHANGED signedIn
  BY DEF Relaunch
<1>2. signedIn' \in Users /\ user' \in Users /\ signedIn' = user'
  BY <1>1 DEF TokenInv, StreamsType
<1> DEFINE q == << >>
<1>3. q \in Seq(Task) /\ Len(q) = 0
  OBVIOUS
<1>4. RestartStreams(q)
  BY <1>1
<1> HIDE DEF q
<1>5. \A i \in 1 .. Len(q) : FALSE
  BY <1>3
<1> QED BY <1>2, <1>3, <1>4, <1>5, RestartKeepsTokenInv

-----------------------------------------------------------------------------
(* The theorem *)

LEMMA InitTokenInv == Init => TokenInv
  BY DEF Init, StreamsInit, WriteInit, TokenInv, StreamsType, Phases, OpenAsUser,
         AnsweredAsUser, QueuedAsUser, UserIsKnown, LastIsSignedIn, Undisturbed, IsOpen

LEMMA NextTokenInv ==
  ASSUME TokenInv, [Next]_vars PROVE TokenInv'
<1> USE DEF streamVars
<1>1. ASSUME NEW op \in {"set", "delete"}, NEW id \in DocIds, Write(op, id) PROVE TokenInv'
  BY <1>1, WriteKeepsTokenInv
<1>2. ASSUME NEW q \in Queries, Read(q) PROVE TokenInv'
  BY <1>2, ReadKeepsTokenInv
<1>3. ASSUME NEW u \in Users, ChangeUser(u) PROVE TokenInv'
  BY <1>3, ChangeUserKeepsTokenInv
<1>4. CASE Connects
  BY <1>4, ConnectsKeepsTokenInv
<1>5. CASE Writes
  BY <1>5, WritesKeepTokenInv
<1>6. CASE Unlistens
  BY <1>6, StreamsLeftAlone DEF Unlistens, StopListening, writeVars
<1>7. CASE HandleCredentialChange
  BY <1>7, CredentialChangeKeepsTokenInv
<1>8. CASE ServerServesWrites
  BY <1>8, StreamsLeftAlone DEF ServerServesWrites, ServerTakes
<1>9. CASE ServerRefusesWrite
  BY <1>9, StreamsLeftAlone DEF ServerRefusesWrite, ServerRefuses
<1>10. CASE RefusalArrives
  BY <1>10, RefusalKeepsTokenInv DEF RefusalArrives
<1>11. CASE ServerServesReads
  BY <1>11, StreamsLeftAlone DEF ServerServesReads, WatchChange, WatchSnapshot, writeVars
<1>12. CASE ServerRefusesRead
  BY <1>12, StreamsLeftAlone DEF ServerRefusesRead, TargetRefused, writeVars
<1>13. CASE WatchTimers
  <2>1. UNCHANGED user
    BY <1>13 DEF WatchTimers, writeVars
  <2>2. CASE OnlineTimerFires
    BY <2>1, <2>2, StreamsLeftAlone DEF OnlineTimerFires
  <2>3. CASE WatchStreamIdles
    BY <2>1, <2>3, WatchStreamFailsKeepsTokenInv
  <2> QED BY <1>13, <2>2, <2>3 DEF WatchTimers
<1>14. CASE StreamFails
  <2>1. CASE WriteStreamFails
    <3>1. PICK after \in {"initial", "error", "backoff"} : WriteStreamCloses(after)
      BY <2>1 DEF WriteStreamFails
    <3> QED BY <3>1, WriteStreamCloses_KeepsTokenInv
  <2>2. CASE WatchStreamFails /\ UNCHANGED writeVars
    BY <2>2, WatchStreamFailsKeepsTokenInv DEF writeVars
  <2> QED BY <1>14, <2>1, <2>2 DEF StreamFails
<1>15. CASE ConnectivityChanges
  BY <1>15, ConnectivityKeepsTokenInv
<1>16. CASE Relaunch
  BY <1>16, RelaunchKeepsTokenInv
<1>17. CASE UNCHANGED vars
  BY <1>17, StreamsLeftAlone DEF vars, writeVars
<1> QED BY <1>1, <1>2, <1>3, <1>4, <1>5, <1>6, <1>7, <1>8, <1>9, <1>10, <1>11, <1>12,
           <1>13, <1>14, <1>15, <1>16, <1>17 DEF Next

\* The writes of a user's queue travel only on a call made with that user's token
\* (Stream::RequestCredentials, FirebaseAuthCredentialsProvider::GetToken,
\* RemoteStore::HandleCredentialChange).
THEOREM CallsAreTheUsers == Spec => []WritesCarryTheirUsersToken
<1>1. TokenInv => WritesCarryTheirUsersToken
  BY DEF TokenInv, OpenAsUser, WritesCarryTheirUsersToken, StreamNames
<1>2. TokenInv /\ [Next]_vars => TokenInv'
  BY NextTokenInv
<1> QED BY <1>1, <1>2, InitTokenInv, PTL DEF Spec

-----------------------------------------------------------------------------
(* The online-state timer *)

TimerInv == tracker \in Tracker /\ TimerOnlyWhileUnknown

\* A step that leaves the tracker alone and the watch stream started.
LEMMA TrackerLeftAlone ==
  ASSUME TimerInv, UNCHANGED tracker, IsStarted("watch") => IsStarted("watch")'
  PROVE  TimerInv'
  BY DEF TimerInv, TimerOnlyWhileUnknown

\* The tracker's operations, and which of them set the timer.
LEMMA TrackerOperations ==
  ASSUME NEW t \in Tracker, NEW state \in OnlineStates
  PROVE  /\ UpdateState(state) \in Tracker /\ ~UpdateState(state).timer
         /\ HandleWatchStreamStart(t) \in Tracker
         /\ ~t.timer /\ HandleWatchStreamStart(t).timer =>
              /\ HandleWatchStreamStart(t).online = "Unknown"
              /\ ~HandleWatchStreamStart(t).failed
         /\ HandleWatchStreamFailure(t) \in Tracker
         /\ (t.timer => t.online = "Unknown") => ~HandleWatchStreamFailure(t).timer
<1>1. UpdateState(state) \in Tracker /\ ~UpdateState(state).timer
  BY DEF UpdateState, Tracker
<1>2. CASE t.failed
  BY <1>1, <1>2 DEF HandleWatchStreamStart, HandleWatchStreamFailure, Tracker, OnlineStates
<1>3. CASE ~t.failed
  <2> DEFINE started == [t EXCEPT !.online = "Unknown", !.timer = TRUE]
  <2>1. started \in Tracker /\ started.online = "Unknown" /\ ~started.failed
    BY <1>3 DEF Tracker, OnlineStates
  <2>2. HandleWatchStreamStart(t) = started
    BY <1>3 DEF HandleWatchStreamStart
  <2>3. HandleWatchStreamFailure(t) \in Tracker
        /\ ((t.timer => t.online = "Unknown") => ~HandleWatchStreamFailure(t).timer)
    BY DEF HandleWatchStreamFailure, Tracker, OnlineStates
  <2> QED BY <1>1, <2>1, <2>2, <2>3
<1> QED BY <1>2, <1>3

LEMMA RestartKeepsTimerInv ==
  ASSUME NEW q, RestartStreams(q) PROVE TimerInv'
<1> DEFINE t == UpdateState("Unknown")
<1>1. /\ t \in Tracker /\ ~t.timer
      /\ HandleWatchStreamStart(t) \in Tracker
      /\ HandleWatchStreamStart(t).timer =>
           /\ HandleWatchStreamStart(t).online = "Unknown"
           /\ ~HandleWatchStreamStart(t).failed
  <2>1. "Unknown" \in OnlineStates
    BY DEF OnlineStates
  <2>2. t \in Tracker /\ ~t.timer
    BY <2>1 DEF UpdateState, Tracker
  <2> HIDE DEF t
  <2> QED BY <2>1, <2>2, TrackerOperations
<1>2. CASE targets' # {}
  <2>1. tracker' = HandleWatchStreamStart(t) /\ phase'["watch"] = "asking"
    BY <1>2 DEF RestartStreams
  <2> QED BY <1>1, <2>1 DEF TimerInv, TimerOnlyWhileUnknown, IsStarted
<1>3. CASE targets' = {}
  <2>1. tracker' = t
    BY <1>3 DEF RestartStreams
  <2> QED BY <1>1, <2>1 DEF TimerInv, TimerOnlyWhileUnknown
<1> QED BY <1>2, <1>3

LEMMA GetDocumentsKeepsTimerInv ==
  ASSUME TokenInv, TimerInv, NEW q, GetDocuments(q) PROVE TimerInv'
<1>1. CASE IsStarted("watch")
  BY <1>1, TrackerLeftAlone DEF GetDocuments, IsStarted
<1>2. CASE ~IsStarted("watch")
  <2>1. tracker' = HandleWatchStreamStart(tracker) /\ ~tracker.timer
    BY <1>2 DEF GetDocuments, TimerInv, TimerOnlyWhileUnknown
  <2>2. phase'["watch"] \in {"asking", "backoff"}
    BY <1>2 DEF GetDocuments, Started, TokenInv, StreamsType, StreamNames
  <2> QED BY <2>1, <2>2, TrackerOperations
          DEF TimerInv, TimerOnlyWhileUnknown, IsStarted, OnlineStates
<1> QED BY <1>1, <1>2

LEMMA WatchStreamFailsKeepsTimerInv ==
  ASSUME TokenInv, TimerInv, WatchStreamFails PROVE TimerInv'
<1> DEFINE t == HandleWatchStreamFailure(tracker)
<1>1. t \in Tracker /\ ~t.timer
  BY TrackerOperations DEF TimerInv, TimerOnlyWhileUnknown, OnlineStates
<1>2. CASE targets # {}
  <2>1. tracker' = HandleWatchStreamStart(t) /\ phase'["watch"] = "backoff"
    BY <1>2 DEF WatchStreamFails, Tracks, Closes, TokenInv, StreamsType, StreamNames
  <2> HIDE DEF t
  <2> QED BY <1>1, <2>1, TrackerOperations
          DEF TimerInv, TimerOnlyWhileUnknown, IsStarted, OnlineStates
<1>3. CASE targets = {}
  <2>1. tracker' = UpdateState("Unknown")
    BY <1>3 DEF WatchStreamFails, Tracks
  <2> QED BY <2>1, TrackerOperations DEF TimerInv, TimerOnlyWhileUnknown, OnlineStates
<1> QED BY <1>2, <1>3

\* The write stream's steps have no part in it.
LEMMA WriteStepKeepsTimerInv ==
  ASSUME TokenInv, TimerInv, UNCHANGED tracker,
         \E after : phase' = [phase EXCEPT !["write"] = after]
  PROVE  TimerInv'
<1>1. phase'["watch"] = phase["watch"]
  BY DEF TokenInv, StreamsType, StreamNames
<1> QED BY <1>1, TrackerLeftAlone DEF IsStarted

LEMMA ConnectsKeepsTimerInv ==
  ASSUME TokenInv, TimerInv, Connects PROVE TimerInv'
<1>1. UNCHANGED tracker
  BY DEF Connects, watchVars
<1>2. CASE SkipToken
  BY <1>1, <1>2, TrackerLeftAlone DEF SkipToken, IsStarted
<1>3. ASSUME NEW s \in StreamNames,
             AuthAnswers(s) \/ AppCheckAnswers(s) \/ Resumes(s) \/ BackoffElapses(s)
      PROVE  TimerInv'
  <2>1. PICK after \in {"answered", "granted", "open", "asking"} :
          phase' = [phase EXCEPT ![s] = after]
    BY <1>3 DEF AuthAnswers, AppCheckAnswers, Resumes, BackoffElapses
  <2>2. phase'["watch"] = phase["watch"] \/ phase'["watch"] = after
    BY <2>1 DEF TokenInv, StreamsType, StreamNames
  <2> QED BY <1>1, <2>2, TrackerLeftAlone DEF IsStarted
<1> QED BY <1>2, <1>3 DEF Connects

LEMMA NextTimerInv ==
  ASSUME TokenInv, TimerInv, [Next]_vars PROVE TimerInv'
<1>1. ASSUME NEW op \in {"set", "delete"}, NEW id \in DocIds, Write(op, id) PROVE TimerInv'
  BY <1>1, WriteStepKeepsTimerInv DEF Write, WriteMutations, FillWritePipeline, watchVars
<1>2. ASSUME NEW q \in Queries, Read(q) PROVE TimerInv'
  BY <1>2, GetDocumentsKeepsTimerInv DEF Read
<1>3. ASSUME NEW u \in Users, ChangeUser(u) PROVE TimerInv'
  BY <1>3, TrackerLeftAlone DEF ChangeUser, SignIn, watchVars, IsStarted
<1>4. CASE Connects
  BY <1>4, ConnectsKeepsTimerInv
<1>5. CASE Writes \/ RefusalArrives
  <2>1. UNCHANGED tracker
    BY <1>5 DEF Writes, RefusalArrives, watchVars
  <2>2. \E after : phase' = [phase EXCEPT !["write"] = after]
    BY <1>5 DEF Writes, RefusalArrives, HandshakeCompletes, MutationResult, WriteStreamIdles,
                WriteRefused, Settle, FillWritePipeline, WriteStreamCloses, Closes
  <2> QED BY <2>1, <2>2, WriteStepKeepsTimerInv
<1>6. CASE Unlistens
  <2>1. PICK q \in Queries : StopListening(q)
    BY <1>6 DEF Unlistens
  <2>2. UNCHANGED phase /\ (tracker' = tracker \/ tracker' = UpdateState("Unknown"))
    BY <2>1 DEF StopListening
  <2> QED BY <2>2, TrackerOperations
          DEF TimerInv, TimerOnlyWhileUnknown, IsStarted, OnlineStates
<1>7. CASE HandleCredentialChange \/ ConnectivityChanges \/ Relaunch
  BY <1>7, RestartKeepsTimerInv DEF HandleCredentialChange, ConnectivityChanges, Relaunch
<1>8. CASE ServerServesWrites \/ ServerRefusesWrite \/ UNCHANGED vars
  BY <1>8, TrackerLeftAlone
     DEF ServerServesWrites, ServerRefusesWrite, vars, streamVars, watchVars, IsStarted
<1>9. CASE ServerServesReads \/ ServerRefusesRead
  <2>1. tracker' = UpdateState("Online")
    BY <1>9 DEF ServerServesReads, ServerRefusesRead, WatchChange, WatchSnapshot,
                TargetRefused, Tracks
  <2> QED BY <2>1, TrackerOperations DEF TimerInv, TimerOnlyWhileUnknown, OnlineStates
<1>10. CASE WatchTimers
  <2>1. CASE OnlineTimerFires
    <3>1. tracker' = [tracker EXCEPT !.timer = FALSE, !.online = "Offline"]
      BY <2>1 DEF OnlineTimerFires, Tracks
    <3>2. tracker' \in Tracker /\ ~tracker'.timer
      BY <3>1 DEF TimerInv, Tracker, OnlineStates
    <3> QED BY <3>2 DEF TimerInv, TimerOnlyWhileUnknown
  <2>2. CASE WatchStreamIdles
    BY <2>2, TrackerOperations
       DEF WatchStreamIdles, Tracks, TimerInv, TimerOnlyWhileUnknown, OnlineStates
  <2> QED BY <1>10, <2>1, <2>2 DEF WatchTimers
<1>11. CASE StreamFails
  <2>1. CASE WriteStreamFails /\ UNCHANGED watchVars
    BY <2>1, WriteStepKeepsTimerInv DEF WriteStreamFails, WriteStreamCloses, Closes, watchVars
  <2>2. CASE WatchStreamFails
    BY <2>2, WatchStreamFailsKeepsTimerInv
  <2> QED BY <1>11, <2>1, <2>2 DEF StreamFails
<1> QED BY <1>1, <1>2, <1>3, <1>4, <1>5, <1>6, <1>7, <1>8, <1>9, <1>10, <1>11 DEF Next

\* The online-state timer runs only in the first attempt of a stream that is started,
\* and only while the state is Unknown: none of OnlineStateTracker's assertions fires.
THEOREM TimerIsForUnknown == Spec => []TimerOnlyWhileUnknown
<1>1. Init => TimerInv
  BY DEF Init, WatchInit, TimerInv, TimerOnlyWhileUnknown, UpdateState, Tracker, OnlineStates
<1>2. TokenInv /\ TimerInv /\ [Next]_vars => TokenInv' /\ TimerInv'
  BY NextTokenInv, NextTimerInv
<1>3. TimerInv => TimerOnlyWhileUnknown
  BY DEF TimerInv
<1> QED BY <1>1, <1>2, <1>3, InitTokenInv, PTL DEF Spec

-----------------------------------------------------------------------------
(* What is left of a queue *)

\* Batch numbers grow along a queue.
Grows(q) == \A i, j \in 1 .. Len(q) : i < j => q[i].batch < q[j].batch

Numbered(S) == \A write \in S : write.batch \in Nat

\* How many writes of a queue fit into the pipeline.
Fitting(q) == IF MaxPending <= Len(q) THEN MaxPending ELSE Len(q)

\* The first of an interval of places is the least.
LEMMA FirstPlace ==
  ASSUME NEW m \in Nat, NEW n \in Nat, m <= n PROVE Min(m .. n) = m
<1>1. m \in m .. n /\ \A x \in m .. n : m <= x
  OBVIOUS
<1>2. \A x \in m .. n : (\A y \in m .. n : x <= y) => x = m
  <2> TAKE x \in m .. n
  <2> HAVE \A y \in m .. n : x <= y
  <2>1. x <= m /\ m <= x
    BY <1>1
  <2> QED BY <2>1
<1> QED BY <1>1, <1>2 DEF Min

\* The first n writes of a queue, and what is last of them.
LEMMA OldestWrites ==
  ASSUME NEW S, NEW q \in Seq(S), NEW n \in 0 .. Len(q)
  PROVE  /\ SubSeq(q, 1, n) \in Seq(S) /\ Len(SubSeq(q, 1, n)) = n
         /\ \A i \in 1 .. n : SubSeq(q, 1, n)[i] = q[i]
         /\ n = 0 => SubSeq(q, 1, n) = <<>>
         /\ n > 0 => SubSeq(q, 1, n) # <<>> /\ Last(SubSeq(q, 1, n)) = q[n]
<1>1. n \in Int /\ 1 \in Int /\ Len(q) \in Nat /\ \A i \in 1 .. n : q[i] \in S
  BY LenProperties, ElementOfSeq
<1>2. /\ SubSeq(q, 1, n) \in Seq(S) /\ Len(SubSeq(q, 1, n)) = n
      /\ \A i \in 1 .. n : SubSeq(q, 1, n)[i] = q[i]
  BY <1>1, SubSeqProperties
<1>3. n = 0 => SubSeq(q, 1, n) = <<>>
  BY <1>1, SubSeqEmpty
<1>4. ASSUME n > 0 PROVE SubSeq(q, 1, n) # <<>> /\ Last(SubSeq(q, 1, n)) = q[n]
  <2>1. n \in 1 .. n /\ Last(SubSeq(q, 1, n)) = SubSeq(q, 1, n)[n]
    BY <1>1, <1>2, <1>4 DEF Last
  <2> QED BY <1>1, <1>2, <1>4, <2>1, EmptySeq
<1> QED BY <1>2, <1>3, <1>4

\* After the first n writes of a queue comes the next one.
LEMMA NextAfterOldest ==
  ASSUME NEW S, Numbered(S), NEW q \in Seq(S), Grows(q), NEW n \in 0 .. Len(q)
  PROVE  NextAfter(SubSeq(q, 1, n), q) = IF n > 0 /\ n = Len(q) THEN 0 ELSE n + 1
<1> DEFINE p == SubSeq(q, 1, n)
           later == {i \in 1 .. Len(q) : q[i].batch > Last(p).batch}
<1>1. Len(q) \in Nat /\ n \in Nat /\ \A i \in 1 .. Len(q) : q[i].batch \in Nat
  BY LenProperties, ElementOfSeq DEF Numbered
<1>2. CASE n = 0
  <2>1. p = <<>>
    BY <1>2, OldestWrites
  <2> QED BY <1>2, <2>1 DEF NextAfter
<1>3. CASE n > 0
  <2>1. p # <<>> /\ Last(p) = q[n] /\ n \in 1 .. Len(q)
    BY <1>1, <1>3, OldestWrites
  <2>2. NextAfter(p, q) = IF later # {} THEN Min(later) ELSE 0
    BY <2>1 DEF NextAfter, SelectInSeq
  <2>3. \A i \in 1 .. Len(q) : q[i].batch > q[n].batch <=> i > n
    <3> TAKE i \in 1 .. Len(q)
    <3>1. CASE i > n
      BY <1>1, <2>1, <3>1 DEF Grows
    <3>2. CASE i = n
      BY <1>1, <2>1, <3>2
    <3>3. CASE i < n
      <4>1. q[i].batch < q[n].batch
        BY <2>1, <3>3 DEF Grows
      <4> QED BY <1>1, <2>1, <3>3, <4>1
    <3> QED BY <1>1, <3>1, <3>2, <3>3
  <2>4. later = n + 1 .. Len(q)
    BY <1>1, <2>1, <2>3
  <2> HIDE DEF later, p
  <2>5. CASE n = Len(q)
    <3>1. later = {}
      BY <1>1, <2>4, <2>5
    <3> QED BY <1>3, <2>2, <2>5, <3>1 DEF p
  <2>6. CASE n # Len(q)
    <3>1. n + 1 \in Nat /\ n + 1 <= Len(q)
      BY <1>1, <2>6
    <3>2. later # {} /\ Min(later) = n + 1
      BY <1>1, <2>4, <3>1, FirstPlace
    <3> QED BY <2>2, <2>6, <3>2 DEF p
  <2> QED BY <2>5, <2>6
<1> QED BY <1>1, <1>2, <1>3

\* A pipeline that holds the oldest writes of a queue lacks the next ones that fit.
LEMMA MissingIsNext ==
  ASSUME NEW S, Numbered(S), NEW q \in Seq(S), Grows(q),
         NEW n \in 0 .. Len(q), n <= MaxPending
  PROVE  Missing(SubSeq(q, 1, n), q) = SubSeq(q, n + 1, Fitting(q))
<1> DEFINE p == SubSeq(q, 1, n)
<1>1. MaxPending \in Nat \ {0} /\ Len(q) \in Nat /\ n \in Nat
  BY WriteAssumption, LenProperties
<1>2. Len(p) = n
  BY OldestWrites
<1>3. NextAfter(p, q) = IF n > 0 /\ n = Len(q) THEN 0 ELSE n + 1
  BY NextAfterOldest
<1> HIDE DEF p
<1>4. CASE n > 0 /\ n = Len(q)
  <2>1. Missing(p, q) = <<>>
    BY <1>3, <1>4 DEF Missing
  <2>2. Fitting(q) \in Int /\ n + 1 \in Int /\ Fitting(q) < n + 1
    BY <1>1, <1>4 DEF Fitting
  <2>3. SubSeq(q, n + 1, Fitting(q)) = <<>>
    BY <2>2, SubSeqEmpty
  <2> QED BY <2>1, <2>3 DEF p
<1>5. CASE ~(n > 0 /\ n = Len(q))
  <2>1. NextAfter(p, q) = n + 1 /\ n + 1 # 0
    BY <1>1, <1>3, <1>5
  <2>2. (n + 1) + (MaxPending - Len(p)) - 1 = MaxPending
    BY <1>1, <1>2
  <2> QED BY <2>1, <2>2 DEF Missing, Fitting, p
<1> QED BY <1>4, <1>5

\* Filled up, it holds the oldest writes of the queue, as many as fit.
LEMMA FilledUp ==
  ASSUME NEW S, Numbered(S), NEW q \in Seq(S), Grows(q),
         NEW n \in 0 .. Len(q), n <= MaxPending
  PROVE  /\ SubSeq(q, 1, n) \o Missing(SubSeq(q, 1, n), q) = Missing(<<>>, q)
         /\ Missing(<<>>, q) = SubSeq(q, 1, Fitting(q))
         /\ Missing(SubSeq(q, 1, n), q) \in Seq(S)
<1>1. MaxPending \in Nat \ {0} /\ Len(q) \in Nat /\ n \in Nat
  BY WriteAssumption, LenProperties
<1>2. Fitting(q) \in n .. Len(q) /\ Fitting(q) \in Nat
  BY <1>1 DEF Fitting
<1>3. Missing(<<>>, q) = SubSeq(q, 1, Fitting(q))
  <2>1. 0 \in 0 .. Len(q) /\ 0 <= MaxPending
    BY <1>1
  <2>2. SubSeq(q, 1, 0) = <<>>
    BY <2>1, OldestWrites
  <2>3. Missing(SubSeq(q, 1, 0), q) = SubSeq(q, 0 + 1, Fitting(q))
    BY <2>1, MissingIsNext
  <2>4. 0 + 1 = 1
    OBVIOUS
  <2> QED BY <2>2, <2>3, <2>4, Zenon
<1>4. Missing(SubSeq(q, 1, n), q) = SubSeq(q, n + 1, Fitting(q))
  BY MissingIsNext
<1>5. SubSeq(q, 1, n) \o SubSeq(q, n + 1, Fitting(q)) = SubSeq(q, 1, Fitting(q))
  <2>1. 1 \in 1 .. Len(q) + 1 /\ n \in 1 - 1 .. Len(q) /\ Fitting(q) \in n .. Len(q)
    BY <1>1, <1>2
  <2> QED BY <2>1, ConcatAdjacentSubSeq
<1>6. SubSeq(q, n + 1, Fitting(q)) \in Seq(S)
  <2>1. \A i \in n + 1 .. Fitting(q) : q[i] \in S
    BY <1>1, <1>2, ElementOfSeq
  <2> QED BY <1>1, <1>2, <2>1, SubSeqProperties
<1> QED BY <1>3, <1>4, <1>5, <1>6

-----------------------------------------------------------------------------
(* Tokens that are waited for *)

FreshToken(i) == tasks[i].kind = "token" /\ tasks[i].fresh

\* The stream of a fresh token waits for it, and for no other.
TicketInv ==
  /\ \A i \in 1 .. Len(tasks) : FreshToken(i) => phase[tasks[i].stream] = "granted"
  /\ \A i, j \in 1 .. Len(tasks) :
       FreshToken(i) /\ FreshToken(j) /\ tasks[i].stream = tasks[j].stream => i = j

\* Whoever waits still waits, unless his token is void.
LEMMA TicketsLeftAlone ==
  ASSUME TokenInv, TicketInv, NEW closed,
         tasks' = tasks \/ tasks' = Void(tasks, closed),
         \A s \in StreamNames :
           phase[s] = "granted" =>
             phase'[s] = "granted" \/ (tasks' = Void(tasks, closed) /\ s \in closed)
  PROVE  TicketInv'
<1>1. tasks \in Seq(Task)
  BY DEF TokenInv, StreamsType
<1>2. \A i \in 1 .. Len(tasks) : tasks[i].kind = "token" => tasks[i].stream \in StreamNames
  BY <1>1, ElementOfSeq DEF Task
<1>3. CASE tasks' = tasks /\ tasks' # Void(tasks, closed)
  BY <1>2, <1>3 DEF TicketInv, FreshToken
<1>4. CASE tasks' = Void(tasks, closed)
  <2>1. /\ Len(tasks') = Len(tasks)
        /\ \A i \in 1 .. Len(tasks) :
             /\ tasks'[i].kind = tasks[i].kind
             /\ tasks[i].kind = "token" =>
                  /\ tasks'[i].fresh => tasks[i].fresh
                  /\ tasks[i].stream \in closed => ~tasks'[i].fresh
    BY <1>1, <1>4, VoidTasks
  <2>2. \A i \in 1 .. Len(tasks) : tasks[i].kind = "token" => tasks'[i].stream = tasks[i].stream
    <3> TAKE i \in 1 .. Len(tasks)
    <3> HAVE tasks[i].kind = "token"
    <3>1. tasks[i] \in [kind : {"token"}, stream : StreamNames, user : Users, fresh : BOOLEAN]
      BY <1>1, ElementOfSeq DEF Task
    <3>2. tasks'[i] = tasks[i] \/ tasks'[i] = [tasks[i] EXCEPT !.fresh = FALSE]
      <4>1. tasks' = [k \in 1 .. Len(tasks) |-> Voided(tasks[k], closed)]
        BY <1>1, <1>4 DEF Void, Voided
      <4>2. tasks'[i] = Voided(tasks[i], closed)
        BY <4>1
      <4> QED BY <4>2 DEF Voided
    <3> QED BY <3>1, <3>2
  <2>3. \A i \in 1 .. Len(tasks) :
          FreshToken(i)' => FreshToken(i) /\ tasks[i].stream \in StreamNames \ closed
    BY <1>2, <2>1 DEF FreshToken
  <2>4. \A i \in 1 .. Len(tasks) : FreshToken(i)' => phase'[tasks'[i].stream] = "granted"
    BY <1>4, <2>1, <2>2, <2>3 DEF TicketInv, FreshToken
  <2>5. \A i, j \in 1 .. Len(tasks) :
          FreshToken(i)' /\ FreshToken(j)' /\ tasks'[i].stream = tasks'[j].stream => i = j
    BY <2>1, <2>2, <2>3 DEF TicketInv, FreshToken
  <2> QED BY <2>1, <2>4, <2>5 DEF TicketInv
<1> QED BY <1>3, <1>4

\* A task is queued: a change of user, or the token a stream now waits for.
LEMMA TicketQueued ==
  ASSUME TokenInv, TicketInv, NEW t \in Task, tasks' = Append(tasks, t),
         \/ t.kind = "user" /\ phase' = phase
         \/ /\ t.kind = "token" /\ phase[t.stream] # "granted"
            /\ phase' = [phase EXCEPT ![t.stream] = "granted"]
  PROVE  TicketInv'
<1>1. tasks \in Seq(Task) /\ phase \in [StreamNames -> Phases] /\ Len(tasks) \in Nat
  BY LenProperties DEF TokenInv, StreamsType
<1>2. /\ Len(tasks') = Len(tasks) + 1 /\ tasks'[Len(tasks) + 1] = t
      /\ \A i \in 1 .. Len(tasks) : tasks'[i] = tasks[i]
  BY <1>1
<1>3. \A i \in 1 .. Len(tasks) : tasks[i].kind = "token" => tasks[i].stream \in StreamNames
  BY <1>1, ElementOfSeq DEF Task
<1>4. t.kind = "token" => t.stream \in StreamNames
  BY DEF Task
<1>5. \A i \in 1 .. Len(tasks) :
        FreshToken(i) => /\ phase'[tasks[i].stream] = "granted"
                         /\ t.kind = "token" => tasks[i].stream # t.stream
  BY <1>1, <1>3 DEF TicketInv, FreshToken
<1>6. \A i \in 1 .. Len(tasks') : i \in 1 .. Len(tasks) \/ i = Len(tasks) + 1
  BY <1>1, <1>2
<1>7. \A i \in 1 .. Len(tasks') : FreshToken(i)' => phase'[tasks'[i].stream] = "granted"
  <2> TAKE i \in 1 .. Len(tasks')
  <2>1. CASE i \in 1 .. Len(tasks)
    BY <1>2, <1>5, <2>1 DEF FreshToken
  <2>2. CASE i = Len(tasks) + 1
    BY <1>1, <1>2, <1>4, <2>2 DEF FreshToken
  <2> QED BY <1>6, <2>1, <2>2
<1>8. \A i, j \in 1 .. Len(tasks') :
        FreshToken(i)' /\ FreshToken(j)' /\ tasks'[i].stream = tasks'[j].stream => i = j
  <2> TAKE i, j \in 1 .. Len(tasks')
  <2>1. CASE i \in 1 .. Len(tasks) /\ j \in 1 .. Len(tasks)
    BY <1>2, <2>1 DEF TicketInv, FreshToken
  <2>2. CASE i = Len(tasks) + 1 /\ j \in 1 .. Len(tasks)
    BY <1>2, <1>5, <2>2 DEF FreshToken
  <2>3. CASE j = Len(tasks) + 1 /\ i \in 1 .. Len(tasks)
    BY <1>2, <1>5, <2>3 DEF FreshToken
  <2> QED BY <1>6, <2>1, <2>2, <2>3
<1> QED BY <1>7, <1>8 DEF TicketInv

\* The first task is taken off the queue.
LEMMA TicketUsed ==
  ASSUME TokenInv, TicketInv, tasks # <<>>, tasks' = Tail(tasks),
         \A s \in StreamNames :
           phase[s] = "granted" /\ phase'[s] # "granted" => FreshToken(1) /\ tasks[1].stream = s
  PROVE  TicketInv'
<1>1. tasks \in Seq(Task) /\ Len(tasks) \in Nat
  BY LenProperties DEF TokenInv, StreamsType
<1>2. /\ Len(tasks') = Len(tasks) - 1
      /\ \A i \in 1 .. Len(tasks') : tasks'[i] = tasks[i + 1] /\ i + 1 \in 1 .. Len(tasks)
  BY <1>1, HeadTailProperties
<1>3. \A i \in 1 .. Len(tasks) : tasks[i].kind = "token" => tasks[i].stream \in StreamNames
  BY <1>1, ElementOfSeq DEF Task
<1>4. 1 \in 1 .. Len(tasks)
  BY <1>1, EmptySeq
<1>5. \A i \in 1 .. Len(tasks') : FreshToken(i)' => phase'[tasks'[i].stream] = "granted"
  <2> SUFFICES ASSUME NEW i \in 1 .. Len(tasks'), FreshToken(i)'
               PROVE  phase'[tasks'[i].stream] = "granted"
    OBVIOUS
  <2>1. FreshToken(i + 1) /\ i + 1 \in 1 .. Len(tasks) /\ i + 1 # 1
    BY <1>1, <1>2 DEF FreshToken
  <2>2. phase[tasks[i + 1].stream] = "granted" /\ tasks[i + 1].stream \in StreamNames
    BY <1>3, <2>1 DEF TicketInv, FreshToken
  <2>3. ~(FreshToken(1) /\ tasks[1].stream = tasks[i + 1].stream)
    BY <1>4, <2>1 DEF TicketInv
  <2> QED BY <1>2, <2>2, <2>3
<1>6. \A i, j \in 1 .. Len(tasks') :
        FreshToken(i)' /\ FreshToken(j)' /\ tasks'[i].stream = tasks'[j].stream => i = j
  <2> SUFFICES ASSUME NEW i \in 1 .. Len(tasks'), NEW j \in 1 .. Len(tasks'),
                      FreshToken(i)', FreshToken(j)', tasks'[i].stream = tasks'[j].stream
               PROVE  i = j
    OBVIOUS
  <2>1. i + 1 = j + 1
    BY <1>2 DEF TicketInv, FreshToken
  <2> QED BY <2>1
<1> QED BY <1>5, <1>6 DEF TicketInv

-----------------------------------------------------------------------------
(* The invariant *)

Answers == [callback : Nat, ok : BOOLEAN, ids : {{}}]

\* Every user's queue is in the order of its batch numbers, which no two queues
\* share, and holds the user's own writes.
QueuesInv ==
  /\ lastBatch \in Nat
  /\ queue \in [Users -> Seq(Writing)]
  /\ \A u \in Users : Grows(queue[u])
  /\ \A u, v \in Users : u # v =>
       \A i \in 1 .. Len(queue[u]), j \in 1 .. Len(queue[v]) :
         queue[u][i].batch # queue[v][j].batch
  /\ \A u \in Users : \A i \in 1 .. Len(queue[u]) : Author[queue[u][i].id] = u
  /\ callbacks \subseteq 1 .. lastBatch
  /\ created \subseteq DocIds /\ server \subseteq DocIds /\ cached \subseteq DocIds
  /\ answers \in [Users -> Seq(Answers)]

\* The pipeline is the oldest part of the user's queue, and a ready stream has it up
\* and down the wire.  A stream is idle only when it is ready and has nothing to do.
WriteInv ==
  /\ pipeline = Missing(<<>>, queue[user])
  /\ up \in Seq(Writing) /\ down \in Seq(Writing) /\ refused \in BOOLEAN
  /\ AnswersMatchTheirWrites
  /\ pipeline # <<>> => IsStarted("write")
  /\ idle \in [StreamNames -> BOOLEAN]
  /\ idle["write"] => phase["write"] = "ready" /\ pipeline = <<>>

WatchInv ==
  /\ targets \subseteq Queries /\ waiting \subseteq targets
  /\ phase["watch"] # "ready"
  /\ targets # {} => IsStarted("watch")
  /\ idle["watch"] => IsOpen("watch") /\ targets = {}

StreamInv == TokenInv /\ TimerInv /\ TicketInv /\ QueuesInv /\ WriteInv /\ WatchInv

\* The writes there have been: numbered, each a set or a delete of a document.
LEMMA WritingIsNumbered ==
  ASSUME QueuesInv
  PROVE  /\ Numbered(Writing)
         /\ Writing \subseteq [batch : Nat, op : {"set", "delete"}, id : DocIds]
<1>1. \A n \in 1 .. lastBatch : n \in Nat
  BY DEF QueuesInv
<1> QED BY <1>1 DEF Numbered, Writing

\* What the pipeline is made of.
LEMMA PipelineIsOldest ==
  ASSUME QueuesInv, WriteInv, user \in Users
  PROVE  /\ pipeline = SubSeq(queue[user], 1, Fitting(queue[user]))
         /\ Fitting(queue[user]) \in 0 .. Len(queue[user])
         /\ Fitting(queue[user]) <= MaxPending
         /\ pipeline \in Seq(Writing) /\ Len(pipeline) = Fitting(queue[user])
         /\ \A i \in 1 .. Len(pipeline) : pipeline[i] = queue[user][i]
         /\ queue[user] \in Seq(Writing) /\ Grows(queue[user])
         /\ pipeline = <<>> <=> queue[user] = <<>>
         /\ Numbered(Writing)
<1> DEFINE q == queue[user]
<1>1. q \in Seq(Writing) /\ Grows(q) /\ Numbered(Writing)
  BY WritingIsNumbered DEF QueuesInv
<1>2. MaxPending \in Nat \ {0} /\ Len(q) \in Nat
  BY <1>1, WriteAssumption, LenProperties
<1>3. Fitting(q) \in 0 .. Len(q) /\ Fitting(q) <= MaxPending /\ (Fitting(q) = 0 <=> Len(q) = 0)
  BY <1>2 DEF Fitting
<1>4. Missing(<<>>, q) = SubSeq(q, 1, Fitting(q))
  BY <1>1, <1>3, FilledUp
<1>5. pipeline = SubSeq(q, 1, Fitting(q))
  BY <1>4 DEF WriteInv
<1>6. /\ pipeline \in Seq(Writing) /\ Len(pipeline) = Fitting(q)
      /\ \A i \in 1 .. Fitting(q) : pipeline[i] = q[i]
  BY <1>1, <1>3, <1>5, OldestWrites
<1>7. pipeline = <<>> <=> q = <<>>
  BY <1>1, <1>2, <1>3, <1>6, EmptySeq
<1> QED BY <1>1, <1>3, <1>5, <1>6, <1>7

\* Filling the pipeline from a queue whose oldest part it holds.
MayFill(S, q, n, p, at, sent) ==
  /\ Numbered(S) /\ q \in Seq(S) /\ Grows(q)
  /\ n \in 0 .. Len(q) /\ n <= MaxPending /\ p = SubSeq(q, 1, n)
  /\ at \in Phases /\ sent \in Seq(S)
  /\ phase \in [StreamNames -> Phases] /\ idle \in [StreamNames -> BOOLEAN]
  /\ idle["write"] => at = "ready" /\ p = <<>>

\* What the two calls of FillWritePipeline do to the pipeline.
LEMMA Filling ==
  ASSUME NEW S, NEW q, NEW n, NEW p, NEW at, NEW sent, MayFill(S, q, n, p, at, sent),
         FillWritePipeline(p, q, at, sent)
  PROVE  /\ pipeline' = Missing(<<>>, q)
         /\ Missing(p, q) \in Seq(S) /\ pipeline' = p \o Missing(p, q)
         /\ up' = IF at = "ready" THEN sent \o Missing(p, q) ELSE sent
         /\ up' \in Seq(S)
         /\ phase'["watch"] = phase["watch"]
         /\ phase'["write"] \in {at, "asking", "backoff"}
         /\ at \notin {"initial", "error"} => phase'["write"] = at
         /\ at = "initial" => phase'["write"] \in {"initial", "asking"}
         /\ pipeline' # <<>> => phase'["write"] \notin {"initial", "error"}
         /\ idle' \in [StreamNames -> BOOLEAN] /\ idle'["watch"] = idle["watch"]
         /\ idle'["write"] => pipeline' = <<>> /\ at \in {"open", "ready"}
<1> DEFINE more == Missing(p, q)
<1> USE DEF MayFill
<1>1. p \o more = Missing(<<>>, q) /\ more \in Seq(S) /\ p \in Seq(S)
  BY FilledUp, OldestWrites
<1>2. pipeline' = p \o more /\ up' = IF at = "ready" THEN sent \o more ELSE sent
  BY DEF FillWritePipeline
<1>3. up' \in Seq(S)
  BY <1>1, <1>2, ConcatProperties
<1>4. phase' = [phase EXCEPT !["write"] =
                  IF p \o more # <<>> /\ at \in {"initial", "error"} THEN Started(at) ELSE at]
  BY DEF FillWritePipeline
<1>5. idle' = [idle EXCEPT !["write"] =
                 \/ at \in {"open", "ready"} /\ p \o more = <<>>
                 \/ at = "open" /\ idle["write"]
                 \/ at = "ready" /\ idle["write"] /\ more = <<>>]
  BY DEF FillWritePipeline
<1> HIDE DEF more
<1>6. p = <<>> /\ more = <<>> => p \o more = <<>>
  <2>1. <<>> \o more = more
    BY <1>1, ConcatEmptySeq
  <2> QED BY <2>1
<1>7. /\ phase'["watch"] = phase["watch"]
      /\ phase'["write"] = IF p \o more # <<>> /\ at \in {"initial", "error"}
                             THEN Started(at) ELSE at
  BY <1>4 DEF StreamNames
<1>8. Started(at) \in {"asking", "backoff"} /\ (at = "initial" => Started(at) = "asking")
  BY DEF Started
<1>9. /\ idle' \in [StreamNames -> BOOLEAN] /\ idle'["watch"] = idle["watch"]
      /\ idle'["write"] => p \o more = <<>> /\ at \in {"open", "ready"}
  BY <1>5, <1>6 DEF StreamNames
<1> QED BY <1>1, <1>2, <1>3, <1>7, <1>8, <1>9 DEF more

\* One more write at the end of a queue leaves its oldest part what it was.
LEMMA QueueAppended ==
  ASSUME NEW S, Numbered(S), NEW q \in Seq(S), Grows(q), NEW w \in S,
         \A i \in 1 .. Len(q) : q[i].batch < w.batch, NEW n \in 0 .. Len(q)
  PROVE  /\ Append(q, w) \in Seq(S) /\ Len(Append(q, w)) = Len(q) + 1
         /\ Append(q, w)[Len(q) + 1] = w
         /\ \A i \in 1 .. Len(q) : Append(q, w)[i] = q[i]
         /\ Grows(Append(q, w))
         /\ SubSeq(Append(q, w), 1, n) = SubSeq(q, 1, n)
<1> DEFINE r == Append(q, w)
<1>1. /\ r \in Seq(S) /\ Len(r) = Len(q) + 1 /\ r[Len(q) + 1] = w /\ Len(q) \in Nat
      /\ \A i \in 1 .. Len(q) : r[i] = q[i]
  BY LenProperties, AppendProperties
<1> HIDE DEF r
<1>2. Grows(r)
  <2> SUFFICES ASSUME NEW i \in 1 .. Len(r), NEW j \in 1 .. Len(r), i < j
               PROVE  r[i].batch < r[j].batch
    BY DEF Grows
  <2>1. i \in 1 .. Len(q)
    BY <1>1
  <2>2. CASE j \in 1 .. Len(q)
    BY <1>1, <2>1, <2>2 DEF Grows
  <2>3. CASE j = Len(q) + 1
    BY <1>1, <2>1, <2>3
  <2> QED BY <1>1, <2>2, <2>3
<1>3. SubSeq(r, 1, n) = SubSeq(q, 1, n)
  <2>1. n \in 0 .. Len(r)
    BY <1>1
  <2>2. /\ SubSeq(r, 1, n) \in Seq(S) /\ Len(SubSeq(r, 1, n)) = n
        /\ \A i \in 1 .. n : SubSeq(r, 1, n)[i] = r[i]
    BY <1>1, <2>1, OldestWrites
  <2>3. /\ SubSeq(q, 1, n) \in Seq(S) /\ Len(SubSeq(q, 1, n)) = n
        /\ \A i \in 1 .. n : SubSeq(q, 1, n)[i] = q[i]
    BY OldestWrites
  <2>4. \A i \in 1 .. n : r[i] = q[i]
    BY <1>1
  <2> QED BY <2>2, <2>3, <2>4, SeqEqual
<1> QED BY <1>1, <1>2, <1>3 DEF r

\* Without its oldest write a queue is its tail.
LEMMA QueueSettled ==
  ASSUME NEW S, Numbered(S), NEW q \in Seq(S), Grows(q), q # <<>>, NEW n \in 1 .. Len(q)
  PROVE  /\ Without(q, q[1]) = Tail(q)
         /\ Tail(q) \in Seq(S) /\ Len(Tail(q)) = Len(q) - 1 /\ Grows(Tail(q))
         /\ \A i \in 1 .. Len(q) - 1 : Tail(q)[i] = q[i + 1]
         /\ n - 1 \in 0 .. Len(Tail(q))
         /\ Tail(SubSeq(q, 1, n)) = SubSeq(Tail(q), 1, n - 1)
         /\ Head(SubSeq(q, 1, n)) = q[1]
<1>1. /\ Tail(q) \in Seq(S) /\ Len(Tail(q)) = Len(q) - 1 /\ Len(q) \in Nat \ {0}
      /\ \A i \in 1 .. Len(q) - 1 : Tail(q)[i] = q[i + 1]
  BY HeadTailProperties, EmptySeq
<1>2. Grows(Tail(q))
  BY <1>1 DEF Grows
<1>3. \A i \in 1 .. Len(q) : q[i].batch \in Nat
  BY ElementOfSeq DEF Numbered
<1>4. {i \in 1 .. Len(q) : q[i].batch = q[1].batch} = 1 .. 1
  <2>1. \A i \in 1 .. Len(q) : i # 1 => q[1].batch < q[i].batch
    BY <1>1 DEF Grows
  <2>2. 1 \in 1 .. Len(q)
    BY <1>1
  <2>3. \A i \in 1 .. Len(q) : q[i].batch = q[1].batch <=> i = 1
    BY <1>3, <2>1, <2>2
  <2> QED BY <1>1, <2>3
<1>5. Without(q, q[1]) = RemoveAt(q, 1)
  <2>1. \E i \in 1 .. Len(q) : q[i].batch = q[1].batch
    BY <1>1
  <2>2. Without(q, q[1]) =
          RemoveAt(q, SelectInSeq(q, LAMBDA w : w.batch = q[1].batch))
    BY <2>1 DEF Without, RemoveFirstMatch
  <2>3. SelectInSeq(q, LAMBDA w : w.batch = q[1].batch) = Min(1 .. 1)
    <3>1. {i \in 1 .. Len(q) : q[i].batch = q[1].batch} # {}
      BY <1>4
    <3> QED BY <1>4, <3>1, Zenon DEF SelectInSeq
  <2>4. Min(1 .. 1) = 1
    <3>1. 1 \in Nat /\ 1 <= 1
      OBVIOUS
    <3> QED BY <3>1, FirstPlace, Zenon
  <2> QED BY <2>2, <2>3, <2>4
<1>6. RemoveAt(q, 1) = Tail(q)
  <2>1. SubSeq(q, 1, 1 - 1) = <<>>
    BY SubSeqEmpty
  <2>2. SubSeq(q, 1 + 1, Len(q)) = Tail(q)
    BY TailIsSubSeq
  <2>3. <<>> \o Tail(q) = Tail(q)
    BY <1>1, ConcatEmptySeq
  <2> QED BY <2>1, <2>2, <2>3 DEF RemoveAt
<1>7. Head(SubSeq(q, 1, n)) = q[1] /\ Tail(SubSeq(q, 1, n)) = SubSeq(q, 2, n)
  <2>1. 1 \in 1 .. Len(q) /\ n \in 1 .. Len(q)
    BY <1>1
  <2> QED BY <2>1, HeadTailOfSubSeq
<1>8. SubSeq(q, 2, n) = SubSeq(Tail(q), 1, n - 1)
  <2>1. n - 1 \in 0 .. Len(Tail(q)) /\ n \in Int
    BY <1>1
  <2>2. \A i \in 2 .. n : q[i] \in S
    BY <1>1, ElementOfSeq
  <2>3. /\ SubSeq(q, 2, n) \in Seq(S)
        /\ Len(SubSeq(q, 2, n)) = n - 1
        /\ \A i \in 1 .. n - 1 : SubSeq(q, 2, n)[i] = q[i + 1]
    BY <1>1, <2>1, <2>2, SubSeqProperties
  <2>4. /\ SubSeq(Tail(q), 1, n - 1) \in Seq(S)
        /\ Len(SubSeq(Tail(q), 1, n - 1)) = n - 1
        /\ \A i \in 1 .. n - 1 : SubSeq(Tail(q), 1, n - 1)[i] = Tail(q)[i]
    BY <1>1, <2>1, OldestWrites
  <2>5. \A i \in 1 .. n - 1 : Tail(q)[i] = q[i + 1]
    BY <1>1
  <2> QED BY <2>3, <2>4, <2>5, SeqEqual
<1> QED BY <1>1, <1>2, <1>5, <1>6, <1>7, <1>8

-----------------------------------------------------------------------------
(* What a step leaves alone *)

\* A step that touches no queue keeps what is known of the queues, ...
LEMMA QueuesLeftAlone ==
  ASSUME QueuesInv, UNCHANGED <<queue, lastBatch, callbacks, created, server, cached, answers>>
  PROVE  QueuesInv' /\ Writing' = Writing
<1>1. Writing' = Writing
  BY DEF Writing
<1> QED BY <1>1 DEF QueuesInv, Grows

\* ... one that touches no write and starts no write stream, what is known of writes, ...
LEMMA WriteLeftAlone ==
  ASSUME WriteInv, UNCHANGED <<user, queue, lastBatch, pipeline, wireVars>>,
         phase'["write"] = "ready" <=> phase["write"] = "ready",
         IsStarted("write") => IsStarted("write")',
         idle' \in [StreamNames -> BOOLEAN], idle'["write"] => idle["write"]
  PROVE  WriteInv'
<1>1. Writing' = Writing
  BY DEF Writing
<1>2. UNCHANGED <<up, down, refused>>
  BY DEF wireVars
<1> QED BY <1>1, <1>2 DEF WriteInv, AnswersMatchTheirWrites, IsStarted

\* ... and one that touches no target and stops no stream, what is known of targets.
LEMMA WatchLeftAlone ==
  ASSUME WatchInv, UNCHANGED <<targets, waiting>>,
         phase'["watch"] # "ready",
         IsStarted("watch") => IsStarted("watch")',
         idle'["watch"] => idle["watch"] /\ IsOpen("watch")'
  PROVE  WatchInv'
  BY DEF WatchInv

\* The write stream's call is gone and the pipeline is kept.
LEMMA CallGone ==
  ASSUME StreamInv, NEW after \in {"initial", "error", "backoff"}, WriteStreamCloses(after),
         pipeline # <<>> => after = "backoff", UNCHANGED watchVars
  PROVE  TicketInv' /\ QueuesInv' /\ WriteInv' /\ WatchInv'
<1> USE DEF StreamInv
<1>1. /\ phase \in [StreamNames -> Phases] /\ idle \in [StreamNames -> BOOLEAN]
      /\ "write" \in StreamNames /\ "watch" \in StreamNames
  BY DEF TokenInv, StreamsType, WriteInv, StreamNames
<1>2. /\ phase'["write"] = after /\ phase'["watch"] = phase["watch"]
      /\ idle' \in [StreamNames -> BOOLEAN] /\ ~idle'["write"] /\ idle'["watch"] = idle["watch"]
      /\ tasks' = Void(tasks, {"write"})
  BY <1>1 DEF WriteStreamCloses, Closes
<1>3. QueuesInv' /\ Writing' = Writing
  BY QueuesLeftAlone DEF WriteStreamCloses
<1>4. WriteInv'
  <2>1. /\ up' = <<>> /\ down' = <<>> /\ refused' = FALSE
        /\ UNCHANGED <<user, queue, pipeline>>
    BY DEF WriteStreamCloses
  <2>2. up' \in Seq(Writing)' /\ down' \in Seq(Writing)' /\ refused' \in BOOLEAN
    BY <2>1, EmptySeq
  <2>3. (pipeline' = Missing(<<>>, queue'[user']))
    BY <2>1 DEF WriteInv
  <2>4. phase'["write"] # "ready" /\ (pipeline' # <<>> => IsStarted("write")')
    BY <1>2, <2>1 DEF IsStarted
  <2> QED BY <1>2, <2>1, <2>2, <2>3, <2>4 DEF WriteInv, AnswersMatchTheirWrites
<1>5. WatchInv'
  BY <1>2, WatchLeftAlone DEF watchVars, WatchInv, IsStarted, IsOpen
<1>6. TicketInv'
  <2>1. \A s \in StreamNames :
          phase[s] = "granted" =>
            phase'[s] = "granted" \/ (tasks' = Void(tasks, {"write"}) /\ s \in {"write"})
    BY <1>1, <1>2 DEF StreamNames
  <2> QED BY <1>2, <2>1, TicketsLeftAlone
<1> QED BY <1>3, <1>4, <1>5, <1>6

\* A step of the watch stream or of its listeners.
LEMMA WatchStep ==
  ASSUME StreamInv, UNCHANGED writeVars, WatchInv', TicketInv',
         phase'["write"] = phase["write"],
         idle' \in [StreamNames -> BOOLEAN], idle'["write"] = idle["write"]
  PROVE  TicketInv' /\ QueuesInv' /\ WriteInv' /\ WatchInv'
<1>1. QueuesInv'
  BY QueuesLeftAlone DEF writeVars, StreamInv
<1>2. WriteInv'
  BY WriteLeftAlone DEF writeVars, IsStarted, StreamInv
<1> QED BY <1>1, <1>2

-----------------------------------------------------------------------------
(* The application's calls *)

\* A call of set or delete puts one write at the end of its user's queue.
LEMMA WriteKeepsQueues ==
  ASSUME StreamInv, NEW op \in {"set", "delete"}, NEW id \in DocIds, Write(op, id)
  PROVE  /\ QueuesInv' /\ Writing \subseteq Writing'
         /\ Batch(lastBatch + 1, op, id) \in Writing' /\ Numbered(Writing')
         /\ queue'[user] = Append(queue[user], Batch(lastBatch + 1, op, id))
         /\ \A i \in 1 .. Len(queue[user]) : queue[user][i].batch < lastBatch + 1
<1> DEFINE write == Batch(lastBatch + 1, op, id)
           q == queue[user]
<1> USE DEF StreamInv
<1>1. /\ lastBatch \in Nat /\ lastBatch' = lastBatch + 1 /\ user \in Users /\ Author[id] = user
      /\ queue' = [queue EXCEPT ![user] = Append(q, write)]
      /\ callbacks' = callbacks \cup {write.batch}
      /\ created' = IF op = "set" THEN created \cup {id} ELSE created
      /\ UNCHANGED <<server, cached, answers>>
  BY DEF Write, WriteMutations, QueuesInv, TokenInv, StreamsType
<1>2. write \in Writing' /\ write.batch = lastBatch + 1 /\ write.id = id
  BY <1>1 DEF Batch, Writing
<1>3. Writing \subseteq Writing'
  BY <1>1 DEF Writing
<1>4. Numbered(Writing) /\ Numbered(Writing')
  BY <1>1 DEF Numbered, Writing
<1>5. \A u \in Users : queue[u] \in Seq(Writing) /\ queue[u] \in Seq(Writing')
  BY <1>3, SeqMonotonic DEF QueuesInv
<1>6. \A u \in Users : \A i \in 1 .. Len(queue[u]) :
        queue[u][i].batch \in Nat /\ queue[u][i].batch < lastBatch + 1
  <2> TAKE u \in Users
  <2> TAKE i \in 1 .. Len(queue[u])
  <2>1. queue[u][i] \in Writing
    BY <1>5, ElementOfSeq
  <2> QED BY <1>1, <2>1 DEF Writing
<1> HIDE DEF write
<1>7. /\ Append(q, write) \in Seq(Writing') /\ Len(Append(q, write)) = Len(q) + 1
      /\ Append(q, write)[Len(q) + 1] = write /\ Grows(Append(q, write))
      /\ \A i \in 1 .. Len(q) : Append(q, write)[i] = q[i]
  <2>1. 0 \in 0 .. Len(q)
    BY <1>1, <1>5, LenProperties
  <2>2. q \in Seq(Writing') /\ Grows(q) /\ \A i \in 1 .. Len(q) : q[i].batch < write.batch
    BY <1>1, <1>2, <1>5, <1>6 DEF QueuesInv
  <2> QED BY <1>2, <1>4, <2>1, <2>2, QueueAppended
<1>8. /\ queue'[user] = Append(q, write)
      /\ \A u \in Users \ {user} : queue'[u] = queue[u]
      /\ queue' \in [Users -> Seq(Writing')]
  BY <1>1, <1>5, <1>7 DEF QueuesInv
<1>9. \A i \in 1 .. Len(queue'[user]) :
        (i \in 1 .. Len(q) /\ queue'[user][i] = q[i]) \/ queue'[user][i] = write
  <2>1. Len(q) \in Nat
    BY <1>1, <1>5, LenProperties
  <2> QED BY <1>7, <1>8, <2>1
<1>10. \A u \in Users : Grows(queue'[u])
  BY <1>7, <1>8 DEF QueuesInv
<1>11. \A u, v \in Users : u # v =>
         \A i \in 1 .. Len(queue'[u]), j \in 1 .. Len(queue'[v]) :
           queue'[u][i].batch # queue'[v][j].batch
  <2>1. \A v \in Users \ {user} :
          \A i \in 1 .. Len(queue'[user]), j \in 1 .. Len(queue'[v]) :
            queue'[user][i].batch # queue'[v][j].batch
    <3> TAKE v \in Users \ {user}
    <3> TAKE i \in 1 .. Len(queue'[user]), j \in 1 .. Len(queue'[v])
    <3>1. queue'[v][j] = queue[v][j] /\ j \in 1 .. Len(queue[v])
      BY <1>8
    <3>2. CASE i \in 1 .. Len(q) /\ queue'[user][i] = q[i]
      BY <1>1, <3>1, <3>2 DEF QueuesInv
    <3>3. CASE queue'[user][i] = write
      BY <1>1, <1>2, <1>6, <3>1, <3>3
    <3> QED BY <1>9, <3>2, <3>3
  <2>2. \A u \in Users \ {user}, v \in Users \ {user} : u # v =>
          \A i \in 1 .. Len(queue'[u]), j \in 1 .. Len(queue'[v]) :
            queue'[u][i].batch # queue'[v][j].batch
    BY <1>8 DEF QueuesInv
  <2> QED BY <2>1, <2>2
<1>12. \A u \in Users : \A i \in 1 .. Len(queue'[u]) : Author[queue'[u][i].id] = u
  <2>1. \A i \in 1 .. Len(queue'[user]) : Author[queue'[user][i].id] = user
    BY <1>1, <1>2, <1>9 DEF QueuesInv
  <2> QED BY <1>8, <2>1 DEF QueuesInv
<1>13. callbacks' \subseteq 1 .. lastBatch' /\ created' \subseteq DocIds
  BY <1>1, <1>2 DEF QueuesInv
<1>14. lastBatch' \in Nat /\ UNCHANGED <<server, cached, answers>>
  BY <1>1
<1>15. QueuesInv'
  <2>1. \A u \in Users : Grows(queue[u])'
    BY <1>10 DEF Grows
  <2> QED BY <1>8, <1>11, <1>12, <1>13, <1>14, <2>1 DEF QueuesInv
<1> QED BY <1>1, <1>2, <1>3, <1>4, <1>6, <1>8, <1>15 DEF write

\* Filling leaves the pipeline the oldest part of the queue, and the wire with what
\* is in it.
LEMMA FillKeepsWriteInv ==
  ASSUME NEW S, S = Writing', NEW q, q = queue'[user'], NEW n, NEW p, NEW at, NEW sent,
         MayFill(S, q, n, p, at, sent), FillWritePipeline(p, q, at, sent),
         down' \in Seq(S), refused' \in BOOLEAN,
         IF at = "ready" THEN down' \o sent = p
                         ELSE down' = <<>> /\ sent = <<>> /\ ~refused',
         at = "open" => q # <<>>
  PROVE  /\ WriteInv'
         /\ phase'["watch"] = phase["watch"] /\ idle'["watch"] = idle["watch"]
         /\ phase'["write"] \in {at, "asking", "backoff"}
         /\ at \notin {"initial", "error"} => phase'["write"] = at
<1> DEFINE more == Missing(p, q)
<1>1. /\ pipeline' = Missing(<<>>, q)
      /\ more \in Seq(S) /\ pipeline' = p \o more
      /\ up' = IF at = "ready" THEN sent \o more ELSE sent
      /\ up' \in Seq(S)
      /\ phase'["watch"] = phase["watch"]
      /\ phase'["write"] \in {at, "asking", "backoff"}
      /\ at \notin {"initial", "error"} => phase'["write"] = at
      /\ pipeline' # <<>> => phase'["write"] \notin {"initial", "error"}
      /\ idle' \in [StreamNames -> BOOLEAN] /\ idle'["watch"] = idle["watch"]
      /\ idle'["write"] => pipeline' = <<>> /\ at \in {"open", "ready"}
  BY Filling
<1> HIDE DEF more
<1>0. /\ sent \in Seq(S) /\ q \in Seq(S) /\ Numbered(S) /\ Grows(q)
      /\ n \in 0 .. Len(q) /\ n <= MaxPending
  BY DEF MayFill
<1>2. (AnswersMatchTheirWrites)'
  <2>1. CASE at = "ready"
    <3>1. down' \in Seq(S) /\ sent \in Seq(S) /\ more \in Seq(S)
      BY <1>0, <1>1
    <3> PICK d : d = down'
      OBVIOUS
    <3>2. d \in Seq(S)
      BY <3>1
    <3>3. (d \o sent) \o more = d \o (sent \o more)
      BY ONLY <3>1, <3>2, ConcatAssociative
    <3> QED BY <1>1, <2>1, <3>3 DEF AnswersMatchTheirWrites
  <2>2. CASE at # "ready"
    BY <1>1, <2>2 DEF AnswersMatchTheirWrites
  <2> QED BY <2>1, <2>2
<1>3. idle'["write"] => phase'["write"] = "ready" /\ pipeline' = <<>>
  <2> HAVE idle'["write"]
  <2>1. pipeline' = <<>> /\ at \in {"open", "ready"}
    BY <1>1
  <2>2. q = <<>>
    <3>1. MaxPending \in Nat \ {0} /\ Len(q) \in Nat
      BY <1>0, WriteAssumption, LenProperties
    <3>2. Fitting(q) \in 0 .. Len(q) /\ (Fitting(q) = 0 <=> Len(q) = 0)
      BY <3>1 DEF Fitting
    <3>3. pipeline' = SubSeq(q, 1, Fitting(q))
      BY <1>0, <1>1, FilledUp
    <3>4. Len(pipeline') = Fitting(q)
      BY <1>0, <3>2, <3>3, OldestWrites
    <3> QED BY <1>0, <2>1, <3>1, <3>2, <3>4, EmptySeq
  <2> QED BY <1>1, <2>1, <2>2
<1>4. pipeline' # <<>> => IsStarted("write")'
  BY <1>1 DEF IsStarted
<1> QED BY <1>1, <1>2, <1>3, <1>4 DEF WriteInv

\* The application writes: set and delete.
LEMMA WriteKeeps ==
  ASSUME StreamInv, NEW op \in {"set", "delete"}, NEW id \in DocIds, Write(op, id)
  PROVE  TicketInv' /\ QueuesInv' /\ WriteInv' /\ WatchInv'
<1> DEFINE w == Batch(lastBatch + 1, op, id)
           q == queue[user]
           n == Fitting(q)
<1>0. PICK S : S = Writing'
  OBVIOUS
<1>1. /\ QueuesInv' /\ Writing \subseteq S /\ w \in S /\ Numbered(S)
      /\ queue'[user] = Append(q, w) /\ \A i \in 1 .. Len(q) : q[i].batch < lastBatch + 1
  BY <1>0, WriteKeepsQueues
<1>2. /\ pipeline = SubSeq(q, 1, n) /\ n \in 0 .. Len(q) /\ n <= MaxPending
      /\ pipeline \in Seq(Writing) /\ q \in Seq(Writing) /\ Grows(q)
  BY PipelineIsOldest DEF StreamInv, TokenInv, StreamsType
<1>3. /\ FillWritePipeline(pipeline, Append(q, w), phase["write"], up)
      /\ UNCHANGED <<signedIn, tasks, token, user, down, refused, watchVars>>
  BY DEF Write, WriteMutations
<1>4. /\ phase \in [StreamNames -> Phases] /\ idle \in [StreamNames -> BOOLEAN]
      /\ phase["write"] \in Phases /\ up \in Seq(Writing) /\ down \in Seq(Writing)
      /\ idle["write"] => phase["write"] = "ready" /\ pipeline = <<>>
      /\ refused \in BOOLEAN
  BY DEF StreamInv, TokenInv, StreamsType, WriteInv, StreamNames
<1>5. w.batch = lastBatch + 1
  BY DEF Batch
<1> HIDE DEF w, n
<1>6. q \in Seq(S) /\ up \in Seq(S) /\ down \in Seq(S)
  BY <1>1, <1>2, <1>4, SeqMonotonic
<1>7. /\ Append(q, w) \in Seq(S) /\ Grows(Append(q, w))
      /\ Len(Append(q, w)) = Len(q) + 1
      /\ SubSeq(Append(q, w), 1, n) = SubSeq(q, 1, n)
  <2>1. \A i \in 1 .. Len(q) : q[i].batch < w.batch
    BY <1>1, <1>5
  <2>2. q \in Seq(S) /\ Grows(q) /\ w \in S /\ Numbered(S) /\ n \in 0 .. Len(q)
    BY <1>1, <1>2, <1>6
  <2> HIDE DEF q
  <2> QED BY <2>1, <2>2, QueueAppended
<1>8. n \in 0 .. Len(Append(q, w)) /\ Append(q, w) # <<>>
  <2>1. Len(q) \in Nat
    BY <1>2, LenProperties
  <2>2. Len(Append(q, w)) # 0 /\ n \in 0 .. Len(Append(q, w))
    BY <1>2, <1>7, <2>1
  <2> QED BY <2>2, EmptySeq
<1>9. IF phase["write"] = "ready" THEN down' \o up = pipeline
                                  ELSE down' = <<>> /\ up = <<>> /\ ~refused'
  BY <1>3 DEF StreamInv, WriteInv, AnswersMatchTheirWrites
<1>10. queue'[user'] = Append(q, w)
  BY <1>1, <1>3
<1> HIDE DEF q
<1>11. /\ WriteInv'
       /\ phase'["watch"] = phase["watch"] /\ idle'["watch"] = idle["watch"]
       /\ phase'["write"] \in {phase["write"], "asking", "backoff"}
       /\ phase["write"] \notin {"initial", "error"} => phase'["write"] = phase["write"]
  <2> DEFINE r == Append(q, w)
  <2>1. r \in Seq(S) /\ Grows(r) /\ r = queue'[user'] /\ n \in 0 .. Len(r)
        /\ pipeline = SubSeq(r, 1, n) /\ r # <<>>
    BY <1>2, <1>7, <1>8, <1>10
  <2>2. FillWritePipeline(pipeline, r, phase["write"], up)
    BY <1>3
  <2>3. down' \in Seq(S) /\ refused' \in BOOLEAN
    BY <1>3, <1>4, <1>6
  <2> HIDE DEF r
  <2>4. MayFill(S, r, n, pipeline, phase["write"], up)
    BY <1>1, <1>2, <1>4, <1>6, <2>1 DEF MayFill
  <2> QED BY <1>0, <1>9, <2>1, <2>2, <2>3, <2>4, FillKeepsWriteInv
<1>12. TicketInv'
  BY <1>3, <1>11, TicketsLeftAlone DEF StreamInv, StreamNames
<1>13. WatchInv'
  BY <1>3, <1>11, WatchLeftAlone DEF StreamInv, watchVars, WatchInv, IsStarted, IsOpen
<1> QED BY <1>1, <1>11, <1>12, <1>13

-----------------------------------------------------------------------------
(* Answers *)

\* Taking the first element of two sequences put together takes it from the first.
LEMMA TailOfConcat ==
  ASSUME NEW S, NEW s \in Seq(S), NEW t \in Seq(S), s # <<>>
  PROVE  Tail(s \o t) = Tail(s) \o t /\ Head(s \o t) = Head(s) /\ s \o t # <<>>
<1>1. /\ Len(s) \in Nat \ {0} /\ Len(t) \in Nat
      /\ Tail(s) \in Seq(S) /\ Len(Tail(s)) = Len(s) - 1
      /\ \A i \in 1 .. Len(s) - 1 : Tail(s)[i] = s[i + 1]
  BY EmptySeq, LenProperties, HeadTailProperties
<1>2. /\ s \o t \in Seq(S) /\ Len(s \o t) = Len(s) + Len(t)
      /\ \A i \in 1 .. Len(s) + Len(t) :
           (s \o t)[i] = IF i <= Len(s) THEN s[i] ELSE t[i - Len(s)]
  BY ConcatProperties
<1>3. s \o t # <<>>
  BY <1>1, <1>2, EmptySeq
<1>4. /\ Tail(s \o t) \in Seq(S) /\ Len(Tail(s \o t)) = Len(s) + Len(t) - 1
      /\ \A i \in 1 .. Len(s) + Len(t) - 1 : Tail(s \o t)[i] = (s \o t)[i + 1]
  BY <1>2, <1>3, HeadTailProperties
<1>5. /\ Tail(s) \o t \in Seq(S) /\ Len(Tail(s) \o t) = Len(s) - 1 + Len(t)
      /\ \A i \in 1 .. Len(s) - 1 + Len(t) :
           (Tail(s) \o t)[i] = IF i <= Len(s) - 1 THEN Tail(s)[i] ELSE t[i - (Len(s) - 1)]
  BY <1>1, ConcatProperties
<1>6. ASSUME NEW i \in 1 .. Len(s) + Len(t) - 1
      PROVE  Tail(s \o t)[i] = (Tail(s) \o t)[i]
  <2>1. CASE i <= Len(s) - 1
    <3>1. i + 1 \in 1 .. Len(s) + Len(t) /\ i + 1 <= Len(s) /\ i \in 1 .. Len(s) - 1
          /\ i \in 1 .. Len(s) - 1 + Len(t)
      BY <1>1, <2>1
    <3>2. Tail(s \o t)[i] = s[i + 1]
      BY <1>2, <1>4, <3>1
    <3>3. (Tail(s) \o t)[i] = s[i + 1]
      BY <1>1, <1>5, <2>1, <3>1
    <3> QED BY <3>2, <3>3
  <2>2. CASE ~(i <= Len(s) - 1)
    <3>1. /\ i + 1 \in 1 .. Len(s) + Len(t) /\ ~(i + 1 <= Len(s))
          /\ i \in 1 .. Len(s) - 1 + Len(t) /\ (i + 1) - Len(s) = i - (Len(s) - 1)
      BY <1>1, <2>2
    <3>2. Tail(s \o t)[i] = t[(i + 1) - Len(s)]
      BY <1>2, <1>4, <3>1
    <3>3. (Tail(s) \o t)[i] = t[i - (Len(s) - 1)]
      BY <1>5, <2>2, <3>1
    <3> QED BY <3>1, <3>2, <3>3
  <2> QED BY <2>1, <2>2
<1>7. Tail(s \o t) = Tail(s) \o t
  <2>1. Len(s) + Len(t) - 1 = Len(s) - 1 + Len(t)
    BY <1>1
  <2> QED BY <1>4, <1>5, <1>6, <2>1, SeqEqual
<1>8. Head(s \o t) = Head(s)
  <2>1. (s \o t)[1] = s[1]
    BY <1>1, <1>2
  <2> QED BY <1>2, <1>3, <2>1
<1> QED BY <1>3, <1>7, <1>8

\* The oldest write of the pipeline is answered: its user's queue is one shorter.
LEMMA SettleKeepsQueues ==
  ASSUME StreamInv, pipeline # <<>>, NEW ok \in BOOLEAN, NEW at, NEW sent,
         Settle(Head(pipeline), ok, at, sent), cached' \subseteq DocIds
  PROVE  /\ QueuesInv' /\ Writing' = Writing
         /\ queue[user] # <<>> /\ Head(pipeline) = queue[user][1]
         /\ queue' = [queue EXCEPT ![user] = Tail(queue[user])]
         /\ \E n \in 0 .. Len(Tail(queue[user])) :
              n <= MaxPending /\ Tail(pipeline) = SubSeq(Tail(queue[user]), 1, n)
<1> DEFINE q == queue[user]
           n == Fitting(q)
           rest == Tail(q)
<1> USE DEF StreamInv
<1>1. /\ pipeline = SubSeq(q, 1, n) /\ n \in 0 .. Len(q) /\ n <= MaxPending
      /\ pipeline \in Seq(Writing) /\ Len(pipeline) = n
      /\ q \in Seq(Writing) /\ Grows(q) /\ q # <<>> /\ Numbered(Writing)
  BY PipelineIsOldest DEF TokenInv, StreamsType
<1>2. n \in 1 .. Len(q)
  BY <1>1, EmptySeq
<1>3. /\ Without(q, q[1]) = rest /\ rest \in Seq(Writing) /\ Grows(rest)
      /\ Len(rest) = Len(q) - 1 /\ \A i \in 1 .. Len(q) - 1 : rest[i] = q[i + 1]
      /\ n - 1 \in 0 .. Len(rest) /\ Tail(pipeline) = SubSeq(rest, 1, n - 1)
      /\ Head(pipeline) = q[1]
  BY <1>1, <1>2, QueueSettled
<1>4. n - 1 <= MaxPending
  BY <1>1, <1>2, WriteAssumption
<1>5. /\ queue' = [queue EXCEPT ![user] = rest]
      /\ callbacks' \subseteq callbacks
      /\ UNCHANGED <<user, lastBatch, created, server>>
  BY <1>3 DEF Settle, NotifyUser
<1>6. Writing' = Writing /\ user \in Users
  BY <1>5 DEF Writing, TokenInv, StreamsType
<1>7. answers' \in [Users -> Seq(Answers)]
  <2>1. q[1] \in Writing
    BY <1>1, <1>2, ElementOfSeq
  <2>2. [callback |-> q[1].batch, ok |-> ok, ids |-> {}] \in Answers
    BY <1>1, <2>1 DEF Answers, Numbered
  <2>3. Append(answers[user], [callback |-> q[1].batch, ok |-> ok, ids |-> {}]) \in Seq(Answers)
    BY <1>6, <2>2, AppendProperties DEF QueuesInv
  <2>4. \/ answers' = answers
        \/ answers' = [answers EXCEPT ![user] =
             Append(answers[user], [callback |-> q[1].batch, ok |-> ok, ids |-> {}])]
    BY <1>3 DEF Settle, NotifyUser
  <2> QED BY <2>3, <2>4 DEF QueuesInv
<1> HIDE DEF rest, n
<1>8. /\ queue' \in [Users -> Seq(Writing)] /\ queue'[user] = rest
      /\ \A u \in Users \ {user} : queue'[u] = queue[u]
  BY <1>3, <1>5, <1>6 DEF QueuesInv
<1>9. \A i \in 1 .. Len(rest) : i + 1 \in 1 .. Len(q) /\ rest[i] = q[i + 1]
  BY <1>1, <1>3, LenProperties
<1>10. \A u, v \in Users : u # v =>
         \A i \in 1 .. Len(queue'[u]), j \in 1 .. Len(queue'[v]) :
           queue'[u][i].batch # queue'[v][j].batch
  <2>1. \A v \in Users \ {user} :
          \A i \in 1 .. Len(queue'[user]), j \in 1 .. Len(queue'[v]) :
            queue'[user][i].batch # queue'[v][j].batch
    <3> TAKE v \in Users \ {user}
    <3> TAKE i \in 1 .. Len(queue'[user]), j \in 1 .. Len(queue'[v])
    <3>1. i + 1 \in 1 .. Len(q) /\ queue'[user][i] = q[i + 1]
      BY <1>8, <1>9
    <3>2. j \in 1 .. Len(queue[v]) /\ queue'[v][j] = queue[v][j]
      BY <1>8
    <3> QED BY <1>6, <3>1, <3>2 DEF QueuesInv
  <2>2. \A u \in Users \ {user}, v \in Users \ {user} : u # v =>
          \A i \in 1 .. Len(queue'[u]), j \in 1 .. Len(queue'[v]) :
            queue'[u][i].batch # queue'[v][j].batch
    BY <1>8 DEF QueuesInv
  <2> QED BY <2>1, <2>2
<1>11. \A u \in Users : \A i \in 1 .. Len(queue'[u]) : Author[queue'[u][i].id] = u
  <2>1. \A i \in 1 .. Len(queue'[user]) : Author[queue'[user][i].id] = user
    <3> TAKE i \in 1 .. Len(queue'[user])
    <3>1. i + 1 \in 1 .. Len(q) /\ queue'[user][i] = q[i + 1]
      BY <1>8, <1>9
    <3> QED BY <1>6, <3>1 DEF QueuesInv
  <2> QED BY <1>8, <2>1 DEF QueuesInv
<1>12. \A u \in Users : Grows(queue[u])'
  <2>1. \A u \in Users : Grows(queue'[u])
    BY <1>3, <1>8 DEF QueuesInv
  <2> QED BY <2>1 DEF Grows
<1>13. QueuesInv'
  BY <1>5, <1>6, <1>7, <1>8, <1>10, <1>11, <1>12 DEF QueuesInv
<1>14. \E m \in 0 .. Len(rest) : m <= MaxPending /\ Tail(pipeline) = SubSeq(rest, 1, m)
  BY <1>3, <1>4
<1> QED BY <1>1, <1>3, <1>5, <1>6, <1>13, <1>14 DEF rest

\* The write stream's call is not open to the client's user unless it is ready.
LEMMA WriteFacts ==
  ASSUME StreamInv
  PROVE  /\ phase \in [StreamNames -> Phases] /\ idle \in [StreamNames -> BOOLEAN]
         /\ user \in Users /\ "write" \in StreamNames /\ "watch" \in StreamNames
         /\ up \in Seq(Writing) /\ down \in Seq(Writing) /\ refused \in BOOLEAN
         /\ IF phase["write"] = "ready" THEN down \o up = pipeline
                                        ELSE down = <<>> /\ up = <<>> /\ ~refused
         /\ idle["write"] => phase["write"] = "ready" /\ pipeline = <<>>
         /\ pipeline # <<>> => phase["write"] \notin {"initial", "error"}
         /\ tasks \in Seq(Task)
         /\ cached \subseteq DocIds
  BY DEF StreamInv, TokenInv, StreamsType, StreamNames, WriteInv, AnswersMatchTheirWrites,
         QueuesInv, IsStarted

\* The oldest write in the pipeline is a document's.
LEMMA OldestIsWriting ==
  ASSUME StreamInv, pipeline # <<>>
  PROVE  /\ Head(pipeline) \in Writing /\ Head(pipeline).id \in DocIds
         /\ Head(pipeline).op \in {"set", "delete"}
         /\ Head(pipeline).batch \in Nat
<1>1. pipeline \in Seq(Writing)
  BY PipelineIsOldest DEF StreamInv, TokenInv, StreamsType
<1>2. Head(pipeline) \in Writing
  BY <1>1
<1> QED BY <1>2, WritingIsNumbered DEF StreamInv

\* An answer to the oldest write.
LEMMA ResultKeeps ==
  ASSUME StreamInv, MutationResult, UNCHANGED watchVars
  PROVE  TicketInv' /\ QueuesInv' /\ WriteInv' /\ WatchInv'
<1> DEFINE rest == Tail(queue[user])
<1>1. /\ phase["write"] = "ready" /\ down # <<>> /\ pipeline # <<>>
      /\ down' = Tail(down) /\ cached' = Effect(Head(pipeline), cached)
      /\ Settle(Head(pipeline), TRUE, "ready", up)
      /\ UNCHANGED <<signedIn, tasks, token, refused>>
  BY DEF MutationResult
<1>2. cached' \subseteq DocIds
  BY <1>1, WriteFacts, OldestIsWriting DEF Effect
<1>3. /\ QueuesInv' /\ Writing' = Writing
      /\ queue[user] # <<>> /\ Head(pipeline) = queue[user][1]
      /\ queue' = [queue EXCEPT ![user] = rest]
      /\ \E n \in 0 .. Len(rest) :
           n <= MaxPending /\ Tail(pipeline) = SubSeq(rest, 1, n)
  BY <1>1, <1>2, SettleKeepsQueues
<1>4. PICK n \in 0 .. Len(rest) : n <= MaxPending /\ Tail(pipeline) = SubSeq(rest, 1, n)
  BY <1>3
<1>5. PICK S : S = Writing'
  OBVIOUS
<1>6. /\ queue[user] \in Seq(Writing) /\ Grows(queue[user]) /\ Numbered(Writing)
  BY PipelineIsOldest DEF StreamInv, TokenInv, StreamsType
<1>7. /\ queue'[user'] = rest /\ Without(queue[user], Head(pipeline)) = rest
      /\ rest \in Seq(Writing) /\ Grows(rest)
  <2>1. user \in Users /\ queue \in [Users -> Seq(Writing)]
    BY DEF StreamInv, TokenInv, StreamsType, QueuesInv
  <2>2. Len(queue[user]) \in 1 .. Len(queue[user])
    BY <1>3, <1>6, EmptySeq, LenProperties
  <2>3. Without(queue[user], Head(pipeline)) = rest /\ rest \in Seq(Writing) /\ Grows(rest)
    BY <1>3, <1>6, <2>2, QueueSettled
  <2>4. user' = user
    BY <1>1 DEF Settle
  <2> QED BY <1>3, <2>1, <2>3, <2>4
<1> HIDE DEF rest
<1>8. FillWritePipeline(Tail(pipeline), rest, "ready", up)
  BY <1>1, <1>7 DEF Settle
<1>9. down' \o up = Tail(pipeline) /\ down' \in Seq(S) /\ up \in Seq(S)
  <2>1. down \in Seq(Writing) /\ up \in Seq(Writing) /\ down \o up = pipeline
    BY <1>1, WriteFacts
  <2>2. Tail(down \o up) = Tail(down) \o up
    BY <1>1, <2>1, TailOfConcat
  <2>3. Tail(down) \in Seq(Writing)
    BY <1>1, <2>1, HeadTailProperties
  <2> QED BY <1>1, <1>3, <1>5, <2>1, <2>2, <2>3
<1>10. MayFill(S, rest, n, Tail(pipeline), "ready", up)
  <2>1. "ready" \in Phases
    BY DEF Phases
  <2>2. ~idle["write"]
    BY <1>1, WriteFacts
  <2> QED BY <1>3, <1>4, <1>5, <1>6, <1>7, <1>9, <2>1, <2>2, WriteFacts DEF MayFill
<1>11. /\ WriteInv'
       /\ phase'["watch"] = phase["watch"] /\ idle'["watch"] = idle["watch"]
       /\ phase'["write"] = "ready"
  <2>1. refused' \in BOOLEAN
    BY <1>1, WriteFacts
  <2> QED BY <1>5, <1>7, <1>8, <1>9, <1>10, <2>1, FillKeepsWriteInv
<1>12. TicketInv'
  BY <1>1, <1>11, TicketsLeftAlone DEF StreamInv, StreamNames
<1>13. WatchInv'
  BY <1>11, WatchLeftAlone DEF StreamInv, watchVars, WatchInv, IsStarted, IsOpen
<1> QED BY <1>3, <1>11, <1>12, <1>13

\* A refusal of the oldest write.
LEMMA RefusalKeeps ==
  ASSUME StreamInv, WriteRefused, UNCHANGED watchVars
  PROVE  TicketInv' /\ QueuesInv' /\ WriteInv' /\ WatchInv'
<1> DEFINE rest == Tail(queue[user])
<1>1. /\ phase["write"] = "ready" /\ pipeline # <<>>
      /\ Settle(Head(pipeline), FALSE, "initial", <<>>)
      /\ tasks' = Void(tasks, {"write"}) /\ down' = <<>> /\ refused' = FALSE
      /\ UNCHANGED <<signedIn, cached>>
  BY DEF WriteRefused
<1>2. cached' \subseteq DocIds
  BY <1>1, WriteFacts
<1>3. /\ QueuesInv' /\ Writing' = Writing
      /\ queue[user] # <<>> /\ Head(pipeline) = queue[user][1]
      /\ queue' = [queue EXCEPT ![user] = rest]
      /\ \E n \in 0 .. Len(rest) :
           n <= MaxPending /\ Tail(pipeline) = SubSeq(rest, 1, n)
  BY <1>1, <1>2, SettleKeepsQueues
<1>4. PICK n \in 0 .. Len(rest) : n <= MaxPending /\ Tail(pipeline) = SubSeq(rest, 1, n)
  BY <1>3
<1>5. PICK S : S = Writing'
  OBVIOUS
<1>6. /\ queue[user] \in Seq(Writing) /\ Grows(queue[user]) /\ Numbered(Writing)
  BY PipelineIsOldest DEF StreamInv, TokenInv, StreamsType
<1>7. /\ queue'[user'] = rest /\ Without(queue[user], Head(pipeline)) = rest
      /\ rest \in Seq(Writing) /\ Grows(rest)
  <2>1. user \in Users /\ queue \in [Users -> Seq(Writing)]
    BY DEF StreamInv, TokenInv, StreamsType, QueuesInv
  <2>2. Len(queue[user]) \in 1 .. Len(queue[user])
    BY <1>3, <1>6, EmptySeq, LenProperties
  <2>3. Without(queue[user], Head(pipeline)) = rest /\ rest \in Seq(Writing) /\ Grows(rest)
    BY <1>3, <1>6, <2>2, QueueSettled
  <2>4. user' = user
    BY <1>1 DEF Settle
  <2> QED BY <1>3, <2>1, <2>3, <2>4
<1> HIDE DEF rest
<1>8. FillWritePipeline(Tail(pipeline), rest, "initial", <<>>)
  BY <1>1, <1>7 DEF Settle
<1>9. MayFill(S, rest, n, Tail(pipeline), "initial", <<>>)
  <2>1. "initial" \in Phases /\ <<>> \in Seq(S)
    BY EmptySeq DEF Phases
  <2>2. ~idle["write"]
    BY <1>1, WriteFacts
  <2> QED BY <1>3, <1>4, <1>5, <1>6, <1>7, <2>1, <2>2, WriteFacts DEF MayFill
<1>10. /\ WriteInv'
       /\ phase'["watch"] = phase["watch"] /\ idle'["watch"] = idle["watch"]
  <2>1. refused' \in BOOLEAN /\ ~refused' /\ down' \in Seq(S) /\ down' = <<>>
    BY <1>1, EmptySeq
  <2>2. rest = queue'[user']
    BY <1>7
  <2> QED BY <1>5, <1>8, <1>9, <2>1, <2>2, FillKeepsWriteInv
<1>11. TicketInv'
  BY <1>1, <1>10, TicketsLeftAlone DEF StreamInv, StreamNames
<1>12. WatchInv'
  BY <1>10, WatchLeftAlone DEF StreamInv, watchVars, WatchInv, IsStarted, IsOpen
<1> QED BY <1>3, <1>10, <1>11, <1>12

-----------------------------------------------------------------------------
(* The wire *)

\* The handshake is answered, and the whole pipeline goes up.
LEMMA HandshakeKeeps ==
  ASSUME StreamInv, HandshakeCompletes, UNCHANGED watchVars
  PROVE  TicketInv' /\ QueuesInv' /\ WriteInv' /\ WatchInv'
<1>1. /\ phase["write"] = "open" /\ phase' = [phase EXCEPT !["write"] = "ready"]
      /\ idle' = [idle EXCEPT !["write"] = idle["write"] /\ pipeline = <<>>]
      /\ up' = pipeline
      /\ UNCHANGED <<tasks, user, queue, lastBatch, callbacks, pipeline, down, refused,
                     created, server, cached, answers>>
  BY DEF HandshakeCompletes
<1>2. /\ phase'["write"] = "ready" /\ phase'["watch"] = phase["watch"]
      /\ idle' \in [StreamNames -> BOOLEAN] /\ idle'["watch"] = idle["watch"]
      /\ idle'["write"] => idle["write"]
  BY <1>1, WriteFacts DEF StreamNames
<1>3. QueuesInv' /\ Writing' = Writing
  BY <1>1, QueuesLeftAlone DEF StreamInv
<1>4. WriteInv'
  <2>1. /\ pipeline \in Seq(Writing) /\ down \in Seq(Writing) /\ down = <<>>
        /\ refused \in BOOLEAN /\ ~idle["write"]
    BY <1>1, WriteFacts, PipelineIsOldest DEF StreamInv
  <2>2. down' \o up' = pipeline'
    <3>1. <<>> \o pipeline = pipeline
      BY <2>1, ConcatEmptySeq
    <3> QED BY <1>1, <2>1, <3>1
  <2>3. up' \in Seq(Writing)' /\ down' \in Seq(Writing)' /\ refused' \in BOOLEAN
    BY <1>1, <1>3, <2>1
  <2>4. pipeline' = Missing(<<>>, queue'[user'])
    BY <1>1 DEF StreamInv, WriteInv
  <2> QED BY <1>2, <2>1, <2>2, <2>3, <2>4 DEF WriteInv, AnswersMatchTheirWrites, IsStarted
<1>5. WatchInv'
  BY <1>2, WatchLeftAlone DEF StreamInv, watchVars, WatchInv, IsStarted, IsOpen
<1>6. TicketInv'
  BY <1>1, <1>2, TicketsLeftAlone DEF StreamInv, StreamNames
<1> QED BY <1>3, <1>4, <1>5, <1>6

\* What has gone up and comes down is all of the pipeline, when the server takes a write.
LEMMA OnTheWire ==
  ASSUME NEW S, NEW d \in Seq(S), NEW u \in Seq(S), u # <<>>
  PROVE  /\ Append(d, Head(u)) \in Seq(S) /\ Tail(u) \in Seq(S) /\ Head(u) \in S
         /\ Append(d, Head(u)) \o Tail(u) = d \o u
<1> DEFINE one == <<Head(u)>>
<1>1. Head(u) \in S /\ Tail(u) \in Seq(S) /\ u = one \o Tail(u)
  BY HeadTailProperties, ConcatProperties, EmptySeq
<1>2. one \in Seq(S) /\ Append(d, Head(u)) = d \o one
  BY <1>1, AppendIsConcat
<1> HIDE DEF one
<1>3. (d \o one) \o Tail(u) = d \o (one \o Tail(u))
  <2> PICK rest : rest = Tail(u)
    OBVIOUS
  <2>1. rest \in Seq(S) /\ one \in Seq(S)
    BY <1>1, <1>2
  <2>2. (d \o one) \o rest = d \o (one \o rest)
    BY ONLY d \in Seq(S), <2>1, ConcatAssociative, SMTT(20)
  <2> QED BY <2>2
<1>4. d \o one \in Seq(S)
  BY <1>2, ConcatProperties
<1> QED BY <1>1, <1>2, <1>3, <1>4

\* The server takes the next write, or refuses it.
LEMMA ServerKeeps ==
  ASSUME StreamInv, ServerTakes \/ ServerRefuses, UNCHANGED <<streamVars, watchVars>>
  PROVE  TicketInv' /\ QueuesInv' /\ WriteInv' /\ WatchInv'
<1>1. /\ up # <<>> /\ ~refused
      /\ UNCHANGED <<user, queue, lastBatch, callbacks, pipeline, created, cached, answers>>
      /\ UNCHANGED <<signedIn, tasks, phase, token, idle>>
  BY DEF ServerTakes, ServerRefuses, streamVars
<1>2. phase["write"] = "ready" /\ down \o up = pipeline /\ down \in Seq(Writing) /\ up \in Seq(Writing)
  BY <1>1, WriteFacts
<1>3. /\ Append(down, Head(up)) \in Seq(Writing) /\ Tail(up) \in Seq(Writing)
      /\ Head(up) \in Writing /\ Append(down, Head(up)) \o Tail(up) = down \o up
  BY <1>1, <1>2, OnTheWire
<1>4. /\ down' \o up' = pipeline /\ down' \in Seq(Writing) /\ up' \in Seq(Writing)
      /\ refused' \in BOOLEAN /\ server' \subseteq DocIds
  <2>1. CASE ServerTakes
    <3>1. server \subseteq DocIds /\ Head(up).id \in DocIds
      BY <1>3, WritingIsNumbered DEF StreamInv, QueuesInv
    <3>2. server' \subseteq DocIds
      BY <2>1, <3>1 DEF ServerTakes, Effect
    <3> QED BY <1>2, <1>3, <2>1, <3>2, WriteFacts DEF ServerTakes
  <2>2. CASE ServerRefuses
    BY <1>2, <2>2 DEF ServerRefuses, StreamInv, QueuesInv
  <2> QED BY <2>1, <2>2
<1>5. Writing' = Writing
  BY <1>1 DEF Writing
<1>6. QueuesInv'
  BY <1>1, <1>4, <1>5 DEF StreamInv, QueuesInv, Grows
<1>7. WriteInv'
  BY <1>1, <1>2, <1>4, <1>5 DEF StreamInv, WriteInv, AnswersMatchTheirWrites, IsStarted
<1>8. WatchInv'
  BY <1>1, WatchLeftAlone DEF StreamInv, watchVars, WatchInv, IsStarted, IsOpen
<1>9. TicketInv'
  BY <1>1, TicketsLeftAlone DEF StreamInv
<1> QED BY <1>6, <1>7, <1>8, <1>9

\* The write stream is stopped, or its call breaks.
LEMMA WriteCallEnds ==
  ASSUME StreamInv, WriteStreamIdles \/ WriteStreamFails, UNCHANGED watchVars
  PROVE  TicketInv' /\ QueuesInv' /\ WriteInv' /\ WatchInv'
<1>1. CASE WriteStreamIdles
  <2>1. WriteStreamCloses("initial") /\ pipeline = <<>>
    BY <1>1, WriteFacts DEF WriteStreamIdles
  <2> QED BY <2>1, CallGone
<1>2. CASE WriteStreamFails
  BY <1>2, CallGone DEF WriteStreamFails
<1> QED BY <1>1, <1>2

-----------------------------------------------------------------------------
(* Reads *)

\* getDocuments starts the watch stream, or joins a query already listened to.
LEMMA ReadKeeps ==
  ASSUME StreamInv, NEW q \in Queries, Read(q)
  PROVE  TicketInv' /\ QueuesInv' /\ WriteInv' /\ WatchInv'
<1>1. /\ UNCHANGED <<signedIn, tasks, token, writeVars>> /\ q \notin targets
      /\ targets' = targets \cup {q}
      /\ waiting' = waiting \/ waiting' = waiting \cup {q}
      /\ \/ /\ IsStarted("watch")
            /\ idle' = [idle EXCEPT !["watch"] = FALSE]
            /\ UNCHANGED <<phase, tracker>>
         \/ /\ ~IsStarted("watch")
            /\ phase' = [phase EXCEPT !["watch"] = Started(phase["watch"])]
            /\ UNCHANGED idle
  BY DEF Read, GetDocuments
<1>2. /\ phase'["write"] = phase["write"] /\ idle' \in [StreamNames -> BOOLEAN]
      /\ idle'["write"] = idle["write"]
      /\ phase["watch"] = "granted" => phase'["watch"] = "granted"
      /\ phase'["watch"] \notin {"ready", "initial", "error"} /\ ~idle'["watch"]
  <2>1. phase["watch"] # "ready" /\ (idle["watch"] => IsStarted("watch"))
    BY DEF StreamInv, WatchInv, IsOpen, IsStarted
  <2>2. "write" \in StreamNames /\ "watch" \in StreamNames
    BY DEF StreamNames
  <2> QED BY <1>1, <2>1, <2>2, WriteFacts DEF IsStarted, Started
<1>3. WatchInv'
  BY <1>1, <1>2 DEF StreamInv, WatchInv, IsStarted
<1>4. TicketInv'
  BY <1>1, <1>2, TicketsLeftAlone DEF StreamInv, StreamNames
<1> QED BY <1>1, <1>2, <1>3, <1>4, WatchStep

\* A listener goes, is answered or refused; or the online state changes.
LEMMA ListenersKeep ==
  ASSUME StreamInv, UNCHANGED <<writeVars, tasks, phase>>,
         targets' \subseteq targets, waiting' \subseteq waiting, waiting' \subseteq targets',
         \/ UNCHANGED idle
         \/ idle' = [idle EXCEPT !["watch"] = idle["watch"] \/ (targets' = {} /\ IsOpen("watch"))]
  PROVE  TicketInv' /\ QueuesInv' /\ WriteInv' /\ WatchInv'
<1>1. /\ idle' \in [StreamNames -> BOOLEAN] /\ idle'["write"] = idle["write"]
      /\ idle'["watch"] => IsOpen("watch") /\ targets' = {}
  <2>1. idle["watch"] => IsOpen("watch") /\ targets' = {}
    BY DEF StreamInv, WatchInv
  <2> QED BY <2>1, WriteFacts DEF StreamNames
<1>2. WatchInv'
  BY <1>1 DEF StreamInv, WatchInv, IsStarted, IsOpen
<1>3. TicketInv'
  BY TicketsLeftAlone DEF StreamInv
<1> QED BY <1>1, <1>2, <1>3, WatchStep

\* The watch stream is stopped, or its call breaks.
LEMMA WatchCallEnds ==
  ASSUME StreamInv, WatchStreamIdles \/ WatchStreamFails, UNCHANGED writeVars
  PROVE  TicketInv' /\ QueuesInv' /\ WriteInv' /\ WatchInv'
<1>1. PICK after \in {"initial", "error", "backoff"} :
        /\ Closes("watch", after) /\ UNCHANGED targets
        /\ waiting' \subseteq waiting
        /\ targets # {} => after = "backoff"
  <2>1. CASE WatchStreamIdles
    <3>1. targets = {}
      BY <2>1 DEF WatchStreamIdles, StreamInv, WatchInv
    <3> QED BY <2>1, <3>1 DEF WatchStreamIdles, Tracks
  <2>2. CASE WatchStreamFails
    BY <2>2 DEF WatchStreamFails, Tracks
  <2> QED BY <2>1, <2>2
<1>2. /\ phase'["watch"] = after /\ phase'["write"] = phase["write"]
      /\ idle' \in [StreamNames -> BOOLEAN] /\ ~idle'["watch"] /\ idle'["write"] = idle["write"]
      /\ tasks' = Void(tasks, {"watch"})
  BY <1>1, WriteFacts DEF Closes, StreamNames
<1>3. WatchInv'
  BY <1>1, <1>2 DEF StreamInv, WatchInv, IsStarted
<1>4. TicketInv'
  BY <1>2, TicketsLeftAlone DEF StreamInv, StreamNames
<1> QED BY <1>2, <1>3, <1>4, WatchStep

-----------------------------------------------------------------------------
(* Starts and restarts *)

\* A stream gets on with its start.
LEMMA StartingKeeps ==
  ASSUME StreamInv, UNCHANGED <<writeVars, watchVars, idle>>,
         \A s \in StreamNames :
           \/ phase'[s] = phase[s]
           \/ /\ phase[s] \in {"asking", "answered", "granted", "backoff"}
              /\ phase'[s] \in {"asking", "answered", "granted", "open"}
  PROVE  QueuesInv' /\ WriteInv' /\ WatchInv'
<1>1. QueuesInv'
  BY QueuesLeftAlone DEF StreamInv, writeVars
<1>2. WriteInv'
  BY WriteLeftAlone, WriteFacts DEF StreamInv, writeVars, IsStarted
<1>3. WatchInv'
  BY WriteFacts DEF StreamInv, watchVars, WatchInv, IsStarted, IsOpen
<1> QED BY <1>1, <1>2, <1>3

\* A token answered, granted or used brings a stream on, and touches nothing else.
LEMMA ConnectsKeeps ==
  ASSUME StreamInv, Connects
  PROVE  TicketInv' /\ QueuesInv' /\ WriteInv' /\ WatchInv'
<1>1. UNCHANGED <<writeVars, watchVars, idle>>
  BY DEF Connects, SkipToken, AuthAnswers, AppCheckAnswers, Resumes, BackoffElapses
<1>2. TokenInv /\ TicketInv /\ phase \in [StreamNames -> Phases]
  BY WriteFacts DEF StreamInv
<1>3. CASE SkipToken
  <2>1. UNCHANGED phase /\ tasks # <<>> /\ tasks' = Tail(tasks)
    BY <1>3 DEF SkipToken
  <2> QED BY <1>1, <1>2, <2>1, StartingKeeps, TicketUsed
<1>4. ASSUME NEW s \in StreamNames, AuthAnswers(s) \/ BackoffElapses(s)
      PROVE  TicketInv' /\ QueuesInv' /\ WriteInv' /\ WatchInv'
  <2>1. /\ UNCHANGED tasks /\ phase[s] \in {"asking", "backoff"}
        /\ \E after \in {"asking", "answered"} : phase' = [phase EXCEPT ![s] = after]
    BY <1>4 DEF AuthAnswers, BackoffElapses
  <2>2. TicketInv'
    BY <1>2, <2>1, TicketsLeftAlone
  <2> QED BY <1>1, <1>2, <2>1, <2>2, StartingKeeps
<1>5. ASSUME NEW s \in StreamNames, AppCheckAnswers(s)
      PROVE  TicketInv' /\ QueuesInv' /\ WriteInv' /\ WatchInv'
  <2> DEFINE t == NewToken(s, token[s])
  <2>1. /\ phase[s] = "answered" /\ phase' = [phase EXCEPT ![s] = "granted"]
        /\ tasks' = Append(tasks, t)
    BY <1>5 DEF AppCheckAnswers
  <2>2. t \in Task /\ t.kind = "token" /\ t.stream = s
    BY <1>2, <2>1 DEF NewToken, Task, TokenInv, StreamsType
  <2> HIDE DEF t
  <2>3. TicketInv'
    BY <1>2, <2>1, <2>2, TicketQueued
  <2> QED BY <1>1, <1>2, <2>1, <2>3, StartingKeeps
<1>6. ASSUME NEW s \in StreamNames, Resumes(s)
      PROVE  TicketInv' /\ QueuesInv' /\ WriteInv' /\ WatchInv'
  <2>1. /\ tasks # <<>> /\ tasks \in Seq(Task)
        /\ Head(tasks).kind = "token" /\ Head(tasks).fresh /\ Head(tasks).stream = s
        /\ tasks' = Tail(tasks) /\ phase' = [phase EXCEPT ![s] = "open"]
    BY <1>6, WriteFacts DEF Resumes
  <2>2. Head(tasks) = tasks[1] /\ 1 \in 1 .. Len(tasks)
    BY <2>1, EmptySeq, LenProperties
  <2>3. FreshToken(1) /\ tasks[1].stream = s
    BY <2>1, <2>2 DEF FreshToken
  <2>4. phase[s] = "granted"
    BY <1>2, <2>2, <2>3 DEF TicketInv
  <2>5. TicketInv'
    <3>1. \A r \in StreamNames :
            phase[r] = "granted" /\ phase'[r] # "granted" => FreshToken(1) /\ tasks[1].stream = r
      BY <1>2, <2>1, <2>3
    <3> QED BY <1>2, <2>1, <3>1, TicketUsed
  <2> QED BY <1>1, <1>2, <2>1, <2>4, <2>5, StartingKeeps
<1> QED BY <1>3, <1>4, <1>5, <1>6 DEF Connects

\* A change of Auth's user only queues the task that will tell the client.
LEMMA ChangeUserKeeps ==
  ASSUME StreamInv, NEW u \in Users, ChangeUser(u)
  PROVE  TicketInv' /\ QueuesInv' /\ WriteInv' /\ WatchInv'
<1>1. /\ tasks' = Append(tasks, NewUser(u)) /\ UNCHANGED <<phase, idle, writeVars, watchVars>>
  BY DEF ChangeUser, SignIn
<1>2. NewUser(u) \in Task /\ NewUser(u).kind = "user"
  BY DEF NewUser, Task
<1>3. TicketInv'
  BY <1>1, <1>2, TicketQueued DEF StreamInv
<1> QED BY <1>1, <1>3, StartingKeeps

\* Both streams start afresh, for the user then current.
LEMMA RestartKeeps ==
  ASSUME NEW q \in Seq(Task), RestartStreams(q), UNCHANGED queue,
         targets' \subseteq Queries, waiting' \subseteq targets'
  PROVE  TicketInv' /\ WriteInv' /\ WatchInv'
<1>1. /\ tasks' \in Seq(Task) /\ Len(tasks') = Len(q)
      /\ \A i \in 1 .. Len(q) :
           /\ tasks'[i].kind = q[i].kind
           /\ q[i].kind = "token" => ~tasks'[i].fresh
  BY RestartVoids
<1>2. /\ idle' = [s \in StreamNames |-> FALSE]
      /\ up' = <<>> /\ down' = <<>> /\ refused' = FALSE
      /\ phase' = [write |-> IF pipeline' # <<>> THEN "asking" ELSE "initial",
                   watch |-> IF targets' # {} THEN "asking" ELSE "initial"]
      /\ pipeline' = Missing(<<>>, queue'[user'])
  BY DEF RestartStreams
<1>3. TicketInv'
  BY <1>1 DEF TicketInv, FreshToken
<1>4. WriteInv'
  <2>1. up' \in Seq(Writing') /\ down' \in Seq(Writing')
    BY <1>2, EmptySeq
  <2> QED BY <1>2, <2>1 DEF WriteInv, AnswersMatchTheirWrites, IsStarted, StreamNames
<1>5. WatchInv'
  BY <1>2 DEF WatchInv, IsStarted, IsOpen, StreamNames
<1> QED BY <1>3, <1>4, <1>5

\* What a restart needs of the step it is part of.
LEMMA RestartStep ==
  ASSUME StreamInv, NEW q \in Seq(Task), RestartStreams(q),
         UNCHANGED <<queue, lastBatch, created, server, cached>>,
         callbacks' \subseteq callbacks, answers' \in [Users -> Seq(Answers)],
         targets' \subseteq Queries, waiting' \subseteq targets'
  PROVE  TicketInv' /\ QueuesInv' /\ WriteInv' /\ WatchInv'
<1>1. Writing' = Writing
  BY DEF Writing
<1>2. QueuesInv'
  <2>1. QueuesInv
    BY DEF StreamInv
  <2>2. callbacks' \subseteq 1 .. lastBatch
    BY <2>1 DEF QueuesInv
  <2>3. UNCHANGED <<queue, lastBatch, created, server, cached>> /\ answers' \in [Users -> Seq(Answers)]
    OBVIOUS
  <2>4. (\A u \in Users : Grows(queue[u]))'
    BY <2>1, <2>3 DEF QueuesInv, Grows
  <2> HIDE DEF StreamInv
  <2> QED BY ONLY <1>1, <2>1, <2>2, <2>3, <2>4 DEF QueuesInv
<1> QED BY <1>2, RestartKeeps

\* A change of user, a change of the network and a relaunch restart both streams.
LEMMA RestartsKeep ==
  ASSUME StreamInv, HandleCredentialChange \/ ConnectivityChanges \/ Relaunch
  PROVE  TicketInv' /\ QueuesInv' /\ WriteInv' /\ WatchInv'
<1>1. tasks \in Seq(Task) /\ targets \subseteq Queries /\ waiting \subseteq targets
      /\ answers \in [Users -> Seq(Answers)]
  BY WriteFacts DEF StreamInv, WatchInv, QueuesInv
<1>2. CASE HandleCredentialChange
  <2>1. Tail(tasks) \in Seq(Task)
    BY <1>1, <1>2, HeadTailProperties DEF HandleCredentialChange
  <2> QED BY <1>1, <1>2, <2>1, RestartStep DEF HandleCredentialChange, Stored
<1>3. CASE ConnectivityChanges
  BY <1>1, <1>3, RestartStep DEF ConnectivityChanges, Stored
<1>4. CASE Relaunch
  <2> DEFINE none == <<>>
  <2>1. none \in Seq(Task) /\ none \in Seq(Answers)
    BY EmptySeq
  <2>2. RestartStreams(none) /\ answers' = [u \in Users |-> none]
        /\ callbacks' = {} /\ targets' = {} /\ waiting' = {}
        /\ UNCHANGED <<queue, lastBatch, created, server, cached>>
    BY <1>4 DEF Relaunch, Stored
  <2> HIDE DEF none
  <2> QED BY <2>1, <2>2, RestartStep
<1> QED BY <1>2, <1>3, <1>4

-----------------------------------------------------------------------------
(* The theorems *)

\* The invariant holds at launch, ...
LEMMA InitStreamInv == Init => StreamInv
<1> SUFFICES ASSUME Init PROVE StreamInv
  OBVIOUS
<1> USE DEF Init, StreamsInit, WriteInit, WatchInit
<1>1. TokenInv
  BY InitTokenInv
<1>2. TimerInv
  BY DEF TimerInv, TimerOnlyWhileUnknown, UpdateState, Tracker, OnlineStates
<1>3. TicketInv
  BY DEF TicketInv
<1>4. QueuesInv
  BY EmptySeq DEF QueuesInv, Grows
<1>5. WriteInv
  <2> DEFINE none == <<>>
  <2>1. none \in Seq(Writing) /\ Len(none) = 0 /\ Numbered(Writing)
    BY <1>4, WritingIsNumbered, EmptySeq
  <2>2. Fitting(none) = 0 /\ Grows(none)
    BY <2>1, WriteAssumption DEF Fitting, Grows
  <2>3. Missing(<<>>, none) = SubSeq(none, 1, 0)
    <3>1. 0 \in 0 .. Len(none) /\ 0 <= MaxPending
      BY <2>1, WriteAssumption
    <3> HIDE DEF none
    <3>2. Missing(<<>>, none) = SubSeq(none, 1, Fitting(none))
      BY <2>1, <2>2, <3>1, FilledUp
    <3> QED BY <2>2, <3>2
  <2>4. SubSeq(none, 1, 0) = <<>>
    BY <2>1, OldestWrites
  <2>5. Missing(<<>>, queue[user]) = <<>>
    BY <2>3, <2>4
  <2> QED BY <2>1, <2>5 DEF WriteInv, AnswersMatchTheirWrites, StreamNames
<1>6. WatchInv
  BY DEF WatchInv, IsStarted, IsOpen, StreamNames
<1> QED BY <1>1, <1>2, <1>3, <1>4, <1>5, <1>6 DEF StreamInv

\* ... every step keeps it, ...
LEMMA NextStreamInv ==
  ASSUME StreamInv, [Next]_vars PROVE StreamInv'
<1> DEFINE Goal == TicketInv' /\ QueuesInv' /\ WriteInv' /\ WatchInv'
<1>1. TokenInv' /\ TimerInv'
  BY NextTokenInv, NextTimerInv DEF StreamInv
<1> SUFFICES Goal
  BY <1>1 DEF StreamInv
<1>2. ASSUME NEW op \in {"set", "delete"}, NEW id \in DocIds, Write(op, id) PROVE Goal
  BY <1>2, WriteKeeps
<1>3. ASSUME NEW q \in Queries, Read(q) PROVE Goal
  BY <1>3, ReadKeeps
<1>4. ASSUME NEW u \in Users, ChangeUser(u) PROVE Goal
  BY <1>4, ChangeUserKeeps
<1>5. CASE Connects
  BY <1>5, ConnectsKeeps
<1>6. CASE Writes
  BY <1>6, HandshakeKeeps, ResultKeeps, WriteCallEnds DEF Writes
<1>7. CASE Unlistens
  <2>1. PICK q \in Queries : StopListening(q)
    BY <1>7 DEF Unlistens
  <2>2. /\ q \in targets \ waiting /\ targets' = targets \ {q}
        /\ UNCHANGED <<tasks, phase, waiting, writeVars>>
        /\ idle' = [idle EXCEPT !["watch"] =
                      idle["watch"] \/ (targets' = {} /\ IsOpen("watch"))]
    BY <1>7, <2>1 DEF Unlistens, StopListening
  <2>3. waiting' \subseteq targets' /\ targets' \subseteq targets /\ waiting' \subseteq waiting
    BY <2>2 DEF StreamInv, WatchInv
  <2> QED BY <2>2, <2>3, ListenersKeep
<1>8. CASE HandleCredentialChange \/ ConnectivityChanges \/ Relaunch
  BY <1>8, RestartsKeep
<1>9. CASE ServerServesWrites \/ ServerRefusesWrite
  BY <1>9, ServerKeeps DEF ServerServesWrites, ServerRefusesWrite
<1>10. CASE RefusalArrives
  BY <1>10, RefusalKeeps DEF RefusalArrives
<1>11. CASE ServerServesReads \/ ServerRefusesRead \/ (WatchTimers /\ OnlineTimerFires)
  <2>1. waiting \subseteq targets
    BY DEF StreamInv, WatchInv
  <2>2. /\ UNCHANGED <<writeVars, streamVars>>
        /\ targets' \subseteq targets /\ waiting' \subseteq waiting
        /\ waiting' \subseteq targets'
    BY <1>11, <2>1
       DEF ServerServesReads, ServerRefusesRead, WatchTimers, WatchChange, WatchSnapshot,
           TargetRefused, OnlineTimerFires, Tracks
  <2> QED BY <2>2, ListenersKeep DEF streamVars
<1>12. CASE WatchTimers /\ WatchStreamIdles
  BY <1>12, WatchCallEnds DEF WatchTimers
<1>13. CASE StreamFails
  BY <1>13, WriteCallEnds, WatchCallEnds DEF StreamFails
<1>14. CASE UNCHANGED vars
  <2>1. UNCHANGED <<writeVars, watchVars, tasks, phase, idle>>
    BY <1>14 DEF vars, streamVars
  <2>2. TicketInv'
    BY <2>1, TicketsLeftAlone DEF StreamInv
  <2> QED BY <2>1, <2>2, StartingKeeps
<1> QED BY <1>2, <1>3, <1>4, <1>5, <1>6, <1>7, <1>8, <1>9, <1>10, <1>11, <1>12, <1>13, <1>14
        DEF Next, WatchTimers

\* ... and so it always holds.
LEMMA StreamInvAlways == Spec => []StreamInv
<1>1. StreamInv /\ [Next]_vars => StreamInv'
  BY NextStreamInv
<1> QED BY <1>1, InitStreamInv, PTL DEF Spec

\* Every variable has its type, the pipeline has no more writes than it may, and a
\* batch number is never given twice.
THEOREM StreamsAreTyped == Spec => []TypeOK
<1>1. StreamInv => TypeOK
  <2> SUFFICES ASSUME StreamInv PROVE TypeOK
    OBVIOUS
  <2>1. pipeline \in Seq(Writing) /\ Len(pipeline) <= MaxPending
    <3>1. QueuesInv /\ WriteInv /\ user \in Users
      BY DEF StreamInv, TokenInv, StreamsType
    <3> QED BY <3>1, PipelineIsOldest
  <2>2. /\ signedIn \in Users /\ user \in Users /\ tasks \in Seq(Task)
        /\ phase \in [StreamNames -> Phases]
        /\ token \in [StreamNames -> Users \cup {NoUser}]
        /\ tracker \in Tracker
    BY DEF StreamInv, TokenInv, StreamsType, TimerInv
  <2>3. /\ queue \in [Users -> Seq(Writing)] /\ callbacks \subseteq 1 .. lastBatch
        /\ created \subseteq DocIds /\ server \subseteq DocIds /\ cached \subseteq DocIds
    BY DEF StreamInv, QueuesInv
  <2>4. /\ idle \in [StreamNames -> BOOLEAN] /\ phase["watch"] # "ready"
        /\ up \in Seq(Writing) /\ down \in Seq(Writing) /\ refused \in BOOLEAN
        /\ targets \subseteq Queries /\ waiting \subseteq targets
    BY DEF StreamInv, WriteInv, WatchInv
  <2> QED BY <2>1, <2>2, <2>3, <2>4 DEF TypeOK
<1> QED BY <1>1, StreamInvAlways, PTL

\* The client takes every answer for one about the oldest write of its pipeline, and
\* it is (RemoteStore::OnWriteStreamMutationResult).
THEOREM AnswersAreTheirWrites == Spec => []AnswersMatchTheirWrites
<1>1. StreamInv => AnswersMatchTheirWrites
  BY DEF StreamInv, WriteInv
<1> QED BY <1>1, StreamInvAlways, PTL

\* No queued write and no unanswered read is forgotten
\* (FillWritePipeline, ShouldStartWriteStream, ShouldStartWatchStream).
THEOREM NothingForgotten == Spec => []NothingIsForgotten
<1>1. StreamInv => NothingIsForgotten
  BY DEF StreamInv, WriteInv, WatchInv, NothingIsForgotten
<1> QED BY <1>1, StreamInvAlways, PTL

\* The idle timer stops no stream that is still needed (OnWriteStreamClose,
\* OnWatchStreamClose: "stopped gracefully while still needed").
THEOREM IdleStreamsStop == Spec => []IdleStreamsAreNotNeeded
<1>1. StreamInv => IdleStreamsAreNotNeeded
  BY DEF StreamInv, WriteInv, WatchInv, IdleStreamsAreNotNeeded, IsOpen
<1> QED BY <1>1, StreamInvAlways, PTL

-----------------------------------------------------------------------------
(* Each user's part is a FirestoreClient *)

\* The documents of the owner's part are left alone.
SameStores ==
  /\ (server \cap OwnDocs)' = server \cap OwnDocs
  /\ (cached \cap OwnDocs)' = cached \cap OwnDocs
  /\ OwnWritten' = OwnWritten

\* Nothing of the owner's part changes, ...
LEMMA PartLeftAlone ==
  ASSUME SameStores, OwnQueue' = OwnQueue, OwnTaken' = OwnTaken,
         answers'[Owner] = answers[Owner]
  PROVE  UNCHANGED Client!clientVars
  BY DEF Client!clientVars, SameStores

\* ... or no more than what the server is known to have taken.
LEMMA PartStops ==
  ASSUME SameStores, OwnQueue' = OwnQueue, OwnTaken' = 0,
         answers'[Owner] = answers[Owner]
  PROVE  ClientNext
  BY DEF ClientNext, Client!StreamsStop, SameStores

\* The owner's queue, and whose writes the batches in it are.
LEMMA OwnQueueFacts ==
  ASSUME StreamInv
  PROVE  /\ Owner \in Users /\ queue[Owner] \in Seq(Writing) /\ Grows(queue[Owner])
         /\ OwnQueue = [i \in 1 .. Len(queue[Owner]) |->
                          [op |-> queue[Owner][i].op, id |-> queue[Owner][i].id,
                           callback |-> CallbackOf(queue[Owner][i])]]
         /\ Len(queue[Owner]) \in Nat /\ DOMAIN OwnQueue = 1 .. Len(queue[Owner])
         /\ \A i \in 1 .. Len(queue[Owner]) :
              /\ queue[Owner][i].batch \in 1 .. lastBatch
              /\ queue[Owner][i].id \in OwnDocs
              /\ queue[Owner][i].op \in {"set", "delete"}
         /\ answers[Owner] \in Seq(Answers)
<1>1. Owner \in Users
  BY RefinementAssumption
<1>2. queue[Owner] \in Seq(Writing) /\ Grows(queue[Owner]) /\ answers[Owner] \in Seq(Answers)
  BY <1>1 DEF StreamInv, QueuesInv
<1>3. Len(queue[Owner]) \in Nat /\ DOMAIN queue[Owner] = 1 .. Len(queue[Owner])
  BY <1>2, LenProperties
<1>4. \A i \in 1 .. Len(queue[Owner]) :
        /\ queue[Owner][i].batch \in 1 .. lastBatch
        /\ queue[Owner][i].id \in OwnDocs
        /\ queue[Owner][i].op \in {"set", "delete"}
  <2> TAKE i \in 1 .. Len(queue[Owner])
  <2>1. queue[Owner][i] \in Writing
    BY <1>2, ElementOfSeq
  <2>2. Author[queue[Owner][i].id] = Owner
    BY <1>1 DEF StreamInv, QueuesInv
  <2> QED BY <2>1, <2>2 DEF Writing, OwnDocs
<1> QED BY <1>1, <1>2, <1>3, <1>4 DEF OwnQueue

\* The owner's queue keeps its writes, and each keeps its callback.
LEMMA QueueKept ==
  ASSUME StreamInv, queue'[Owner] = queue[Owner],
         \A i \in 1 .. Len(queue[Owner]) :
           queue[Owner][i].batch \in callbacks' <=> queue[Owner][i].batch \in callbacks
  PROVE  OwnQueue' = OwnQueue
<1>1. DOMAIN queue[Owner] = 1 .. Len(queue[Owner])
  BY OwnQueueFacts, LenProperties
<1>2. \A i \in DOMAIN queue[Owner] :
        (IF queue[Owner][i].batch \in callbacks' THEN queue[Owner][i].batch ELSE NoCallback)
          = CallbackOf(queue[Owner][i])
  BY <1>1 DEF CallbackOf
<1>3. OwnQueue' = [i \in DOMAIN queue[Owner] |->
                     [op |-> queue[Owner][i].op, id |-> queue[Owner][i].id,
                      callback |-> IF queue[Owner][i].batch \in callbacks'
                                     THEN queue[Owner][i].batch ELSE NoCallback]]
  BY DEF OwnQueue, CallbackOf
<1> QED BY <1>2, <1>3 DEF OwnQueue

\* A write: the owner's client queues it, any other's changes nothing of the owner's.
LEMMA WriteIsTheOwners ==
  ASSUME StreamInv, NEW op \in {"set", "delete"}, NEW id \in DocIds, Write(op, id)
  PROVE  [ClientNext]_(Client!clientVars)
<1> DEFINE w == Batch(lastBatch + 1, op, id)
           q == queue[Owner]
<1>1. /\ Author[id] = user /\ (op = "set" => id \notin created)
      /\ queue' = [queue EXCEPT ![user] = Append(queue[user], w)]
      /\ callbacks' = callbacks \cup {w.batch} /\ w.batch = lastBatch + 1
      /\ created' = IF op = "set" THEN created \cup {id} ELSE created
      /\ UNCHANGED <<user, down, server, cached, answers>>
  BY DEF Write, WriteMutations, Batch
<1>2. /\ user \in Users /\ queue \in [Users -> Seq(Writing)] /\ lastBatch \in Nat
  BY DEF StreamInv, TokenInv, StreamsType, QueuesInv
<1>3. /\ q \in Seq(Writing) /\ Len(q) \in Nat /\ Owner \in Users
      /\ \A i \in 1 .. Len(q) : q[i].batch \in callbacks' <=> q[i].batch \in callbacks
  BY <1>1, <1>2, OwnQueueFacts
<1>4. /\ OwnTaken' = OwnTaken /\ answers'[Owner] = answers[Owner]
      /\ (server \cap OwnDocs)' = server \cap OwnDocs
      /\ (cached \cap OwnDocs)' = cached \cap OwnDocs
  BY <1>1 DEF OwnTaken, OwnDocs
<1>5. CASE Owner # user
  <2>1. id \notin OwnDocs
    BY <1>1, <1>5 DEF OwnDocs
  <2>2. OwnWritten' = OwnWritten
    BY <1>1, <2>1 DEF OwnWritten, OwnDocs
  <2>3. OwnQueue' = OwnQueue
    BY <1>1, <1>2, <1>3, <1>5, QueueKept
  <2> QED BY <1>4, <2>2, <2>3, PartLeftAlone DEF SameStores
<1>6. CASE Owner = user
  <2> DEFINE new == Client!Write(op, id, lastBatch + 1)
  <2>1. id \in OwnDocs
    BY <1>1, <1>6 DEF OwnDocs
  <2>2. queue'[Owner] = Append(q, w) /\ Len(Append(q, w)) = Len(q) + 1
        /\ DOMAIN Append(q, w) = 1 .. Len(q) + 1
        /\ Append(q, w)[Len(q) + 1] = w
        /\ \A i \in 1 .. Len(q) : Append(q, w)[i] = q[i]
    BY <1>1, <1>2, <1>3, <1>6
  <2>3. OwnQueue' = Append(OwnQueue, new)
    <3>1. OwnQueue' = [i \in 1 .. Len(q) + 1 |->
                         [op |-> Append(q, w)[i].op, id |-> Append(q, w)[i].id,
                          callback |-> IF Append(q, w)[i].batch \in callbacks'
                                         THEN Append(q, w)[i].batch ELSE NoCallback]]
      BY <2>2 DEF OwnQueue, CallbackOf
    <3>2. \A i \in 1 .. Len(q) : OwnQueue'[i] = OwnQueue[i]
      <4> TAKE i \in 1 .. Len(q)
      <4>1. i \in 1 .. Len(q) + 1
        BY <1>3
      <4> QED BY <1>3, <2>2, <3>1, <4>1, OwnQueueFacts DEF CallbackOf
    <3>3. OwnQueue'[Len(q) + 1] = new
      <4>1. Len(q) + 1 \in 1 .. Len(q) + 1 /\ w.op = op /\ w.id = id
        BY <1>3 DEF Batch
      <4> QED BY <1>1, <2>2, <3>1, <4>1 DEF Client!Write
    <3>4. DOMAIN OwnQueue' = 1 .. Len(q) + 1
      BY <3>1
    <3>5. /\ Len(OwnQueue) = Len(q)
          /\ OwnQueue = [i \in 1 .. Len(q) |-> OwnQueue[i]]
      BY <1>3, OwnQueueFacts
    <3>6. Append(OwnQueue, new) =
            [i \in 1 .. Len(q) + 1 |-> IF i = Len(q) + 1 THEN new ELSE OwnQueue[i]]
      BY <1>3, <3>5
    <3>7. OwnQueue' = [i \in 1 .. Len(q) + 1 |-> OwnQueue'[i]]
      BY <3>1
    <3>8. \A i \in 1 .. Len(q) + 1 :
            OwnQueue'[i] = IF i = Len(q) + 1 THEN new ELSE OwnQueue[i]
      BY <1>3, <3>2, <3>3
    <3> HIDE DEF new, w, q
    <3> QED BY <3>6, <3>7, <3>8
  <2>4. CASE op = "set"
    <3>1. id \in Client!Fresh
      BY <1>1, <2>1, <2>4 DEF Client!Fresh, OwnWritten
    <3>2. OwnWritten' = [OwnWritten EXCEPT ![id] = "document"]
      BY <1>1, <2>1, <2>4 DEF OwnWritten, OwnDocs
    <3>3. Client!SetDocument(id, "document", lastBatch + 1)
      BY <1>4, <2>3, <2>4, <3>2 DEF Client!SetDocument
    <3> QED BY <3>1, <3>3 DEF ClientNext, Client!AddDocument
  <2>5. CASE op = "delete"
    <3>1. OwnWritten' = OwnWritten
      BY <1>1, <2>5 DEF OwnWritten, OwnDocs
    <3>2. Client!DeleteDocument(id, lastBatch + 1)
      BY <1>4, <2>3, <2>5, <3>1 DEF Client!DeleteDocument
    <3> QED BY <2>1, <3>2 DEF ClientNext
  <2> QED BY <2>4, <2>5
<1> QED BY <1>5, <1>6

\* The writes of another user's queue are of no document of the owner's.
LEMMA PipelineIsOwn ==
  ASSUME StreamInv
  PROVE  /\ pipeline \in Seq(Writing) /\ queue[user] \in Seq(Writing)
         /\ Len(pipeline) <= Len(queue[user])
         /\ \A i \in 1 .. Len(pipeline) :
              /\ pipeline[i] = queue[user][i] /\ i \in 1 .. Len(queue[user])
              /\ pipeline[i].id \in OwnDocs <=> Owner = user
<1>1. /\ pipeline \in Seq(Writing) /\ queue[user] \in Seq(Writing)
      /\ Len(pipeline) = Fitting(queue[user])
      /\ Fitting(queue[user]) \in 0 .. Len(queue[user])
      /\ \A i \in 1 .. Len(pipeline) : pipeline[i] = queue[user][i]
      /\ user \in Users
  BY PipelineIsOldest DEF StreamInv, TokenInv, StreamsType
<1>2. Len(queue[user]) \in Nat
  BY <1>1, LenProperties
<1>3. \A i \in 1 .. Len(pipeline) : i \in 1 .. Len(queue[user])
  BY <1>1, <1>2
<1>4. \A i \in 1 .. Len(queue[user]) :
        queue[user][i].id \in DocIds /\ Author[queue[user][i].id] = user
  <2> TAKE i \in 1 .. Len(queue[user])
  <2>1. queue[user][i] \in Writing
    BY <1>1, ElementOfSeq
  <2> QED BY <1>1, <2>1 DEF Writing, StreamInv, QueuesInv
<1> QED BY <1>1, <1>2, <1>3, <1>4 DEF OwnDocs

\* What a write does to the owner's documents.
LEMMA EffectOnOwn ==
  ASSUME NEW w \in Writing, NEW ids
  PROVE  /\ w.id \in OwnDocs => Effect(w, ids) \cap OwnDocs =
              (IF w.op = "set" THEN (ids \cap OwnDocs) \cup {w.id} ELSE (ids \cap OwnDocs) \ {w.id})
         /\ w.id \notin OwnDocs => Effect(w, ids) \cap OwnDocs = ids \cap OwnDocs
  BY DEF Effect

\* The server takes the next write: the owner's next one, or none of the owner's.
LEMMA TakenIsTheOwners ==
  ASSUME StreamInv, ServerTakes, UNCHANGED <<streamVars, watchVars>>
  PROVE  [ClientNext]_(Client!clientVars)
<1>1. /\ up # <<>> /\ server' = Effect(Head(up), server)
      /\ down' = Append(down, Head(up))
      /\ UNCHANGED <<user, queue, callbacks, created, cached, answers>>
  BY DEF ServerTakes
<1>2. /\ down \o up = pipeline /\ down \in Seq(Writing) /\ up \in Seq(Writing)
  BY <1>1, WriteFacts
<1> DEFINE k == Len(down) + 1
<1>3. /\ k \in 1 .. Len(pipeline) /\ pipeline[k] = Head(up) /\ Len(down) \in Nat
      /\ Len(down') = Len(down) + 1
  <2>1. Len(up) \in Nat \ {0} /\ Len(down) \in Nat /\ Head(up) = up[1]
    BY <1>1, <1>2, EmptySeq, LenProperties
  <2>2. /\ Len(down \o up) = Len(down) + Len(up)
        /\ \A i \in 1 .. Len(down) + Len(up) :
             (down \o up)[i] = IF i <= Len(down) THEN down[i] ELSE up[i - Len(down)]
    BY <1>2, ConcatProperties
  <2>3. k \in 1 .. Len(down) + Len(up) /\ ~(k <= Len(down)) /\ k - Len(down) = 1
    BY <2>1
  <2>4. (down \o up)[k] = up[1]
    BY <2>2, <2>3
  <2>5. Head(up) \in Writing
    BY <1>1, <1>2
  <2> QED BY <1>1, <1>2, <2>1, <2>2, <2>3, <2>4, <2>5, AppendProperties
<1>4. /\ k \in 1 .. Len(queue[user]) /\ Head(up) = queue[user][k] /\ Head(up) \in Writing
      /\ Head(up).id \in OwnDocs <=> Owner = user
  <2>1. k \in 1 .. Len(queue[user]) /\ Head(up) = queue[user][k]
        /\ (Head(up).id \in OwnDocs <=> Owner = user)
    BY <1>3, PipelineIsOwn
  <2> HIDE DEF k
  <2> QED BY <2>1, ElementOfSeq, PipelineIsOwn
<1> HIDE DEF k
<1>5. OwnQueue' = OwnQueue /\ answers'[Owner] = answers[Owner] /\ OwnWritten' = OwnWritten
      /\ (cached \cap OwnDocs)' = cached \cap OwnDocs
  BY <1>1, QueueKept DEF OwnWritten, OwnDocs
<1>6. CASE Owner # user
  <2>1. (server \cap OwnDocs)' = server \cap OwnDocs
    BY <1>1, <1>4, <1>6, EffectOnOwn DEF OwnDocs
  <2>2. OwnTaken' = OwnTaken
    BY <1>1, <1>6 DEF OwnTaken
  <2> QED BY <1>5, <2>1, <2>2, PartLeftAlone DEF SameStores
<1>7. CASE Owner = user
  <2>1. /\ OwnTaken = Len(down) /\ OwnTaken' = OwnTaken + 1 /\ OwnTaken + 1 = k
    BY <1>1, <1>3, <1>7 DEF OwnTaken, k
  <2>2. /\ Len(OwnQueue) = Len(queue[Owner]) /\ k \in 1 .. Len(queue[Owner])
        /\ OwnQueue[k].op = Head(up).op /\ OwnQueue[k].id = Head(up).id
    BY <1>4, <1>7, OwnQueueFacts
  <2>3. (server \cap OwnDocs)' = Client!Effect(OwnQueue[k], server \cap OwnDocs)
    <3>1. (server \cap OwnDocs)' = server' \cap OwnDocs
      BY DEF OwnDocs
    <3> QED BY <1>1, <1>4, <1>7, <2>2, <3>1, EffectOnOwn DEF Client!Effect
  <2>4. OwnTaken < Len(OwnQueue)
    BY <1>3, <2>1, <2>2, OwnQueueFacts
  <2>5. Client!ServerTakes
    BY <1>5, <2>1, <2>3, <2>4 DEF Client!ServerTakes
  <2> QED BY <2>5 DEF ClientNext, Client!ClientStep
<1> QED BY <1>6, <1>7

\* The oldest write is answered: the owner's queue loses it, and the process's callback
\* is run; another user's queue, documents and callbacks are left alone.
LEMMA SettledIsTheOwners ==
  ASSUME StreamInv, pipeline # <<>>, NEW ok \in BOOLEAN, NEW at, NEW sent,
         Settle(Head(pipeline), ok, at, sent), cached' \subseteq DocIds
  PROVE  /\ OwnWritten' = OwnWritten /\ (server \cap OwnDocs)' = server \cap OwnDocs
         /\ user' = user
         /\ Owner # user => /\ OwnQueue' = OwnQueue /\ answers'[Owner] = answers[Owner]
                            /\ Head(pipeline).id \notin OwnDocs
         /\ Owner = user => /\ Client!Settle(ok) /\ OwnQueue # <<>>
                            /\ Head(OwnQueue).op = Head(pipeline).op
                            /\ Head(OwnQueue).id = Head(pipeline).id
                            /\ Head(pipeline).id \in OwnDocs
<1> DEFINE w == Head(pipeline)
           q == queue[user]
           rest == Tail(q)
<1>1. /\ QueuesInv' /\ q # <<>> /\ w = q[1] /\ queue' = [queue EXCEPT ![user] = rest]
      /\ user \in Users /\ queue \in [Users -> Seq(Writing)]
  BY SettleKeepsQueues DEF StreamInv, TokenInv, StreamsType, QueuesInv
<1>2. /\ q \in Seq(Writing) /\ Len(q) \in Nat \ {0} /\ rest \in Seq(Writing)
      /\ Len(rest) = Len(q) - 1 /\ \A i \in 1 .. Len(q) - 1 : rest[i] = q[i + 1]
      /\ 1 \in 1 .. Len(q) /\ Grows(q)
  BY <1>1, EmptySeq, LenProperties, HeadTailProperties DEF StreamInv, QueuesInv
<1>3. /\ callbacks' = callbacks \ {w.batch}
      /\ answers' = IF w.batch \notin callbacks THEN answers ELSE
           [answers EXCEPT ![user] =
              Append(answers[user], [callback |-> w.batch, ok |-> ok, ids |-> {}])]
      /\ UNCHANGED <<user, created, server>>
  BY DEF Settle, NotifyUser
<1>4. OwnWritten' = OwnWritten /\ (server \cap OwnDocs)' = server \cap OwnDocs
  BY <1>3 DEF OwnWritten, OwnDocs
<1>5. w.id \in OwnDocs <=> Owner = user
  <2>1. 1 \in 1 .. Len(pipeline) /\ w = pipeline[1]
    BY PipelineIsOwn, EmptySeq, LenProperties
  <2> QED BY <2>1, PipelineIsOwn
<1> HIDE DEF w, rest
<1>6. ASSUME Owner # user PROVE OwnQueue' = OwnQueue /\ answers'[Owner] = answers[Owner]
  <2>1. \A i \in 1 .. Len(queue[Owner]) : queue[Owner][i].batch # w.batch
    BY <1>1, <1>2, <1>6, OwnQueueFacts DEF StreamInv, QueuesInv
  <2>2. OwnQueue' = OwnQueue
    BY <1>1, <1>3, <1>6, <2>1, OwnQueueFacts, QueueKept
  <2> QED BY <1>3, <1>6, <2>2
<1>7. ASSUME Owner = user
      PROVE  /\ Client!Settle(ok) /\ OwnQueue # <<>>
             /\ Head(OwnQueue).op = w.op /\ Head(OwnQueue).id = w.id
  <2>1. OwnQueue = [i \in 1 .. Len(q) |->
                      [op |-> q[i].op, id |-> q[i].id, callback |-> CallbackOf(q[i])]]
    BY <1>7, OwnQueueFacts
  <2>2. /\ Len(OwnQueue) = Len(q) /\ OwnQueue # <<>> /\ Head(OwnQueue) = OwnQueue[1]
        /\ OwnQueue[1] = [op |-> w.op, id |-> w.id, callback |-> CallbackOf(w)]
    BY <1>1, <1>2, <2>1
  <2>3. OwnQueue' = [i \in 1 .. Len(rest) |->
                       [op |-> rest[i].op, id |-> rest[i].id,
                        callback |-> IF rest[i].batch \in callbacks'
                                       THEN rest[i].batch ELSE NoCallback]]
    <3>1. queue'[Owner] = rest /\ DOMAIN rest = 1 .. Len(rest)
      BY <1>1, <1>2, <1>7, LenProperties
    <3> QED BY <3>1 DEF OwnQueue, CallbackOf
  <2>4. \A i \in 1 .. Len(rest) : OwnQueue'[i] = OwnQueue[i + 1]
    <3> TAKE i \in 1 .. Len(rest)
    <3>1. i + 1 \in 1 .. Len(q) /\ 1 < i + 1 /\ rest[i] = q[i + 1]
      BY <1>2
    <3>2. q[1].batch < q[i + 1].batch /\ q[1].batch \in Nat
      <4>1. q[1] \in Writing
        BY <1>2, ElementOfSeq
      <4> QED BY <1>2, <3>1, <4>1, WritingIsNumbered DEF StreamInv, Grows, Numbered
    <3>3. q[i + 1].batch \in callbacks' <=> q[i + 1].batch \in callbacks
      BY <1>1, <1>3, <3>2
    <3> QED BY <2>1, <2>3, <3>1, <3>3 DEF CallbackOf
  <2>5. OwnQueue' = Tail(OwnQueue)
    <3>1. Tail(OwnQueue) = [i \in 1 .. Len(OwnQueue) - 1 |-> OwnQueue[i + 1]]
      BY <2>1, <2>2, <1>2
    <3>2. OwnQueue' = [i \in 1 .. Len(OwnQueue) - 1 |-> OwnQueue'[i]]
      BY <1>2, <2>2, <2>3
    <3>3. \A i \in 1 .. Len(OwnQueue) - 1 : OwnQueue'[i] = OwnQueue[i + 1]
      BY <1>2, <2>2, <2>4
    <3> QED BY <3>1, <3>2, <3>3
  <2>6. w.batch \in Nat
    BY <1>1, <1>2, ElementOfSeq, WritingIsNumbered DEF StreamInv, Numbered
  <2>7. Client!Post(Head(OwnQueue).callback, ok)
    <3>1. CASE w.batch \in callbacks
      <4>1. CallbackOf(w) = w.batch /\ w.batch # NoCallback
        BY <2>6, <3>1, RefinementAssumption DEF CallbackOf
      <4>2. answers'[Owner] = Append(answers[Owner], [callback |-> w.batch, ok |-> ok, ids |-> {}])
        BY <1>1, <1>3, <1>7, <3>1 DEF StreamInv, QueuesInv
      <4>3. Head(OwnQueue).callback = w.batch
        BY <2>2, <4>1
      <4> QED BY <4>1, <4>2, <4>3 DEF Client!Post, Client!Event
    <3>2. CASE w.batch \notin callbacks
      BY <1>3, <2>2, <3>2 DEF Client!Post, CallbackOf
    <3> QED BY <3>1, <3>2
  <2>8. Client!Settle(ok)
    BY <1>4, <2>5, <2>7 DEF Client!Settle
  <2> QED BY <2>2, <2>8
<1> QED BY <1>3, <1>4, <1>5, <1>6, <1>7 DEF w

\* A result is a step of the owner's client, and a stutter for everyone else's.
LEMMA ResultIsTheOwners ==
  ASSUME StreamInv, MutationResult PROVE [ClientNext]_(Client!clientVars)
<1> DEFINE w == Head(pipeline)
<1>1. /\ down # <<>> /\ pipeline # <<>> /\ down' = Tail(down)
      /\ cached' = Effect(w, cached) /\ Settle(w, TRUE, "ready", up)
  BY DEF MutationResult
<1>2. w \in Writing /\ cached' \subseteq DocIds
  BY <1>1, WriteFacts, OldestIsWriting DEF Effect
<1>3. Len(down) \in Nat \ {0} /\ Len(down') = Len(down) - 1
  BY <1>1, WriteFacts, EmptySeq, LenProperties, HeadTailProperties
<1>4. /\ OwnWritten' = OwnWritten /\ (server \cap OwnDocs)' = server \cap OwnDocs
      /\ user' = user
      /\ Owner # user => /\ OwnQueue' = OwnQueue /\ answers'[Owner] = answers[Owner]
                         /\ w.id \notin OwnDocs
      /\ Owner = user => /\ Client!Settle(TRUE)
                         /\ Head(OwnQueue).op = w.op /\ Head(OwnQueue).id = w.id
                         /\ w.id \in OwnDocs
  BY <1>1, <1>2, SettledIsTheOwners
<1>5. (cached \cap OwnDocs)' = Effect(w, cached) \cap OwnDocs
  BY <1>1 DEF OwnDocs
<1> HIDE DEF w
<1>6. CASE Owner # user
  <2>1. OwnTaken' = OwnTaken
    BY <1>4, <1>6 DEF OwnTaken
  <2>2. (cached \cap OwnDocs)' = cached \cap OwnDocs
    BY <1>2, <1>4, <1>5, <1>6, EffectOnOwn
  <2> QED BY <1>4, <1>6, <2>1, <2>2, PartLeftAlone DEF SameStores
<1>7. CASE Owner = user
  <2>1. OwnTaken > 0 /\ OwnTaken' = OwnTaken - 1
    BY <1>3, <1>4, <1>7 DEF OwnTaken
  <2>2. (cached \cap OwnDocs)' = Client!Effect(Head(OwnQueue), cached \cap OwnDocs)
    BY <1>2, <1>4, <1>5, <1>7, EffectOnOwn DEF Client!Effect
  <2>3. Client!Acknowledge
    BY <1>4, <1>7, <2>1, <2>2 DEF Client!Acknowledge
  <2> QED BY <2>3 DEF ClientNext, Client!ClientStep
<1> QED BY <1>6, <1>7

\* A refused write is dropped by the owner's client, and by no other.
LEMMA RefusalIsTheOwners ==
  ASSUME StreamInv, WriteRefused PROVE [ClientNext]_(Client!clientVars)
<1>1. /\ pipeline # <<>> /\ down' = <<>> /\ cached' = cached
      /\ Settle(Head(pipeline), FALSE, "initial", <<>>)
  BY DEF WriteRefused
<1>2. cached' \subseteq DocIds /\ (cached \cap OwnDocs)' = cached \cap OwnDocs
  BY <1>1, WriteFacts DEF OwnDocs
<1>3. /\ OwnWritten' = OwnWritten /\ (server \cap OwnDocs)' = server \cap OwnDocs
      /\ user' = user
      /\ Owner # user => OwnQueue' = OwnQueue /\ answers'[Owner] = answers[Owner]
      /\ Owner = user => Client!Settle(FALSE) /\ OwnQueue # <<>>
  BY <1>1, <1>2, SettledIsTheOwners
<1>4. CASE Owner # user
  <2>1. OwnTaken' = OwnTaken
    BY <1>3, <1>4 DEF OwnTaken
  <2> QED BY <1>2, <1>3, <1>4, <2>1, PartLeftAlone DEF SameStores
<1>5. CASE Owner = user
  <2>1. OwnTaken' = 0
    BY <1>1 DEF OwnTaken
  <2>2. Client!Reject
    BY <1>2, <1>3, <1>5, <2>1 DEF Client!Reject
  <2> QED BY <2>2 DEF ClientNext, Client!ClientStep
<1> QED BY <1>4, <1>5

\* A call that ends, or all that is known of it at a restart.
LEMMA CallEndsForTheOwner ==
  ASSUME StreamInv, down' = <<>>,
         UNCHANGED <<queue, callbacks, created, server, cached, answers>>
  PROVE  ClientNext
<1>1. SameStores /\ OwnTaken' = 0 /\ answers'[Owner] = answers[Owner]
  BY DEF SameStores, OwnWritten, OwnDocs, OwnTaken
<1>2. OwnQueue' = OwnQueue
  BY QueueKept
<1> QED BY <1>1, <1>2, PartStops

\* A relaunch is the death of the process in every user's client.
LEMMA RelaunchIsADeath ==
  ASSUME StreamInv, Relaunch PROVE ClientNext
<1>1. /\ callbacks' = {} /\ answers' = [u \in Users |-> <<>>] /\ down' = <<>>
      /\ UNCHANGED <<queue, created, server, cached>>
  BY DEF Relaunch, RestartStreams, Stored
<1>2. SameStores /\ OwnTaken' = 0
  BY <1>1 DEF SameStores, OwnWritten, OwnDocs, OwnTaken
<1>3. answers'[Owner] = <<>>
  BY <1>1, RefinementAssumption
<1>4. OwnQueue' = [i \in DOMAIN OwnQueue |-> [OwnQueue[i] EXCEPT !.callback = NoCallback]]
  <2>1. OwnQueue' = [i \in DOMAIN queue[Owner] |->
                       [op |-> queue[Owner][i].op, id |-> queue[Owner][i].id,
                        callback |-> NoCallback]]
    BY <1>1 DEF OwnQueue, CallbackOf
  <2>2. DOMAIN OwnQueue = DOMAIN queue[Owner]
    BY DEF OwnQueue
  <2>3. \A i \in DOMAIN queue[Owner] :
          [OwnQueue[i] EXCEPT !.callback = NoCallback] =
            [op |-> queue[Owner][i].op, id |-> queue[Owner][i].id, callback |-> NoCallback]
    BY DEF OwnQueue
  <2> QED BY <2>1, <2>2, <2>3
<1>5. Client!ProcessDies
  BY <1>2, <1>3, <1>4 DEF Client!ProcessDies, SameStores
<1> QED BY <1>5 DEF ClientNext

\* The steps the owner's part does not see.
LEMMA UnseenByTheOwner ==
  ASSUME StreamInv, UNCHANGED <<user, down, queue, callbacks, created, server, cached, answers>>
  PROVE  UNCHANGED Client!clientVars
<1>1. SameStores /\ OwnTaken' = OwnTaken /\ answers'[Owner] = answers[Owner]
  BY DEF SameStores, OwnWritten, OwnDocs, OwnTaken
<1>2. OwnQueue' = OwnQueue
  BY QueueKept
<1> QED BY <1>1, <1>2, PartLeftAlone

\* Every step of the streams is a step of the owner's client, or a stutter.
LEMMA NextIsClientNext ==
  ASSUME StreamInv, [Next]_vars PROVE [ClientNext]_(Client!clientVars)
<1>1. ASSUME NEW op \in {"set", "delete"}, NEW id \in DocIds, Write(op, id)
      PROVE  [ClientNext]_(Client!clientVars)
  BY <1>1, WriteIsTheOwners
<1>2. ASSUME UNCHANGED writeVars PROVE [ClientNext]_(Client!clientVars)
  BY <1>2, UnseenByTheOwner DEF writeVars, wireVars
<1>3. \/ \E q \in Queries : Read(q)
      \/ \E u \in Users : ChangeUser(u)
      \/ Connects \/ Unlistens \/ ServerServesReads \/ ServerRefusesRead \/ WatchTimers
      \/ UNCHANGED vars
      => UNCHANGED writeVars
  BY DEF Read, ChangeUser, Connects, Unlistens, ServerServesReads, ServerRefusesRead,
         WatchTimers, vars
<1>4. ASSUME NEW after, WriteStreamCloses(after) PROVE [ClientNext]_(Client!clientVars)
  BY <1>4, CallEndsForTheOwner DEF WriteStreamCloses
<1>5. CASE Writes
  <2>1. CASE HandshakeCompletes
    BY <2>1, UnseenByTheOwner DEF HandshakeCompletes
  <2>2. CASE WriteStreamIdles
    BY <2>2, <1>4 DEF WriteStreamIdles
  <2> QED BY <1>5, <2>1, <2>2, ResultIsTheOwners DEF Writes
<1>6. CASE HandleCredentialChange \/ ConnectivityChanges
  BY <1>6, CallEndsForTheOwner
     DEF HandleCredentialChange, ConnectivityChanges, RestartStreams, Stored
<1>7. CASE Relaunch
  BY <1>7, RelaunchIsADeath
<1>8. CASE ServerServesWrites
  BY <1>8, TakenIsTheOwners DEF ServerServesWrites
<1>9. CASE ServerRefusesWrite
  BY <1>9, UnseenByTheOwner DEF ServerRefusesWrite, ServerRefuses
<1>10. CASE RefusalArrives
  BY <1>10, RefusalIsTheOwners DEF RefusalArrives
<1>11. CASE StreamFails
  BY <1>2, <1>4, <1>11 DEF StreamFails, WriteStreamFails
<1> QED BY <1>1, <1>2, <1>3, <1>5, <1>6, <1>7, <1>8, <1>9, <1>10, <1>11 DEF Next

\* Through broken streams, lost and late answers, refusals, changes of user and
\* relaunches, each user's part of the client is a FirestoreClient: its writes are taken
\* and answered in order, and each callback is run at most once, with the answer to its
\* own write or a refusal.
THEOREM StreamsImplementClient == Spec => KeepsFirestorePromises
<1>1. Init => Client!ClientInit
  <2> SUFFICES ASSUME Init PROVE Client!ClientInit
    OBVIOUS
  <2>1. /\ queue[Owner] = <<>> /\ answers[Owner] = <<>> /\ down = <<>>
        /\ created = {} /\ server = {} /\ cached = {}
    BY RefinementAssumption DEF Init, WriteInit
  <2>2. OwnQueue = <<>>
    BY <2>1 DEF OwnQueue
  <2> QED BY <2>1, <2>2 DEF Client!ClientInit, OwnWritten, OwnTaken
<1>2. StreamInv /\ [Next]_vars => [ClientNext]_(Client!clientVars)
  BY NextIsClientNext
<1> QED BY <1>1, <1>2, StreamInvAlways, PTL DEF Spec, KeepsFirestorePromises

=============================================================================
