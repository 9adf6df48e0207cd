------------------------------- MODULE Streams -------------------------------
(***************************************************************************)
(* What the Firestore client's two streams to the backend have in common   *)
(* (the class Stream), and where their credentials come from: a stream     *)
(* that starts asks Auth and App Check for a token each.  Once both have   *)
(* answered a task goes to the client's one worker queue, as does each     *)
(* change of user at the moment Auth announces it.                         *)
(*                                                                         *)
(* The code's state Starting is three phases here: "asking" until Auth has *)
(* answered, "answered" until App Check has too, and "granted" until the   *)
(* worker queue has come to their task.  Open and Healthy are one, and the *)
(* write stream is "ready" once its handshake is answered.  A stream is    *)
(* open as soon as its call is made: nothing has been heard from the       *)
(* server then.                                                            *)
(***************************************************************************)
EXTENDS Naturals, Sequences

CONSTANTS Users,       \* who can be signed in; being signed out is one of them
          NoUser       \* the token of a stream that has none

StreamNames == {"write", "watch"}

ASSUME UsersAssumption == NoUser \notin Users

VARIABLES signedIn,    \* contents_->current_user of the Auth credentials provider
          tasks,       \* its messages on the worker queue, oldest first
          phase,       \* Stream::state_, of each stream
          token,       \* whose token the stream, once answered, has
          idle         \* Stream::idleness_timer_ runs

streamVars == <<signedIn, tasks, phase, token, idle>>

Phases == {"initial", "asking", "answered", "granted", "open", "ready", "error", "backoff"}

NewUser(user) == [kind |-> "user", user |-> user]
NewToken(s, user) == [kind |-> "token", stream |-> s, user |-> user, fresh |-> TRUE]

IsOpen(s) == phase[s] \in {"open", "ready"}
IsStarted(s) == phase[s] \notin {"initial", "error"}

\* Start(): after an error the stream backs off first.
Started(before) == IF before = "error" THEN "backoff" ELSE "asking"

\* Mutant of Void: a stream's answers survive its closing.
VoidNothing(queue, closed) == queue

\* ++close_count_: what Auth has answered the closed streams is void.
Void(queue, closed) ==
  [i \in DOMAIN queue |->
     IF queue[i].kind = "token" /\ queue[i].stream \in closed
       THEN [queue[i] EXCEPT !.fresh = FALSE] ELSE queue[i]]

StreamsInit ==
  /\ signedIn \in Users
  /\ tasks = <<>>
  /\ phase = [s \in StreamNames |-> "initial"]
  /\ token = [s \in StreamNames |-> NoUser]
  /\ idle = [s \in StreamNames |-> FALSE]

\* Auth's notification: who is signed in has changed, or was announced again.
SignIn(user) ==
  /\ signedIn' = user
  /\ tasks' = Append(tasks, NewUser(user))
  /\ UNCHANGED <<phase, token, idle>>

\* GetToken's completion.  If the user changed since the request, the code asks
\* again: the token is always that of the user signed in when it comes.
AuthAnswers(s) ==
  /\ phase[s] = "asking"
  /\ phase' = [phase EXCEPT ![s] = "answered"]
  /\ token' = [token EXCEPT ![s] = signedIn]
  /\ UNCHANGED <<signedIn, tasks, idle>>

\* App Check's answer, which comes after Auth's or is waiting for it; by now another
\* user may be signed in.
AppCheckAnswers(s) ==
  /\ phase[s] = "answered"
  /\ phase' = [phase EXCEPT ![s] = "granted"]
  /\ tasks' = Append(tasks, NewToken(s, token[s]))
  /\ UNCHANGED <<signedIn, token, idle>>

\* The worker queue comes to a token whose stream was closed since.
SkipToken ==
  /\ tasks # <<>> /\ Head(tasks).kind = "token" /\ ~Head(tasks).fresh
  /\ tasks' = Tail(tasks)
  /\ UNCHANGED <<signedIn, phase, token, idle>>

\* ResumeStartWithCredentials, OnStreamStart: the call is made and the stream open.
Resumes(s) ==
  /\ tasks # <<>> /\ Head(tasks).kind = "token" /\ Head(tasks).fresh
  /\ Head(tasks).stream = s
  /\ tasks' = Tail(tasks)
  /\ phase' = [phase EXCEPT ![s] = "open"]
  /\ token' = [token EXCEPT ![s] = Head(tasks).user]
  /\ UNCHANGED <<signedIn, idle>>

\* Mutant of Closes: the idle timer runs on.
ClosesStillIdle(s, after) ==
  /\ tasks' = Void(tasks, {s})
  /\ phase' = [phase EXCEPT ![s] = after]
  /\ token' = [token EXCEPT ![s] = NoUser]
  /\ UNCHANGED <<signedIn, idle>>

\* Close(status), and the phase its listener leaves the stream in.
Closes(s, after) ==
  /\ tasks' = Void(tasks, {s})
  /\ phase' = [phase EXCEPT ![s] = after]
  /\ token' = [token EXCEPT ![s] = NoUser]
  /\ idle' = [idle EXCEPT ![s] = FALSE]
  /\ UNCHANGED signedIn

\* The attempt fails, or the open stream breaks.
MayFail(s) == phase[s] \in {"asking", "open", "ready"}

BackoffElapses(s) ==
  /\ phase[s] = "backoff"
  /\ phase' = [phase EXCEPT ![s] = "asking"]
  /\ UNCHANGED <<signedIn, tasks, token, idle>>

=============================================================================
