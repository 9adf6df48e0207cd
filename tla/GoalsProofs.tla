----------------------------- MODULE GoalsProofs -----------------------------
(***************************************************************************)
(* Theorems about the Goals tab, for every set of ids and titles and every *)
(* bound.  They rest on one inductive invariant, IInv; what calm use adds, *)
(* on CalmInv: one call at a time.                                         *)
(*                                                                         *)
(* TypeOK alone is not inductive: a fetched row is a Goal only if its id   *)
(* was ever written, so every id that travels through the queues must be   *)
(* one that was.  The sets below say, of each kind of datum in flight,     *)
(* what is known of it; written never changes under a known id and         *)
(* confirmed only grows, so the sets only grow, and a sequence over one of *)
(* them stays a sequence over it.                                          *)
(***************************************************************************)
EXTENDS GoalsCalm, ClientProofs

KnownRow == {goal \in Goal :
               goal.uuid # NoId => goal.uuid \in Known /\ goal = FetchedGoal(goal.uuid)}

AnyWrite == [op : {"set", "delete"}, id : DocIds, callback : Callback \cup {NoCallback}]

KnownWrite == {w \in AnyWrite :
                 /\ w.id \in Known
                 /\ w.op = "delete" => written[w.id] \in confirmed}

KnownEvent == [callback : Callback, ok : BOOLEAN, ids : SUBSET Known]

StoreInv ==
  /\ written \in [DocIds -> Document \cup {NoDoc}]
  /\ server \subseteq Known
  /\ cached \subseteq Known
  /\ confirmed \subseteq Document

QueueInv ==
  /\ pending \in Seq(KnownWrite)
  /\ queries \subseteq Callback /\ IsFiniteSet(queries)
  /\ mainQueue \in Seq(KnownEvent)

ScreenInv ==
  /\ app \in {"signedOut", "home", "crashed"}
  /\ goals \in Seq(KnownRow)
  /\ ui \in {"list", "form", "confirm"}
  /\ IF ui = "confirm" THEN dialog \in [row : Nat \ {0}, goal : KnownRow]
                       ELSE dialog = NoDialog
  /\ alert \in BOOLEAN
  /\ clock \in 0 .. MaxClock
  /\ app # "home" => goals = <<>> /\ ui = "list" /\ ~alert

IInv == StoreInv /\ QueueInv /\ ScreenInv

\* What the server has taken is a prefix of the queue.
TakenInv == taken \in 0 .. Len(pending)

-----------------------------------------------------------------------------
(* What is known stays known. *)

\* The effect every step has on the store and the history.
Grows ==
  /\ written' \in [DocIds -> Document \cup {NoDoc}]
  /\ \A id \in Known : written'[id] = written[id]
  /\ confirmed \subseteq confirmed'
  /\ confirmed' \subseteq Document

LEMMA KnownGrows ==
  ASSUME Grows
  PROVE  /\ Known \subseteq Known'
         /\ KnownRow \subseteq KnownRow'
         /\ KnownWrite \subseteq KnownWrite'
         /\ KnownEvent \subseteq KnownEvent'
<1>1. Known \subseteq Known'
  BY DEF Grows, Known
<1>2. KnownRow \subseteq KnownRow'
  BY <1>1 DEF Grows, KnownRow, FetchedGoal
<1>3. KnownWrite \subseteq KnownWrite'
  BY <1>1 DEF Grows, KnownWrite
<1>4. KnownEvent \subseteq KnownEvent'
  BY <1>1 DEF KnownEvent
<1> QED
  BY <1>1, <1>2, <1>3, <1>4

LEMMA SequencesGrow ==
  ASSUME Grows
  PROVE  /\ Seq(KnownRow) \subseteq Seq(KnownRow')
         /\ Seq(KnownWrite) \subseteq Seq(KnownWrite')
         /\ Seq(KnownEvent) \subseteq Seq(KnownEvent')
BY KnownGrows, SeqMonotonic

-----------------------------------------------------------------------------
(* Callbacks *)

LEMMA OrphanedTyped ==
  ASSUME NEW c \in Callback \cup {NoCallback}
  PROVE  Orphaned(c) \in Callback \cup {NoCallback} /\ (c \in Callback /\ c # NoCallback => Orphaned(c) \in Callback)
BY DEF Orphaned, Callback

LEMMA CallbacksTyped ==
  ASSUME NEW goal \in NewGoal, NEW row \in Nat \ {0}, NEW live \in BOOLEAN
  PROVE  /\ FetchDone(live) \in Callback
         /\ InsertDone(goal, live) \in Callback
         /\ DeleteDone(row, live) \in Callback
BY DEF FetchDone, InsertDone, DeleteDone, Callback

-----------------------------------------------------------------------------
(* Initial states *)

LEMMA InitIInv == Init => IInv
<1> SUFFICES ASSUME Init PROVE IInv
  OBVIOUS
<1>1. StoreInv
  BY DEF Init, ClientInit, StoreInv, Known
<1>2. QueueInv
  BY EmptySeq, FS_EmptySet DEF Init, ClientInit, QueueInv
<1>3. ScreenInv
  <2>1. goals \in Seq(KnownRow) /\ clock \in 0 .. MaxClock
    BY EmptySeq, GoalsAssumption DEF Init
  <2> QED
    BY <2>1 DEF Init, ScreenInv
<1> QED
  BY <1>1, <1>2, <1>3 DEF IInv

-----------------------------------------------------------------------------
(* The parts of actions that several of them share. *)

\* The process ends: queued writes lose their callbacks, everything else is kept.
LEMMA DyingKeepsQueues ==
  ASSUME IInv, ProcessDies, confirmed' = confirmed
  PROVE  StoreInv' /\ QueueInv'
<1>1. Grows
  BY DEF IInv, StoreInv, ProcessDies, Grows
<1>2. StoreInv'
  BY DEF IInv, StoreInv, ProcessDies, Known
<1>3. pending' \in Seq(KnownWrite)
  <2>1. \A i \in 1 .. Len(pending) :
           [pending[i] EXCEPT !.callback = NoCallback] \in KnownWrite
    BY ElementOfSeq DEF IInv, QueueInv, KnownWrite, AnyWrite
  <2>2. DOMAIN pending = 1 .. Len(pending) /\ Len(pending) \in Nat
    BY LenProperties DEF IInv, QueueInv
  <2> QED
    BY <2>1, <2>2, IsASeq DEF ProcessDies
<1>4. QueueInv'
  BY <1>1, <1>3, SequencesGrow, EmptySeq, FS_EmptySet DEF ProcessDies, QueueInv
<1> QED
  BY <1>2, <1>4

LEMMA NoScreenInv ==
  ASSUME NoScreen, app' \in {"signedOut", "home", "crashed"}, clock' \in 0 .. MaxClock
  PROVE  ScreenInv'
BY EmptySeq DEF NoScreen, ScreenInv

LEMMA CrashInv ==
  ASSUME IInv, Crash, clock' \in 0 .. MaxClock
  PROVE  IInv'
<1>1. StoreInv' /\ QueueInv'
  BY DyingKeepsQueues DEF Crash
<1>2. ScreenInv'
  BY NoScreenInv DEF Crash
<1> QED
  BY <1>1, <1>2 DEF IInv

\* The store and the history are untouched: whatever was known is still the same.
LEMMA SameStore ==
  ASSUME IInv, UNCHANGED <<written, server, cached, confirmed>>
  PROVE  StoreInv' /\ Grows
BY DEF IInv, StoreInv, Grows, Known

\* Taking an event off the main queue, the rest of the client untouched.
LEMMA TakeEventInv ==
  ASSUME IInv, TakeEvent, UNCHANGED <<written, server, cached, pending, taken, queries, confirmed>>
  PROVE  StoreInv' /\ QueueInv' /\ Grows
<1>1. StoreInv' /\ Grows
  BY SameStore
<1>2. mainQueue' \in Seq(KnownEvent)
  BY HeadTailProperties DEF IInv, QueueInv, TakeEvent
<1>3. QueueInv'
  BY <1>1, <1>2, SequencesGrow DEF IInv, QueueInv
<1> QED
  BY <1>1, <1>3

\* Only the screen changes.
LEMMA ClientUntouched ==
  ASSUME IInv, UNCHANGED <<clientVars, confirmed>>
  PROVE  StoreInv' /\ QueueInv' /\ Grows
<1>1. StoreInv' /\ Grows
  BY SameStore DEF clientVars
<1>2. QueueInv'
  BY <1>1, SequencesGrow DEF IInv, QueueInv, clientVars
<1> QED
  BY <1>1, <1>2

\* Only the client changes, and what is known grows.
LEMMA ScreenUntouched ==
  ASSUME IInv, Grows, UNCHANGED <<screenVars>>, clock' \in 0 .. MaxClock
  PROVE  ScreenInv'
<1>1. goals' \in Seq(KnownRow')
  BY SequencesGrow DEF IInv, ScreenInv, screenVars
<1>2. IF ui' = "confirm" THEN dialog' \in [row : Nat \ {0}, goal : KnownRow']
                         ELSE dialog' = NoDialog
  BY KnownGrows DEF IInv, ScreenInv, screenVars
<1> QED
  BY <1>1, <1>2 DEF IInv, ScreenInv, screenVars

-----------------------------------------------------------------------------
(* The client *)

LEMMA HeadOfPending ==
  ASSUME IInv, pending # <<>>
  PROVE  /\ Head(pending) \in KnownWrite
         /\ Tail(pending) \in Seq(KnownWrite)
BY HeadTailProperties DEF IInv, QueueInv

LEMMA PostInv ==
  ASSUME IInv, NEW c \in Callback \cup {NoCallback}, NEW ok \in BOOLEAN, Post(c, ok)
  PROVE  mainQueue' \in Seq(KnownEvent)
<1>1. CASE c = NoCallback
  BY <1>1 DEF Post, IInv, QueueInv
<1>2. CASE c # NoCallback
  <2>1. Event(c, ok, {}) \in KnownEvent
    BY <1>2 DEF Event, KnownEvent
  <2> QED
    BY <1>2, <2>1, AppendProperties DEF Post, IInv, QueueInv
<1> QED
  BY <1>1, <1>2

LEMMA AnswerNeedsWrite ==
  ASSUME TakenInv, Acknowledge \/ Reject
  PROVE  pending # <<>>
<1>1. Acknowledge => taken > 0 /\ taken \in 0 .. Len(pending)
  BY DEF Acknowledge, TakenInv
<1>2. Len(<<>>) = 0
  OBVIOUS
<1>3. Reject => pending # <<>>
  BY DEF Reject
<1> QED
  BY <1>1, <1>2, <1>3

LEMMA AnswerToWrite ==
  ASSUME IInv, TakenInv, Acknowledge \/ Reject, UNCHANGED confirmed
  PROVE  StoreInv' /\ QueueInv' /\ Grows
<1>1. pending # <<>>
  BY AnswerNeedsWrite
<1>2. PICK ok \in BOOLEAN : Settle(ok)
  BY DEF Acknowledge, Reject
<1>3. Head(pending) \in KnownWrite /\ pending' \in Seq(KnownWrite)
  BY <1>1, <1>2, HeadOfPending DEF Settle
<1>4. mainQueue' \in Seq(KnownEvent)
  BY <1>2, <1>3, PostInv DEF Settle, KnownWrite, AnyWrite
<1>5. Grows
  BY <1>2 DEF Grows, IInv, StoreInv, Settle
<1>6. StoreInv'
  BY <1>2, <1>3 DEF IInv, StoreInv, Known, Settle, Acknowledge, Reject, Effect, KnownWrite
<1>7. QueueInv'
  BY <1>2, <1>3, <1>4, <1>5, SequencesGrow DEF QueueInv, IInv, Settle
<1> QED
  BY <1>5, <1>6, <1>7

\* The write the server takes next is one of the queue's.
LEMMA NextToTake ==
  ASSUME IInv, TakenInv, ServerTakes
  PROVE  pending[taken + 1] \in KnownWrite
<1>1. taken + 1 \in 1 .. Len(pending)
  BY LenProperties DEF ServerTakes, TakenInv, IInv, QueueInv
<1> QED
  BY <1>1, ElementOfSeq DEF IInv, QueueInv

LEMMA StreamInv ==
  ASSUME IInv, TakenInv, ServerTakes \/ StreamBreaks, UNCHANGED confirmed
  PROVE  StoreInv' /\ QueueInv' /\ Grows
<1>1. Grows
  BY DEF Grows, IInv, StoreInv, ServerTakes, StreamBreaks
<1>2. StoreInv'
  BY NextToTake DEF IInv, StoreInv, Known, ServerTakes, StreamBreaks, Effect, KnownWrite
<1>3. QueueInv'
  BY <1>1, SequencesGrow DEF QueueInv, IInv, ServerTakes, StreamBreaks
<1> QED
  BY <1>1, <1>2, <1>3

LEMMA AnswerToQuery ==
  ASSUME IInv, NEW ok \in BOOLEAN, NEW ids \in SUBSET Known,
         Answer(ok, ids), cached' \in SUBSET Known,
         UNCHANGED <<written, server, pending, confirmed>>
  PROVE  StoreInv' /\ QueueInv' /\ Grows
<1>1. Grows
  BY DEF Grows, IInv, StoreInv
<1>2. StoreInv'
  BY DEF IInv, StoreInv, Known
<1>3. mainQueue' \in Seq(KnownEvent)
  <2>1. PICK calls \in SetToSeqs(queries) : mainQueue' = Joined(mainQueue, calls, ok, ids)
    BY DEF Answer, Joined
  <2>2. \A c \in queries : Event(c, ok, ids) \in KnownEvent
    BY DEF IInv, QueueInv, Event, KnownEvent
  <2> QED
    BY <2>1, <2>2, EventsJoin DEF IInv, QueueInv
<1>4. QueueInv'
  BY <1>1, <1>3, SequencesGrow, FS_EmptySet DEF QueueInv, IInv, Answer
<1> QED
  BY <1>1, <1>2, <1>4

\* What ClientProofs knows of a client is known of this one.
LEMMA ClientInvHere ==
  ASSUME IInv, TakenInv
  PROVE  ClientInv(Document, Callback, DocIds)
<1>1. KnownWrite \subseteq Writes(Callback, DocIds) /\ KnownEvent \subseteq Events(Callback)
  BY DEF KnownWrite, AnyWrite, Writes, KnownEvent, Events, Known
<1>2. pending \in Seq(Writes(Callback, DocIds)) /\ mainQueue \in Seq(Events(Callback))
  BY <1>1, SeqMonotonic DEF IInv, QueueInv
<1>3. /\ \A i \in DOMAIN pending : pending[i] \in KnownWrite
      /\ \A i \in DOMAIN mainQueue : mainQueue[i] \in KnownEvent
  BY LenProperties, ElementOfSeq DEF IInv, QueueInv
<1>4. PendingIds("set") \subseteq Known /\ \A i \in DOMAIN mainQueue : mainQueue[i].ids \subseteq Known
  BY <1>3 DEF PendingIds, KnownWrite, KnownEvent
<1> QED
  BY <1>2, <1>4, ClientInvIs DEF IInv, StoreInv, QueueInv, TakenInv

LEMMA ClientStepInv ==
  ASSUME IInv, TakenInv, ClientStep, UNCHANGED confirmed
  PROVE  StoreInv' /\ QueueInv' /\ Grows
<1>1. CASE Acknowledge \/ Reject
  BY <1>1, AnswerToWrite
<1>2. CASE AnswerFromServer
  BY <1>2, ClientInvHere, ViewIsKnown, AnswerToQuery DEF AnswerFromServer, IInv, StoreInv
<1>3. CASE AnswerFromCache
  BY <1>3, ClientInvHere, ViewIsKnown, AnswerToQuery DEF AnswerFromCache, IInv, StoreInv
<1>4. CASE FailQuery
  BY <1>4, AnswerToQuery DEF FailQuery, IInv, StoreInv
<1>5. CASE ServerTakes \/ StreamBreaks
  BY <1>5, StreamInv
<1> QED
  BY <1>1, <1>2, <1>3, <1>4, <1>5 DEF ClientStep

\* A document appears under a fresh id, in the queue or on the server.
LEMMA WrittenGrows ==
  ASSUME IInv, NEW id \in Fresh, NEW doc \in Document,
         written' = [written EXCEPT ![id] = doc], UNCHANGED confirmed
  PROVE  Grows /\ id \in Known'
<1>1. NoDoc \notin Document
  BY GoalsAssumption
<1> QED
  BY <1>1 DEF IInv, StoreInv, Grows, Known, Fresh

LEMMA OtherDeviceInv ==
  ASSUME IInv, UNCHANGED confirmed,
         OtherDeviceDeletes \/ \E doc \in Document : OtherDeviceAdds(doc)
  PROVE  StoreInv' /\ QueueInv' /\ Grows
<1>1. StoreInv' /\ Grows
  <2>1. CASE OtherDeviceDeletes
    BY <2>1 DEF OtherDeviceDeletes, IInv, StoreInv, Grows, Known
  <2>2. CASE \E doc \in Document : OtherDeviceAdds(doc)
    <3>1. PICK doc \in Document, id \in Fresh :
             /\ written' = [written EXCEPT ![id] = doc]
             /\ server' = server \cup {id} /\ cached' = cached
      BY <2>2 DEF OtherDeviceAdds
    <3>2. Grows /\ id \in Known'
      BY <3>1, WrittenGrows
    <3> QED
      BY <3>1, <3>2, KnownGrows DEF IInv, StoreInv, Grows
  <2> QED
    BY <2>1, <2>2
<1>2. UNCHANGED <<pending, queries, mainQueue>>
  BY DEF OtherDeviceDeletes, OtherDeviceAdds
<1>3. QueueInv'
  BY <1>1, <1>2, SequencesGrow DEF IInv, QueueInv
<1> QED
  BY <1>1, <1>3

-----------------------------------------------------------------------------
(* The rows *)

LEMMA LocalGoalTyped ==
  ASSUME NEW doc \in Document
  PROVE  LocalGoal(doc) \in KnownRow /\ LocalGoal(doc) \in NewGoal
BY DEF LocalGoal, Document, KnownRow, Goal, NewGoal

LEMMA NewGoalsAreKnown == NewGoal \subseteq KnownRow /\ NewGoal \subseteq Goal
BY DEF NewGoal, KnownRow, Goal

LEMMA ToggledTyped ==
  ASSUME NEW goal \in Goal
  PROVE  Toggled(goal) \in KnownRow
<1>1. DocumentOf(goal) \in Document
  BY DEF DocumentOf, Document, Goal
<1> QED
  BY <1>1, LocalGoalTyped DEF Toggled

LEMMA FetchedGoalTyped ==
  ASSUME IInv, NEW id \in Known
  PROVE  FetchedGoal(id) \in KnownRow
<1>1. written[id] \in Document /\ id \in DocIds
  BY DEF IInv, StoreInv, Known
<1> QED
  BY <1>1 DEF FetchedGoal, KnownRow, Goal, Document

LEMMA NewestFirstTyped ==
  ASSUME IInv, NEW ids \in SUBSET Known, NEW rows \in NewestFirst(ids)
  PROVE  rows \in Seq(KnownRow)
<1>1. Cardinality(ids) \in Nat
  BY GoalsAssumption, FS_Subset, FS_CardinalityType DEF Known
<1>2. rows \in [1 .. Cardinality(ids) -> KnownRow]
  BY FetchedGoalTyped DEF NewestFirst
<1> QED
  BY <1>1, <1>2, IsASeq

LEMMA RowsOfGoals ==
  ASSUME IInv, NEW row \in DOMAIN goals
  PROVE  goals[row] \in KnownRow /\ goals[row] \in Goal /\ row \in Nat \ {0}
BY LenProperties, ElementOfSeq DEF IInv, ScreenInv, KnownRow

\* An action of the open tab that changes only rows, overlay, view or dialog.
LEMMA ScreenStepInv ==
  ASSUME IInv, Grows, app' = app, app = "home", clock' \in 0 .. MaxClock,
         goals' \in Seq(KnownRow), alert' \in BOOLEAN,
         ui' \in {"list", "form", "confirm"},
         IF ui' = "confirm" THEN dialog' \in [row : Nat \ {0}, goal : KnownRow]
                            ELSE dialog' = NoDialog
  PROVE  ScreenInv'
<1>1. goals' \in Seq(KnownRow')
  BY SequencesGrow
<1>2. IF ui' = "confirm" THEN dialog' \in [row : Nat \ {0}, goal : KnownRow']
                         ELSE dialog' = NoDialog
  BY KnownGrows
<1>3. alert' \in BOOLEAN /\ (app' # "home" => goals' = <<>> /\ ui' = "list" /\ ~alert')
  OBVIOUS
<1> QED
  BY <1>1, <1>2, <1>3 DEF IInv, ScreenInv

-----------------------------------------------------------------------------
(* One lemma per group of actions *)

LEMMA SessionInv ==
  ASSUME IInv, OpenGoals \/ SignOut \/ Relaunch
  PROVE  IInv'
<1>1. CASE OpenGoals
  <2>1. StoreInv' /\ Grows
    BY <1>1, SameStore DEF OpenGoals, GetDocuments
  <2>2. QueueInv'
    <3>1. FetchDone(TRUE) \in Callback
      BY DEF FetchDone, Callback
    <3>2. /\ queries' = queries \cup {FetchDone(TRUE)}
          /\ UNCHANGED <<pending, mainQueue>>
      BY <1>1 DEF OpenGoals, GetDocuments
    <3> QED
      BY <2>1, <3>1, <3>2, SequencesGrow, FS_AddElement DEF IInv, QueueInv
  <2>3. ScreenInv'
    BY <1>1, NoScreenInv DEF OpenGoals, IInv, ScreenInv
  <2> QED
    BY <2>1, <2>2, <2>3 DEF IInv
<1>2. CASE SignOut
  <2>1. StoreInv' /\ Grows
    BY <1>2, SameStore DEF SignOut
  <2>2. pending' \in Seq(KnownWrite)
    <3>1. \A i \in 1 .. Len(pending) :
            [pending[i] EXCEPT !.callback = Orphaned(@)] \in KnownWrite
      <4> TAKE i \in 1 .. Len(pending)
      <4>1. pending[i] \in KnownWrite
        BY ElementOfSeq DEF IInv, QueueInv
      <4>2. Orphaned(pending[i].callback) \in Callback \cup {NoCallback}
        BY <4>1, OrphanedTyped DEF KnownWrite, AnyWrite
      <4> QED
        BY <4>1, <4>2 DEF KnownWrite, AnyWrite
    <3>2. DOMAIN pending = 1 .. Len(pending) /\ Len(pending) \in Nat
      BY LenProperties DEF IInv, QueueInv
    <3> QED
      BY <1>2, <3>1, <3>2, IsASeq DEF SignOut
  <2>3. \A c \in Callback : Orphaned(c) \in Callback
    BY DEF Orphaned, Callback
  <2>4. queries' \subseteq Callback /\ IsFiniteSet(queries')
    <3> DEFINE orphan == [c \in queries |-> Orphaned(c)]
    <3>1. queries' = {Orphaned(c) : c \in queries}
      BY <1>2 DEF SignOut
    <3>2. orphan \in Surjection(queries, queries')
      BY <3>1, Fun_IsSurj
    <3>3. IsFiniteSet(queries')
      BY <3>2, FS_Surjection DEF IInv, QueueInv
    <3> QED
      BY <2>3, <3>1, <3>3 DEF IInv, QueueInv
  <2>5. mainQueue' \in Seq(KnownEvent)
    <3>1. \A i \in 1 .. Len(mainQueue) :
            [mainQueue[i] EXCEPT !.callback = Orphaned(@)] \in KnownEvent
      <4> TAKE i \in 1 .. Len(mainQueue)
      <4>1. mainQueue[i] \in KnownEvent
        BY ElementOfSeq DEF IInv, QueueInv
      <4>2. Orphaned(mainQueue[i].callback) \in Callback
        BY <2>3, <4>1 DEF KnownEvent
      <4> QED
        BY <4>1, <4>2 DEF KnownEvent
    <3>2. DOMAIN mainQueue = 1 .. Len(mainQueue) /\ Len(mainQueue) \in Nat
      BY LenProperties DEF IInv, QueueInv
    <3> QED
      BY <1>2, <3>1, <3>2, IsASeq DEF SignOut
  <2>6. QueueInv'
    BY <2>1, <2>2, <2>4, <2>5, SequencesGrow DEF QueueInv
  <2>7. ScreenInv'
    BY <1>2, NoScreenInv DEF SignOut, IInv, ScreenInv
  <2> QED
    BY <2>1, <2>6, <2>7 DEF IInv
<1>3. CASE Relaunch
  <2>1. StoreInv' /\ QueueInv'
    BY <1>3, DyingKeepsQueues DEF Relaunch
  <2>2. ScreenInv'
    BY <1>3, NoScreenInv DEF Relaunch, IInv, ScreenInv
  <2> QED
    BY <2>1, <2>2 DEF IInv
<1> QED
  BY <1>1, <1>2, <1>3

LEMMA OverwriteInv ==
  ASSUME IInv, app = "home", ui = "form", clock' \in 0 .. MaxClock,
         NEW goal \in KnownRow, Overwrite(goal)
  PROVE  IInv'
<1>1. PICK row \in Unidentified :
        /\ goals' = [goals EXCEPT ![row] = goal]
        /\ ui' = "list"
        /\ UNCHANGED <<clientVars, app, dialog, alert, confirmed>>
  BY DEF Overwrite
<1>2. goals' \in Seq(KnownRow)
  BY <1>1, ReplaceInSeq DEF Unidentified, IInv, ScreenInv
<1>3. StoreInv' /\ QueueInv' /\ Grows
  BY <1>1, ClientUntouched
<1>4. ScreenInv'
  BY <1>1, <1>2, <1>3, ScreenStepInv DEF IInv, ScreenInv
<1> QED
  BY <1>3, <1>4 DEF IInv

LEMMA PersistInv ==
  ASSUME IInv, app = "home", ui = "form", clock' \in 0 .. MaxClock,
         NEW goal \in NewGoal, DocumentOf(goal) \in Document, Persist(goal)
  PROVE  IInv'
<1>1. PICK id \in Fresh :
         /\ written' = [written EXCEPT ![id] = DocumentOf(goal)]
         /\ pending' = Append(pending, Write("set", id, InsertDone(goal, TRUE)))
         /\ UNCHANGED <<server, cached, queries, mainQueue>>
  BY DEF Persist, AddDocument, SetDocument
<1>2. UNCHANGED <<app, goals, dialog, alert, confirmed>> /\ ui' = "list"
  BY DEF Persist
<1>3. Grows /\ id \in Known'
  BY <1>1, <1>2, WrittenGrows
<1>4. StoreInv'
  BY <1>1, <1>2, <1>3, KnownGrows DEF IInv, StoreInv, Grows
<1>5. Write("set", id, InsertDone(goal, TRUE)) \in KnownWrite'
  <2>1. InsertDone(goal, TRUE) \in Callback
    BY DEF InsertDone, Callback
  <2>2. id \in DocIds
    BY DEF Fresh
  <2> QED
    BY <1>3, <2>1, <2>2 DEF Write, KnownWrite, AnyWrite
<1>6. QueueInv'
  BY <1>1, <1>3, <1>5, SequencesGrow, AppendProperties DEF IInv, QueueInv
<1>7. ScreenInv'
  BY <1>2, <1>3, ScreenStepInv DEF IInv, ScreenInv
<1> QED
  BY <1>4, <1>6, <1>7 DEF IInv

LEMMA FormInv ==
  ASSUME IInv, OpenForm \/ CancelForm \/ SaveGoal
  PROVE  IInv'
<1>1. CASE OpenForm \/ CancelForm
  <2>1. StoreInv' /\ QueueInv' /\ Grows
    BY <1>1, ClientUntouched DEF OpenForm, CancelForm
  <2>2. ScreenInv'
    BY <1>1, <2>1, ScreenStepInv DEF OpenForm, CancelForm, IInv, ScreenInv
  <2> QED
    BY <2>1, <2>2 DEF IInv
<1>2. CASE SaveGoal
  <2>1. clock' \in Dates /\ clock' \in 0 .. MaxClock /\ clock' = clock + 1
    BY <1>2, GoalsAssumption DEF SaveGoal, IInv, ScreenInv, Dates
  <2>2. PICK title \in Titles :
          LET goal == LocalGoal([title |-> title, date |-> clock + 1])
          IN IF Unidentified = {} THEN Persist(goal) ELSE Overwrite(goal)
    BY <1>2 DEF SaveGoal
  <2> DEFINE goal == LocalGoal([title |-> title, date |-> clock + 1])
  <2>3. [title |-> title, date |-> clock + 1] \in Document
    BY <2>1 DEF Document
  <2>4. goal \in KnownRow /\ goal \in NewGoal
    BY <2>3, LocalGoalTyped
  <2>5. DocumentOf(goal) \in Document
    BY <2>3 DEF DocumentOf, LocalGoal
  <2>6. Persist(goal) \/ Overwrite(goal)
    BY <2>2
  <2>7. app = "home" /\ ui = "form"
    BY <1>2 DEF SaveGoal
  <2> QED
    BY <2>1, <2>4, <2>5, <2>6, <2>7, PersistInv, OverwriteInv
<1> QED
  BY <1>1, <1>2

LEMMA RowsInv ==
  ASSUME IInv, SwipeComplete \/ TouchCheckbox \/ DismissAlert \/ SwipeDelete \/ CancelDelete
  PROVE  IInv'
<1>1. StoreInv' /\ QueueInv' /\ Grows
  BY ClientUntouched DEF SwipeComplete, TouchCheckbox, DismissAlert, SwipeDelete, CancelDelete
<1>2. CASE SwipeComplete \/ TouchCheckbox
  <2>1. PICK row \in DOMAIN goals : goals' = [goals EXCEPT ![row] = Toggled(goals[row])]
    BY <1>2 DEF SwipeComplete, TouchCheckbox
  <2>2. goals' \in Seq(KnownRow)
    BY <2>1, RowsOfGoals, ToggledTyped, ReplaceInSeq DEF IInv, ScreenInv
  <2>3. app = "home" /\ ui = "list" /\ alert' \in BOOLEAN
        /\ UNCHANGED <<app, ui, dialog, clock>>
    BY <1>2 DEF SwipeComplete, TouchCheckbox, TableUsable, IInv, ScreenInv
  <2>4. ScreenInv'
    BY <1>1, <2>2, <2>3, ScreenStepInv DEF IInv, ScreenInv
  <2> QED
    BY <1>1, <2>4 DEF IInv
<1>3. CASE DismissAlert \/ CancelDelete
  <2>1. ScreenInv'
    BY <1>1, <1>3, ScreenStepInv DEF DismissAlert, CancelDelete, IInv, ScreenInv
  <2> QED
    BY <1>1, <2>1 DEF IInv
<1>4. CASE SwipeDelete
  <2>1. PICK row \in DOMAIN goals : dialog' = [row |-> row, goal |-> goals[row]]
    BY <1>4 DEF SwipeDelete
  <2>2. dialog' \in [row : Nat \ {0}, goal : KnownRow]
    BY <2>1, RowsOfGoals
  <2>3. ScreenInv'
    BY <1>1, <1>4, <2>2, ScreenStepInv DEF SwipeDelete, TableUsable, IInv, ScreenInv
  <2> QED
    BY <1>1, <2>3 DEF IInv
<1> QED
  BY <1>2, <1>3, <1>4

LEMMA ConfirmInv ==
  ASSUME IInv, ConfirmDelete
  PROVE  IInv'
<1> DEFINE goal == dialog.goal
<1>1. app = "home" /\ ui = "confirm" /\ clock' = clock /\ clock \in 0 .. MaxClock
  BY DEF ConfirmDelete, IInv, ScreenInv
<1>2. dialog.row \in Nat \ {0} /\ goal \in KnownRow
  BY <1>1 DEF IInv, ScreenInv
<1>3. CASE goal.uuid = NoId
  BY <1>1, <1>3, CrashInv DEF ConfirmDelete
<1>4. CASE goal.uuid # NoId
  <2>1. /\ DeleteDocument(goal.uuid, DeleteDone(dialog.row, TRUE))
        /\ confirmed' = confirmed \cup {DocumentOf(goal)}
        /\ ui' = "list" /\ dialog' = NoDialog
        /\ UNCHANGED <<app, goals, alert>>
    BY <1>4 DEF ConfirmDelete
  <2>2. goal.uuid \in Known /\ goal = FetchedGoal(goal.uuid)
    BY <1>2, <1>4 DEF KnownRow
  <2>3. written[goal.uuid] \in Document
    BY <2>2 DEF IInv, StoreInv, Known
  <2>4. DocumentOf(goal) = written[goal.uuid]
    BY <2>2, <2>3 DEF DocumentOf, FetchedGoal, Document
  <2>5. UNCHANGED <<written, server, cached, queries, mainQueue>>
    BY <2>1 DEF DeleteDocument
  <2>6. Grows
    BY <2>1, <2>3, <2>4, <2>5 DEF Grows, IInv, StoreInv
  <2>7. StoreInv'
    BY <2>5, <2>6 DEF Grows, IInv, StoreInv, Known
  <2>8. Write("delete", goal.uuid, DeleteDone(dialog.row, TRUE)) \in KnownWrite'
    <3>1. DeleteDone(dialog.row, TRUE) \in Callback
      BY <1>2 DEF DeleteDone, Callback
    <3>2. goal.uuid \in Known' /\ written'[goal.uuid] \in confirmed' /\ goal.uuid \in DocIds
      BY <2>1, <2>2, <2>4, <2>5 DEF Known
    <3> QED
      BY <3>1, <3>2 DEF Write, KnownWrite, AnyWrite
  <2>9. QueueInv'
    BY <2>1, <2>5, <2>6, <2>8, SequencesGrow, AppendProperties
       DEF DeleteDocument, IInv, QueueInv
  <2>10. ScreenInv'
    BY <1>1, <2>1, <2>6, ScreenStepInv DEF IInv, ScreenInv
  <2> QED
    BY <2>7, <2>9, <2>10 DEF IInv
<1> QED
  BY <1>3, <1>4

-----------------------------------------------------------------------------
(* A callback is live only while its controller is on the screen. *)

DeadCallback == {c \in Callback : c.live = FALSE}
DeadWrite == {w \in AnyWrite : w.callback \in DeadCallback \cup {NoCallback}}
DeadEvent == [callback : DeadCallback, ok : BOOLEAN, ids : SUBSET DocIds]

LiveInv ==
  app # "home" =>
    /\ pending \in Seq(DeadWrite)
    /\ queries \subseteq DeadCallback
    /\ mainQueue \in Seq(DeadEvent)

LEMMA InitLiveInv == Init => LiveInv
BY EmptySeq DEF Init, ClientInit, LiveInv

LEMMA DyingLiveInv ==
  ASSUME IInv, ProcessDies
  PROVE  LiveInv'
<1>1. \A i \in 1 .. Len(pending) :
        [pending[i] EXCEPT !.callback = NoCallback] \in DeadWrite
  BY ElementOfSeq DEF IInv, QueueInv, KnownWrite, AnyWrite, DeadWrite
<1>2. DOMAIN pending = 1 .. Len(pending) /\ Len(pending) \in Nat
  BY LenProperties DEF IInv, QueueInv
<1>3. pending' \in Seq(DeadWrite)
  BY <1>1, <1>2, IsASeq DEF ProcessDies
<1> QED
  BY <1>3, EmptySeq DEF ProcessDies, LiveInv

LEMMA SignOutLiveInv ==
  ASSUME IInv, SignOut
  PROVE  LiveInv'
<1>1. \A c \in Callback : c # NoCallback => Orphaned(c) \in DeadCallback
  BY DEF Orphaned, Callback, DeadCallback
<1>2. pending' \in Seq(DeadWrite)
  <2>1. \A i \in 1 .. Len(pending) :
          [pending[i] EXCEPT !.callback = Orphaned(@)] \in DeadWrite
    <3> TAKE i \in 1 .. Len(pending)
    <3>1. pending[i] \in AnyWrite
      BY ElementOfSeq DEF IInv, QueueInv, KnownWrite
    <3>2. Orphaned(pending[i].callback) \in DeadCallback \cup {NoCallback}
      BY <1>1, <3>1 DEF AnyWrite, Orphaned
    <3>3. DeadCallback \subseteq Callback
      BY DEF DeadCallback
    <3> QED
      BY <3>1, <3>2, <3>3 DEF AnyWrite, DeadWrite
  <2>2. DOMAIN pending = 1 .. Len(pending) /\ Len(pending) \in Nat
    BY LenProperties DEF IInv, QueueInv
  <2> QED
    BY <2>1, <2>2, IsASeq DEF SignOut
<1>3. \A c \in Callback : Orphaned(c) \in DeadCallback
  BY <1>1, GoalsAssumption
<1>4. queries' \subseteq DeadCallback
  BY <1>3 DEF SignOut, IInv, QueueInv
<1>5. mainQueue' \in Seq(DeadEvent)
  <2>1. \A i \in 1 .. Len(mainQueue) :
          [mainQueue[i] EXCEPT !.callback = Orphaned(@)] \in DeadEvent
    <3> TAKE i \in 1 .. Len(mainQueue)
    <3>1. mainQueue[i] \in KnownEvent
      BY ElementOfSeq DEF IInv, QueueInv
    <3>2. Orphaned(mainQueue[i].callback) \in DeadCallback
      BY <1>3, <3>1 DEF KnownEvent
    <3> QED
      BY <3>1, <3>2 DEF KnownEvent, DeadEvent, Known
  <2>2. DOMAIN mainQueue = 1 .. Len(mainQueue) /\ Len(mainQueue) \in Nat
    BY LenProperties DEF IInv, QueueInv
  <2> QED
    BY <2>1, <2>2, IsASeq DEF SignOut
<1> QED
  BY <1>2, <1>4, <1>5 DEF LiveInv

\* Whatever happens without the home screen only consumes dead callbacks.
LEMMA AwayLiveInv ==
  ASSUME LiveInv, app # "home", app' = app,
         \/ UNCHANGED <<pending, queries, mainQueue>>
         \/ TakeEvent /\ UNCHANGED <<pending, queries>>
  PROVE  LiveInv'
<1>1. mainQueue' \in Seq(DeadEvent)
  BY HeadTailProperties DEF LiveInv, TakeEvent
<1> QED
  BY <1>1 DEF LiveInv

-----------------------------------------------------------------------------
(* Deliveries *)

LEMMA ArrivingTyped ==
  ASSUME IInv, LiveInv, mainQueue # <<>>
  PROVE  /\ Head(mainQueue) \in KnownEvent
         /\ Arriving \in Callback
         /\ Arriving.live => app = "home"
<1>1. Head(mainQueue) \in KnownEvent
  BY HeadTailProperties DEF IInv, QueueInv
<1>2. app # "home" => Head(mainQueue) \in DeadEvent
  BY HeadTailProperties DEF LiveInv
<1> QED
  BY <1>1, <1>2 DEF KnownEvent, DeadEvent, DeadCallback, Arriving

LEMMA IgnoreInv ==
  ASSUME IInv, LiveInv, Ignore, UNCHANGED <<clock, confirmed>>
  PROVE  IInv' /\ LiveInv'
<1>1. StoreInv' /\ QueueInv' /\ Grows
  BY TakeEventInv DEF Ignore
<1>2. ScreenInv'
  BY <1>1, ScreenUntouched DEF Ignore, IInv, ScreenInv
<1>3. LiveInv'
  BY AwayLiveInv DEF Ignore, screenVars, LiveInv
<1> QED
  BY <1>1, <1>2, <1>3 DEF IInv

\* The table of the open tab takes other rows.
LEMMA NewRowsInv ==
  ASSUME IInv, app = "home", NEW rows \in Seq(KnownRow), goals' = rows, TakeEvent,
         UNCHANGED <<written, server, cached, pending, taken, queries, app, ui, dialog, alert,
                     clock, confirmed>>
  PROVE  IInv' /\ LiveInv'
<1>1. StoreInv' /\ QueueInv' /\ Grows
  BY TakeEventInv
<1>2. ScreenInv'
  BY <1>1, ScreenStepInv DEF IInv, ScreenInv
<1> QED
  BY <1>1, <1>2 DEF IInv, LiveInv

LEMMA CrashBoth ==
  ASSUME IInv, Crash, clock' \in 0 .. MaxClock
  PROVE  IInv' /\ LiveInv'
BY CrashInv, DyingLiveInv DEF Crash

LEMMA ShowInv ==
  ASSUME IInv, app = "home", NEW rows \in Seq(KnownRow), Show(rows),
         UNCHANGED <<clock, confirmed>>
  PROVE  IInv' /\ LiveInv'
BY NewRowsInv DEF Show

LEMMA DeliveryInv ==
  ASSUME IInv, LiveInv, MainQueue
  PROVE  IInv' /\ LiveInv'
<1>1. UNCHANGED <<clock, confirmed>> /\ (~DrawTable => mainQueue # <<>>)
  BY DEF MainQueue, DrawTable, Crash, FetchDelivered, InsertDelivered, DeleteDelivered, Arrived
<1>2. clock' \in 0 .. MaxClock
  BY <1>1 DEF IInv, ScreenInv
<1>3. CASE Ignore
  BY <1>1, <1>3, IgnoreInv DEF Ignore, TakeEvent
<1>4. CASE Crash
  BY <1>2, <1>4, CrashBoth
<1>5. CASE FetchDelivered /\ ~Ignore
  <2>0. mainQueue # <<>>
    BY <1>5 DEF FetchDelivered, Arrived
  <2>1. PICK rows \in NewestFirst(Head(mainQueue).ids) : Show(rows)
    BY <1>5 DEF FetchDelivered
  <2>2. Arriving.live
    BY <1>5 DEF FetchDelivered
  <2>3. rows \in Seq(KnownRow)
    BY <2>0, <2>1, ArrivingTyped, NewestFirstTyped DEF KnownEvent
  <2> QED
    BY <1>1, <2>0, <2>1, <2>2, <2>3, ArrivingTyped, ShowInv
<1>6. CASE InsertDelivered /\ ~Crash
  <2>0. mainQueue # <<>>
    BY <1>6 DEF InsertDelivered, Arrived
  <2>1. Arriving.live /\ Show(Cons(Arriving.goal, goals)) /\ Arriving.kind = "insert"
    BY <1>6 DEF InsertDelivered, Arrived, Arriving
  <2>2. Arriving.goal \in NewGoal
    BY <2>0, <2>1, ArrivingTyped DEF Callback
  <2>3. Cons(Arriving.goal, goals) \in Seq(KnownRow)
    BY <2>2, NewGoalsAreKnown, ConsInSeq DEF IInv, ScreenInv
  <2> QED
    BY <1>1, <2>0, <2>1, <2>3, ArrivingTyped, ShowInv
<1>7. CASE DeleteDelivered /\ ~Ignore /\ ~Crash
  <2>0. mainQueue # <<>>
    BY <1>7 DEF DeleteDelivered, Arrived
  <2>1. Arriving.live /\ Arriving.row \in DOMAIN goals /\ Show(RemoveAt(goals, Arriving.row))
    BY <1>7 DEF DeleteDelivered
  <2>2. RemoveAt(goals, Arriving.row) \in Seq(KnownRow)
    BY <2>1, RemoveAtInSeq DEF IInv, ScreenInv
  <2> QED
    BY <1>1, <2>0, <2>1, <2>2, ArrivingTyped, ShowInv
<1> QED
  BY <1>3, <1>4, <1>5, <1>6, <1>7 DEF MainQueue, DrawTable

-----------------------------------------------------------------------------
(* The environment *)

LEMMA EnvironmentInv ==
  ASSUME IInv, TakenInv, LiveInv, Environment
  PROVE  IInv' /\ LiveInv'
<1>1. CASE ClientRuns
  <2>1. StoreInv' /\ QueueInv' /\ Grows
    BY <1>1, ClientStepInv DEF ClientRuns
  <2>2. ScreenInv'
    BY <1>1, <2>1, ScreenUntouched DEF ClientRuns, IInv, ScreenInv
  <2> QED
    BY <1>1, <2>1, <2>2 DEF IInv, LiveInv, ClientRuns, screenVars
<1>2. CASE OtherDeviceSaves \/ OtherDeviceErases
  <2>1. /\ clock' \in 0 .. MaxClock
        /\ OtherDeviceDeletes \/ \E doc \in Document : OtherDeviceAdds(doc)
    <3>1. CASE OtherDeviceSaves
      <4>1. clock + 1 \in Dates /\ clock' = clock + 1
        BY <3>1, GoalsAssumption DEF OtherDeviceSaves, Dates, IInv, ScreenInv
      <4>2. \A title \in Titles : [title |-> title, date |-> clock + 1] \in Document
        BY <4>1 DEF Document
      <4> QED
        BY <3>1, <4>1, <4>2, GoalsAssumption DEF OtherDeviceSaves, Dates
    <3>2. CASE OtherDeviceErases
      BY <3>2 DEF OtherDeviceErases, IInv, ScreenInv
    <3> QED
      BY <1>2, <3>1, <3>2
  <2>2. StoreInv' /\ QueueInv' /\ Grows
    BY <1>2, <2>1, OtherDeviceInv DEF OtherDeviceSaves, OtherDeviceErases
  <2>3. ScreenInv'
    BY <1>2, <2>1, <2>2, ScreenUntouched DEF OtherDeviceSaves, OtherDeviceErases
  <2>4. UNCHANGED <<pending, queries, mainQueue, app>>
    BY <1>2, <2>1 DEF OtherDeviceSaves, OtherDeviceErases, OtherDeviceDeletes,
                      OtherDeviceAdds, screenVars
  <2> QED
    BY <2>2, <2>3, <2>4, AwayLiveInv DEF IInv, LiveInv
<1> QED
  BY <1>1, <1>2 DEF Environment

LEMMA UserInv ==
  ASSUME IInv, LiveInv, User
  PROVE  IInv' /\ LiveInv'
<1>1. IInv'
  BY SessionInv, FormInv, RowsInv, ConfirmInv DEF User
<1>2. CASE SignOut
  BY <1>1, <1>2, SignOutLiveInv
<1>3. CASE Relaunch \/ Crash
  BY <1>1, <1>3, DyingLiveInv DEF Relaunch, Crash
<1>4. CASE ~SignOut /\ ~Relaunch /\ ~Crash
  <2>1. app' = "home"
    BY <1>4 DEF User, OpenGoals, OpenForm, CancelForm, SaveGoal, Persist, Overwrite,
                SwipeComplete, TouchCheckbox, TableUsable, DismissAlert, SwipeDelete,
                CancelDelete, ConfirmDelete
  <2> QED
    BY <1>1, <2>1 DEF LiveInv
<1> QED
  BY <1>1, <1>2, <1>3, <1>4

LEMMA NextInv ==
  ASSUME IInv, TakenInv, LiveInv, [Next]_vars
  PROVE  IInv' /\ LiveInv'
<1>1. CASE Next
  BY <1>1, UserInv, DeliveryInv, EnvironmentInv DEF Next
<1>2. CASE UNCHANGED vars
  <2>1. StoreInv' /\ QueueInv' /\ Grows
    BY <1>2, ClientUntouched DEF vars
  <2>2. ScreenInv'
    BY <1>2, <2>1, ScreenUntouched DEF vars, IInv, ScreenInv
  <2> QED
    BY <1>2, <2>1, <2>2 DEF IInv, LiveInv, vars, clientVars, screenVars
<1> QED
  BY <1>1, <1>2

\* What a step does to the queue and to what the server has taken of it.
QueueStep ==
  \/ UNCHANGED <<pending, taken>>
  \/ taken' = 0
  \/ taken' = taken /\ \E w \in AnyWrite : pending' = Append(pending, w)
  \/ pending' = pending /\ ServerTakes
  \/ pending' = Tail(pending) /\ Acknowledge

LEMMA UserQueueStep ==
  ASSUME IInv, User
  PROVE  QueueStep
<1>1. CASE SaveGoal
  <2>1. PICK goal \in NewGoal : Persist(goal) \/ UNCHANGED clientVars
    <3>1. clock + 1 \in Dates
      BY <1>1, GoalsAssumption DEF SaveGoal, Dates, IInv, ScreenInv
    <3> QED
      BY <1>1, <3>1 DEF SaveGoal, Overwrite, LocalGoal, NewGoal
  <2>2. CASE Persist(goal)
    <3>1. PICK id \in Fresh :
            /\ pending' = Append(pending, Write("set", id, InsertDone(goal, TRUE)))
            /\ taken' = taken
      BY <2>2 DEF Persist, AddDocument, SetDocument
    <3>2. Write("set", id, InsertDone(goal, TRUE)) \in AnyWrite
      BY <3>1 DEF Write, AnyWrite, InsertDone, Callback, Fresh
    <3> QED
      BY <3>1, <3>2 DEF QueueStep
  <2> QED
    BY <2>1, <2>2 DEF QueueStep, clientVars
<1>2. CASE ConfirmDelete /\ ~Crash
  <2>1. dialog.row \in Nat \ {0} /\ dialog.goal \in Goal /\ dialog.goal.uuid # NoId
    BY <1>2 DEF ConfirmDelete, IInv, ScreenInv, KnownRow
  <2>2. Write("delete", dialog.goal.uuid, DeleteDone(dialog.row, TRUE)) \in AnyWrite
    BY <2>1 DEF Write, AnyWrite, DeleteDone, Callback, Goal
  <2> QED
    BY <1>2, <2>2 DEF ConfirmDelete, DeleteDocument, QueueStep
<1>3. CASE Crash \/ SignOut \/ Relaunch
  BY <1>3 DEF Crash, SignOut, Relaunch, ProcessDies, QueueStep
<1>4. CASE UNCHANGED <<pending, taken>>
  BY <1>4 DEF QueueStep
<1>5. \/ SaveGoal \/ ConfirmDelete \/ SignOut \/ Relaunch
      \/ UNCHANGED <<pending, taken>>
  BY DEF User, OpenGoals, GetDocuments, OpenForm, CancelForm, SwipeComplete, TouchCheckbox,
         DismissAlert, SwipeDelete, CancelDelete, clientVars
<1> QED
  BY <1>1, <1>2, <1>3, <1>4, <1>5

LEMMA NextQueueStep ==
  ASSUME IInv, [Next]_vars
  PROVE  QueueStep
<1>1. CASE MainQueue
  BY <1>1 DEF MainQueue, FetchDelivered, InsertDelivered, DeleteDelivered, DrawTable, Ignore,
              Show, Crash, ProcessDies, QueueStep
<1>2. CASE ClientRuns
  BY <1>2 DEF ClientRuns, ClientStep, ServerTakes, StreamBreaks, Acknowledge, Reject, Settle,
              AnswerFromServer, AnswerFromCache, FailQuery, QueueStep
<1>3. CASE OtherDeviceSaves \/ OtherDeviceErases
  BY <1>3 DEF OtherDeviceSaves, OtherDeviceErases, OtherDeviceAdds, OtherDeviceDeletes,
              QueueStep
<1>4. CASE UNCHANGED vars
  BY <1>4 DEF vars, clientVars, QueueStep
<1> QED
  BY <1>1, <1>2, <1>3, <1>4, UserQueueStep DEF Next, Environment

LEMMA NextTakenInv ==
  ASSUME IInv, IInv', TakenInv, [Next]_vars
  PROVE  TakenInv'
<1>1. Len(pending) \in Nat /\ Len(pending') \in Nat /\ pending \in Seq(AnyWrite)
  <2>1. KnownWrite \subseteq AnyWrite
    BY DEF KnownWrite
  <2> QED
    BY <2>1, LenProperties, SeqMonotonic DEF IInv, QueueInv
<1>2. CASE UNCHANGED <<pending, taken>> \/ taken' = 0
  BY <1>1, <1>2 DEF TakenInv
<1>3. CASE taken' = taken /\ \E w \in AnyWrite : pending' = Append(pending, w)
  <2>1. Len(pending') = Len(pending) + 1
    BY <1>1, <1>3, AppendProperties
  <2> QED
    BY <1>1, <1>3, <2>1 DEF TakenInv
<1>4. CASE pending' = pending /\ ServerTakes
  BY <1>1, <1>4 DEF TakenInv, ServerTakes
<1>5. CASE pending' = Tail(pending) /\ Acknowledge
  <2>1. taken > 0 /\ taken' = taken - 1
    BY <1>5 DEF Acknowledge
  <2>2. pending # <<>>
    BY <1>1, <2>1, LenProperties DEF TakenInv
  <2>3. Len(pending') = Len(pending) - 1
    BY <1>1, <1>5, <2>2, HeadTailProperties
  <2> QED
    BY <1>1, <2>1, <2>3 DEF TakenInv
<1> QED
  BY <1>2, <1>3, <1>4, <1>5, NextQueueStep DEF QueueStep

LEMMA InitTakenInv == Init => TakenInv
BY DEF Init, ClientInit, TakenInv

LEMMA Invariant == Spec => [](IInv /\ TakenInv /\ LiveInv)
<1>1. Init => IInv /\ TakenInv /\ LiveInv
  BY InitIInv, InitLiveInv, InitTakenInv
<1>2. IInv /\ TakenInv /\ LiveInv /\ [Next]_vars => (IInv /\ TakenInv /\ LiveInv)'
  BY NextInv, NextTakenInv
<1> QED
  BY <1>1, <1>2, PTL DEF Spec

-----------------------------------------------------------------------------
(* Theorems *)

\* Type correctness, for any ids, titles and bounds: in particular whatever the
\* queues deliver, every row of the table is a Goal, and the dialog holds one
\* exactly while it is up (GoalsViewController.goals and its closures).
THEOREM TypeCorrect == Spec => []TypeOK
<1>1. IInv /\ TakenInv /\ LiveInv => TypeOK
  <2> SUFFICES ASSUME IInv, TakenInv PROVE TypeOK
    OBVIOUS
  <2>1. Known \subseteq DocIds /\ KnownRow \subseteq Goal
    BY DEF Known, KnownRow
  <2>2. pending \in Seq([op : {"set", "delete"}, id : DocIds,
                         callback : Callback \cup {NoCallback}])
    <3>1. KnownWrite \subseteq AnyWrite
      BY DEF KnownWrite
    <3>2. pending \in Seq(AnyWrite)
      BY <3>1, SeqMonotonic DEF IInv, QueueInv
    <3> QED
      BY <3>2 DEF AnyWrite
  <2>3. mainQueue \in Seq([callback : Callback, ok : BOOLEAN, ids : SUBSET DocIds])
    <3>1. KnownEvent \subseteq [callback : Callback, ok : BOOLEAN, ids : SUBSET DocIds]
      BY <2>1 DEF KnownEvent
    <3> QED
      BY <3>1, SeqMonotonic DEF IInv, QueueInv
  <2>4. goals \in Seq(Goal)
    BY <2>1, SeqMonotonic DEF IInv, ScreenInv
  <2>5. ClientTypeOK(Document, Callback, DocIds)
    BY <2>1, <2>2, <2>3 DEF ClientTypeOK, IInv, TakenInv, StoreInv, QueueInv
  <2>6. IF ui = "confirm" THEN dialog \in [row : Nat \ {0}, goal : Goal]
                          ELSE dialog = NoDialog
    BY <2>1 DEF IInv, ScreenInv
  <2> QED
    BY <2>4, <2>5, <2>6 DEF TypeOK, IInv, ScreenInv, StoreInv
<1> QED
  BY <1>1, Invariant, PTL

\* A row or a dialog that carries an id shows exactly the document stored under
\* it, so deleting by id deletes what was shown.
THEOREM RowsAreTheirDocuments == Spec => []RowsShowTheirDocuments
<1>1. IInv /\ TakenInv /\ LiveInv => RowsShowTheirDocuments
  <2> SUFFICES ASSUME IInv PROVE RowsShowTheirDocuments
    OBVIOUS
  <2>1. \A row \in DOMAIN goals : goals[row] \in KnownRow
    BY RowsOfGoals
  <2>2. ui = "confirm" => dialog.goal \in KnownRow
    BY DEF IInv, ScreenInv
  <2> QED
    BY <2>1, <2>2 DEF RowsShowTheirDocuments, ShowsItsDocument, KnownRow
<1> QED
  BY <1>1, Invariant, PTL

\* This device erases a document only after the user confirmed the deletion of a
\* row showing its very title and date.
THEOREM ErasesOnlyConfirmed == Spec => DeletesOnlyConfirmed
<1>1. IInv /\ TakenInv /\ LiveInv /\ [Next]_vars
        => [~OtherDeviceErases => \A id \in server \ server' : written[id] \in confirmed]_vars
  <2> SUFFICES ASSUME IInv, TakenInv, Next, ~OtherDeviceErases, NEW id \in server \ server'
               PROVE  written[id] \in confirmed
    BY DEF vars, clientVars
  <2>1. CASE ServerTakes
    <3>1. pending[taken + 1].op # "set" /\ id = pending[taken + 1].id
      BY <2>1 DEF ServerTakes, Effect
    <3> QED
      BY <2>1, <3>1, NextToTake DEF KnownWrite, AnyWrite
  <2>2. CASE ~ServerTakes
    <3>1. server \subseteq server'
      BY <2>2 DEF Next, User, MainQueue, Environment, OpenGoals, GetDocuments, SignOut,
           Relaunch, ProcessDies, OpenForm, CancelForm, SaveGoal, Persist, AddDocument, SetDocument,
           Overwrite, Crash, SwipeComplete, TouchCheckbox, DismissAlert, SwipeDelete,
           CancelDelete, ConfirmDelete, DeleteDocument, FetchDelivered, InsertDelivered,
           DeleteDelivered, DrawTable, Ignore, Show, ClientRuns, ClientStep, StreamBreaks, Acknowledge,
           Reject, Settle,
           AnswerFromServer, AnswerFromCache, FailQuery, OtherDeviceSaves,
           OtherDeviceAdds, clientVars
    <3> QED
      BY <3>1
  <2> QED
    BY <2>1, <2>2
<1> QED
  BY <1>1, Invariant, PTL DEF Spec, DeletesOnlyConfirmed

-----------------------------------------------------------------------------
(* Calm use *)

\* What the callback that is still to come will do when it runs is possible then.
Suits(c) ==
  /\ c.live
  /\ c.kind = "insert" => c.goal.title # EmptyTitle
  /\ c.kind = "delete" => c.row \in DOMAIN goals

\* At most one callback is to come, it suits the list, and none is while the dialog
\* asks about a row.
CalmInv ==
  /\ app # "crashed"
  /\ TitlesGiven /\ Drawable(goals)
  /\ \/ NoneExpected
     \/ app = "home" /\ ui # "confirm" /\ \E c \in Callback : Expected(c) /\ Suits(c)
  /\ ui = "confirm" => dialog.row \in DOMAIN goals /\ dialog.goal.uuid # NoId

GoalsInv == IInv /\ TakenInv /\ LiveInv

\* Calm use is use: what always holds holds under it.
LEMMA CalmIsUse == CalmSpec => Spec
<1>1. [CalmNext]_vars => [Next]_vars
  BY DEF CalmNext, PatientUser, FriendlyServer, OthersStayAway, Next, User, Environment,
         ClientRuns, ClientStep
<1> QED BY <1>1, PTL DEF CalmSpec, Spec

\* The rows are other rows with the same titles, and the client is untouched.
LEMMA ScreenCalm ==
  ASSUME CalmInv, TitlesGiven', UNCHANGED <<pending, queries, mainQueue, app>>,
         DOMAIN goals' = DOMAIN goals,
         \A row \in DOMAIN goals : goals'[row].title = goals[row].title,
         ui' = "confirm" =>
           NoneExpected /\ dialog'.row \in DOMAIN goals /\ dialog'.goal.uuid # NoId
  PROVE  CalmInv'
<1>1. (Drawable(goals))'
  BY DEF CalmInv, Drawable
<1>2. /\ NoneExpected => NoneExpected'
      /\ \A c : Expected(c) /\ Suits(c) => Expected(c)' /\ Suits(c)'
  BY DEF NoneExpected, Expected, Queried, Queued, Answered, NoneQueued, Suits
<1> QED BY <1>1, <1>2 DEF CalmInv

LEMMA ScreenStepsCalm ==
  ASSUME GoalsInv, CalmInv, TitlesGiven',
         \/ OpenForm \/ CancelForm \/ SwipeComplete \/ TouchCheckbox \/ DismissAlert
         \/ CancelDelete \/ (Quiet /\ SwipeDelete /\ dialog'.goal.uuid # NoId)
  PROVE  CalmInv'
<1>1. CASE OpenForm \/ CancelForm \/ DismissAlert \/ CancelDelete
  BY <1>1, ScreenCalm
     DEF OpenForm, CancelForm, DismissAlert, CancelDelete, clientVars
<1>2. CASE SwipeComplete \/ TouchCheckbox
  <2>1. PICK row \in DOMAIN goals : goals' = [goals EXCEPT ![row] = Toggled(@)]
    BY <1>2 DEF SwipeComplete, TouchCheckbox
  <2>2. DOMAIN goals' = DOMAIN goals
        /\ \A i \in DOMAIN goals : goals'[i].title = goals[i].title
    BY <2>1 DEF Toggled, LocalGoal, DocumentOf
  <2> QED BY <1>2, <2>2, ScreenCalm DEF SwipeComplete, TouchCheckbox, clientVars, TableUsable
<1>3. CASE Quiet /\ SwipeDelete /\ dialog'.goal.uuid # NoId
  <2>1. NoneExpected /\ dialog'.row \in DOMAIN goals
    BY <1>3 DEF Quiet, NoneExpected, NoneQueued, SwipeDelete
  <2> QED BY <1>3, <2>1, ScreenCalm DEF SwipeDelete, clientVars
<1> QED BY <1>1, <1>2, <1>3

\* The home screen is gone, and nothing is to come.
LEMMA AwayCalm ==
  ASSUME NoScreen, TitlesGiven', NoneExpected', app' = "signedOut"
  PROVE  CalmInv'
BY DEF NoScreen, CalmInv, Drawable

LEMMA SessionCalm ==
  ASSUME GoalsInv, CalmInv, TitlesGiven', OpenGoals \/ (Quiet /\ SignOut) \/ Relaunch
  PROVE  CalmInv'
<1>1. ClientInv(Document, Callback, DocIds)
  BY ClientInvHere DEF GoalsInv
<1>2. CASE OpenGoals
  <2>1. NoneExpected /\ NoScreen /\ app' = "home"
        /\ queries' = queries \cup {FetchDone(TRUE)} /\ UNCHANGED <<pending, mainQueue>>
    BY <1>2 DEF OpenGoals, CalmInv, GetDocuments
  <2> PICK c \in Callback : c = FetchDone(TRUE)
    BY DEF FetchDone, Callback
  <2>2. Expected(c)'
    BY <2>1 DEF NoneExpected, Expected, Queried, NoneQueued
  <2>3. Suits(c)'
    BY DEF FetchDone, Suits
  <2>4. (Drawable(goals))' /\ ui' = "list"
    BY <2>1 DEF NoScreen, Drawable
  <2> QED BY <2>1, <2>2, <2>3, <2>4 DEF CalmInv
<1>3. CASE Quiet /\ SignOut
  <2>1. /\ \A i \in DOMAIN pending : pending[i].callback = NoCallback
        /\ pending' = [i \in DOMAIN pending |-> [pending[i] EXCEPT !.callback = Orphaned(@)]]
        /\ queries' = {}
        /\ mainQueue' = [i \in DOMAIN mainQueue |-> [mainQueue[i] EXCEPT !.callback = Orphaned(@)]]
        /\ mainQueue = <<>>
    BY <1>3 DEF Quiet, SignOut
  <2>2. \A i \in DOMAIN pending : pending[i] \in AnyWrite
    <3>1. pending \in Seq(Writes(Callback, DocIds)) /\ Writes(Callback, DocIds) = AnyWrite
      BY <1>1, ClientInvIs DEF Writes, AnyWrite
    <3> QED BY <3>1, ElementOfSeq, LenProperties
  <2>3. \A i \in DOMAIN pending' : pending'[i].callback = NoCallback
    BY <2>1, <2>2 DEF AnyWrite, Orphaned
  <2>4. mainQueue' = <<>>
    BY <2>1
  <2>5. NoneExpected'
    BY <2>1, <2>3, <2>4 DEF NoneExpected, NoneQueued
  <2> QED BY <1>3, <2>5, AwayCalm DEF SignOut
<1>4. CASE Relaunch
  BY <1>1, <1>4, DeadExpectNothing, AwayCalm DEF Relaunch
<1> QED BY <1>2, <1>3, <1>4

LEMMA SaveGoalCalm ==
  ASSUME GoalsInv, CalmInv, TitlesGiven', Quiet, SaveGoal, Unidentified = {}
  PROVE  CalmInv'
<1>1. /\ ClientInv(Document, Callback, DocIds) /\ NoneExpected
      /\ written \in [DocIds -> Document \cup {NoDoc}] /\ clock \in 0 .. MaxClock
  BY ClientInvHere DEF GoalsInv, IInv, StoreInv, ScreenInv, Quiet, NoneExpected, NoneQueued
<1>2. PICK title \in Titles :
        Persist(LocalGoal([title |-> title, date |-> clock + 1]))
  BY DEF SaveGoal
<1>3. [title |-> title, date |-> clock + 1] \in Document
  <2>1. clock + 1 \in Dates
    BY <1>1, GoalsAssumption DEF SaveGoal, Dates
  <2> QED BY <2>1 DEF Document
<1> PICK goal \in NewGoal :
      goal = LocalGoal([title |-> title, date |-> clock + 1]) /\ goal.title = title
  BY <1>3, LocalGoalTyped DEF LocalGoal
<1> PICK c \in Callback : c = InsertDone(goal, TRUE)
  BY DEF InsertDone, Callback
<1>4. c.live /\ c.kind = "insert" /\ c.goal = goal
  BY DEF InsertDone
<1>5. PICK id \in Fresh : SetDocument(id, DocumentOf(goal), c)
  BY <1>2 DEF Persist, AddDocument
<1>6. Queued(c)'
  BY <1>1, <1>4, <1>5, CallExpected DEF SetDocument, Fresh
<1>7. title # EmptyTitle
  <2>1. written' = [written EXCEPT ![id] = DocumentOf(goal)] /\ id \in DocIds
    BY <1>5 DEF SetDocument, Fresh
  <2>2. written'[id] = DocumentOf(goal) /\ DocumentOf(goal) \in Document
    BY <1>1, <1>4, <2>1 DEF DocumentOf, NewGoal, Document
  <2>3. id \in DocIds \ Fresh'
    BY <2>1, <2>2, GoalsAssumption DEF Fresh
  <2>4. written'[id].title # EmptyTitle
    BY <2>3 DEF TitlesGiven
  <2> QED BY <1>4, <2>2, <2>4 DEF DocumentOf
<1>8. Suits(c)'
  BY <1>4, <1>7 DEF Suits
<1>9. UNCHANGED <<app, goals>> /\ ui' = "list" /\ app = "home"
  BY <1>2 DEF Persist, SaveGoal
<1> QED BY <1>6, <1>8, <1>9 DEF CalmInv, Expected, Drawable

LEMMA ConfirmCalm ==
  ASSUME GoalsInv, CalmInv, TitlesGiven', ConfirmDelete
  PROVE  CalmInv'
<1>1. /\ ClientInv(Document, Callback, DocIds) /\ NoneExpected
      /\ dialog \in [row : Nat \ {0}, goal : Goal]
      /\ dialog.row \in DOMAIN goals /\ dialog.goal.uuid # NoId
  BY ClientInvHere DEF GoalsInv, IInv, ScreenInv, CalmInv, ConfirmDelete, KnownRow
<1> PICK c \in Callback : c = DeleteDone(dialog.row, TRUE)
  BY <1>1 DEF DeleteDone, Callback
<1>2. /\ DeleteDocument(dialog.goal.uuid, c) /\ ui' = "list" /\ UNCHANGED <<app, goals>>
      /\ app = "home"
  BY <1>1 DEF ConfirmDelete
<1>3. dialog.goal.uuid \in DocIds
  BY <1>1 DEF Goal
<1>4. Queued(c)'
  BY <1>1, <1>2, <1>3, CallExpected DEF DeleteDocument
<1>5. Suits(c)'
  BY <1>1, <1>2 DEF Suits, DeleteDone
<1> QED BY <1>2, <1>4, <1>5 DEF CalmInv, Expected, Drawable

\* The callback that was to come has run, and its controller is on the screen.
LEMMA DeliveredCalm ==
  ASSUME CalmInv, TitlesGiven', app = "home", ui # "confirm", NoneExpected',
         UNCHANGED <<app, ui>>, (Drawable(goals))'
  PROVE  CalmInv'
BY DEF CalmInv

LEMMA DeliveryCalm ==
  ASSUME GoalsInv, CalmInv, TitlesGiven', MainQueue
  PROVE  CalmInv'
<1>1. CASE DrawTable
  BY <1>1 DEF DrawTable, CalmInv
<1>2. CASE FetchDelivered \/ InsertDelivered \/ DeleteDelivered
  <2>1. mainQueue # <<>>
    BY <1>2 DEF FetchDelivered, InsertDelivered, DeleteDelivered, Arrived
  <2>2. PICK c \in Callback : app = "home" /\ ui # "confirm" /\ Expected(c) /\ Suits(c)
    BY <2>1 DEF CalmInv, NoneExpected
  <2>3. ASSUME TakeEvent, UNCHANGED <<pending, queries>>
        PROVE  NoneExpected'
    BY <2>2, <2>3, ExpectedArrives
  <2>4. Arriving = c
    BY <2>1, <2>2, ExpectedIsNext DEF Arriving
  <2>5. Head(mainQueue) \in KnownEvent
    BY <2>1, ArrivingTyped DEF GoalsInv
  <2>6. CASE Ignore
    <3>1. NoneExpected' /\ UNCHANGED <<app, ui, goals>>
      BY <2>3, <2>6 DEF Ignore, screenVars
    <3> QED BY <2>2, <3>1, DeliveredCalm DEF CalmInv, Drawable
  <2>7. ASSUME NEW rows, Show(rows), Drawable(rows) PROVE CalmInv'
    <3>1. NoneExpected' /\ UNCHANGED <<app, ui>> /\ goals' = rows
      BY <2>3, <2>7 DEF Show
    <3> QED BY <2>2, <2>7, <3>1, DeliveredCalm DEF Drawable
  <2>8. CASE FetchDelivered
    <3>1. SUFFICES ASSUME NEW rows \in NewestFirst(Head(mainQueue).ids), Show(rows)
                   PROVE  Drawable(rows)
      BY <2>6, <2>7, <2>8 DEF FetchDelivered
    <3>2. \A row \in DOMAIN rows : \E id \in Known : rows[row] = FetchedGoal(id)
      BY <2>5, <3>1 DEF NewestFirst, KnownEvent
    <3> QED BY <3>2 DEF Drawable, FetchedGoal, CalmInv, TitlesGiven, Known, Fresh
  <2>9. CASE InsertDelivered
    <3>1. c.kind = "insert" /\ Show(Cons(c.goal, goals))
      BY <2>2, <2>4, <2>9 DEF InsertDelivered, Arrived, Arriving, Suits
    <3>2. c.goal \in KnownRow /\ goals \in Seq(KnownRow)
      BY <3>1, NewGoalsAreKnown DEF Callback, GoalsInv, IInv, ScreenInv
    <3>3. DOMAIN Cons(c.goal, goals) = 1 .. Len(goals) + 1 /\ DOMAIN goals = 1 .. Len(goals)
          /\ Len(goals) \in Nat
      BY <3>2, ConsElements, ConsInSeq, LenProperties
    <3>4. Drawable(Cons(c.goal, goals))
      <4> SUFFICES ASSUME NEW k \in 1 .. Len(goals) + 1
                   PROVE  Cons(c.goal, goals)[k].title # EmptyTitle
        BY <3>3 DEF Drawable
      <4>1. CASE k = 1
        BY <2>2, <3>1, <3>2, <4>1, ConsElements DEF Suits
      <4>2. CASE k # 1
        <5>1. k - 1 \in DOMAIN goals /\ Cons(c.goal, goals)[k] = goals[k - 1]
          BY <3>2, <3>3, <4>2, ConsElements
        <5> QED BY <5>1 DEF CalmInv, Drawable
      <4> QED BY <4>1, <4>2
    <3> QED BY <2>7, <3>1, <3>4
  <2>10. CASE DeleteDelivered
    <3>1. c.kind = "delete" /\ c.row \in DOMAIN goals
      BY <2>2, <2>4, <2>10 DEF DeleteDelivered, Arrived, Arriving, Suits
    <3>2. Ignore \/ Show(RemoveAt(goals, c.row))
      BY <2>4, <2>10, <3>1 DEF DeleteDelivered
    <3>3. goals \in Seq(KnownRow) /\ DOMAIN goals = 1 .. Len(goals) /\ Len(goals) \in Nat
      BY LenProperties DEF GoalsInv, IInv, ScreenInv
    <3>4. Drawable(RemoveAt(goals, c.row))
      <4>1. RemoveAt(goals, c.row) \in Seq(KnownRow)
            /\ DOMAIN RemoveAt(goals, c.row) = 1 .. Len(goals) - 1
        BY <3>1, <3>3, RemoveAtInSeq, RemoveAtElements, LenProperties
      <4>2. \A k \in 1 .. Len(goals) - 1 : \E i \in DOMAIN goals :
              RemoveAt(goals, c.row)[k] = goals[i]
        BY <3>1, <3>3, RemoveAtElements
      <4> QED BY <4>1, <4>2 DEF CalmInv, Drawable
    <3> QED BY <2>6, <2>7, <3>2, <3>4
  <2> QED BY <1>2, <2>8, <2>9, <2>10
<1> QED BY <1>1, <1>2 DEF MainQueue

LEMMA ServerCalm ==
  ASSUME GoalsInv, CalmInv, TitlesGiven', FriendlyServer
  PROVE  CalmInv'
<1>1. ClientInv(Document, Callback, DocIds) /\ ClientStep /\ UNCHANGED screenVars
  BY ClientInvHere DEF GoalsInv, FriendlyServer, ClientStep
<1>2. /\ NoneExpected => NoneExpected'
      /\ \A c \in Callback : Expected(c) => Expected(c)'
  BY <1>1, ClientStepExpects, GoalsAssumption
<1>3. UNCHANGED <<app, goals, ui, dialog>>
  BY <1>1 DEF screenVars
<1>4. \A c : Suits(c) => Suits(c)'
  BY <1>3 DEF Suits
<1> QED BY <1>2, <1>3, <1>4 DEF CalmInv, Drawable

LEMMA NextCalm ==
  ASSUME GoalsInv, CalmInv, [CalmNext]_vars
  PROVE  CalmInv'
<1>1. CASE UNCHANGED vars
  <2>1. UNCHANGED <<written, pending, queries, mainQueue, app, goals, ui, dialog>>
    BY <1>1 DEF vars, clientVars, screenVars
  <2>2. TitlesGiven'
    BY <2>1 DEF CalmInv, TitlesGiven, Fresh
  <2>3. ui' = "confirm" => NoneExpected
    BY <2>1 DEF CalmInv
  <2> QED BY <2>1, <2>2, <2>3, ScreenCalm DEF CalmInv
<1>2. CASE CalmNext
  <2>1. TitlesGiven' /\ (SaveGoal => Unidentified = {}) /\ (SwipeDelete => dialog'.goal.uuid # NoId)
    BY <1>2 DEF CalmNext, CarefulStep
  <2>2. CASE PatientUser
    BY <2>1, <2>2, SessionCalm, SaveGoalCalm, ScreenStepsCalm, ConfirmCalm DEF PatientUser
  <2>3. CASE MainQueue
    BY <2>1, <2>3, DeliveryCalm
  <2>4. CASE FriendlyServer
    BY <2>1, <2>4, ServerCalm
  <2>5. CASE OthersStayAway
    <3>1. NoneExpected /\ UNCHANGED <<pending, queries, mainQueue, app, goals, ui, dialog>>
      BY <2>5 DEF OthersStayAway, OtherDeviceSaves, OtherDeviceErases, OtherDeviceAdds,
                  OtherDeviceDeletes, screenVars, CalmInv
    <3> QED BY <2>1, <3>1, ScreenCalm DEF CalmInv
  <2> QED BY <1>2, <2>2, <2>3, <2>4, <2>5 DEF CalmNext
<1> QED BY <1>1, <1>2

LEMMA InitCalm == Init => CalmInv
BY DEF Init, ClientInit, CalmInv, TitlesGiven, Fresh, Drawable, NoneExpected, NoneQueued

\* Used calmly, the Goals tab does not crash: no row is drawn without a title, no
\* answer finds its controller gone or its row missing, no deletion goes to no id
\* (updateChecked, persistGoalToFireStore, deleteGoal).
THEOREM CalmUseNeverCrashes == CalmSpec => []CalmNeverCrashes
<1>1. CalmSpec => []GoalsInv
  BY CalmIsUse, Invariant, PTL DEF GoalsInv
<1>2. GoalsInv /\ CalmInv /\ [CalmNext]_vars => CalmInv'
  BY NextCalm
<1>3. CalmInv => CalmNeverCrashes
  BY DEF CalmInv, CalmNeverCrashes
<1> QED BY <1>1, <1>2, <1>3, InitCalm, PTL DEF CalmSpec

=============================================================================
