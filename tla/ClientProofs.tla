----------------------------- MODULE ClientProofs -----------------------------
(***************************************************************************)
(* Lemmas about FirestoreClient, whatever its documents and callbacks are, *)
(* and about sequences of rows: what the proofs about the tabs share.      *)
(*                                                                         *)
(* A client whose variables merely have their types may deliver an id that *)
(* no document was written under.  So ClientInv adds that every id in a    *)
(* store, a queue or an answer is Known.                                   *)
(***************************************************************************)
EXTENDS FirestoreClient, FiniteSetTheorems, FunctionTheorems, SequenceTheorems, TLAPS

Known == {id \in DocIds : written[id] # NoDoc}

ClientInv(Docs, Callbacks, Ids) ==
  /\ ClientTypeOK(Docs, Callbacks, Ids)
  /\ server \subseteq Known /\ cached \subseteq Known
  /\ PendingIds("set") \subseteq Known
  /\ IsFiniteSet(queries)
  /\ \A i \in DOMAIN mainQueue : mainQueue[i].ids \subseteq Known

\* No step changes or takes back what a document was created with.
WrittenKept == \A id \in Known : written'[id] = written[id]

\* The callbacks that something outside the application will still run.
Awaited ==
  queries \cup {pending[i].callback : i \in DOMAIN pending}
    \cup {mainQueue[i].callback : i \in DOMAIN mainQueue}

-----------------------------------------------------------------------------
(* Sequences *)

LEMMA RemoveAtInSeq ==
  ASSUME NEW S, NEW s \in Seq(S), NEW i \in DOMAIN s
  PROVE  RemoveAt(s, i) \in Seq(S)
<1>1. i \in 1 .. Len(s) /\ Len(s) \in Nat /\ \A j \in 1 .. Len(s) : s[j] \in S
  BY LenProperties, ElementOfSeq
<1>2. SubSeq(s, 1, i-1) \in Seq(S)
  BY <1>1, SubSeqProperties
<1>3. SubSeq(s, i+1, Len(s)) \in Seq(S)
  BY <1>1, SubSeqProperties
<1> QED
  BY <1>2, <1>3, ConcatProperties DEF RemoveAt

\* What is left of a row when another goes: it comes from the same row or the next.
LEMMA RemoveAtElements ==
  ASSUME NEW S, NEW s \in Seq(S), NEW i \in DOMAIN s
  PROVE  /\ Len(RemoveAt(s, i)) = Len(s) - 1
         /\ \A k \in 1 .. Len(s) - 1 :
              RemoveAt(s, i)[k] = IF k < i THEN s[k] ELSE s[k + 1]
<1>1. i \in 1 .. Len(s) /\ Len(s) \in Nat
  BY LenProperties
<1> DEFINE left == SubSeq(s, 1, i-1)
           right == SubSeq(s, i+1, Len(s))
<1>2. /\ left \in Seq(S) /\ Len(left) = i - 1
      /\ \A k \in 1 .. i - 1 : left[k] = s[k]
  BY <1>1, SubSeqProperties
<1>3. /\ right \in Seq(S) /\ Len(right) = Len(s) - i
      /\ \A k \in 1 .. Len(s) - i : right[k] = s[i + k]
  BY <1>1, SubSeqProperties
<1>4. /\ Len(left \o right) = Len(left) + Len(right)
      /\ \A k \in 1 .. Len(left) + Len(right) :
           (left \o right)[k] = IF k <= Len(left) THEN left[k] ELSE right[k - Len(left)]
  BY <1>2, <1>3, ConcatProperties
<1>5. RemoveAt(s, i) = left \o right
  BY DEF RemoveAt
<1> HIDE DEF left, right
<1>6. ASSUME NEW k \in 1 .. Len(s) - 1
      PROVE  RemoveAt(s, i)[k] = IF k < i THEN s[k] ELSE s[k + 1]
  <2>1. CASE k < i
    <3>1. k \in 1 .. Len(left) + Len(right) /\ k <= Len(left) /\ k \in 1 .. i - 1
      BY <1>1, <1>2, <1>3, <2>1
    <3>2. RemoveAt(s, i)[k] = left[k]
      BY <1>4, <1>5, <3>1
    <3> QED
      BY <1>2, <2>1, <3>1, <3>2
  <2>2. CASE k >= i
    <3>1. k - (i - 1) \in 1 .. Len(s) - i
      BY <1>1, <2>2
    <3>2. RemoveAt(s, i)[k] = right[k - (i - 1)]
      <4>1. k \in 1 .. Len(left) + Len(right) /\ ~(k <= Len(left))
        BY <1>1, <1>2, <1>3, <2>2
      <4> QED
        BY <1>2, <1>4, <1>5, <4>1
    <3>3. right[k - (i - 1)] = s[i + (k - (i - 1))]
      BY <1>3, <3>1
    <3> QED
      BY <1>1, <2>2, <3>2, <3>3
  <2> QED
    BY <1>1, <2>1, <2>2
<1>7. Len(RemoveAt(s, i)) = Len(s) - 1
  <2>1. Len(RemoveAt(s, i)) = Len(left) + Len(right)
    BY <1>4, <1>5
  <2> QED
    BY ONLY <1>1, <1>2, <1>3, <2>1
<1> QED
  BY <1>6, <1>7

LEMMA ConsInSeq ==
  ASSUME NEW S, NEW s \in Seq(S), NEW e \in S
  PROVE  Cons(e, s) \in Seq(S)
<1>1. <<e>> \in Seq(S)
  OBVIOUS
<1> QED
  BY <1>1, ConcatProperties DEF Cons

LEMMA ConsElements ==
  ASSUME NEW S, NEW s \in Seq(S), NEW e \in S
  PROVE  /\ Len(Cons(e, s)) = Len(s) + 1
         /\ Cons(e, s)[1] = e
         /\ \A k \in 2 .. Len(s) + 1 : Cons(e, s)[k] = s[k - 1]
<1>1. <<e>> \in Seq(S) /\ Len(<<e>>) = 1 /\ <<e>>[1] = e /\ Len(s) \in Nat
  BY LenProperties
<1> QED
  BY <1>1, ConcatProperties DEF Cons

LEMMA ReplaceInSeq ==
  ASSUME NEW S, NEW s \in Seq(S), NEW i \in DOMAIN s, NEW e \in S
  PROVE  [s EXCEPT ![i] = e] \in Seq(S)
BY LenProperties, ExceptSeq

\* What a sequence holds after its oldest element is gone, or another is there.
LEMMA TailElements ==
  ASSUME NEW S, NEW s \in Seq(S), s # <<>>
  PROVE  /\ \A i \in DOMAIN Tail(s) :
              i \in Nat \ {0} /\ i + 1 \in DOMAIN s /\ Tail(s)[i] = s[i + 1]
         /\ \A i \in DOMAIN s : \/ s[i] = Head(s)
                                \/ i - 1 \in DOMAIN Tail(s) /\ Tail(s)[i - 1] = s[i]
         /\ 1 \in DOMAIN s /\ Head(s) = s[1]
<1>1. /\ Len(s) \in Nat \ {0} /\ DOMAIN s = 1 .. Len(s)
      /\ Tail(s) \in Seq(S) /\ Len(Tail(s)) = Len(s) - 1
      /\ DOMAIN Tail(s) = 1 .. Len(Tail(s)) /\ Head(s) = s[1]
      /\ \A i \in 1 .. Len(Tail(s)) : Tail(s)[i] = s[i + 1]
  BY HeadTailProperties, LenProperties, EmptySeq
<1> QED
  BY <1>1

LEMMA AppendElements ==
  ASSUME NEW S, NEW s \in Seq(S), NEW e \in S
  PROVE  /\ \A i \in DOMAIN s : i \in DOMAIN Append(s, e) /\ Append(s, e)[i] = s[i]
         /\ \A i \in DOMAIN Append(s, e) :
              \/ i \in DOMAIN s /\ Append(s, e)[i] = s[i]
              \/ i = Len(s) + 1 /\ i \notin DOMAIN s /\ Append(s, e)[i] = e
         /\ \E i \in DOMAIN Append(s, e) : Append(s, e)[i] = e
<1>1. /\ Len(s) \in Nat /\ DOMAIN s = 1 .. Len(s)
      /\ Append(s, e) \in Seq(S) /\ Len(Append(s, e)) = Len(s) + 1
      /\ DOMAIN Append(s, e) = 1 .. Len(Append(s, e))
      /\ \A i \in 1 .. Len(s) : Append(s, e)[i] = s[i]
      /\ Append(s, e)[Len(s) + 1] = e
  BY AppendProperties, LenProperties
<1> QED
  BY <1>1

\* An arrangement of a finite set holds each of its elements.
LEMMA ArrangedElements ==
  ASSUME NEW S, IsFiniteSet(S), NEW q \in SetToSeqs(S)
  PROVE  /\ q \in Seq(S)
         /\ \A e \in S : \E i \in DOMAIN q : q[i] = e
<1> DEFINE n == Cardinality(S)
           T == {q[i] : i \in 1 .. n}
<1>1. n \in Nat
  BY FS_CardinalityType
<1>2. q \in [1 .. n -> S] /\ \A i, j \in 1 .. n : i # j => q[i] # q[j]
  BY DEF SetToSeqs
<1>3. q \in Seq(S)
  BY <1>1, <1>2
<1>4. q \in Bijection(1 .. n, T)
  <2>1. q \in [1 .. n -> T]
    BY <1>2
  <2>2. \A i, j \in 1 .. n : q[i] = q[j] => i = j
    BY <1>2
  <2>3. \A t \in T : \E i \in 1 .. n : q[i] = t
    OBVIOUS
  <2> QED
    BY <2>1, <2>2, <2>3, Fun_IsBij
<1>5. IsFiniteSet(1 .. n) /\ Cardinality(1 .. n) = n
  BY <1>1, FS_Interval
<1>6. ExistsBijection(1 .. n, T)
  BY <1>4 DEF ExistsBijection
<1>7. Cardinality(T) = n
  BY <1>5, <1>6, FS_Bijection
<1>8. T \in SUBSET S
  BY <1>2
<1>9. S = T
  BY <1>7, <1>8, FS_Subset
<1> QED
  BY <1>2, <1>3, <1>9

-----------------------------------------------------------------------------
(* The types *)

Writes(Callbacks, Ids) ==
  [op : {"set", "delete"}, id : Ids, callback : Callbacks \cup {NoCallback}]
Events(Callbacks) == [callback : Callbacks, ok : BOOLEAN, ids : SUBSET DocIds]

LEMMA ClientInvIs ==
  ASSUME NEW Docs, NEW Callbacks, NEW Ids
  PROVE  ClientInv(Docs, Callbacks, Ids) <=>
           /\ written \in [DocIds -> Docs \cup {NoDoc}]
           /\ server \subseteq Known /\ cached \subseteq Known
           /\ pending \in Seq(Writes(Callbacks, Ids)) /\ PendingIds("set") \subseteq Known
           /\ taken \in 0 .. Len(pending)
           /\ queries \subseteq Callbacks /\ IsFiniteSet(queries)
           /\ mainQueue \in Seq(Events(Callbacks))
           /\ \A i \in DOMAIN mainQueue : mainQueue[i].ids \subseteq Known
BY DEF ClientInv, ClientTypeOK, Writes, Events, Known

LEMMA ClientInvIsNext ==
  ASSUME NEW Docs, NEW Callbacks, NEW Ids
  PROVE  ClientInv(Docs, Callbacks, Ids)' <=>
           /\ written' \in [DocIds -> Docs \cup {NoDoc}]
           /\ server' \subseteq Known' /\ cached' \subseteq Known'
           /\ pending' \in Seq(Writes(Callbacks, Ids)) /\ PendingIds("set")' \subseteq Known'
           /\ taken' \in 0 .. Len(pending')
           /\ queries' \subseteq Callbacks /\ IsFiniteSet(queries)'
           /\ mainQueue' \in Seq(Events(Callbacks))
           /\ \A i \in DOMAIN mainQueue' : mainQueue'[i].ids \subseteq Known'
BY DEF ClientInv, ClientTypeOK, Writes, Events, Known

LEMMA InitClientInv ==
  ASSUME NEW Docs, NEW Callbacks, NEW Ids, ClientInit
  PROVE  ClientInv(Docs, Callbacks, Ids) /\ PendingIds("delete") = {} /\ Awaited = {}
<1>1. /\ pending = <<>> /\ mainQueue = <<>> /\ DOMAIN pending = {} /\ DOMAIN mainQueue = {}
      /\ Len(pending) = 0
  BY DEF ClientInit
<1>2. PendingIds("set") = {} /\ PendingIds("delete") = {}
  BY <1>1 DEF PendingIds
<1>3. Awaited = {}
  BY <1>1 DEF Awaited, ClientInit
<1>4. ClientInv(Docs, Callbacks, Ids)
  BY <1>1, <1>2, EmptySeq, FS_EmptySet, ClientInvIs DEF ClientInit
<1> QED
  BY <1>2, <1>3, <1>4

LEMMA KnownKept ==
  ASSUME WrittenKept, NEW Docs, written' \in [DocIds -> Docs \cup {NoDoc}]
  PROVE  Known \subseteq Known'
BY DEF WrittenKept, Known

\* An id among those pending is that of a pending write.
LEMMA PendingIdsAre ==
  ASSUME NEW op, NEW id
  PROVE  id \in PendingIds(op) <=> \E i \in DOMAIN pending : pending[i].op = op /\ pending[i].id = id
BY DEF PendingIds

LEMMA PendingIdsAreNext ==
  ASSUME NEW op, NEW id
  PROVE  id \in PendingIds(op)' <=>
           \E i \in DOMAIN pending' : pending'[i].op = op /\ pending'[i].id = id
BY DEF PendingIds

-----------------------------------------------------------------------------
(* The queue of writes *)

\* The writes that are pending afterwards were pending before, perhaps without callbacks.
NoNewWrites ==
  \A i \in DOMAIN pending' : \E j \in DOMAIN pending :
    pending'[i].op = pending[j].op /\ pending'[i].id = pending[j].id

LEMMA NoNewIds ==
  ASSUME NoNewWrites, NEW op PROVE PendingIds(op)' \subseteq PendingIds(op)
<1>1. ASSUME NEW id \in PendingIds(op)' PROVE id \in PendingIds(op)
  <2>1. PICK i \in DOMAIN pending' : pending'[i].op = op /\ pending'[i].id = id
    BY <1>1, PendingIdsAreNext
  <2>2. PICK j \in DOMAIN pending : pending'[i].op = pending[j].op /\ pending'[i].id = pending[j].id
    BY <2>1 DEF NoNewWrites
  <2> QED
    BY <2>1, <2>2, PendingIdsAre
<1> QED
  BY <1>1

\* A write joins the queue.
LEMMA QueueGrows ==
  ASSUME NEW Docs, NEW Callbacks, NEW Ids, ClientInv(Docs, Callbacks, Ids),
         NEW op \in {"set", "delete"}, NEW id \in Ids, NEW c \in Callbacks,
         pending' = Append(pending, Write(op, id, c))
  PROVE  /\ pending' \in Seq(Writes(Callbacks, Ids))
         /\ Len(pending') = Len(pending) + 1
         /\ PendingIds(op)' \subseteq PendingIds(op) \cup {id}
         /\ \A other \in {"set", "delete"} \ {op} : PendingIds(other)' \subseteq PendingIds(other)
         /\ {pending[i].callback : i \in DOMAIN pending} \cup {c}
              \subseteq {pending'[i].callback : i \in DOMAIN pending'}
<1> DEFINE w == Write(op, id, c)
<1>1. pending \in Seq(Writes(Callbacks, Ids)) /\ w \in Writes(Callbacks, Ids)
  BY ClientInvIs DEF Writes, Write
<1>2. w.op = op /\ w.id = id /\ w.callback = c
  BY DEF Write
<1>3. /\ \A i \in DOMAIN pending : i \in DOMAIN pending' /\ pending'[i] = pending[i]
      /\ \A i \in DOMAIN pending' : (i \in DOMAIN pending /\ pending'[i] = pending[i]) \/ pending'[i] = w
      /\ \E i \in DOMAIN pending' : pending'[i] = w
  BY <1>1, AppendElements
<1>4. pending' \in Seq(Writes(Callbacks, Ids)) /\ Len(pending') = Len(pending) + 1
  BY <1>1, AppendProperties
<1>5. PendingIds(op)' \subseteq PendingIds(op) \cup {id}
  BY <1>2, <1>3, PendingIdsAre, PendingIdsAreNext
<1>6. \A other \in {"set", "delete"} \ {op} : PendingIds(other)' \subseteq PendingIds(other)
  BY <1>2, <1>3, PendingIdsAre, PendingIdsAreNext
<1>7. {pending[i].callback : i \in DOMAIN pending} \cup {c}
        \subseteq {pending'[i].callback : i \in DOMAIN pending'}
  BY <1>2, <1>3
<1> QED
  BY <1>4, <1>5, <1>6, <1>7

LEMMA SetDocumentKeeps ==
  ASSUME NEW Docs, NEW Callbacks, NEW Ids, ClientInv(Docs, Callbacks, Ids), NoDoc \notin Docs,
         DocIds \subseteq Ids,
         NEW id \in Fresh, NEW doc \in Docs, NEW c \in Callbacks, SetDocument(id, doc, c)
  PROVE  /\ ClientInv(Docs, Callbacks, Ids)' /\ WrittenKept
         /\ PendingIds("delete")' \subseteq PendingIds("delete")
         /\ Awaited \subseteq Awaited'
<1>1. /\ written' = [written EXCEPT ![id] = doc]
      /\ pending' = Append(pending, Write("set", id, c))
      /\ UNCHANGED <<server, cached, taken, queries, mainQueue>>
  BY DEF SetDocument
<1>2. id \in DocIds /\ id \in Ids /\ written[id] = NoDoc
  BY DEF Fresh
<1>3. /\ written \in [DocIds -> Docs \cup {NoDoc}]
      /\ server \subseteq Known /\ cached \subseteq Known /\ PendingIds("set") \subseteq Known
      /\ taken \in 0 .. Len(pending)
      /\ queries \subseteq Callbacks /\ IsFiniteSet(queries)
      /\ mainQueue \in Seq(Events(Callbacks))
      /\ \A i \in DOMAIN mainQueue : mainQueue[i].ids \subseteq Known
      /\ Len(pending) \in Nat
  BY ClientInvIs, LenProperties
<1>4. WrittenKept /\ Known \subseteq Known' /\ id \in Known'
      /\ written' \in [DocIds -> Docs \cup {NoDoc}]
  BY <1>1, <1>2, <1>3 DEF WrittenKept, Known
<1>5. /\ pending' \in Seq(Writes(Callbacks, Ids)) /\ Len(pending') = Len(pending) + 1
      /\ PendingIds("set")' \subseteq PendingIds("set") \cup {id}
      /\ PendingIds("delete")' \subseteq PendingIds("delete")
      /\ {pending[i].callback : i \in DOMAIN pending}
              \subseteq {pending'[i].callback : i \in DOMAIN pending'}
  BY <1>1, <1>2, QueueGrows
<1>6. ClientInv(Docs, Callbacks, Ids)'
  BY <1>1, <1>3, <1>4, <1>5, ClientInvIsNext
<1>7. Awaited \subseteq Awaited'
  BY <1>1, <1>5 DEF Awaited
<1> QED
  BY <1>4, <1>5, <1>6, <1>7

LEMMA DeleteDocumentKeeps ==
  ASSUME NEW Docs, NEW Callbacks, NEW Ids, ClientInv(Docs, Callbacks, Ids),
         NEW id \in Ids, NEW c \in Callbacks, DeleteDocument(id, c)
  PROVE  /\ ClientInv(Docs, Callbacks, Ids)' /\ UNCHANGED <<written, server>>
         /\ PendingIds("delete")' \subseteq PendingIds("delete") \cup {id}
         /\ Awaited \subseteq Awaited'
<1>1. /\ pending' = Append(pending, Write("delete", id, c))
      /\ UNCHANGED <<written, server, cached, taken, queries, mainQueue>>
  BY DEF DeleteDocument
<1>2. /\ pending' \in Seq(Writes(Callbacks, Ids)) /\ Len(pending') = Len(pending) + 1
      /\ PendingIds("delete")' \subseteq PendingIds("delete") \cup {id}
      /\ PendingIds("set")' \subseteq PendingIds("set")
      /\ {pending[i].callback : i \in DOMAIN pending}
              \subseteq {pending'[i].callback : i \in DOMAIN pending'}
  BY <1>1, QueueGrows
<1>3. Known' = Known
  BY <1>1 DEF Known
<1>4. Len(pending) \in Nat
  BY ClientInvIs, LenProperties
<1>5. ClientInv(Docs, Callbacks, Ids)'
  BY <1>1, <1>2, <1>3, <1>4, ClientInvIs, ClientInvIsNext
<1>6. Awaited \subseteq Awaited'
  BY <1>1, <1>2 DEF Awaited
<1> QED
  BY <1>1, <1>2, <1>5, <1>6

LEMMA GetDocumentsKeeps ==
  ASSUME NEW Docs, NEW Callbacks, NEW Ids, ClientInv(Docs, Callbacks, Ids),
         NEW c \in Callbacks, GetDocuments(c)
  PROVE  /\ ClientInv(Docs, Callbacks, Ids)' /\ UNCHANGED <<written, server, pending>>
         /\ Awaited \subseteq Awaited'
<1>1. /\ queries' = queries \cup {c}
      /\ UNCHANGED <<written, server, cached, pending, taken, mainQueue>>
  BY DEF GetDocuments
<1>2. Known' = Known /\ PendingIds("set")' = PendingIds("set")
  BY <1>1 DEF Known, PendingIds
<1>3. ClientInv(Docs, Callbacks, Ids)'
  BY <1>1, <1>2, FS_AddElement, ClientInvIs, ClientInvIsNext
<1> QED
  BY <1>1, <1>3 DEF Awaited

\* The process dies, or the user signs out.
LEMMA DyingKeeps ==
  ASSUME NEW Docs, NEW Callbacks, NEW Ids, ClientInv(Docs, Callbacks, Ids), ProcessDies
  PROVE  /\ ClientInv(Docs, Callbacks, Ids)' /\ UNCHANGED <<written, server>>
         /\ PendingIds("delete")' \subseteq PendingIds("delete")
         /\ Awaited' \subseteq {NoCallback}
<1>1. /\ pending' = [i \in DOMAIN pending |-> [pending[i] EXCEPT !.callback = NoCallback]]
      /\ taken' = 0 /\ queries' = {} /\ mainQueue' = <<>>
      /\ UNCHANGED <<written, server, cached>>
  BY DEF ProcessDies
<1>2. pending \in Seq(Writes(Callbacks, Ids)) /\ DOMAIN pending = 1 .. Len(pending)
      /\ Len(pending) \in Nat
  BY ClientInvIs, LenProperties
<1>3. \A i \in 1 .. Len(pending) :
        /\ [pending[i] EXCEPT !.callback = NoCallback] \in Writes(Callbacks, Ids)
        /\ [pending[i] EXCEPT !.callback = NoCallback].op = pending[i].op
        /\ [pending[i] EXCEPT !.callback = NoCallback].id = pending[i].id
  <2> TAKE i \in 1 .. Len(pending)
  <2>1. pending[i] \in Writes(Callbacks, Ids)
    BY <1>2, ElementOfSeq
  <2> QED
    BY <2>1 DEF Writes
<1>4. pending' \in Seq(Writes(Callbacks, Ids)) /\ DOMAIN pending' = DOMAIN pending
  BY <1>1, <1>2, <1>3, IsASeq
<1>5. NoNewWrites
  BY <1>1, <1>2, <1>3, <1>4 DEF NoNewWrites
<1>6. Len(pending') \in Nat /\ DOMAIN mainQueue' = {} /\ mainQueue' \in Seq(Events(Callbacks))
  BY <1>1, <1>4, LenProperties, EmptySeq
<1>7. Known' = Known
  BY <1>1 DEF Known
<1>8. ClientInv(Docs, Callbacks, Ids)'
  BY <1>1, <1>4, <1>5, <1>6, <1>7, NoNewIds, FS_EmptySet, ClientInvIs, ClientInvIsNext
<1>9. \A i \in DOMAIN pending' : pending'[i].callback = NoCallback
  <2> TAKE i \in DOMAIN pending'
  <2>1. pending[i] \in Writes(Callbacks, Ids) /\ i \in DOMAIN pending
    BY <1>2, <1>4, ElementOfSeq
  <2> QED
    BY <1>1, <2>1 DEF Writes
<1>10. Awaited' \subseteq {NoCallback}
  BY <1>1, <1>6, <1>9 DEF Awaited
<1> QED
  BY <1>1, <1>5, <1>8, <1>10, NoNewIds

LEMMA StreamsStopKeeps ==
  ASSUME NEW Docs, NEW Callbacks, NEW Ids, ClientInv(Docs, Callbacks, Ids), StreamsStop
  PROVE  /\ ClientInv(Docs, Callbacks, Ids)'
         /\ UNCHANGED <<written, server, queries, pending, mainQueue>>
<1>1. taken' = 0 /\ UNCHANGED <<written, server, cached, queries, pending, mainQueue>>
  BY DEF StreamsStop
<1>2. Known' = Known /\ PendingIds("set")' = PendingIds("set")
  BY <1>1 DEF Known, PendingIds
<1>3. Len(pending) \in Nat
  BY ClientInvIs, LenProperties
<1> QED
  BY <1>1, <1>2, <1>3, ClientInvIs, ClientInvIsNext

-----------------------------------------------------------------------------
(* The main queue *)

\* An event joins the main queue.
LEMMA EventJoins ==
  ASSUME NEW Docs, NEW Callbacks, NEW Ids, ClientInv(Docs, Callbacks, Ids),
         NEW c \in Callbacks, NEW ok \in BOOLEAN, NEW ids \in SUBSET Known,
         mainQueue' = Append(mainQueue, Event(c, ok, ids))
  PROVE  /\ mainQueue' \in Seq(Events(Callbacks))
         /\ \A i \in DOMAIN mainQueue' : mainQueue'[i].ids \subseteq Known
         /\ {mainQueue[i].callback : i \in DOMAIN mainQueue} \cup {c}
              \subseteq {mainQueue'[i].callback : i \in DOMAIN mainQueue'}
<1> DEFINE e == Event(c, ok, ids)
<1>1. mainQueue \in Seq(Events(Callbacks)) /\ e \in Events(Callbacks)
      /\ \A i \in DOMAIN mainQueue : mainQueue[i].ids \subseteq Known
  BY ClientInvIs DEF Events, Event, Known
<1>2. e.callback = c /\ e.ids = ids
  BY DEF Event
<1>3. /\ \A i \in DOMAIN mainQueue : i \in DOMAIN mainQueue' /\ mainQueue'[i] = mainQueue[i]
      /\ \A i \in DOMAIN mainQueue' :
           (i \in DOMAIN mainQueue /\ mainQueue'[i] = mainQueue[i]) \/ mainQueue'[i] = e
      /\ \E i \in DOMAIN mainQueue' : mainQueue'[i] = e
  BY <1>1, AppendElements
<1>4. mainQueue' \in Seq(Events(Callbacks))
  BY <1>1, AppendProperties
<1> QED
  BY <1>1, <1>2, <1>3, <1>4

Joined(s, calls, ok, ids) == s \o [i \in DOMAIN calls |-> Event(calls[i], ok, ids)]

\* The events of all calls that wait join the main queue, behind what is there.
LEMMA EventsJoin ==
  ASSUME NEW E, NEW s \in Seq(E), IsFiniteSet(queries), NEW calls \in SetToSeqs(queries),
         NEW ok, NEW ids, \A c \in queries : Event(c, ok, ids) \in E
  PROVE  /\ Joined(s, calls, ok, ids) \in Seq(E)
         /\ \A i \in DOMAIN s : i \in DOMAIN Joined(s, calls, ok, ids)
                               /\ Joined(s, calls, ok, ids)[i] = s[i]
         /\ \A i \in DOMAIN Joined(s, calls, ok, ids) :
              \/ i \in DOMAIN s /\ Joined(s, calls, ok, ids)[i] = s[i]
              \/ /\ \A j \in DOMAIN s : j < i
                 /\ \E c \in queries : Joined(s, calls, ok, ids)[i] = Event(c, ok, ids)
         /\ \A c \in queries : \E i \in DOMAIN Joined(s, calls, ok, ids) :
              Joined(s, calls, ok, ids)[i] = Event(c, ok, ids)
<1> DEFINE new == [i \in DOMAIN calls |-> Event(calls[i], ok, ids)]
           all == Joined(s, calls, ok, ids)
<1>1. calls \in Seq(queries) /\ \A c \in queries : \E i \in DOMAIN calls : calls[i] = c
  BY ArrangedElements
<1>2. /\ Len(calls) \in Nat /\ DOMAIN calls = 1 .. Len(calls)
      /\ \A i \in 1 .. Len(calls) : calls[i] \in queries
      /\ Len(s) \in Nat /\ DOMAIN s = 1 .. Len(s)
  BY <1>1, LenProperties, ElementOfSeq
<1>3. /\ new \in Seq(E) /\ Len(new) = Len(calls)
      /\ \A i \in 1 .. Len(calls) : new[i] = Event(calls[i], ok, ids)
  BY <1>2
<1> HIDE DEF new
<1>4. /\ all \in Seq(E) /\ Len(all) = Len(s) + Len(new)
      /\ \A i \in 1 .. Len(s) + Len(new) :
           all[i] = IF i <= Len(s) THEN s[i] ELSE new[i - Len(s)]
  BY <1>3, ConcatProperties DEF new, Joined
<1> HIDE DEF all
<1>5. DOMAIN all = 1 .. Len(s) + Len(new)
  BY <1>4, LenProperties
<1>6. \A i \in DOMAIN s : i \in DOMAIN all /\ all[i] = s[i]
  BY <1>2, <1>3, <1>4, <1>5
<1>7. ASSUME NEW i \in DOMAIN all, i \notin DOMAIN s
      PROVE  /\ \A j \in DOMAIN s : j < i
             /\ \E c \in queries : all[i] = Event(c, ok, ids)
  <2>1. i > Len(s) /\ i - Len(s) \in 1 .. Len(calls)
    BY <1>2, <1>3, <1>5, <1>7
  <2>2. all[i] = Event(calls[i - Len(s)], ok, ids) /\ calls[i - Len(s)] \in queries
    BY <1>2, <1>3, <1>4, <1>5, <2>1
  <2>3. \A j \in DOMAIN s : j < i
    BY <1>2, <1>3, <1>5, <2>1
  <2> QED
    BY <2>2, <2>3
<1>8. ASSUME NEW c \in queries PROVE \E i \in DOMAIN all : all[i] = Event(c, ok, ids)
  <2>1. PICK j \in 1 .. Len(calls) : calls[j] = c
    BY <1>1, <1>2
  <2>2. PICK k \in DOMAIN all : k = Len(s) + j
    BY <1>2, <1>3, <1>5
  <2>3. ~(k <= Len(s)) /\ k - Len(s) = j
    BY <1>2, <2>2
  <2>4. all[k] = new[k - Len(s)]
    BY <1>4, <1>5, <2>2, <2>3
  <2>5. all[k] = Event(calls[j], ok, ids)
    BY <1>3, <2>3, <2>4
  <2> QED
    BY <2>1, <2>5
<1> QED
  BY <1>4, <1>6, <1>7, <1>8 DEF all

\* They are events of different calls.
LEMMA EventsDiffer ==
  ASSUME NEW E, NEW s \in Seq(E), IsFiniteSet(queries), NEW calls \in SetToSeqs(queries),
         NEW ok, NEW ids, \A c \in queries : Event(c, ok, ids) \in E,
         NEW i \in DOMAIN Joined(s, calls, ok, ids), i \notin DOMAIN s,
         NEW j \in DOMAIN Joined(s, calls, ok, ids), j \notin DOMAIN s,
         Joined(s, calls, ok, ids)[i].callback = Joined(s, calls, ok, ids)[j].callback
  PROVE  i = j
<1> DEFINE new == [k \in DOMAIN calls |-> Event(calls[k], ok, ids)]
<1>1. calls \in Seq(queries)
  BY ArrangedElements
<1>2. /\ Len(calls) \in Nat /\ DOMAIN calls = 1 .. Len(calls)
      /\ \A k \in 1 .. Len(calls) : calls[k] \in queries
      /\ Len(s) \in Nat /\ DOMAIN s = 1 .. Len(s)
  BY <1>1, LenProperties, ElementOfSeq
<1>3. \A k, l \in DOMAIN calls : calls[k] = calls[l] => k = l
  BY DEF SetToSeqs
<1>4. /\ new \in Seq(E) /\ Len(new) = Len(calls)
      /\ \A k \in 1 .. Len(calls) : new[k].callback = calls[k]
  BY <1>2 DEF Event
<1> HIDE DEF new
<1> DEFINE all == Joined(s, calls, ok, ids)
<1>5. /\ all \in Seq(E) /\ Len(all) = Len(s) + Len(new)
      /\ \A k \in 1 .. Len(s) + Len(new) :
           all[k] = IF k <= Len(s) THEN s[k] ELSE new[k - Len(s)]
  BY <1>4, ConcatProperties DEF new, Joined
<1>6. i \in DOMAIN all /\ j \in DOMAIN all /\ all[i].callback = all[j].callback
  OBVIOUS
<1> HIDE DEF all
<1>7. DOMAIN all = 1 .. Len(s) + Len(new)
  BY <1>5, LenProperties
<1>8. /\ i - Len(s) \in 1 .. Len(calls) /\ all[i] = new[i - Len(s)]
      /\ j - Len(s) \in 1 .. Len(calls) /\ all[j] = new[j - Len(s)]
  BY <1>2, <1>4, <1>5, <1>6, <1>7
<1>9. calls[i - Len(s)] = calls[j - Len(s)]
  BY <1>4, <1>6, <1>8
<1>10. i - Len(s) = j - Len(s)
  BY <1>2, <1>3, <1>8, <1>9
<1> QED
  BY <1>2, <1>6, <1>7, <1>10

\* The main queue's next event is taken.
LEMMA TakeEventKeeps ==
  ASSUME NEW Docs, NEW Callbacks, NEW Ids, ClientInv(Docs, Callbacks, Ids), TakeEvent,
         UNCHANGED <<written, server, cached, pending, taken, queries>>
  PROVE  /\ ClientInv(Docs, Callbacks, Ids)'
         /\ Awaited \subseteq Awaited' \cup {Head(mainQueue).callback}
         /\ Head(mainQueue) \in Events(Callbacks)
         /\ Head(mainQueue).ids \subseteq Known
<1>1. mainQueue # <<>> /\ mainQueue' = Tail(mainQueue)
  BY DEF TakeEvent
<1>2. mainQueue \in Seq(Events(Callbacks))
      /\ \A i \in DOMAIN mainQueue : mainQueue[i].ids \subseteq Known
  BY ClientInvIs
<1>3. mainQueue' \in Seq(Events(Callbacks)) /\ Head(mainQueue) \in Events(Callbacks)
  BY <1>1, <1>2, HeadTailProperties
<1>4. /\ \A i \in DOMAIN mainQueue' : i + 1 \in DOMAIN mainQueue /\ mainQueue'[i] = mainQueue[i + 1]
      /\ \A i \in DOMAIN mainQueue :
           \/ mainQueue[i] = Head(mainQueue)
           \/ i - 1 \in DOMAIN mainQueue' /\ mainQueue'[i - 1] = mainQueue[i]
      /\ 1 \in DOMAIN mainQueue /\ Head(mainQueue) = mainQueue[1]
  BY <1>1, <1>2, TailElements
<1>5. Known' = Known /\ PendingIds("set")' = PendingIds("set")
  BY DEF Known, PendingIds
<1>6. ClientInv(Docs, Callbacks, Ids)'
  BY <1>2, <1>3, <1>4, <1>5, ClientInvIs, ClientInvIsNext
<1>7. {mainQueue[i].callback : i \in DOMAIN mainQueue}
        \subseteq {mainQueue'[i].callback : i \in DOMAIN mainQueue'} \cup {Head(mainQueue).callback}
  BY <1>4
<1>8. Awaited \subseteq Awaited' \cup {Head(mainQueue).callback}
  BY <1>7 DEF Awaited
<1> QED
  BY <1>2, <1>3, <1>4, <1>6, <1>8

-----------------------------------------------------------------------------
(* What the client does by itself *)

\* What every step of the client keeps, for the proofs below.
Kept(Docs, Callbacks, Ids) ==
  /\ ClientInv(Docs, Callbacks, Ids)'
  /\ UNCHANGED written
  /\ \A op \in {"set", "delete"} : PendingIds(op)' \subseteq PendingIds(op)
  /\ Awaited \subseteq Awaited' \cup {NoCallback}
  /\ server \ server' \subseteq PendingIds("delete")

LEMMA SettleKeeps ==
  ASSUME NEW Docs, NEW Callbacks, NEW Ids, ClientInv(Docs, Callbacks, Ids),
         NEW ok \in BOOLEAN, pending # <<>>, Settle(ok),
         cached' \subseteq Known, taken' \in 0 .. Len(Tail(pending))
  PROVE  Kept(Docs, Callbacks, Ids)
<1> DEFINE w == Head(pending)
<1>1. pending' = Tail(pending) /\ UNCHANGED <<written, server, queries>> /\ Post(w.callback, ok)
  BY DEF Settle
<1>2. pending \in Seq(Writes(Callbacks, Ids)) /\ mainQueue \in Seq(Events(Callbacks))
      /\ \A i \in DOMAIN mainQueue : mainQueue[i].ids \subseteq Known
  BY ClientInvIs
<1>3. w \in Writes(Callbacks, Ids) /\ pending' \in Seq(Writes(Callbacks, Ids))
  BY <1>1, <1>2, HeadTailProperties
<1>4. /\ \A i \in DOMAIN pending' : i + 1 \in DOMAIN pending /\ pending'[i] = pending[i + 1]
      /\ \A i \in DOMAIN pending :
           \/ pending[i] = w
           \/ i - 1 \in DOMAIN pending' /\ pending'[i - 1] = pending[i]
  BY <1>1, <1>2, TailElements
<1>5. NoNewWrites
  BY <1>4 DEF NoNewWrites
<1>6. /\ mainQueue' \in Seq(Events(Callbacks))
      /\ \A i \in DOMAIN mainQueue' : mainQueue'[i].ids \subseteq Known
      /\ {mainQueue[i].callback : i \in DOMAIN mainQueue} \cup {w.callback}
           \subseteq {mainQueue'[i].callback : i \in DOMAIN mainQueue'} \cup {NoCallback}
  <2>1. CASE w.callback = NoCallback
    BY <1>1, <1>2, <2>1 DEF Post
  <2>2. CASE w.callback # NoCallback
    <3>1. w.callback \in Callbacks /\ {} \in SUBSET Known
          /\ mainQueue' = Append(mainQueue, Event(w.callback, ok, {}))
      BY <1>1, <1>3, <2>2 DEF Post, Writes
    <3> QED
      BY <3>1, EventJoins
  <2> QED
    BY <2>1, <2>2
<1>7. Known' = Known
  BY <1>1 DEF Known
<1>8. ClientInv(Docs, Callbacks, Ids)'
  BY <1>1, <1>3, <1>5, <1>6, <1>7, NoNewIds, ClientInvIs, ClientInvIsNext
<1>9. {pending[i].callback : i \in DOMAIN pending}
        \subseteq {pending'[i].callback : i \in DOMAIN pending'} \cup {w.callback}
  BY <1>4
<1>10. Awaited \subseteq Awaited' \cup {NoCallback}
  BY <1>1, <1>6, <1>9 DEF Awaited
<1> QED
  BY <1>1, <1>5, <1>8, <1>10, NoNewIds DEF Kept

LEMMA AnswerKeeps ==
  ASSUME NEW Docs, NEW Callbacks, NEW Ids, ClientInv(Docs, Callbacks, Ids),
         NEW ok \in BOOLEAN, NEW ids \in SUBSET Known,
         Answer(ok, ids), cached' \subseteq Known,
         UNCHANGED <<written, server, pending, taken>>
  PROVE  Kept(Docs, Callbacks, Ids)
<1>1. PICK calls \in SetToSeqs(queries) :
        mainQueue' = Joined(mainQueue, calls, ok, ids)
  BY DEF Answer, Joined
<1>2. queries' = {} /\ IsFiniteSet(queries')
  BY FS_EmptySet DEF Answer
<1>3. mainQueue \in Seq(Events(Callbacks)) /\ queries \subseteq Callbacks /\ IsFiniteSet(queries)
      /\ \A i \in DOMAIN mainQueue : mainQueue[i].ids \subseteq Known
  BY ClientInvIs
<1>4. \A c \in queries : /\ Event(c, ok, ids) \in Events(Callbacks)
                         /\ Event(c, ok, ids).callback = c /\ Event(c, ok, ids).ids = ids
  BY <1>3 DEF Events, Event, Known
<1>5. /\ mainQueue' \in Seq(Events(Callbacks))
      /\ \A i \in DOMAIN mainQueue : i \in DOMAIN mainQueue' /\ mainQueue'[i] = mainQueue[i]
      /\ \A i \in DOMAIN mainQueue' :
           \/ i \in DOMAIN mainQueue /\ mainQueue'[i] = mainQueue[i]
           \/ \E c \in queries : mainQueue'[i] = Event(c, ok, ids)
      /\ \A c \in queries : \E i \in DOMAIN mainQueue' : mainQueue'[i] = Event(c, ok, ids)
  BY <1>1, <1>3, <1>4, EventsJoin
<1>6. \A i \in DOMAIN mainQueue' : mainQueue'[i].ids \subseteq Known
  BY <1>3, <1>4, <1>5
<1>7. Known' = Known /\ \A op : PendingIds(op)' = PendingIds(op)
  BY DEF Known, PendingIds
<1>8. ClientInv(Docs, Callbacks, Ids)'
  BY <1>2, <1>5, <1>6, <1>7, ClientInvIs, ClientInvIsNext
<1>9. Awaited \subseteq Awaited'
  BY <1>4, <1>5 DEF Awaited
<1> QED
  BY <1>7, <1>8, <1>9 DEF Kept

LEMMA ViewIsKnown ==
  ASSUME NEW Docs, NEW Callbacks, NEW Ids, ClientInv(Docs, Callbacks, Ids),
         NEW base \in SUBSET Known
  PROVE  View(base) \in SUBSET Known
BY ClientInvIs DEF View

\* The server takes a write, or the stream breaks.
LEMMA StreamKeeps ==
  ASSUME NEW Docs, NEW Callbacks, NEW Ids, ClientInv(Docs, Callbacks, Ids),
         ServerTakes \/ StreamBreaks
  PROVE  Kept(Docs, Callbacks, Ids)
<1>1. UNCHANGED <<written, cached, pending, queries, mainQueue>>
  BY DEF ServerTakes, StreamBreaks
<1>2. Known' = Known /\ Awaited' = Awaited /\ \A op : PendingIds(op)' = PendingIds(op)
  BY <1>1 DEF Known, PendingIds, Awaited
<1>3. Len(pending) \in Nat /\ DOMAIN pending = 1 .. Len(pending) /\ taken \in 0 .. Len(pending)
      /\ PendingIds("set") \subseteq Known /\ server \subseteq Known
      /\ pending \in Seq(Writes(Callbacks, Ids))
  BY ClientInvIs, LenProperties
<1>4. taken' \in 0 .. Len(pending) /\ server' \subseteq Known
      /\ server \ server' \subseteq PendingIds("delete")
  <2>1. CASE ServerTakes
    <3>1. taken + 1 \in DOMAIN pending /\ taken' = taken + 1
          /\ server' = Effect(pending[taken + 1], server)
      BY <1>3, <2>1 DEF ServerTakes
    <3>2. pending[taken + 1].op \in {"set", "delete"}
      <4>1. pending[taken + 1] \in Writes(Callbacks, Ids)
        BY <1>3, <3>1, ElementOfSeq
      <4> QED
        BY <4>1 DEF Writes
    <3>3. pending[taken + 1].id \in PendingIds(pending[taken + 1].op)
      BY <3>1, PendingIdsAre
    <3> QED
      BY <1>3, <3>1, <3>2, <3>3 DEF Effect
  <2>2. CASE StreamBreaks
    BY <1>3, <2>2 DEF StreamBreaks
  <2> QED
    BY <2>1, <2>2
<1>5. ClientInv(Docs, Callbacks, Ids)'
  BY <1>1, <1>2, <1>4, ClientInvIs, ClientInvIsNext
<1> QED
  BY <1>1, <1>2, <1>4, <1>5 DEF Kept

LEMMA ClientStepKeeps ==
  ASSUME NEW Docs, NEW Callbacks, NEW Ids, ClientInv(Docs, Callbacks, Ids), ClientStep
  PROVE  Kept(Docs, Callbacks, Ids)
<1>1. server \subseteq Known /\ cached \subseteq Known /\ PendingIds("set") \subseteq Known
      /\ taken \in 0 .. Len(pending) /\ pending \in Seq(Writes(Callbacks, Ids))
      /\ Len(pending) \in Nat
  BY ClientInvIs, LenProperties
<1>2. CASE Acknowledge
  <2>1. taken > 0 /\ taken' = taken - 1 /\ Settle(TRUE) /\ cached' = Effect(Head(pending), cached)
    BY <1>2 DEF Acknowledge
  <2>2. pending # <<>>
    BY <1>1, <2>1, LenProperties
  <2>3. Len(Tail(pending)) = Len(pending) - 1 /\ 1 \in DOMAIN pending /\ Head(pending) = pending[1]
    BY <1>1, <2>2, HeadTailProperties, TailElements
  <2>4. Head(pending).id \in PendingIds(Head(pending).op)
    BY <2>3, PendingIdsAre
  <2>5. cached' \subseteq Known
    BY <1>1, <2>1, <2>4 DEF Effect
  <2>6. taken' \in 0 .. Len(Tail(pending))
    BY <1>1, <2>1, <2>3
  <2> QED
    BY <2>1, <2>2, <2>5, <2>6, SettleKeeps
<1>3. CASE Reject
  <2>1. pending # <<>> /\ Settle(FALSE) /\ taken' = 0 /\ cached' = cached
    BY <1>3 DEF Reject
  <2>2. taken' \in 0 .. Len(Tail(pending)) /\ cached' \subseteq Known
    BY <1>1, <2>1, HeadTailProperties, LenProperties
  <2> QED
    BY <2>1, <2>2, SettleKeeps
<1>4. CASE AnswerFromServer
  <2>1. /\ Answer(TRUE, View(server)) /\ cached' = server
        /\ UNCHANGED <<written, server, pending, taken>>
    BY <1>4 DEF AnswerFromServer
  <2> QED
    BY <1>1, <2>1, ViewIsKnown, AnswerKeeps
<1>5. CASE AnswerFromCache
  <2>1. Answer(TRUE, View(cached)) /\ UNCHANGED <<written, server, cached, pending, taken>>
    BY <1>5 DEF AnswerFromCache
  <2> QED
    BY <1>1, <2>1, ViewIsKnown, AnswerKeeps
<1>6. CASE FailQuery
  <2>1. Answer(FALSE, {}) /\ UNCHANGED <<written, server, cached, pending, taken>>
    BY <1>6 DEF FailQuery
  <2> QED
    BY <1>1, <2>1, AnswerKeeps
<1> QED
  BY <1>2, <1>3, <1>4, <1>5, <1>6, StreamKeeps DEF ClientStep

-----------------------------------------------------------------------------
(* Other devices *)

LEMMA OtherDeviceKeeps ==
  ASSUME NEW Docs, NEW Callbacks, NEW Ids, ClientInv(Docs, Callbacks, Ids), NoDoc \notin Docs,
         OtherDeviceDeletes \/ \E doc \in Docs : OtherDeviceAdds(doc)
  PROVE  /\ ClientInv(Docs, Callbacks, Ids)' /\ WrittenKept
         /\ UNCHANGED <<pending, queries, mainQueue>>
<1>1. UNCHANGED <<cached, pending, taken, queries, mainQueue>>
  BY DEF OtherDeviceDeletes, OtherDeviceAdds
<1>2. /\ written \in [DocIds -> Docs \cup {NoDoc}]
      /\ server \subseteq Known
  BY ClientInvIs
<1>3. written' \in [DocIds -> Docs \cup {NoDoc}] /\ WrittenKept /\ server' \subseteq Known'
      /\ Known \subseteq Known'
  <2>1. CASE OtherDeviceDeletes
    BY <1>2, <2>1 DEF OtherDeviceDeletes, WrittenKept, Known
  <2>2. CASE \E doc \in Docs : OtherDeviceAdds(doc)
    <3>1. PICK doc \in Docs, id \in Fresh :
            written' = [written EXCEPT ![id] = doc] /\ server' = server \cup {id}
      BY <2>2 DEF OtherDeviceAdds
    <3>2. WrittenKept /\ id \in Known' /\ Known \subseteq Known'
      BY <1>2, <3>1 DEF WrittenKept, Known, Fresh
    <3> QED
      BY <1>2, <3>1, <3>2 DEF Fresh
  <2> QED
    BY <2>1, <2>2
<1>4. PendingIds("set")' = PendingIds("set")
  BY <1>1 DEF PendingIds
<1>5. ClientInv(Docs, Callbacks, Ids)'
  BY <1>1, <1>3, <1>4, ClientInvIs, ClientInvIsNext
<1> QED
  BY <1>1, <1>3, <1>5

-----------------------------------------------------------------------------
(* Callbacks that are called once *)

\* The callback waits for a write, in one place at most.
Once(c) ==
  /\ c \notin queries
  /\ \A i, j \in DOMAIN pending : pending[i].callback = c /\ pending[j].callback = c => i = j
  /\ \A i, j \in DOMAIN mainQueue : mainQueue[i].callback = c /\ mainQueue[j].callback = c => i = j
  /\ \A i \in DOMAIN pending, j \in DOMAIN mainQueue :
       ~(pending[i].callback = c /\ mainQueue[j].callback = c)

\* A write is queued with another callback, or with one that is not under way.
LEMMA QueuedOnce ==
  ASSUME NEW Docs, NEW Callbacks, NEW Ids, ClientInv(Docs, Callbacks, Ids),
         NEW op \in {"set", "delete"}, NEW id \in Ids, NEW d \in Callbacks,
         pending' = Append(pending, Write(op, id, d)), UNCHANGED <<queries, mainQueue>>,
         NEW c, Once(c), c = d => c \notin Awaited
  PROVE  Once(c)' /\ Awaited' \subseteq Awaited \cup {d}
<1> DEFINE w == Write(op, id, d)
<1>1. pending \in Seq(Writes(Callbacks, Ids)) /\ w \in Writes(Callbacks, Ids) /\ w.callback = d
  BY ClientInvIs DEF Writes, Write
<1>2. \A i \in DOMAIN pending' :
        \/ i \in DOMAIN pending /\ pending'[i] = pending[i]
        \/ i = Len(pending) + 1 /\ pending'[i] = w
  BY <1>1, AppendElements
<1> QED
  BY <1>1, <1>2 DEF Once, Awaited

LEMMA SettledOnce ==
  ASSUME NEW Docs, NEW Callbacks, NEW Ids, ClientInv(Docs, Callbacks, Ids),
         NEW ok \in BOOLEAN, pending # <<>>, Settle(ok),
         NEW c, c # NoCallback, Once(c)
  PROVE  Once(c)' /\ (c \in Awaited' => c \in Awaited)
<1> DEFINE w == Head(pending)
<1>1. pending' = Tail(pending) /\ UNCHANGED queries /\ Post(w.callback, ok)
  BY DEF Settle
<1>2. pending \in Seq(Writes(Callbacks, Ids)) /\ mainQueue \in Seq(Events(Callbacks))
  BY ClientInvIs
<1>3. w \in Writes(Callbacks, Ids)
  BY <1>2, HeadTailProperties
<1>4. /\ \A i \in DOMAIN pending' :
           i \in Nat \ {0} /\ i + 1 \in DOMAIN pending /\ pending'[i] = pending[i + 1]
      /\ 1 \in DOMAIN pending /\ w = pending[1]
  BY <1>1, <1>2, TailElements
<1>5. /\ \A i, j \in DOMAIN pending' : pending'[i].callback = c /\ pending'[j].callback = c => i = j
      /\ w.callback = c => \A i \in DOMAIN pending' : pending'[i].callback # c
  BY <1>4 DEF Once
<1>6. CASE w.callback = NoCallback
  <2>1. mainQueue' = mainQueue
    BY <1>1, <1>6 DEF Post
  <2> QED
    BY <1>1, <1>4, <1>5, <2>1 DEF Once, Awaited
<1>7. CASE w.callback # NoCallback
  <2> DEFINE e == Event(w.callback, ok, {})
  <2>1. mainQueue' = Append(mainQueue, e) /\ e \in Events(Callbacks) /\ e.callback = w.callback
    BY <1>1, <1>3, <1>7 DEF Post, Event, Events, Writes
  <2>2. \A i \in DOMAIN mainQueue' :
          \/ i \in DOMAIN mainQueue /\ mainQueue'[i] = mainQueue[i]
          \/ i = Len(mainQueue) + 1 /\ mainQueue'[i] = e
    BY <1>2, <2>1, AppendElements
  <2> HIDE DEF e, w
  <2>3. Once(c)'
    BY <1>1, <1>4, <1>5, <2>1, <2>2 DEF Once
  <2>4. c \in Awaited' => c \in Awaited
    BY <1>1, <1>4, <2>1, <2>2 DEF Awaited
  <2> QED
    BY <2>3, <2>4
<1> QED
  BY <1>6, <1>7

LEMMA AnsweredOnce ==
  ASSUME NEW Docs, NEW Callbacks, NEW Ids, ClientInv(Docs, Callbacks, Ids),
         NEW ok \in BOOLEAN, NEW ids \in SUBSET Known,
         Answer(ok, ids), UNCHANGED pending, NEW c, Once(c)
  PROVE  Once(c)' /\ (c \in Awaited' => c \in Awaited)
<1>1. PICK calls \in SetToSeqs(queries) :
        mainQueue' = Joined(mainQueue, calls, ok, ids)
  BY DEF Answer, Joined
<1>2. mainQueue \in Seq(Events(Callbacks)) /\ queries \subseteq Callbacks /\ IsFiniteSet(queries)
      /\ queries' = {}
  BY ClientInvIs DEF Answer
<1>3. \A d \in queries : Event(d, ok, ids) \in Events(Callbacks) /\ Event(d, ok, ids).callback = d
  BY <1>2 DEF Events, Event, Known
<1>4. \A i \in DOMAIN mainQueue' :
        \/ i \in DOMAIN mainQueue /\ mainQueue'[i] = mainQueue[i]
        \/ \E d \in queries : mainQueue'[i] = Event(d, ok, ids)
  BY <1>1, <1>2, <1>3, EventsJoin
<1>5. c \notin queries
  BY DEF Once
<1>6. \A i \in DOMAIN mainQueue' :
        mainQueue'[i].callback = c => i \in DOMAIN mainQueue /\ mainQueue'[i] = mainQueue[i]
  BY <1>3, <1>4, <1>5
<1> QED
  BY <1>2, <1>6 DEF Once, Awaited

LEMMA ClientStepOnce ==
  ASSUME NEW Docs, NEW Callbacks, NEW Ids, ClientInv(Docs, Callbacks, Ids), ClientStep,
         NEW c, c # NoCallback, Once(c)
  PROVE  Once(c)' /\ (c \in Awaited' => c \in Awaited)
<1>1. server \subseteq Known /\ cached \subseteq Known /\ taken \in 0 .. Len(pending)
  BY ClientInvIs
<1>2. CASE Acknowledge \/ Reject
  <2>1. pending # <<>>
    <3>1. Len(<<>>) = 0
      OBVIOUS
    <3>2. Acknowledge => Len(pending) # 0
      BY <1>1 DEF Acknowledge
    <3>3. Reject => pending # <<>>
      BY DEF Reject
    <3> QED
      BY <1>2, <3>1, <3>2, <3>3
  <2>2. PICK ok \in BOOLEAN : Settle(ok)
    BY <1>2 DEF Acknowledge, Reject
  <2> QED
    BY <2>1, <2>2, SettledOnce
<1>3. CASE AnswerFromServer \/ AnswerFromCache \/ FailQuery
  <2>1. PICK ok \in BOOLEAN, ids \in SUBSET Known : Answer(ok, ids) /\ UNCHANGED pending
    BY <1>1, <1>3, ViewIsKnown DEF AnswerFromServer, AnswerFromCache, FailQuery
  <2> QED
    BY <2>1, AnsweredOnce
<1>4. CASE ServerTakes \/ StreamBreaks
  BY <1>4 DEF ServerTakes, StreamBreaks, Once, Awaited
<1> QED
  BY <1>2, <1>3, <1>4 DEF ClientStep

\* An event taken off the main queue is the last that was to come of its callback.
LEMMA TakenOnce ==
  ASSUME NEW Docs, NEW Callbacks, NEW Ids, ClientInv(Docs, Callbacks, Ids), TakeEvent,
         UNCHANGED <<pending, queries>>, NEW c, Once(c)
  PROVE  /\ Once(c)' /\ Awaited' \subseteq Awaited
         /\ c = Head(mainQueue).callback => c \notin Awaited'
<1>1. mainQueue # <<>> /\ mainQueue' = Tail(mainQueue) /\ mainQueue \in Seq(Events(Callbacks))
  BY ClientInvIs DEF TakeEvent
<1>2. /\ \A i \in DOMAIN mainQueue' :
           i \in Nat \ {0} /\ i + 1 \in DOMAIN mainQueue /\ mainQueue'[i] = mainQueue[i + 1]
      /\ 1 \in DOMAIN mainQueue /\ Head(mainQueue) = mainQueue[1]
  BY <1>1, TailElements
<1>3. Once(c)'
  BY <1>2 DEF Once
<1>4. Awaited' \subseteq Awaited
  BY <1>2 DEF Awaited
<1>5. c = Head(mainQueue).callback => c \notin Awaited'
  BY <1>2 DEF Awaited, Once
<1> QED
  BY <1>3, <1>4, <1>5

-----------------------------------------------------------------------------
(* One call at a time *)

\* The writes that are queued were queued by a process that is gone, or answered.
NoneQueued == \A i \in DOMAIN pending : pending[i].callback = NoCallback

\* No callback is still to come.
NoneExpected == queries = {} /\ mainQueue = <<>> /\ NoneQueued

\* The callback is still to come, once, and no other is: its call is a query, ...
Queried(c) == queries = {c} /\ mainQueue = <<>> /\ NoneQueued

\* ... or a write in the queue, ...
Queued(c) ==
  /\ queries = {} /\ mainQueue = <<>>
  /\ \E n \in DOMAIN pending : \A i \in DOMAIN pending :
       pending[i].callback = IF i = n THEN c ELSE NoCallback

\* ... or answered.
Answered(c) ==
  /\ queries = {} /\ NoneQueued
  /\ \E ok \in BOOLEAN, ids \in SUBSET DocIds : mainQueue = <<Event(c, ok, ids)>>

Expected(c) == Queried(c) \/ Queued(c) \/ Answered(c)

\* A write is queued while nothing is expected: its callback is now.
LEMMA CallExpected ==
  ASSUME NEW Docs, NEW Callbacks, NEW Ids, ClientInv(Docs, Callbacks, Ids),
         NEW op \in {"set", "delete"}, NEW id \in Ids, NEW c \in Callbacks,
         pending' = Append(pending, Write(op, id, c)), UNCHANGED <<queries, mainQueue>>,
         NoneExpected
  PROVE  Queued(c)'
<1> DEFINE w == Write(op, id, c)
<1>1. pending \in Seq(Writes(Callbacks, Ids)) /\ w \in Writes(Callbacks, Ids) /\ w.callback = c
  BY ClientInvIs DEF Write, Writes
<1> HIDE DEF w
<1>2. Len(pending) \in Nat /\ DOMAIN pending = 1 .. Len(pending)
      /\ DOMAIN pending' = 1 .. Len(pending) + 1
      /\ pending'[Len(pending) + 1] = w
      /\ \A i \in DOMAIN pending : pending'[i] = pending[i]
  BY <1>1, AppendProperties, LenProperties DEF w
<1>3. \A i \in DOMAIN pending' :
        pending'[i].callback = IF i = Len(pending) + 1 THEN c ELSE NoCallback
  BY <1>1, <1>2 DEF NoneExpected, NoneQueued
<1>4. Len(pending) + 1 \in DOMAIN pending'
  BY <1>2
<1> QED BY <1>3, <1>4 DEF NoneExpected, Queued

\* The oldest write is answered: its callback, if it has one, is posted.
LEMMA SettleExpects ==
  ASSUME NEW Docs, NEW Callbacks, NEW Ids, ClientInv(Docs, Callbacks, Ids),
         NoCallback \notin Callbacks, NEW ok \in BOOLEAN, pending # <<>>, Settle(ok)
  PROVE  /\ NoneExpected => NoneExpected'
         /\ NoneQueued => NoneQueued' /\ UNCHANGED mainQueue
         /\ \A c \in Callbacks :
              /\ Expected(c) => Expected(c)'
              /\ Queued(c) => Queued(c)' \/ (Answered(c)' /\ Head(pending).callback = c
                                             /\ mainQueue' = <<Event(c, ok, {})>>)
<1>1. /\ pending' = Tail(pending) /\ UNCHANGED queries /\ Post(Head(pending).callback, ok)
      /\ pending \in Seq(Writes(Callbacks, Ids))
  BY ClientInvIs DEF Settle
<1>2. /\ \A i \in DOMAIN pending' :
           i \in Nat \ {0} /\ i + 1 \in DOMAIN pending /\ pending'[i] = pending[i + 1]
      /\ \A i \in DOMAIN pending : \/ i = 1
                                   \/ i - 1 \in DOMAIN pending' /\ pending'[i - 1] = pending[i]
      /\ 1 \in DOMAIN pending /\ Head(pending) = pending[1]
      /\ DOMAIN pending = 1 .. Len(pending) /\ Len(pending) \in Nat
  <2>1. Tail(pending) \in Seq(Writes(Callbacks, Ids)) /\ Len(Tail(pending)) = Len(pending) - 1
        /\ \A i \in 1 .. Len(pending) - 1 : Tail(pending)[i] = pending[i + 1]
        /\ Len(pending) \in Nat \ {0}
    BY <1>1, HeadTailProperties, EmptySeq, LenProperties
  <2>2. DOMAIN Tail(pending) = 1 .. Len(pending) - 1 /\ DOMAIN pending = 1 .. Len(pending)
    BY <1>1, <2>1, LenProperties
  <2> QED BY <1>1, <2>1, <2>2
<1>3. ASSUME NoneQueued PROVE mainQueue' = mainQueue /\ NoneQueued'
  BY <1>1, <1>2, <1>3 DEF NoneQueued, Post
<1>4. ASSUME NEW c \in Callbacks, Queued(c)
      PROVE  Queued(c)' \/ (Answered(c)' /\ Head(pending).callback = c
                            /\ mainQueue' = <<Event(c, ok, {})>>)
  <2>1. queries' = {} /\ mainQueue = <<>>
    BY <1>1, <1>4 DEF Queued
  <2>2. PICK n \in DOMAIN pending : \A i \in DOMAIN pending :
          pending[i].callback = IF i = n THEN c ELSE NoCallback
    BY <1>4 DEF Queued
  <2>3. CASE n = 1
    <3>1. Head(pending).callback = c /\ NoneQueued'
      BY <1>2, <2>2, <2>3 DEF NoneQueued
    <3>2. mainQueue' = <<Event(c, ok, {})>>
      BY <1>1, <2>1, <3>1 DEF Post
    <3> QED BY <2>1, <3>1, <3>2 DEF Answered
  <2>4. CASE n # 1
    <3>1. mainQueue' = <<>>
      BY <1>1, <1>2, <2>1, <2>2, <2>4 DEF Post
    <3>2. n - 1 \in DOMAIN pending'
      BY <1>2, <2>4
    <3>3. \A i \in DOMAIN pending' : pending'[i].callback = IF i = n - 1 THEN c ELSE NoCallback
      BY <1>2, <2>2, <2>4
    <3> QED BY <2>1, <3>1, <3>2, <3>3 DEF Queued
  <2> QED BY <2>3, <2>4
<1>5. NoneExpected => NoneExpected'
  BY <1>1, <1>3 DEF NoneExpected
<1>6. \A c \in Callbacks : Queried(c) => Queried(c)'
  BY <1>1, <1>3 DEF Queried
<1>7. \A c \in Callbacks : Answered(c) => Answered(c)'
  BY <1>1, <1>3 DEF Answered
<1> QED BY <1>3, <1>4, <1>5, <1>6, <1>7 DEF Expected

\* The query is answered, to the one call there is.
LEMMA AnswerExpects ==
  ASSUME NEW ok \in BOOLEAN, NEW ids \in SUBSET DocIds, Answer(ok, ids), UNCHANGED pending,
         NEW c, Expected(c)
  PROVE  Queried(c) /\ Answered(c)' /\ mainQueue' = <<Event(c, ok, ids)>>
<1>1. queries # {} /\ queries' = {}
  BY DEF Answer
<1>2. Queried(c)
  BY <1>1 DEF Expected, Queued, Answered
<1>3. PICK calls \in SetToSeqs({c}) :
        mainQueue' = mainQueue \o [i \in DOMAIN calls |-> Event(calls[i], ok, ids)]
  BY <1>2 DEF Answer, Queried
<1>4. DOMAIN calls = 1 .. 1 /\ calls[1] = c
  <2>1. Cardinality({c}) = 1
    BY FS_Singleton
  <2> QED BY <2>1 DEF SetToSeqs
<1>5. [i \in DOMAIN calls |-> Event(calls[i], ok, ids)] = <<Event(c, ok, ids)>>
  <2> DEFINE e == Event(c, ok, ids)
  <2>1. [i \in DOMAIN calls |-> Event(calls[i], ok, ids)] = [i \in 1 .. 1 |-> e]
    BY <1>4
  <2> HIDE DEF e
  <2>2. [i \in 1 .. 1 |-> e] = <<e>>
    OBVIOUS
  <2> QED BY <2>1, <2>2 DEF e
<1>6. mainQueue' = <<Event(c, ok, ids)>>
  <2> DEFINE e == Event(c, ok, ids)
  <2>1. mainQueue' = <<>> \o <<e>>
    BY <1>2, <1>3, <1>5 DEF Queried
  <2> HIDE DEF e
  <2>2. <<>> \o <<e>> = <<e>>
    OBVIOUS
  <2> QED BY <2>1, <2>2 DEF e
<1>7. Answered(c)'
  BY <1>1, <1>2, <1>6 DEF Queried, Answered, NoneQueued
<1> QED BY <1>2, <1>6, <1>7

LEMMA ClientStepExpects ==
  ASSUME NEW Docs, NEW Callbacks, NEW Ids, ClientInv(Docs, Callbacks, Ids),
         NoCallback \notin Callbacks, ClientStep
  PROVE  /\ NoneExpected => NoneExpected'
         /\ \A c \in Callbacks : Expected(c) => Expected(c)'
<1>1. server \subseteq Known /\ cached \subseteq Known /\ taken \in 0 .. Len(pending)
  BY ClientInvIs
<1>2. CASE Acknowledge \/ Reject
  <2>1. pending # <<>>
    <3>1. CASE Acknowledge
      <4>1. Len(pending) # 0
        BY <1>1, <3>1 DEF Acknowledge
      <4> QED BY <4>1
    <3>2. CASE Reject
      BY <3>2 DEF Reject
    <3> QED BY <1>2, <3>1, <3>2
  <2> QED BY <1>2, <2>1, SettleExpects DEF Acknowledge, Reject
<1>3. CASE AnswerFromServer \/ AnswerFromCache \/ FailQuery
  <2>1. PICK ok \in BOOLEAN, ids \in SUBSET Known : Answer(ok, ids) /\ UNCHANGED pending
    BY <1>1, <1>3, ViewIsKnown DEF AnswerFromServer, AnswerFromCache, FailQuery
  <2>2. ids \in SUBSET DocIds /\ queries # {}
    BY <2>1 DEF Known, Answer
  <2> QED BY <2>1, <2>2, AnswerExpects DEF Expected, NoneExpected
<1>4. CASE ServerTakes \/ StreamBreaks
  BY <1>4 DEF ServerTakes, StreamBreaks, NoneExpected, Expected, Queried, Queued, Answered, NoneQueued
<1> QED BY <1>2, <1>3, <1>4 DEF ClientStep

\* An event on the main queue is the one expected, alone, ...
LEMMA ExpectedIsNext ==
  ASSUME NEW c, Expected(c), mainQueue # <<>>
  PROVE  Answered(c) /\ Head(mainQueue).callback = c /\ Tail(mainQueue) = <<>>
<1>1. Answered(c)
  BY DEF Expected, Queried, Queued
<1>2. PICK ok \in BOOLEAN, ids \in SUBSET DocIds : mainQueue = <<Event(c, ok, ids)>>
  BY <1>1 DEF Answered
<1>3. Head(mainQueue) = Event(c, ok, ids) /\ Tail(mainQueue) = <<>>
  BY <1>2
<1> QED BY <1>1, <1>3 DEF Event

\* ... and when it is taken, nothing is expected any more.
LEMMA ExpectedArrives ==
  ASSUME TakeEvent, UNCHANGED <<pending, queries>>, NEW c, Expected(c)
  PROVE  Head(mainQueue).callback = c /\ NoneExpected'
BY ExpectedIsNext DEF TakeEvent, Answered, NoneExpected, NoneQueued

\* A process that is gone expects nothing.
LEMMA DeadExpectNothing ==
  ASSUME NEW Docs, NEW Callbacks, NEW Ids, ClientInv(Docs, Callbacks, Ids), ProcessDies
  PROVE  NoneExpected'
<1>1. pending' = [i \in DOMAIN pending |-> [pending[i] EXCEPT !.callback = NoCallback]]
      /\ queries' = {} /\ mainQueue' = <<>>
  BY DEF ProcessDies
<1>2. \A i \in DOMAIN pending : pending[i] \in Writes(Callbacks, Ids)
  BY ClientInvIs, ElementOfSeq
<1>3. \A i \in DOMAIN pending : [pending[i] EXCEPT !.callback = NoCallback].callback = NoCallback
  BY <1>2 DEF Writes
<1> QED BY <1>1, <1>3 DEF NoneExpected, NoneQueued

-----------------------------------------------------------------------------
(* The collection as this device sees it *)

\* Deletions wait for documents that were written, behind their creation; and the
\* server shows the effect of the writes it has taken, as far as a creation is not
\* undone by a deletion that waits.
ReplayInv ==
  /\ PendingIds("delete") \subseteq Known
  /\ \A i, j \in DOMAIN pending :
       pending[i].op = "delete" /\ pending[j].op = "set" /\ pending[i].id = pending[j].id
         => j < i
  /\ \A i \in 1 .. taken :
       IF pending[i].op = "set" THEN pending[i].id \in server \cup PendingIds("delete")
                                ELSE pending[i].id \notin server

LEMMA PendingIs ==
  ASSUME NEW Docs, NEW Callbacks, NEW Ids, ClientInv(Docs, Callbacks, Ids)
  PROVE  /\ Len(pending) \in Nat /\ DOMAIN pending = 1 .. Len(pending)
         /\ taken \in 0 .. Len(pending)
         /\ \A i \in DOMAIN pending : pending[i] \in Writes(Callbacks, Ids)
                                      /\ pending[i].op \in {"set", "delete"}
<1>1. pending \in Seq(Writes(Callbacks, Ids)) /\ taken \in 0 .. Len(pending)
  BY ClientInvIs
<1>2. \A w \in Writes(Callbacks, Ids) : w.op \in {"set", "delete"}
  BY DEF Writes
<1> QED BY <1>1, <1>2, LenProperties, ElementOfSeq

\* The writes are the same, whatever became of their callbacks.
OrphanedWrites ==
  /\ DOMAIN pending' = DOMAIN pending
  /\ \A i \in DOMAIN pending :
       pending'[i].op = pending[i].op /\ pending'[i].id = pending[i].id

LEMMA OrphansKeepIds ==
  ASSUME OrphanedWrites, NEW op PROVE PendingIds(op)' = PendingIds(op)
BY PendingIdsAre, PendingIdsAreNext DEF OrphanedWrites, PendingIds

LEMMA OrphansReplay ==
  ASSUME ReplayInv, OrphanedWrites, UNCHANGED <<written, server>>, taken' = 0
  PROVE  ReplayInv' /\ View(server)' = View(server)
<1>1. PendingIds("delete")' = PendingIds("delete") /\ PendingIds("set")' = PendingIds("set")
  BY OrphansKeepIds
<1>2. Known' = Known
  BY DEF Known
<1>3. View(server)' = View(server)
  BY <1>1 DEF View
<1>4. \A i \in 1 .. taken' : FALSE
  OBVIOUS
<1> QED BY <1>1, <1>2, <1>3, <1>4 DEF ReplayInv, OrphanedWrites

\* A write joins the queue.
LEMMA QueueIs ==
  ASSUME NEW Docs, NEW Callbacks, NEW Ids, ClientInv(Docs, Callbacks, Ids),
         NEW op \in {"set", "delete"}, NEW id \in Ids, NEW c \in Callbacks,
         pending' = Append(pending, Write(op, id, c))
  PROVE  /\ DOMAIN pending' = 1 .. Len(pending) + 1
         /\ pending'[Len(pending) + 1].op = op /\ pending'[Len(pending) + 1].id = id
         /\ \A i \in DOMAIN pending : i \in DOMAIN pending' /\ pending'[i] = pending[i]
         /\ PendingIds(op)' = PendingIds(op) \cup {id}
         /\ \A other \in {"set", "delete"} \ {op} : PendingIds(other)' = PendingIds(other)
<1> DEFINE w == Write(op, id, c)
<1>1. pending \in Seq(Writes(Callbacks, Ids)) /\ w \in Writes(Callbacks, Ids)
      /\ w.op = op /\ w.id = id
  BY ClientInvIs DEF Write, Writes
<1> HIDE DEF w
<1>2. Len(pending) \in Nat /\ DOMAIN pending = 1 .. Len(pending)
      /\ DOMAIN pending' = 1 .. Len(pending) + 1
      /\ pending'[Len(pending) + 1] = w
      /\ \A i \in DOMAIN pending : i \in DOMAIN pending' /\ pending'[i] = pending[i]
  BY <1>1, AppendProperties, LenProperties DEF w
<1>3. ASSUME NEW p PROVE PendingIds(p) \subseteq PendingIds(p)'
  BY <1>2, PendingIdsAre, PendingIdsAreNext DEF PendingIds
<1>4. id \in PendingIds(op)'
  BY <1>1, <1>2, PendingIdsAreNext
<1>5. /\ PendingIds(op)' \subseteq PendingIds(op) \cup {id}
      /\ \A other \in {"set", "delete"} \ {op} : PendingIds(other)' \subseteq PendingIds(other)
  BY QueueGrows
<1>6. PendingIds(op)' = PendingIds(op) \cup {id}
  BY <1>3, <1>4, <1>5
<1>7. \A other \in {"set", "delete"} \ {op} : PendingIds(other)' = PendingIds(other)
  BY <1>3, <1>5
<1> QED BY <1>1, <1>2, <1>6, <1>7

LEMMA SetReplays ==
  ASSUME NEW Docs, NEW Callbacks, NEW Ids, ClientInv(Docs, Callbacks, Ids), NoDoc \notin Docs,
         DocIds \subseteq Ids, ReplayInv,
         NEW id \in Fresh, NEW doc \in Docs, NEW c \in Callbacks, SetDocument(id, doc, c)
  PROVE  ReplayInv' /\ id \notin View(server) /\ View(server)' = View(server) \cup {id}
<1>1. pending' = Append(pending, Write("set", id, c)) /\ UNCHANGED <<server, taken>>
      /\ id \in Ids /\ id \notin Known
  BY DEF SetDocument, Fresh, Known
<1>2. /\ DOMAIN pending' = 1 .. Len(pending) + 1
      /\ pending'[Len(pending) + 1].op = "set" /\ pending'[Len(pending) + 1].id = id
      /\ \A i \in DOMAIN pending : i \in DOMAIN pending' /\ pending'[i] = pending[i]
      /\ PendingIds("set")' = PendingIds("set") \cup {id}
      /\ PendingIds("delete")' = PendingIds("delete")
  BY <1>1, QueueIs
<1>3. Known \subseteq Known'
  <2>1. ClientInv(Docs, Callbacks, Ids)' /\ WrittenKept
    BY SetDocumentKeeps
  <2> QED BY <2>1, KnownKept, ClientInvIsNext
<1>4. id \notin PendingIds("delete") /\ id \notin View(server)
  BY <1>1, ViewIsKnown, ClientInvIs DEF ReplayInv
<1>5. View(server)' = View(server) \cup {id}
  BY <1>1, <1>2, <1>4 DEF View
<1>6. Len(pending) \in Nat /\ DOMAIN pending = 1 .. Len(pending) /\ taken \in 0 .. Len(pending)
  BY PendingIs
<1>7. ASSUME NEW i \in DOMAIN pending', NEW j \in DOMAIN pending',
             pending'[i].op = "delete", pending'[j].op = "set", pending'[i].id = pending'[j].id
      PROVE  j < i
  <2>1. i \in DOMAIN pending /\ pending'[i] = pending[i]
    BY <1>2, <1>6, <1>7
  <2>2. pending'[i].id \in PendingIds("delete")
    BY <1>7, <2>1, PendingIdsAre
  <2>3. j \in DOMAIN pending /\ pending'[j] = pending[j]
    BY <1>2, <1>4, <1>6, <1>7, <2>2
  <2> QED BY <1>7, <2>1, <2>3 DEF ReplayInv
<1>8. \A i \in 1 .. taken' : IF pending'[i].op = "set"
                               THEN pending'[i].id \in server' \cup PendingIds("delete")'
                               ELSE pending'[i].id \notin server'
  <2>1. \A i \in 1 .. taken' : i \in 1 .. taken /\ pending'[i] = pending[i]
    BY <1>1, <1>2, <1>6
  <2> QED BY <1>1, <1>2, <2>1 DEF ReplayInv
<1>9. PendingIds("delete")' \subseteq Known'
  BY <1>2, <1>3 DEF ReplayInv
<1> QED BY <1>4, <1>5, <1>7, <1>8, <1>9 DEF ReplayInv

LEMMA DeleteReplays ==
  ASSUME NEW Docs, NEW Callbacks, NEW Ids, ClientInv(Docs, Callbacks, Ids), ReplayInv,
         NEW id \in Ids, id \in Known, NEW c \in Callbacks, DeleteDocument(id, c)
  PROVE  ReplayInv' /\ View(server)' = View(server) \ {id}
<1>1. pending' = Append(pending, Write("delete", id, c)) /\ UNCHANGED <<written, server, taken>>
  BY DEF DeleteDocument
<1>2. /\ DOMAIN pending' = 1 .. Len(pending) + 1
      /\ pending'[Len(pending) + 1].op = "delete" /\ pending'[Len(pending) + 1].id = id
      /\ \A i \in DOMAIN pending : i \in DOMAIN pending' /\ pending'[i] = pending[i]
      /\ PendingIds("delete")' = PendingIds("delete") \cup {id}
      /\ PendingIds("set")' = PendingIds("set")
  BY <1>1, QueueIs
<1>3. View(server)' = View(server) \ {id}
  BY <1>1, <1>2 DEF View
<1>4. Len(pending) \in Nat /\ DOMAIN pending = 1 .. Len(pending) /\ taken \in 0 .. Len(pending)
  BY PendingIs
<1>5. ASSUME NEW i \in DOMAIN pending', NEW j \in DOMAIN pending',
             pending'[i].op = "delete", pending'[j].op = "set", pending'[i].id = pending'[j].id
      PROVE  j < i
  <2>1. j \in DOMAIN pending /\ pending'[j] = pending[j] /\ j <= Len(pending)
    BY <1>2, <1>4, <1>5
  <2>2. CASE i = Len(pending) + 1
    BY <1>4, <2>1, <2>2
  <2>3. CASE i # Len(pending) + 1
    <3>1. i \in DOMAIN pending /\ pending'[i] = pending[i]
      BY <1>2, <1>4, <2>3
    <3> QED BY <1>5, <2>1, <3>1 DEF ReplayInv
  <2> QED BY <2>2, <2>3
<1>6. \A i \in 1 .. taken' : IF pending'[i].op = "set"
                               THEN pending'[i].id \in server' \cup PendingIds("delete")'
                               ELSE pending'[i].id \notin server'
  <2>1. \A i \in 1 .. taken' : i \in 1 .. taken /\ pending'[i] = pending[i]
    BY <1>1, <1>2, <1>4
  <2> QED BY <1>1, <1>2, <2>1 DEF ReplayInv
<1>7. PendingIds("delete")' \subseteq Known'
  BY <1>1, <1>2 DEF ReplayInv, Known
<1> QED BY <1>3, <1>5, <1>6, <1>7 DEF ReplayInv

\* The server takes a write whose effect the device sees already.
LEMMA TakeReplays ==
  ASSUME NEW Docs, NEW Callbacks, NEW Ids, ClientInv(Docs, Callbacks, Ids), ReplayInv, ServerTakes
  PROVE  ReplayInv' /\ View(server)' = View(server)
<1>1. /\ taken < Len(pending) /\ taken' = taken + 1 /\ UNCHANGED <<written, pending>>
      /\ server' = Effect(pending[taken + 1], server)
  BY DEF ServerTakes
<1>2. /\ Len(pending) \in Nat /\ DOMAIN pending = 1 .. Len(pending)
      /\ taken \in 0 .. Len(pending)
      /\ \A i \in DOMAIN pending : pending[i].op \in {"set", "delete"}
  BY PendingIs
<1> DEFINE w == pending[taken + 1]
<1>3. taken + 1 \in DOMAIN pending /\ w.op \in {"set", "delete"} /\ w.id \in PendingIds(w.op)
  BY <1>1, <1>2, PendingIdsAre
<1>4. \A op \in {"set", "delete"} : PendingIds(op)' = PendingIds(op)
  BY <1>1 DEF PendingIds
<1>5. View(server)' = View(server)
  BY <1>1, <1>3, <1>4 DEF View, Effect
<1>6. ASSUME NEW i \in 1 .. taken'
      PROVE  IF pending'[i].op = "set" THEN pending'[i].id \in server' \cup PendingIds("delete")'
                                       ELSE pending'[i].id \notin server'
  <2>1. i \in DOMAIN pending /\ pending'[i] = pending[i]
        /\ PendingIds("delete")' = PendingIds("delete")
    BY <1>1, <1>2, <1>4
  <2>2. CASE i = taken + 1
    BY <1>1, <1>3, <2>1, <2>2 DEF Effect
  <2>3. CASE i # taken + 1
    <3>1. i \in 1 .. taken /\ i < taken + 1
      BY <1>1, <1>2, <2>3
    <3>2. CASE pending[i].op = "set"
      <4>1. pending[i].id \in server \cup PendingIds("delete")
        BY <3>1, <3>2 DEF ReplayInv
      <4> QED BY <1>1, <1>3, <2>1, <3>2, <4>1 DEF Effect
    <3>3. CASE pending[i].op # "set"
      <4>1. pending[i].op = "delete" /\ pending[i].id \notin server
        BY <1>2, <2>1, <3>1, <3>3 DEF ReplayInv
      <4>2. ~(w.op = "set" /\ w.id = pending[i].id)
        <5> SUFFICES ASSUME w.op = "set", w.id = pending[i].id PROVE FALSE
          OBVIOUS
        <5>1. taken + 1 < i
          BY <1>3, <2>1, <4>1 DEF ReplayInv
        <5> QED BY <1>2, <3>1, <5>1
      <4> QED BY <1>1, <2>1, <3>3, <4>1, <4>2 DEF Effect
    <3> QED BY <3>2, <3>3
  <2> QED BY <2>2, <2>3
<1>7. PendingIds("delete")' \subseteq Known'
  BY <1>1, <1>4 DEF ReplayInv, Known
<1>8. \A i, j \in DOMAIN pending' :
        pending'[i].op = "delete" /\ pending'[j].op = "set" /\ pending'[i].id = pending'[j].id
          => j < i
  BY <1>1 DEF ReplayInv
<1> QED BY <1>5, <1>6, <1>7, <1>8 DEF ReplayInv

\* The answer to a write: the server shows its effect, so the device goes on seeing it.
LEMMA AcknowledgeReplays ==
  ASSUME NEW Docs, NEW Callbacks, NEW Ids, ClientInv(Docs, Callbacks, Ids), ReplayInv, Acknowledge
  PROVE  ReplayInv' /\ View(server)' = View(server)
<1>1. /\ taken > 0 /\ taken' = taken - 1 /\ UNCHANGED <<written, server>>
      /\ pending' = Tail(pending)
  BY DEF Acknowledge, Settle
<1>2. /\ Len(pending) \in Nat /\ DOMAIN pending = 1 .. Len(pending)
      /\ taken \in 0 .. Len(pending)
      /\ \A i \in DOMAIN pending : pending[i].op \in {"set", "delete"}
      /\ pending \in Seq(Writes(Callbacks, Ids))
  BY PendingIs, ClientInvIs
<1>3. Len(pending) # 0 /\ 1 \in DOMAIN pending /\ 1 \in 1 .. taken
  BY <1>1, <1>2
<1>4. pending # <<>>
  BY <1>3
<1>5. /\ \A i \in DOMAIN pending' :
           i \in Nat \ {0} /\ i + 1 \in DOMAIN pending /\ pending'[i] = pending[i + 1]
      /\ \A i \in DOMAIN pending : i # 1 => i - 1 \in DOMAIN pending'
                                            /\ pending'[i - 1] = pending[i]
  <2>1. Tail(pending) \in Seq(Writes(Callbacks, Ids)) /\ Len(Tail(pending)) = Len(pending) - 1
        /\ \A i \in 1 .. Len(pending) - 1 : Tail(pending)[i] = pending[i + 1]
    BY <1>2, <1>4, HeadTailProperties
  <2>2. DOMAIN Tail(pending) = 1 .. Len(pending) - 1
    BY <2>1, LenProperties
  <2> QED BY <1>1, <1>2, <2>1, <2>2
<1> DEFINE h == pending[1]
<1>6. ASSUME NEW op
      PROVE  /\ PendingIds(op)' \subseteq PendingIds(op)
             /\ \A id \in PendingIds(op) : (id \in PendingIds(op)' \/ (h.op = op /\ h.id = id))
  BY <1>5, PendingIdsAre, PendingIdsAreNext DEF PendingIds
<1>7. h.op = "delete" => h.id \notin PendingIds("set")'
  <2> SUFFICES ASSUME h.op = "delete", h.id \in PendingIds("set")' PROVE FALSE
    OBVIOUS
  <2>1. PICK i \in DOMAIN pending' : pending'[i].op = "set" /\ pending'[i].id = h.id
    BY PendingIdsAreNext
  <2>2. i + 1 < 1 /\ i \in Nat
    BY <1>3, <1>5, <2>1 DEF ReplayInv
  <2> QED BY <2>2
<1>8. IF h.op = "set" THEN h.id \in server \cup PendingIds("delete") ELSE h.id \notin server
  BY <1>3 DEF ReplayInv
<1>9. h.op \in {"set", "delete"} /\ h.id \in PendingIds(h.op)
  BY <1>2, <1>3, PendingIdsAre
<1> HIDE DEF h
<1>10. View(server)' = View(server)
  <2>1. /\ PendingIds("delete")' \subseteq PendingIds("delete")
        /\ PendingIds("set")' \subseteq PendingIds("set")
        /\ \A id \in PendingIds("set") :
             id \in PendingIds("set")' \/ (h.op = "set" /\ h.id = id)
        /\ \A id \in PendingIds("delete") :
             id \in PendingIds("delete")' \/ (h.op = "delete" /\ h.id = id)
    BY <1>6
  <2> QED BY <1>1, <1>7, <1>8, <1>9, <2>1 DEF View
<1>11. ASSUME NEW i \in 1 .. taken'
       PROVE  IF pending'[i].op = "set" THEN pending'[i].id \in server' \cup PendingIds("delete")'
                                        ELSE pending'[i].id \notin server'
  <2>1. i + 1 \in 1 .. taken /\ i + 1 \in DOMAIN pending /\ pending'[i] = pending[i + 1]
        /\ i \in Nat \ {0}
    <3>1. i + 1 \in 1 .. taken /\ i + 1 \in DOMAIN pending /\ i + 1 # 1 /\ i + 1 - 1 = i
      BY <1>1, <1>2
    <3> QED BY <1>1, <1>2, <1>5, <3>1
  <2>2. CASE pending'[i].op = "set"
    <3>1. pending[i + 1].id \in server \cup PendingIds("delete")
      BY <2>1, <2>2 DEF ReplayInv
    <3>2. ~(h.op = "delete" /\ h.id = pending[i + 1].id)
      <4> SUFFICES ASSUME h.op = "delete", h.id = pending[i + 1].id PROVE FALSE
        OBVIOUS
      <4>1. i + 1 < 1
        BY <1>3, <2>1, <2>2 DEF ReplayInv, h
      <4> QED BY <2>1, <4>1
    <3> QED BY <1>1, <1>6, <2>1, <2>2, <3>1, <3>2
  <2>3. CASE pending'[i].op # "set"
    BY <1>1, <2>1, <2>3 DEF ReplayInv
  <2> QED BY <2>2, <2>3
<1>12. PendingIds("delete")' \subseteq Known'
  BY <1>1, <1>6 DEF ReplayInv, Known
<1>13. ASSUME NEW i \in DOMAIN pending', NEW j \in DOMAIN pending',
              pending'[i].op = "delete", pending'[j].op = "set", pending'[i].id = pending'[j].id
       PROVE  j < i
  <2>1. j + 1 < i + 1 /\ i \in Nat /\ j \in Nat
    BY <1>5, <1>13 DEF ReplayInv
  <2> QED BY <2>1
<1> QED BY <1>10, <1>11, <1>12, <1>13 DEF ReplayInv

LEMMA StreamReplays ==
  ASSUME ReplayInv, UNCHANGED <<written, server, pending>>, UNCHANGED taken \/ taken' = 0
  PROVE  ReplayInv' /\ View(server)' = View(server)
<1>1. \A op : PendingIds(op)' = PendingIds(op)
  BY DEF PendingIds
<1>2. View(server)' = View(server) /\ Known' = Known
  BY <1>1 DEF View, Known
<1>3. \A i \in 1 .. taken' : taken' = taken
  OBVIOUS
<1> QED BY <1>1, <1>2, <1>3 DEF ReplayInv

\* What the server does in calm use changes nothing of what the device sees.
LEMMA ServerReplays ==
  ASSUME NEW Docs, NEW Callbacks, NEW Ids, ClientInv(Docs, Callbacks, Ids), ReplayInv,
         ServerTakes \/ StreamBreaks \/ Acknowledge \/ AnswerFromServer
  PROVE  ReplayInv' /\ View(server)' = View(server)
<1>1. CASE StreamBreaks \/ AnswerFromServer
  BY <1>1, StreamReplays DEF StreamBreaks, AnswerFromServer
<1> QED BY <1>1, TakeReplays, AcknowledgeReplays

\* Another device adds or deletes a document while the streams are down.
LEMMA OthersReplay ==
  ASSUME NEW Docs, NEW Callbacks, NEW Ids, ClientInv(Docs, Callbacks, Ids), NoDoc \notin Docs,
         ReplayInv, taken = 0,
         OtherDeviceDeletes \/ \E doc \in Docs : OtherDeviceAdds(doc)
  PROVE  /\ ReplayInv'
         /\ \E id \in DocIds : \/ View(server)' = View(server) \cup {id}
                               \/ View(server)' = View(server) \ {id}
                               \/ View(server)' = View(server)
<1>1. UNCHANGED <<pending, taken>>
      /\ \E id \in DocIds : server' = server \cup {id} \/ server' = server \ {id}
  BY ClientInvIs DEF OtherDeviceAdds, OtherDeviceDeletes, Fresh, Known
<1>2. \A op : PendingIds(op)' = PendingIds(op)
  BY <1>1 DEF PendingIds
<1>3. \E id \in DocIds : \/ View(server)' = View(server) \cup {id}
                         \/ View(server)' = View(server) \ {id}
                         \/ View(server)' = View(server)
  BY <1>1, <1>2 DEF View
<1>4. Known \subseteq Known'
  <2>1. ClientInv(Docs, Callbacks, Ids)' /\ WrittenKept
    BY OtherDeviceKeeps
  <2> QED BY <2>1, KnownKept, ClientInvIsNext
<1>5. \A i \in 1 .. taken' : FALSE
  BY <1>1
<1>6. ReplayInv'
  BY <1>1, <1>2, <1>4, <1>5 DEF ReplayInv
<1> QED BY <1>3, <1>6

\* The process dies: it leaves its writes as they are.
LEMMA DyingReplays ==
  ASSUME NEW Docs, NEW Callbacks, NEW Ids, ClientInv(Docs, Callbacks, Ids), ReplayInv, ProcessDies
  PROVE  ReplayInv' /\ View(server)' = View(server)
<1>1. pending' = [i \in DOMAIN pending |-> [pending[i] EXCEPT !.callback = NoCallback]]
      /\ taken' = 0 /\ UNCHANGED <<written, server>>
  BY DEF ProcessDies
<1>2. \A w \in Writes(Callbacks, Ids) :
        /\ [w EXCEPT !.callback = NoCallback].op = w.op
        /\ [w EXCEPT !.callback = NoCallback].id = w.id
  BY DEF Writes
<1>3. OrphanedWrites
  BY <1>1, <1>2, PendingIs DEF OrphanedWrites
<1> QED BY <1>1, <1>3, OrphansReplay

LEMMA InitReplays == ClientInit => ReplayInv /\ View(server) = {}
<1> SUFFICES ASSUME ClientInit PROVE ReplayInv /\ View(server) = {}
  OBVIOUS
<1>1. pending = <<>> /\ taken = 0 /\ server = {} /\ DOMAIN pending = {}
  BY DEF ClientInit
<1>2. \A op : PendingIds(op) = {}
  BY <1>1 DEF PendingIds
<1>3. \A i \in 1 .. taken : FALSE
  BY <1>1
<1> QED BY <1>1, <1>2, <1>3 DEF ReplayInv, View

-----------------------------------------------------------------------------
(* What the server's answers make of the one call *)

Granted(c) == Answered(c) /\ Head(mainQueue).ok

\* The callbacks that writes and answers in the queues carry.
Carried ==
  {pending[i].callback : i \in {j \in DOMAIN pending : pending[j].callback # NoCallback}}
    \cup {mainQueue[i].callback : i \in DOMAIN mainQueue}

LEMMA NoneCarried == NoneExpected => Carried = {}
BY DEF NoneExpected, NoneQueued, Carried

LEMMA OneCarried ==
  ASSUME NEW c, c # NoCallback
  PROVE  /\ Queried(c) => Carried = {}
         /\ Queued(c) \/ Answered(c) => Carried = {c}
<1>1. Queried(c) => Carried = {}
  BY DEF Queried, NoneQueued, Carried
<1>2. ASSUME Queued(c) PROVE Carried = {c}
  BY <1>2 DEF Queued, Carried
<1>3. ASSUME Answered(c) PROVE Carried = {c}
  <2>1. PICK ok \in BOOLEAN, ids \in SUBSET DocIds : mainQueue = <<Event(c, ok, ids)>>
    BY <1>3 DEF Answered
  <2>2. DOMAIN mainQueue = {1} /\ mainQueue[1].callback = c
    BY <2>1 DEF Event
  <2> QED BY <1>3, <2>2 DEF Answered, NoneQueued, Carried
<1> QED BY <1>1, <1>2, <1>3

LEMMA ServerExpects ==
  ASSUME NEW Docs, NEW Callbacks, NEW Ids, ClientInv(Docs, Callbacks, Ids),
         NoCallback \notin Callbacks,
         ServerTakes \/ StreamBreaks \/ Acknowledge \/ AnswerFromServer
  PROVE  /\ NoneExpected => NoneExpected'
         /\ \A c \in Callbacks :
              /\ Queried(c) => \/ Queried(c)'
                               \/ Granted(c)' /\ Head(mainQueue)'.ids = View(server)
              /\ Queued(c) => Queued(c)' \/ Granted(c)'
              /\ Granted(c) => Granted(c)' /\ UNCHANGED mainQueue
<1>1. server \subseteq Known /\ taken \in 0 .. Len(pending)
  BY ClientInvIs
<1>2. CASE ServerTakes \/ StreamBreaks
  <2>1. UNCHANGED <<pending, queries, mainQueue>>
    BY <1>2 DEF ServerTakes, StreamBreaks
  <2> QED BY <2>1 DEF NoneExpected, Granted, Queried, Queued, Answered, NoneQueued
<1>3. CASE Acknowledge
  <2>1. pending # <<>> /\ Settle(TRUE) /\ UNCHANGED queries
    <3>1. Len(pending) # 0
      BY <1>1, <1>3 DEF Acknowledge
    <3>2. pending # <<>>
      BY <3>1
    <3> QED BY <1>3, <3>2 DEF Acknowledge, Settle
  <2>2. /\ NoneExpected => NoneExpected'
        /\ NoneQueued => NoneQueued' /\ UNCHANGED mainQueue
        /\ \A c \in Callbacks : Queued(c) => Queued(c)' \/ (Answered(c)' /\ Head(pending).callback = c
                                             /\ mainQueue' = <<Event(c, TRUE, {})>>)
    BY <2>1, SettleExpects
  <2>3. \A c \in Callbacks : Queued(c) => Queued(c)' \/ Granted(c)'
    BY <2>2 DEF Granted, Event
  <2>4. \A c \in Callbacks : Queried(c) => Queried(c)'
    BY <2>1, <2>2 DEF Queried
  <2>5. \A c \in Callbacks : Granted(c) => Granted(c)' /\ UNCHANGED mainQueue
    BY <2>1, <2>2 DEF Granted, Answered
  <2> QED BY <2>2, <2>3, <2>4, <2>5
<1>4. CASE AnswerFromServer
  <2>1. Answer(TRUE, View(server)) /\ UNCHANGED pending /\ queries # {}
    BY <1>4 DEF AnswerFromServer, Answer
  <2> PICK ids \in SUBSET DocIds : ids = View(server)
    BY <1>1, ViewIsKnown DEF Known
  <2>2. \A c \in Callbacks : Expected(c) =>
          Queried(c) /\ Answered(c)' /\ mainQueue' = <<Event(c, TRUE, ids)>>
    BY <2>1, AnswerExpects
  <2>3. \A c \in Callbacks : Queried(c) => Granted(c)' /\ Head(mainQueue)'.ids = ids
    BY <2>2 DEF Expected, Granted, Event
  <2>4. ~NoneExpected /\ \A c : ~Queued(c) /\ ~Granted(c)
    BY <2>1 DEF NoneExpected, Queued, Granted, Answered
  <2> QED BY <2>3, <2>4
<1> QED BY <1>2, <1>3, <1>4

-----------------------------------------------------------------------------
(* Rows that show documents *)

DocsOf(rows) == {rows[i].doc : i \in DOMAIN rows}

\* No document is shown twice.
OneEach(rows) == \A i, j \in DOMAIN rows : rows[i].doc = rows[j].doc => i = j

LEMMA ConsOneEach ==
  ASSUME NEW S, NEW rows \in Seq(S), NEW row \in S
  PROVE  /\ DocsOf(Cons(row, rows)) = DocsOf(rows) \cup {row.doc}
         /\ OneEach(rows) /\ row.doc \notin DocsOf(rows) => OneEach(Cons(row, rows))
<1> DEFINE all == Cons(row, rows)
<1>1. /\ Len(all) = Len(rows) + 1 /\ all[1] = row
      /\ \A k \in 2 .. Len(rows) + 1 : all[k] = rows[k - 1]
      /\ DOMAIN all = 1 .. Len(all) /\ DOMAIN rows = 1 .. Len(rows) /\ Len(rows) \in Nat
  <2>1. all \in Seq(S)
    BY ConsInSeq
  <2> QED BY <2>1, ConsElements, LenProperties
<1> HIDE DEF all
<1>2. /\ \A k \in DOMAIN all : k = 1 \/ (k - 1 \in DOMAIN rows /\ all[k] = rows[k - 1])
      /\ \A k \in DOMAIN rows : k + 1 \in DOMAIN all /\ all[k + 1] = rows[k]
      /\ 1 \in DOMAIN all /\ \A k \in DOMAIN all : k \in Nat
  <2>1. \A k \in DOMAIN rows : k + 1 \in 2 .. Len(rows) + 1 /\ k + 1 - 1 = k
    BY <1>1
  <2> QED BY <1>1, <2>1
<1>3. DocsOf(all) = DocsOf(rows) \cup {row.doc}
  <2>1. \A doc \in DocsOf(all) : doc \in DocsOf(rows) \cup {row.doc}
    BY <1>1, <1>2 DEF DocsOf
  <2>2. \A doc \in DocsOf(rows) : doc \in DocsOf(all)
    BY <1>2 DEF DocsOf
  <2>3. row.doc \in DocsOf(all)
    BY <1>1, <1>2 DEF DocsOf
  <2> QED BY <2>1, <2>2, <2>3
<1>4. ASSUME OneEach(rows), row.doc \notin DocsOf(rows),
             NEW i \in DOMAIN all, NEW j \in DOMAIN all, all[i].doc = all[j].doc
      PROVE  i = j
  <2>1. \A k \in DOMAIN all : k # 1 => all[k].doc # row.doc
    BY <1>2, <1>4 DEF DocsOf
  <2>2. CASE i = 1 \/ j = 1
    BY <1>1, <1>4, <2>1, <2>2
  <2>3. CASE i # 1 /\ j # 1
    <3>1. i - 1 = j - 1
      BY <1>2, <1>4, <2>3 DEF OneEach
    <3> QED BY <1>2, <3>1
  <2> QED BY <2>2, <2>3
<1> QED BY <1>3, <1>4 DEF OneEach, all

LEMMA RemoveAtOneEach ==
  ASSUME NEW S, NEW rows \in Seq(S), NEW row \in DOMAIN rows, OneEach(rows)
  PROVE  /\ DocsOf(RemoveAt(rows, row)) = DocsOf(rows) \ {rows[row].doc}
         /\ OneEach(RemoveAt(rows, row))
<1> DEFINE rest == RemoveAt(rows, row)
           old(k) == IF k < row THEN k ELSE k + 1
<1>1. /\ Len(rest) = Len(rows) - 1
      /\ \A k \in 1 .. Len(rows) - 1 : rest[k] = IF k < row THEN rows[k] ELSE rows[k + 1]
      /\ DOMAIN rest = 1 .. Len(rest) /\ DOMAIN rows = 1 .. Len(rows) /\ Len(rows) \in Nat
  <2>1. rest \in Seq(S)
    BY RemoveAtInSeq
  <2> QED BY <2>1, RemoveAtElements, LenProperties
<1> HIDE DEF rest
<1>2. \A k \in DOMAIN rest : /\ old(k) \in DOMAIN rows /\ old(k) # row /\ k \in Nat
                             /\ rest[k] = rows[old(k)]
  BY <1>1
<1>3. \A i \in DOMAIN rows : i # row => \E k \in DOMAIN rest : old(k) = i
  <2> SUFFICES ASSUME NEW i \in DOMAIN rows, i # row PROVE \E k \in DOMAIN rest : old(k) = i
    OBVIOUS
  <2>1. CASE i < row
    <3>1. i \in DOMAIN rest /\ old(i) = i
      BY <1>1, <2>1
    <3> QED BY <3>1
  <2>2. CASE i > row
    <3>1. i - 1 \in DOMAIN rest /\ old(i - 1) = i
      BY <1>1, <2>2
    <3> QED BY <3>1
  <2> QED BY <1>1, <2>1, <2>2
<1>4. \A i, k \in DOMAIN rest : old(i) = old(k) => i = k
  BY <1>1
<1> HIDE DEF old
<1>5. DocsOf(rest) = DocsOf(rows) \ {rows[row].doc}
  <2>1. \A doc \in DocsOf(rest) : doc \in DocsOf(rows) /\ doc # rows[row].doc
    BY <1>2 DEF DocsOf, OneEach
  <2>2. \A doc \in DocsOf(rows) \ {rows[row].doc} : doc \in DocsOf(rest)
    <3> SUFFICES ASSUME NEW i \in DOMAIN rows, rows[i].doc # rows[row].doc
                 PROVE  rows[i].doc \in DocsOf(rest)
      BY DEF DocsOf
    <3>1. PICK k \in DOMAIN rest : old(k) = i
      BY <1>3
    <3> QED BY <1>2, <3>1 DEF DocsOf
  <2> QED BY <2>1, <2>2
<1>6. OneEach(rest)
  BY <1>2, <1>4 DEF OneEach
<1> QED BY <1>5, <1>6 DEF rest

=============================================================================
