---------------------------- MODULE JournalProofs ----------------------------
(***************************************************************************)
(* Theorems about the Journal tab, for every set of ids and every bound.   *)
(*                                                                         *)
(* A controller outlives its screen while a closure holds it, one of a     *)
(* fetch or a save or the block that a fetch posts; the next turn of the   *)
(* main queue may be its last.  HeldInv follows it: no rows without a      *)
(* holder.                                                                 *)
(* The order of the fetched entries rests on their documents never being   *)
(* rewritten, which is known of every document that was ever written.      *)
(* CalmInv is calm use: one call at a time, and none under the dialog.     *)
(* BookInv is what makes the tab a book: the list shows what the device    *)
(* sees of the collection, each document once, or the one callback that is *)
(* to come will make it so (Completes).                                    *)
(***************************************************************************)
EXTENDS JournalProperties, ClientProofs

KnownRow == {j \in Journal : j.uuid # DefaultId => j.uuid = j.doc /\ j.doc \in Known}

StoreInv ==
  /\ ClientInv(Dates, Callback, DocIds \cup {DefaultId})
  /\ PendingIds("delete") \subseteq confirmed \cup {DefaultId}
  /\ confirmed \subseteq DocIds

ScreenInv ==
  /\ app \in {"signedOut", "home", "crashed"}
  /\ session \in 0 .. MaxSessions
  /\ ui \in {"list", "form", "confirm"}
  /\ IF ui = "confirm" THEN dialog \in [row : Nat \ {0}, journal : KnownRow]
                       ELSE dialog = NoDialog
  /\ app = "home" => session \in Sessions
  /\ app # "home" => ui = "list"

\* FetchedStayInOrder of one list, given what the documents were written with.
Ordered(rows, docs) ==
  \A i, j \in DOMAIN rows :
    i < j /\ rows[i].uuid # DefaultId =>
      /\ rows[j].uuid # DefaultId
      /\ docs[rows[i].doc] <= docs[rows[j].doc]

RowsInv ==
  /\ journals \in [Sessions -> Seq(KnownRow)]
  /\ \A s \in Sessions : Ordered(journals[s], written)

HeldInv == \A s \in Sessions : OnScreen(s) \/ Held(s, mainQueue) \/ journals[s] = <<>>

IInv == StoreInv /\ ScreenInv /\ RowsInv /\ HeldInv

-----------------------------------------------------------------------------
(* Rows *)

LEMMA KnownRowsGrow ==
  ASSUME StoreInv', WrittenKept
  PROVE  KnownRow \subseteq KnownRow' /\ Seq(KnownRow) \subseteq Seq(KnownRow')
<1>1. written' \in [DocIds -> Dates \cup {NoDoc}]
  BY ClientInvIsNext DEF StoreInv
<1>2. KnownRow \subseteq KnownRow'
  BY <1>1, KnownKept DEF KnownRow
<1> QED
  BY <1>2, SeqMonotonic

\* A list of this state is as good in the next: its documents are not rewritten.
LEMMA ListKept ==
  ASSUME StoreInv', WrittenKept, NEW rows \in Seq(KnownRow), Ordered(rows, written)
  PROVE  rows \in Seq(KnownRow') /\ Ordered(rows, written')
<1>1. DOMAIN rows = 1 .. Len(rows) /\ \A i \in 1 .. Len(rows) : rows[i] \in KnownRow
  BY LenProperties, ElementOfSeq
<1>2. \A i \in DOMAIN rows :
        rows[i].uuid # DefaultId => written'[rows[i].doc] = written[rows[i].doc]
  BY <1>1 DEF KnownRow, WrittenKept
<1>3. Ordered(rows, written')
  BY <1>2 DEF Ordered
<1> QED
  BY <1>3, KnownRowsGrow

LEMMA ListsKept ==
  ASSUME RowsInv, StoreInv', WrittenKept, UNCHANGED journals
  PROVE  RowsInv'
<1>1. \A s \in Sessions : journals[s] \in Seq(KnownRow') /\ Ordered(journals[s], written')
  BY ListKept DEF RowsInv
<1> QED
  BY <1>1 DEF RowsInv

LEMMA EmptyList ==
  <<>> \in Seq(KnownRow) /\ Ordered(<<>>, written)
BY EmptySeq DEF Ordered

LEMMA NewList ==
  ASSUME RowsInv, StoreInv', WrittenKept,
         NEW s \in Sessions, NEW rows \in Seq(KnownRow), Ordered(rows, written),
         journals' = [journals EXCEPT ![s] = rows]
  PROVE  RowsInv'
<1>1. \A t \in Sessions : journals'[t] \in Seq(KnownRow) /\ Ordered(journals'[t], written)
  BY DEF RowsInv
<1>2. \A t \in Sessions : journals'[t] \in Seq(KnownRow') /\ Ordered(journals'[t], written')
  BY <1>1, ListKept
<1>3. journals' = [t \in Sessions |-> journals'[t]]
  BY DEF RowsInv
<1> QED
  BY <1>2, <1>3 DEF RowsInv

LEMMA NoLists ==
  ASSUME journals' = NoRows
  PROVE  RowsInv' /\ HeldInv'
<1>1. \A s \in Sessions : journals'[s] = <<>> /\ journals' \in [Sessions -> {<<>>}]
  BY DEF NoRows
<1>2. <<>> \in Seq(KnownRow') /\ Ordered(<<>>, written')
  BY EmptySeq DEF Ordered
<1>3. RowsInv'
  BY <1>1, <1>2 DEF RowsInv, NoRows
<1> QED
  BY <1>1, <1>3 DEF HeldInv

-----------------------------------------------------------------------------
(* Controllers *)

LEMMA HeldIsAwaited ==
  ASSUME NEW s PROVE Held(s, mainQueue) <=> \E c \in Awaited : Holds(c, s)
BY DEF Held, Awaited

LEMMA HeldIsAwaitedNext ==
  ASSUME NEW s PROVE Held(s, mainQueue)' <=> \E c \in Awaited' : Holds(c, s)
BY DEF Held, Awaited, Holds

LEMMA HeldGrows ==
  ASSUME Awaited \subseteq Awaited' \cup {NoCallback}, NEW s, Held(s, mainQueue)
  PROVE  Held(s, mainQueue)'
BY HeldIsAwaited, HeldIsAwaitedNext DEF Holds

LEMMA HoldersKept ==
  ASSUME HeldInv, Awaited \subseteq Awaited' \cup {NoCallback},
         UNCHANGED <<app, session, journals>>
  PROVE  HeldInv'
BY HeldGrows DEF HeldInv, OnScreen

-----------------------------------------------------------------------------
(* Parts of actions that several of them share *)

LEMMA InitInv == Init => IInv
<1> SUFFICES ASSUME Init PROVE IInv
  OBVIOUS
<1>1. StoreInv
  BY InitClientInv DEF Init, StoreInv
<1>2. ScreenInv
  BY JournalAssumption DEF Init, ScreenInv
<1>3. RowsInv /\ HeldInv
  BY EmptyList DEF Init, RowsInv, HeldInv, NoRows
<1> QED
  BY <1>1, <1>2, <1>3 DEF IInv

\* The client and the history are untouched.
LEMMA StoreUntouched ==
  ASSUME StoreInv, UNCHANGED <<clientVars, confirmed>>
  PROVE  StoreInv' /\ WrittenKept /\ Awaited' = Awaited
<1>1. ClientInv(Dates, Callback, DocIds \cup {DefaultId})'
  BY DEF StoreInv, clientVars, ClientInv, ClientTypeOK, Known, PendingIds
<1>2. PendingIds("delete")' = PendingIds("delete")
  BY DEF clientVars, PendingIds
<1> QED
  BY <1>1, <1>2 DEF StoreInv, WrittenKept, Awaited, clientVars

LEMMA DialogKept ==
  ASSUME ScreenInv, StoreInv', WrittenKept, UNCHANGED <<app, session, ui, dialog>>
  PROVE  ScreenInv'
BY KnownRowsGrow DEF ScreenInv

\* The process ends.
LEMMA Dies ==
  ASSUME StoreInv, ProcessDies, UNCHANGED confirmed
  PROVE  StoreInv'
BY DyingKeeps DEF StoreInv

LEMMA CrashInv ==
  ASSUME IInv, Crash, UNCHANGED confirmed
  PROVE  IInv'
<1>1. StoreInv'
  BY Dies DEF Crash, IInv
<1>2. ScreenInv'
  BY JournalAssumption DEF Crash, ScreenInv
<1> QED
  BY <1>1, <1>2, NoLists DEF Crash, IInv

-----------------------------------------------------------------------------
(* The session *)

LEMMA OpenJournalInv ==
  ASSUME IInv, OpenJournal
  PROVE  IInv'
<1>1. session + 1 \in Sessions /\ app = "signedOut" /\ app' = "home" /\ session' = session + 1
      /\ UNCHANGED <<journals, ui, dialog, confirmed>>
  BY JournalAssumption DEF OpenJournal, IInv, ScreenInv, Sessions
<1>2. FetchDone(session + 1) \in Callback
  BY <1>1 DEF FetchDone, Callback
<1>3. GetDocuments(FetchDone(session + 1))
  BY DEF OpenJournal
<1>4. /\ ClientInv(Dates, Callback, DocIds \cup {DefaultId})'
      /\ UNCHANGED <<written, server, pending>> /\ Awaited \subseteq Awaited'
  BY <1>2, <1>3, GetDocumentsKeeps DEF IInv, StoreInv
<1>5. StoreInv' /\ WrittenKept
  BY <1>1, <1>4 DEF IInv, StoreInv, WrittenKept, PendingIds
<1>6. ScreenInv'
  BY <1>1, <1>5, JournalAssumption DEF IInv, ScreenInv, Sessions
<1>7. HeldInv'
  BY <1>1, <1>4, HeldGrows DEF IInv, HeldInv, OnScreen
<1> QED
  BY <1>1, <1>5, <1>6, <1>7, ListsKept DEF IInv

LEMMA SignOutInv ==
  ASSUME IInv, SignOut
  PROVE  IInv'
<1>1. app = "home" /\ session \in Sessions /\ ui # "confirm" /\ dialog = NoDialog
      /\ app' = "signedOut" /\ ui' = "list" /\ UNCHANGED <<session, dialog, confirmed>>
      /\ StreamsStop
  BY DEF SignOut, IInv, ScreenInv
<1>2. /\ ClientInv(Dates, Callback, DocIds \cup {DefaultId})'
      /\ UNCHANGED <<written, server, queries, pending, mainQueue>>
  BY <1>1, StreamsStopKeeps DEF IInv, StoreInv
<1>3. StoreInv' /\ WrittenKept /\ Awaited' = Awaited
  BY <1>1, <1>2 DEF IInv, StoreInv, WrittenKept, PendingIds, Awaited
<1>4. ScreenInv'
  BY <1>1 DEF IInv, ScreenInv
<1>5. CASE Held(session, mainQueue)
  <2>1. UNCHANGED journals
    BY <1>5 DEF SignOut
  <2>2. HeldInv'
    BY <1>1, <1>3, <1>5, <2>1, HeldGrows DEF IInv, HeldInv, OnScreen
  <2> QED
    BY <1>3, <1>4, <2>1, <2>2, ListsKept DEF IInv
<1>6. CASE ~Held(session, mainQueue)
  <2>1. journals' = [journals EXCEPT ![session] = <<>>]
    BY <1>6 DEF SignOut
  <2>2. RowsInv'
    BY <1>1, <1>3, <2>1, EmptyList, NewList DEF IInv
  <2>3. ASSUME NEW s \in Sessions PROVE (Held(s, mainQueue) \/ journals[s] = <<>>)'
    <3>1. CASE s = session
      BY <1>1, <2>1, <3>1 DEF IInv, RowsInv
    <3>2. CASE s # session
      <4>1. Held(s, mainQueue) \/ journals[s] = <<>>
        BY <3>2 DEF IInv, HeldInv, OnScreen
      <4>2. journals'[s] = journals[s]
        BY <2>1, <3>2 DEF IInv, RowsInv
      <4> QED
        BY <1>3, <4>1, <4>2, HeldGrows
    <3> QED
      BY <3>1, <3>2
  <2>4. HeldInv'
    BY <2>3 DEF HeldInv
  <2> QED
    BY <1>3, <1>4, <2>2, <2>4 DEF IInv
<1> QED
  BY <1>5, <1>6

LEMMA RelaunchInv ==
  ASSUME IInv, Relaunch
  PROVE  IInv'
<1>1. StoreInv'
  BY Dies DEF Relaunch, IInv
<1>2. ScreenInv'
  BY JournalAssumption DEF Relaunch, ScreenInv
<1> QED
  BY <1>1, <1>2, NoLists DEF Relaunch, IInv

-----------------------------------------------------------------------------
(* The form and the dialog *)

\* A row of the table is one of its list.
LEMMA RowIsKnown ==
  ASSUME RowsInv, NEW s \in Sessions, NEW row \in DOMAIN journals[s]
  PROVE  journals[s][row] \in KnownRow /\ row \in Nat \ {0}
<1>1. PICK rows \in Seq(KnownRow) : rows = journals[s]
  BY DEF RowsInv
<1> QED
  BY <1>1, LenProperties, ElementOfSeq

LEMMA ScreenStepsInv ==
  ASSUME IInv, OpenForm \/ CancelForm \/ SwipeDelete \/ CancelDelete
  PROVE  IInv'
<1>1. UNCHANGED <<clientVars, app, session, journals, confirmed>> /\ app = "home"
  BY DEF OpenForm, CancelForm, SwipeDelete, CancelDelete
<1>2. StoreInv' /\ WrittenKept /\ Awaited' = Awaited
  BY <1>1, StoreUntouched DEF IInv
<1>3. RowsInv' /\ HeldInv'
  BY <1>1, <1>2, ListsKept, HoldersKept DEF IInv
<1>4. ScreenInv'
  <2>1. CASE OpenForm \/ CancelForm \/ CancelDelete
    BY <1>1, <2>1 DEF OpenForm, CancelForm, CancelDelete, IInv, ScreenInv
  <2>2. CASE SwipeDelete
    <3>1. PICK row \in DOMAIN journals[session] :
            dialog' = [row |-> row, journal |-> journals[session][row]]
      BY <2>2 DEF SwipeDelete
    <3>2. journals[session][row] \in KnownRow /\ row \in Nat \ {0}
      BY <1>1, <3>1, RowIsKnown DEF IInv, ScreenInv
    <3>3. dialog' \in [row : Nat \ {0}, journal : KnownRow']
      BY <1>2, <3>1, <3>2, KnownRowsGrow
    <3> QED
      BY <1>1, <2>2, <3>3 DEF SwipeDelete, IInv, ScreenInv
  <2> QED
    BY <2>1, <2>2
<1> QED
  BY <1>2, <1>3, <1>4 DEF IInv

LEMMA SaveJournalInv ==
  ASSUME IInv, SaveJournal
  PROVE  IInv'
<1>1. app = "home" /\ ui = "form" /\ ui' = "list" /\ session \in Sessions
      /\ UNCHANGED <<app, session, journals, dialog, confirmed>>
  BY DEF SaveJournal, IInv, ScreenInv
<1>2. PICK id \in Fresh, date \in Dates : SetDocument(id, date, InsertDone(id, session))
  BY DEF SaveJournal
<1>3. InsertDone(id, session) \in Callback
  BY <1>1 DEF InsertDone, Callback, Fresh
<1>4. /\ ClientInv(Dates, Callback, DocIds \cup {DefaultId})' /\ WrittenKept
      /\ PendingIds("delete")' \subseteq PendingIds("delete")
      /\ Awaited \subseteq Awaited'
  BY <1>2, <1>3, SetDocumentKeeps, JournalAssumption DEF IInv, StoreInv
<1>5. StoreInv'
  BY <1>1, <1>4 DEF IInv, StoreInv
<1>6. ScreenInv'
  BY <1>1 DEF IInv, ScreenInv
<1> QED
  BY <1>1, <1>4, <1>5, <1>6, ListsKept, HoldersKept DEF IInv

LEMMA ConfirmDeleteInv ==
  ASSUME IInv, ConfirmDelete
  PROVE  IInv'
<1> DEFINE id == dialog.journal.uuid
<1>1. app = "home" /\ ui = "confirm" /\ ui' = "list" /\ dialog' = NoDialog /\ session \in Sessions
      /\ confirmed' = confirmed \cup {dialog.journal.doc}
      /\ UNCHANGED <<app, session, journals>>
      /\ DeleteDocument(id, DeleteDone(dialog.row, session))
  BY DEF ConfirmDelete, IInv, ScreenInv
<1>2. dialog.row \in Nat \ {0} /\ dialog.journal \in KnownRow
  BY <1>1 DEF IInv, ScreenInv
<1>3. id \in DocIds \cup {DefaultId} /\ id \in confirmed' \cup {DefaultId}
      /\ confirmed' \subseteq DocIds
  BY <1>1, <1>2 DEF KnownRow, Journal, IInv, StoreInv
<1>4. DeleteDone(dialog.row, session) \in Callback
  BY <1>1, <1>2 DEF DeleteDone, Callback
<1>5. /\ ClientInv(Dates, Callback, DocIds \cup {DefaultId})' /\ UNCHANGED <<written, server>>
      /\ PendingIds("delete")' \subseteq PendingIds("delete") \cup {id}
      /\ Awaited \subseteq Awaited'
  BY <1>1, <1>3, <1>4, DeleteDocumentKeeps DEF IInv, StoreInv
<1>6. StoreInv' /\ WrittenKept
  BY <1>1, <1>3, <1>5 DEF IInv, StoreInv, WrittenKept
<1>7. ScreenInv'
  BY <1>1 DEF IInv, ScreenInv
<1> QED
  BY <1>1, <1>5, <1>6, <1>7, ListsKept, HoldersKept DEF IInv

-----------------------------------------------------------------------------
(* Deliveries *)

LEMMA OldestFirstIsOrdered ==
  ASSUME NEW ids \in SUBSET Known, NEW rows \in OldestFirst(ids)
  PROVE  rows \in Seq(KnownRow) /\ Ordered(rows, written)
<1>1. Cardinality(ids) \in Nat
  BY JournalAssumption, FS_Subset, FS_CardinalityType DEF Known
<1>2. \A id \in ids : FetchedJournal(id) \in KnownRow /\ FetchedJournal(id).uuid # DefaultId
  BY JournalAssumption DEF FetchedJournal, KnownRow, Journal, Known
<1>3. /\ rows \in [1 .. Cardinality(ids) -> {FetchedJournal(id) : id \in ids}]
      /\ \A i, j \in DOMAIN rows : i < j => written[rows[i].doc] <= written[rows[j].doc]
  BY DEF OldestFirst
<1>4. rows \in [1 .. Cardinality(ids) -> KnownRow] /\ \A i \in DOMAIN rows : rows[i].uuid # DefaultId
  BY <1>2, <1>3
<1> QED
  BY <1>1, <1>3, <1>4, IsASeq DEF Ordered

LEMMA InsertedIsOrdered ==
  ASSUME NEW rows \in Seq(KnownRow), Ordered(rows, written), NEW doc \in DocIds
  PROVE  /\ Cons(LocalJournal(doc), rows) \in Seq(KnownRow)
         /\ Ordered(Cons(LocalJournal(doc), rows), written)
<1> DEFINE row == LocalJournal(doc)
           all == Cons(row, rows)
<1>1. row \in KnownRow /\ row.uuid = DefaultId
  BY DEF LocalJournal, KnownRow, Journal
<1>2. all \in Seq(KnownRow)
  BY <1>1, ConsInSeq
<1>3. /\ Len(all) = Len(rows) + 1 /\ all[1] = row
      /\ \A k \in 2 .. Len(rows) + 1 : all[k] = rows[k - 1]
  BY <1>1, ConsElements
<1>4. DOMAIN all = 1 .. Len(all) /\ DOMAIN rows = 1 .. Len(rows) /\ Len(rows) \in Nat
  BY <1>2, LenProperties
<1> HIDE DEF row, all
<1>5. ASSUME NEW i \in DOMAIN all, NEW j \in DOMAIN all, i < j, all[i].uuid # DefaultId
      PROVE  all[j].uuid # DefaultId /\ written[all[i].doc] <= written[all[j].doc]
  <2>1. i - 1 \in DOMAIN rows /\ j - 1 \in DOMAIN rows /\ i - 1 < j - 1
        /\ all[i] = rows[i - 1] /\ all[j] = rows[j - 1]
    BY <1>1, <1>3, <1>4, <1>5
  <2> QED
    BY <1>5, <2>1 DEF Ordered
<1>6. Ordered(all, written)
  BY <1>5 DEF Ordered
<1> QED
  BY <1>2, <1>6 DEF row, all

LEMMA RestIsOrdered ==
  ASSUME NEW rows \in Seq(KnownRow), Ordered(rows, written), NEW row \in DOMAIN rows
  PROVE  RemoveAt(rows, row) \in Seq(KnownRow) /\ Ordered(RemoveAt(rows, row), written)
<1> DEFINE rest == RemoveAt(rows, row)
<1>1. rest \in Seq(KnownRow)
  BY RemoveAtInSeq
<1>2. /\ Len(rest) = Len(rows) - 1
      /\ \A k \in 1 .. Len(rows) - 1 : rest[k] = IF k < row THEN rows[k] ELSE rows[k + 1]
  BY RemoveAtElements
<1>3. DOMAIN rest = 1 .. Len(rest) /\ DOMAIN rows = 1 .. Len(rows) /\ Len(rows) \in Nat
      /\ row \in 1 .. Len(rows)
  BY <1>1, LenProperties
<1> HIDE DEF rest
<1>4. ASSUME NEW i \in DOMAIN rest, NEW j \in DOMAIN rest, i < j, rest[i].uuid # DefaultId
      PROVE  rest[j].uuid # DefaultId /\ written[rest[i].doc] <= written[rest[j].doc]
  <2>1. PICK k \in DOMAIN rows : rest[i] = rows[k] /\ k = IF i < row THEN i ELSE i + 1
    BY <1>2, <1>3
  <2>2. PICK l \in DOMAIN rows : rest[j] = rows[l] /\ l = IF j < row THEN j ELSE j + 1
    BY <1>2, <1>3
  <2>3. k < l
    BY <1>2, <1>3, <1>4, <2>1, <2>2
  <2> QED
    BY <1>4, <2>1, <2>2, <2>3 DEF Ordered
<1>5. Ordered(rest, written)
  BY <1>4 DEF Ordered
<1> QED
  BY <1>1, <1>5 DEF rest

\* A controller's list is replaced by a good one, or goes with its controller.
LEMMA ShowInv ==
  ASSUME IInv, NEW rows \in Seq(KnownRow), Ordered(rows, written), Show(rows), UNCHANGED confirmed
  PROVE  IInv'
<1>1. /\ TakeEvent
      /\ UNCHANGED <<written, server, cached, pending, taken, queries, app, session, ui, dialog>>
      /\ journals' = [journals EXCEPT ![Arriving.session] = IF Alive THEN rows ELSE <<>>]
  BY DEF Show
<1>2. /\ ClientInv(Dates, Callback, DocIds \cup {DefaultId})'
      /\ Awaited \subseteq Awaited' \cup {Arriving}
      /\ Head(mainQueue) \in Events(Callback)
  BY <1>1, TakeEventKeeps DEF IInv, StoreInv, Arriving
<1>3. StoreInv' /\ WrittenKept
  BY <1>1, <1>2 DEF IInv, StoreInv, WrittenKept, PendingIds
<1>4. ScreenInv'
  BY <1>1, <1>3, DialogKept DEF IInv
<1>5. Arriving.session \in Sessions
  BY <1>2 DEF Events, Callback, Arriving
<1>6. RowsInv'
  BY <1>1, <1>3, <1>5, EmptyList, NewList DEF IInv
<1>7. ASSUME NEW s \in Sessions
      PROVE  (OnScreen(s) \/ Held(s, mainQueue) \/ journals[s] = <<>>)'
  <2>1. OnScreen(s)' <=> OnScreen(s)
    BY <1>1 DEF OnScreen
  <2>2. CASE s = Arriving.session
    <3>1. Held(s, Tail(mainQueue)) <=> Held(s, mainQueue)'
      BY <1>1 DEF TakeEvent, Held
    <3>2. ~Alive => journals'[s] = <<>>
      BY <1>1, <2>2 DEF IInv, RowsInv
    <3> QED
      BY <2>1, <2>2, <3>1, <3>2 DEF Alive
  <2>3. CASE s # Arriving.session
    <3>1. journals'[s] = journals[s]
      BY <1>1, <2>3 DEF IInv, RowsInv
    <3>2. Held(s, mainQueue) => Held(s, mainQueue)'
      BY <1>2, <2>3, HeldIsAwaited, HeldIsAwaitedNext DEF Holds
    <3> QED
      BY <2>1, <3>1, <3>2 DEF IInv, HeldInv
  <2> QED
    BY <2>2, <2>3
<1>8. HeldInv'
  BY <1>7 DEF HeldInv
<1> QED
  BY <1>3, <1>4, <1>6, <1>8 DEF IInv

\* What a queue holds after its oldest element is gone and another has joined it.
Follows(t, s, e) ==
  /\ \A i \in DOMAIN t : t[i] = e \/ \E j \in DOMAIN s : t[i] = s[j]
  /\ \A i \in DOMAIN s : s[i] = Head(s) \/ \E j \in DOMAIN t : t[j] = s[i]
  /\ \E i \in DOMAIN t : t[i] = e

LEMMA TakenAndPosted ==
  ASSUME NEW S, NEW s \in Seq(S), s # <<>>, NEW e \in S
  PROVE  Append(Tail(s), e) \in Seq(S) /\ Follows(Append(Tail(s), e), s, e)
<1> PICK rest \in Seq(S) : rest = Tail(s)
  BY HeadTailProperties
<1> PICK t : t = Append(rest, e)
  OBVIOUS
<1>1. /\ \A i \in DOMAIN rest : i + 1 \in DOMAIN s /\ rest[i] = s[i + 1]
      /\ \A i \in DOMAIN s : \/ s[i] = Head(s)
                             \/ i - 1 \in DOMAIN rest /\ rest[i - 1] = s[i]
  BY TailElements
<1>2. /\ t \in Seq(S)
      /\ \A i \in DOMAIN rest : i \in DOMAIN t /\ t[i] = rest[i]
      /\ \A i \in DOMAIN t : (i \in DOMAIN rest /\ t[i] = rest[i]) \/ t[i] = e
      /\ \E i \in DOMAIN t : t[i] = e
  BY AppendElements, AppendProperties
<1>3. ASSUME NEW i \in DOMAIN t PROVE t[i] = e \/ \E j \in DOMAIN s : t[i] = s[j]
  BY <1>1, <1>2
<1>4. ASSUME NEW i \in DOMAIN s, s[i] # Head(s) PROVE \E j \in DOMAIN t : t[j] = s[i]
  <2>1. i - 1 \in DOMAIN rest /\ rest[i - 1] = s[i]
    BY <1>1, <1>4
  <2> QED
    BY <1>2, <2>1
<1>5. Follows(t, s, e)
  BY <1>2, <1>3, <1>4 DEF Follows
<1> QED
  BY <1>2, <1>5

\* The answer to a fetch leaves the main queue, and a block joins it.
LEMMA BlockPosted ==
  ASSUME StoreInv, mainQueue # <<>>, NEW c \in Callback,
         mainQueue' = Append(Tail(mainQueue), Event(c, TRUE, {})),
         UNCHANGED <<written, server, cached, pending, taken, queries>>
  PROVE  /\ ClientInv(Dates, Callback, DocIds \cup {DefaultId})'
         /\ Awaited \subseteq Awaited' \cup {Arriving} /\ c \in Awaited'
<1>1. mainQueue \in Seq(Events(Callback)) /\ \A i \in DOMAIN mainQueue : mainQueue[i].ids \subseteq Known
  BY ClientInvIs DEF StoreInv
<1> PICK e \in Events(Callback) : e = Event(c, TRUE, {})
  BY DEF Event, Events
<1>2. e.callback = c /\ e.ids = {}
  BY DEF Event
<1> PICK old \in Seq(Events(Callback)) : old = mainQueue
  BY <1>1
<1> PICK new : new = Append(Tail(old), e)
  OBVIOUS
<1>3. new \in Seq(Events(Callback)) /\ Follows(new, old, e) /\ new = mainQueue'
  BY TakenAndPosted
<1>4. /\ \A i \in DOMAIN new : new[i] = e \/ \E j \in DOMAIN old : new[i] = old[j]
      /\ \A i \in DOMAIN old : old[i] = Head(old) \/ \E j \in DOMAIN new : new[j] = old[i]
      /\ \E i \in DOMAIN new : new[i] = e
  BY <1>3 DEF Follows
<1>5. Known' = Known /\ PendingIds("set")' = PendingIds("set")
  BY DEF Known, PendingIds
<1>6. \A i \in DOMAIN mainQueue' : mainQueue'[i].ids \subseteq Known
  <2> PICK known : known = Known
    OBVIOUS
  <2>1. \A i \in DOMAIN old : old[i].ids \subseteq known
    BY <1>1
  <2>2. \A i \in DOMAIN new : new[i].ids \subseteq known
    BY ONLY <1>2, <1>4, <2>1
  <2> QED
    BY ONLY <1>3, <2>2, known = Known
<1>7. ClientInv(Dates, Callback, DocIds \cup {DefaultId})'
  BY <1>3, <1>5, <1>6, ClientInvIs, ClientInvIsNext DEF StoreInv
<1>8. {old[i].callback : i \in DOMAIN old}
        \subseteq {new[i].callback : i \in DOMAIN new} \cup {Head(old).callback}
  BY ONLY <1>4
<1>9. c \in {new[i].callback : i \in DOMAIN new}
  BY ONLY <1>2, <1>4
<1>10. Awaited \subseteq Awaited' \cup {Arriving} /\ c \in Awaited'
  <2> PICK others : others = queries \cup {pending[i].callback : i \in DOMAIN pending}
    OBVIOUS
  <2>1. Awaited = others \cup {old[i].callback : i \in DOMAIN old}
    BY DEF Awaited
  <2>2. Awaited' = others \cup {new[i].callback : i \in DOMAIN new}
    BY <1>3 DEF Awaited
  <2>3. Head(old).callback = Arriving
    BY DEF Arriving
  <2> QED
    BY ONLY <1>8, <1>9, <2>1, <2>2, <2>3
<1> QED
  BY <1>7, <1>10

\* A fetched list is shown, and the block that will draw it again holds its controller.
LEMMA ShowAndReloadInv ==
  ASSUME IInv, mainQueue # <<>>, NEW rows \in Seq(KnownRow), Ordered(rows, written),
         ShowAndReload(rows), UNCHANGED confirmed
  PROVE  IInv'
<1>1. /\ mainQueue' = Append(Tail(mainQueue), Event(ReloadData(Arriving.session), TRUE, {}))
      /\ UNCHANGED <<written, server, cached, pending, taken, queries, app, session, ui, dialog>>
      /\ journals' = [journals EXCEPT ![Arriving.session] = rows]
  BY DEF ShowAndReload
<1>2. Arriving.session \in Sessions
  <2>1. mainQueue \in Seq(Events(Callback))
    BY ClientInvIs DEF IInv, StoreInv
  <2>2. Head(mainQueue) \in Events(Callback)
    BY <2>1, HeadTailProperties
  <2> QED
    BY <2>2 DEF Arriving, Events, Callback
<1> PICK c \in Callback : c = ReloadData(Arriving.session)
  BY <1>2 DEF ReloadData, Callback
<1>3. /\ ClientInv(Dates, Callback, DocIds \cup {DefaultId})'
      /\ Awaited \subseteq Awaited' \cup {Arriving} /\ c \in Awaited'
  BY <1>1, BlockPosted DEF IInv
<1>4. StoreInv' /\ WrittenKept
  BY <1>1, <1>3 DEF IInv, StoreInv, WrittenKept, PendingIds
<1>5. ScreenInv'
  BY <1>1, <1>4, DialogKept DEF IInv
<1>6. RowsInv'
  BY <1>1, <1>2, <1>4, NewList DEF IInv
<1>7. Holds(c, Arriving.session)
  BY JournalAssumption DEF Holds, ReloadData
<1>8. ASSUME NEW s \in Sessions
      PROVE  (OnScreen(s) \/ Held(s, mainQueue) \/ journals[s] = <<>>)'
  <2>1. CASE s = Arriving.session
    <3>1. \E d \in Awaited' : Holds(d, s)
      BY <1>3, <1>7, <2>1
    <3> QED
      BY <3>1, HeldIsAwaitedNext
  <2>2. CASE s # Arriving.session
    <3>1. journals'[s] = journals[s] /\ (OnScreen(s)' <=> OnScreen(s))
      BY <1>1, <2>2 DEF IInv, RowsInv, OnScreen
    <3>2. Held(s, mainQueue) => Held(s, mainQueue)'
      BY <1>3, <2>2, HeldIsAwaited, HeldIsAwaitedNext DEF Holds
    <3> QED
      BY <3>1, <3>2 DEF IInv, HeldInv
  <2> QED
    BY <2>1, <2>2
<1>9. HeldInv'
  BY <1>8 DEF HeldInv
<1> QED
  BY <1>4, <1>5, <1>6, <1>9 DEF IInv

LEMMA DeliveryInv ==
  ASSUME IInv, MainQueue
  PROVE  IInv'
<1>1. mainQueue # <<>> /\ UNCHANGED confirmed
  BY DEF MainQueue, FetchDelivered, ReloadDelivered, InsertDelivered, DeleteDelivered, Arrived
<1>2. mainQueue \in Seq(Events(Callback)) /\ \A i \in DOMAIN mainQueue : mainQueue[i].ids \subseteq Known
  BY ClientInvIs DEF IInv, StoreInv
<1>3. Head(mainQueue) \in Events(Callback) /\ Head(mainQueue).ids \subseteq Known
  BY <1>1, <1>2, HeadTailProperties, TailElements
<1>4. Arriving \in Callback
  BY <1>3 DEF Arriving, Events
<1>5. Arriving.session \in Sessions
  BY <1>4 DEF Callback
<1>6. Mine \in Seq(KnownRow) /\ Ordered(Mine, written)
  BY <1>5 DEF IInv, RowsInv, Mine
<1>7. CASE Ignore
  BY <1>1, <1>6, <1>7, ShowInv DEF Ignore
<1>8. CASE Crash
  BY <1>1, <1>8, CrashInv
<1>9. CASE FetchDelivered /\ ~Ignore
  <2>1. PICK rows \in OldestFirst(Head(mainQueue).ids) : ShowAndReload(rows)
    BY <1>9 DEF FetchDelivered
  <2> QED
    BY <1>1, <1>3, <2>1, OldestFirstIsOrdered, ShowAndReloadInv
<1>10. CASE InsertDelivered /\ ~Ignore
  <2>1. Show(Cons(LocalJournal(Arriving.doc), Mine)) /\ Arriving.kind = "insert"
    BY <1>10 DEF InsertDelivered, Arrived, Arriving
  <2>2. Arriving.doc \in DocIds
    BY <1>4, <2>1 DEF Callback
  <2> QED
    BY <1>1, <1>6, <2>1, <2>2, InsertedIsOrdered, ShowInv
<1>11. CASE DeleteDelivered /\ ~Ignore /\ ~Crash
  <2>1. Arriving.row \in DOMAIN Mine /\ Show(RemoveAt(Mine, Arriving.row))
    BY <1>11 DEF DeleteDelivered
  <2> QED
    BY <1>1, <1>6, <2>1, RestIsOrdered, ShowInv
<1> QED
  BY <1>7, <1>8, <1>9, <1>10, <1>11 DEF MainQueue, ReloadDelivered

-----------------------------------------------------------------------------
(* The environment *)

LEMMA EnvironmentInv ==
  ASSUME IInv, Environment
  PROVE  IInv'
<1>1. UNCHANGED <<screenVars, confirmed>>
  BY DEF Environment, ClientRuns, OtherDeviceSaves, OtherDeviceErases
<1>2. /\ ClientInv(Dates, Callback, DocIds \cup {DefaultId})' /\ WrittenKept
      /\ PendingIds("delete")' \subseteq PendingIds("delete")
      /\ Awaited \subseteq Awaited' \cup {NoCallback}
  <2>1. CASE ClientRuns
    BY <2>1, ClientStepKeeps DEF ClientRuns, Kept, WrittenKept, IInv, StoreInv
  <2>2. CASE OtherDeviceSaves \/ OtherDeviceErases
    <3>1. OtherDeviceDeletes \/ \E date \in Dates : OtherDeviceAdds(date)
      BY <2>2 DEF OtherDeviceSaves, OtherDeviceErases
    <3>2. /\ ClientInv(Dates, Callback, DocIds \cup {DefaultId})' /\ WrittenKept
          /\ UNCHANGED <<pending, queries, mainQueue>>
      BY <3>1, OtherDeviceKeeps, JournalAssumption DEF IInv, StoreInv
    <3> QED
      BY <3>2 DEF PendingIds, Awaited
  <2> QED
    BY <2>1, <2>2 DEF Environment
<1>3. StoreInv'
  BY <1>1, <1>2 DEF IInv, StoreInv
<1> QED
  BY <1>1, <1>2, <1>3, DialogKept, ListsKept, HoldersKept DEF IInv, screenVars

LEMMA NextInv ==
  ASSUME IInv, [Next]_vars
  PROVE  IInv'
<1>1. CASE User
  BY <1>1, OpenJournalInv, SignOutInv, RelaunchInv, ScreenStepsInv, SaveJournalInv,
     ConfirmDeleteInv DEF User
<1>2. CASE UNCHANGED vars
  <2>1. StoreInv' /\ WrittenKept /\ Awaited' = Awaited
    BY <1>2, StoreUntouched DEF IInv, vars
  <2> QED
    BY <1>2, <2>1, DialogKept, ListsKept, HoldersKept DEF IInv, vars, screenVars
<1> QED
  BY <1>1, <1>2, DeliveryInv, EnvironmentInv DEF Next

LEMMA Invariant == Spec => []IInv
BY InitInv, NextInv, PTL DEF Spec

-----------------------------------------------------------------------------
(* Theorems *)

\* Type correctness, for any ids and bounds: among it, that a controller which is
\* neither on the screen nor held by a closure, of Firestore or of the main queue, is
\* gone with its rows (viewDidLoad, addJournal, deleteJournal).
THEOREM TypeCorrect == Spec => []TypeOK
<1>1. IInv => TypeOK
  <2> SUFFICES ASSUME IInv PROVE TypeOK
    OBVIOUS
  <2>1. KnownRow \subseteq Journal
    BY DEF KnownRow
  <2>2. Seq(KnownRow) \subseteq Seq(Journal)
    BY <2>1, SeqMonotonic
  <2>3. journals \in [Sessions -> Seq(Journal)]
    BY <2>2 DEF IInv, RowsInv
  <2>4. IF ui = "confirm" THEN dialog \in [row : Nat \ {0}, journal : Journal]
                          ELSE dialog = NoDialog
    BY <2>1 DEF IInv, ScreenInv
  <2>5. ClientTypeOK(Dates, Callback, DocIds \cup {DefaultId})
    BY DEF IInv, StoreInv, ClientInv
  <2> QED
    BY <2>3, <2>4, <2>5 DEF TypeOK, IInv, StoreInv, ScreenInv, HeldInv
<1> QED
  BY <1>1, Invariant, PTL

\* The fetched entries stay sorted by date below those saved since, whatever is
\* inserted and removed at whatever row (viewDidLoad, addJournal, deleteJournal).
THEOREM StaysInOrder == Spec => []FetchedStayInOrder
<1>1. IInv => FetchedStayInOrder
  BY DEF IInv, RowsInv, Ordered, FetchedStayInOrder
<1> QED
  BY <1>1, Invariant, PTL

\* This device removes only documents whose deletion the user confirmed, however
\* late the deletion reaches the server and whatever the list shows by then.
THEOREM ErasesOnlyConfirmed == Spec => DeletesOnlyConfirmed
<1>1. IInv /\ IInv' /\ [Next]_vars => [~OtherDeviceErases => server \ server' \subseteq confirmed]_vars
  <2> SUFFICES ASSUME IInv, Next, ~OtherDeviceErases PROVE server \ server' \subseteq confirmed
    OBVIOUS
  <2>1. CASE ClientRuns
    <3>1. server \ server' \subseteq PendingIds("delete")
      BY <2>1, ClientStepKeeps DEF ClientRuns, Kept, IInv, StoreInv
    <3>2. server \subseteq DocIds /\ PendingIds("delete") \subseteq confirmed \cup {DefaultId}
      BY ClientInvIs DEF IInv, StoreInv, Known
    <3> QED
      BY <3>1, <3>2, JournalAssumption
  <2>2. CASE ~ClientRuns
    <3>1. server \subseteq server'
      BY <2>2 DEF Next, User, MainQueue, Environment, OpenJournal, GetDocuments, SignOut,
           StreamsStop, Relaunch, ProcessDies, OpenForm, CancelForm, SaveJournal, SetDocument,
           SwipeDelete, CancelDelete, ConfirmDelete, DeleteDocument, FetchDelivered,
           ShowAndReload, ReloadDelivered, InsertDelivered, DeleteDelivered, Ignore, Show,
           Crash, OtherDeviceSaves, OtherDeviceAdds, clientVars
    <3> QED
      BY <3>1
  <2> QED
    BY <2>1, <2>2
<1> QED
  BY <1>1, Invariant, PTL DEF Spec, DeletesOnlyConfirmed

-----------------------------------------------------------------------------
(* Calm use *)

\* What the callback that is still to come will do when it runs is possible then.
Suits(c) ==
  /\ c.session = session
  /\ c.kind = "delete" => c.row \in DOMAIN journals[session]

\* At most one callback is to come, it suits the list on the screen, and none is
\* while the dialog asks about a row.
CalmInv ==
  /\ app # "crashed"
  /\ \/ NoneExpected
     \/ app = "home" /\ ui # "confirm" /\ \E c \in Callback : Expected(c) /\ Suits(c)
  /\ ui = "confirm" => dialog.row \in DOMAIN journals[session]

\* Calm use is use: what always holds holds under it.
LEMMA CalmIsUse == CalmSpec => Spec
<1>1. [CalmNext]_vars => [Next]_vars
  BY DEF CalmNext, PatientUser, FriendlyServer, OthersStayAway, Next, User, Environment,
         ClientRuns, ClientStep
<1> QED BY <1>1, PTL DEF CalmSpec, Spec

\* Quiet is when no callback is expected.
LEMMA QuietIsNone ==
  ASSUME IInv, Quiet
  PROVE  NoneExpected
<1>1. /\ pending \in Seq(Writes(Callback, DocIds \cup {DefaultId}))
      /\ mainQueue \in Seq(Events(Callback))
  BY ClientInvIs DEF IInv, StoreInv
<1>2. \A c \in Callback : c.session \in Sessions /\ c # NoCallback
  BY JournalAssumption DEF Callback
<1>3. mainQueue = <<>>
  <2> SUFFICES ASSUME mainQueue # <<>> PROVE FALSE
    OBVIOUS
  <2>1. mainQueue[1] \in Events(Callback) /\ 1 \in DOMAIN mainQueue
    BY <1>1, TailElements, HeadTailProperties
  <2>2. mainQueue[1].callback \in Callback
    BY <2>1 DEF Events
  <2> QED BY <1>2, <2>1, <2>2 DEF Quiet, Outstanding
<1>4. NoneQueued
  <2> SUFFICES ASSUME NEW i \in DOMAIN pending, pending[i].callback # NoCallback PROVE FALSE
    BY DEF NoneQueued
  <2>1. pending[i] \in Writes(Callback, DocIds \cup {DefaultId})
    BY <1>1, ElementOfSeq, LenProperties
  <2>2. pending[i].callback.session \in Sessions
    BY <1>2, <2>1 DEF Writes
  <2> QED BY <2>2 DEF Quiet, Outstanding
<1> QED BY <1>3, <1>4 DEF Quiet, NoneExpected

\* Nothing is called and nothing is delivered, and the rows stay where they are.
LEMMA ScreenCalm ==
  ASSUME CalmInv, UNCHANGED <<pending, queries, mainQueue, app, session, journals>>,
         ui' = "confirm" => NoneExpected /\ dialog'.row \in DOMAIN journals[session]
  PROVE  CalmInv'
<1>1. /\ NoneExpected => NoneExpected'
      /\ \A c : Expected(c) /\ Suits(c) => Expected(c)' /\ Suits(c)'
  BY DEF NoneExpected, Expected, Queried, Queued, Answered, NoneQueued, Suits
<1> QED BY <1>1 DEF CalmInv

LEMMA ScreenStepsCalm ==
  ASSUME IInv, CalmInv, OpenForm \/ CancelForm \/ CancelDelete \/ (Quiet /\ SwipeDelete)
  PROVE  CalmInv'
<1>1. UNCHANGED <<pending, queries, mainQueue, app, session, journals>>
  BY DEF OpenForm, CancelForm, CancelDelete, SwipeDelete, clientVars
<1>2. CASE OpenForm \/ CancelForm \/ CancelDelete
  BY <1>1, <1>2, ScreenCalm DEF OpenForm, CancelForm, CancelDelete
<1>3. CASE Quiet /\ SwipeDelete
  <2>1. NoneExpected /\ dialog'.row \in DOMAIN journals[session]
    BY <1>3, QuietIsNone DEF SwipeDelete
  <2> QED BY <1>1, <2>1, ScreenCalm
<1> QED BY <1>2, <1>3

LEMMA SessionCalm ==
  ASSUME IInv, CalmInv, OpenJournal \/ (Quiet /\ SignOut) \/ Relaunch
  PROVE  CalmInv'
<1>1. CASE OpenJournal
  <2>1. NoneExpected /\ app' = "home" /\ ui' = "list" /\ session' = session + 1
        /\ queries' = queries \cup {FetchDone(session + 1)} /\ UNCHANGED <<pending, mainQueue>>
        /\ session + 1 \in Sessions
    BY <1>1, JournalAssumption
       DEF OpenJournal, CalmInv, GetDocuments, IInv, ScreenInv, Sessions
  <2> PICK c \in Callback : c = FetchDone(session + 1)
    BY <2>1 DEF FetchDone, Callback
  <2>2. Expected(c)'
    BY <2>1 DEF NoneExpected, Expected, Queried, NoneQueued
  <2>3. Suits(c)'
    BY <2>1 DEF FetchDone, Suits
  <2> QED BY <2>1, <2>2, <2>3 DEF CalmInv
<1>2. CASE Quiet /\ SignOut
  <2>1. NoneExpected'
    BY <1>2, QuietIsNone DEF SignOut, StreamsStop, NoneExpected, NoneQueued
  <2> QED BY <1>2, <2>1 DEF CalmInv, SignOut
<1>3. CASE Relaunch
  BY <1>3, DeadExpectNothing DEF Relaunch, CalmInv, IInv, StoreInv
<1> QED BY <1>1, <1>2, <1>3

\* A write is queued for the screen's controller while nothing is expected.
LEMMA CallCalm ==
  ASSUME IInv, CalmInv, NoneExpected, app = "home", ui' = "list",
         UNCHANGED <<app, session, journals>>,
         NEW op \in {"set", "delete"}, NEW id \in DocIds \cup {DefaultId}, NEW c \in Callback,
         Suits(c), pending' = Append(pending, Write(op, id, c)), UNCHANGED <<queries, mainQueue>>
  PROVE  CalmInv'
<1>1. Queued(c)'
  BY CallExpected DEF IInv, StoreInv
<1>2. Suits(c)'
  BY DEF Suits
<1> QED BY <1>1, <1>2 DEF CalmInv, Expected

LEMMA CallsCalm ==
  ASSUME IInv, CalmInv, (Quiet /\ SaveJournal) \/ ConfirmDelete
  PROVE  CalmInv'
<1>1. session \in Sessions /\ app = "home" /\ ui' = "list" /\ UNCHANGED <<app, session, journals>>
  BY DEF IInv, ScreenInv, SaveJournal, ConfirmDelete
<1>2. CASE Quiet /\ SaveJournal
  <2>1. PICK id \in Fresh, date \in Dates : SetDocument(id, date, InsertDone(id, session))
    BY <1>2 DEF SaveJournal
  <2> PICK c \in Callback : c = InsertDone(id, session)
    BY <1>1 DEF InsertDone, Callback, Fresh
  <2>2. Suits(c)
    BY DEF Suits, InsertDone
  <2> QED BY <1>1, <1>2, <2>1, <2>2, QuietIsNone, CallCalm DEF SetDocument, Fresh
<1>3. CASE ConfirmDelete
  <2>1. /\ DeleteDocument(dialog.journal.uuid, DeleteDone(dialog.row, session))
        /\ NoneExpected /\ dialog.row \in DOMAIN journals[session]
        /\ dialog \in [row : Nat \ {0}, journal : KnownRow]
    BY <1>3 DEF ConfirmDelete, CalmInv, IInv, ScreenInv
  <2>2. dialog.journal.uuid \in DocIds \cup {DefaultId}
    BY <2>1 DEF KnownRow, Journal
  <2> PICK c \in Callback : c = DeleteDone(dialog.row, session)
    BY <1>1, <2>1 DEF DeleteDone, Callback
  <2>3. Suits(c)
    BY <2>1 DEF Suits, DeleteDone
  <2> QED BY <1>1, <2>1, <2>2, <2>3, CallCalm DEF DeleteDocument
<1> QED BY <1>2, <1>3

\* When the answer to the fetch has run, the block it posted is what is expected.
LEMMA BlockExpected ==
  ASSUME NEW c, Expected(c), mainQueue # <<>>, NEW d,
         mainQueue' = Append(Tail(mainQueue), Event(d, TRUE, {})), UNCHANGED <<pending, queries>>
  PROVE  Granted(d)' /\ ~NoneExpected'
<1>1. Answered(c) /\ Tail(mainQueue) = <<>>
  BY ExpectedIsNext
<1> PICK e : e = Event(d, TRUE, {})
  OBVIOUS
<1>2. mainQueue' = Append(<<>>, e)
  BY <1>1
<1>3. mainQueue' = <<e>> /\ Head(mainQueue') = e /\ mainQueue' # <<>>
  BY ONLY <1>2
<1>4. e.ok
  BY DEF Event
<1>5. queries' = {} /\ NoneQueued'
  BY <1>1 DEF Answered, NoneQueued
<1> QED BY <1>3, <1>4, <1>5 DEF Granted, Answered, NoneExpected

LEMMA DeliveryCalm ==
  ASSUME IInv, CalmInv, MainQueue
  PROVE  CalmInv'
<1>1. mainQueue # <<>>
  BY DEF MainQueue, FetchDelivered, ReloadDelivered, InsertDelivered, DeleteDelivered, Arrived
<1>2. PICK c \in Callback : app = "home" /\ ui # "confirm" /\ Expected(c) /\ Suits(c)
  BY <1>1 DEF CalmInv, NoneExpected
<1>3. Arriving = c
  BY <1>1, <1>2, ExpectedIsNext DEF Arriving
<1>4. (\E rows : Show(rows)) \/ (\E rows : ShowAndReload(rows))
  <2>1. CASE FetchDelivered \/ ReloadDelivered \/ InsertDelivered
    BY <2>1 DEF FetchDelivered, ReloadDelivered, InsertDelivered, Ignore
  <2>2. CASE DeleteDelivered
    <3>1. c.kind = "delete"
      BY <1>3, <2>2 DEF DeleteDelivered, Arrived, Arriving
    <3>2. Arriving.row \in DOMAIN Mine
      BY <1>2, <1>3, <3>1 DEF Suits, Mine
    <3> QED BY <2>2, <3>2 DEF DeleteDelivered, Ignore
  <2> QED BY <2>1, <2>2 DEF MainQueue
<1>5. CASE \E rows : Show(rows)
  <2>1. NoneExpected' /\ UNCHANGED <<app, ui>>
    BY <1>2, <1>5, ExpectedArrives DEF Show
  <2> QED BY <1>2, <2>1 DEF CalmInv
<1>6. CASE \E rows : ShowAndReload(rows)
  <2>1. /\ mainQueue' = Append(Tail(mainQueue), Event(ReloadData(c.session), TRUE, {}))
        /\ UNCHANGED <<pending, queries, app, session, ui>>
    BY <1>3, <1>6 DEF ShowAndReload
  <2> PICK d \in Callback : d = ReloadData(c.session)
    BY DEF Callback, ReloadData
  <2>2. Expected(d)'
    BY <1>1, <1>2, <2>1, BlockExpected DEF Expected, Granted
  <2>3. Suits(d)'
    BY <1>2, <2>1 DEF Suits, ReloadData
  <2> QED BY <1>2, <2>1, <2>2, <2>3 DEF CalmInv
<1> QED BY <1>4, <1>5, <1>6

LEMMA ServerCalm ==
  ASSUME IInv, CalmInv, FriendlyServer
  PROVE  CalmInv'
<1>1. ClientInv(Dates, Callback, DocIds \cup {DefaultId}) /\ ClientStep
      /\ UNCHANGED <<app, session, journals, ui, dialog>>
  BY DEF IInv, StoreInv, FriendlyServer, ClientStep, screenVars
<1>2. /\ NoneExpected => NoneExpected'
      /\ \A c \in Callback : Expected(c) => Expected(c)'
  BY <1>1, ClientStepExpects, JournalAssumption
<1>3. \A c : Suits(c) => Suits(c)'
  BY <1>1 DEF Suits
<1> QED BY <1>1, <1>2, <1>3 DEF CalmInv

LEMMA NextCalm ==
  ASSUME IInv, CalmInv, [CalmNext]_vars
  PROVE  CalmInv'
<1>1. CASE UNCHANGED vars \/ OthersStayAway
  <2>1. UNCHANGED <<pending, queries, mainQueue, app, session, journals, ui, dialog>>
    BY <1>1 DEF vars, clientVars, screenVars, OthersStayAway, OtherDeviceSaves,
                OtherDeviceErases, OtherDeviceAdds, OtherDeviceDeletes
  <2>2. ui' = "confirm" => NoneExpected /\ dialog'.row \in DOMAIN journals[session]
    BY <2>1 DEF CalmInv
  <2> QED BY <2>1, <2>2, ScreenCalm
<1>2. CASE PatientUser
  BY <1>2, SessionCalm, CallsCalm, ScreenStepsCalm DEF PatientUser
<1> QED BY <1>1, <1>2, DeliveryCalm, ServerCalm DEF CalmNext

LEMMA InitCalm == Init => CalmInv
BY DEF Init, ClientInit, CalmInv, NoneExpected, NoneQueued

\* Used calmly, the Journal tab does not crash: no deletion's answer finds its row
\* gone (deleteJournal).
THEOREM CalmUseNeverCrashes == CalmSpec => []CalmNeverCrashes
<1>1. CalmSpec => []IInv
  BY CalmIsUse, Invariant, PTL
<1>2. IInv /\ CalmInv /\ [CalmNext]_vars => CalmInv'
  BY NextCalm
<1>3. CalmInv => CalmNeverCrashes
  BY DEF CalmInv, CalmNeverCrashes
<1> QED BY <1>1, <1>2, <1>3, InitCalm, PTL DEF CalmSpec

-----------------------------------------------------------------------------
(* The book *)

IsOpen == app = "home" /\ queries = {}

\* The callback that is to come makes the rows what the device sees of the collection.
Completes(c) ==
  \/ /\ c.kind = "fetch" /\ Rows = <<>>
     /\ (Queried(c) \/ (Granted(c) /\ Head(mainQueue).ids = View(server)))
  \/ /\ c.kind = "insert" /\ (Queued(c) \/ Granted(c))
     /\ c.doc \notin DocsOf(Rows) /\ View(server) = DocsOf(Rows) \cup {c.doc}
  \/ /\ c.kind = "delete" /\ (Queued(c) \/ Granted(c))
     /\ c.row \in DOMAIN Rows /\ View(server) = DocsOf(Rows) \ {Rows[c.row].doc}
  \/ c.kind = "reload" /\ Granted(c) /\ View(server) = DocsOf(Rows)

PageInv ==
  /\ app # "home" => NoneExpected /\ taken = 0
  /\ OneEach(Rows)
  /\ app = "home" =>
       \/ NoneExpected /\ View(server) = DocsOf(Rows)
       \/ \E c \in Callback : c.session = session /\ Completes(c)
  /\ ui = "confirm" =>
       dialog.journal = journals[session][dialog.row] /\ dialog.journal.uuid # DefaultId

BookInv == ReplayInv /\ PageInv

\* The page of an open book shows the book, and that of a closed one nothing.
LEMMA PageShowsBook == PageInv => PageSoon = IF IsOpen THEN View(server) ELSE {}
<1> SUFFICES ASSUME PageInv PROVE PageSoon = IF IsOpen THEN View(server) ELSE {}
  OBVIOUS
<1>1. AwaitedCallbacks = Carried
  BY DEF AwaitedCallbacks, Carried
<1>2. PageSoon = IF \E i \in DOMAIN mainQueue : mainQueue[i].callback.kind = "fetch"
                   THEN Head(mainQueue).ids
                   ELSE (DocsOf(Rows) \cup {c.doc : c \in {d \in Carried : d.kind = "insert"}})
                          \ {Rows[c.row].doc : c \in {d \in Carried :
                                                 d.kind = "delete" /\ d.row \in DOMAIN Rows}}
  BY <1>1 DEF PageSoon, DocsOf
<1>3. CASE NoneExpected
  <2>1. Carried = {} /\ mainQueue = <<>> /\ queries = {}
    BY <1>3, NoneCarried DEF NoneExpected
  <2>2. PageSoon = DocsOf(Rows)
    BY <1>2, <2>1
  <2>3. app # "home" => DocsOf(Rows) = {}
    BY DEF Rows, DocsOf
  <2>4. app = "home" => View(server) = DocsOf(Rows)
    <3>1. ASSUME NEW c \in Callback, Completes(c) PROVE FALSE
      <4>1. c # NoCallback
        BY JournalAssumption
      <4> QED BY <1>3, <3>1, <4>1
              DEF Completes, Granted, Queried, Queued, Answered, NoneExpected, NoneQueued
    <3> QED BY <3>1 DEF PageInv
  <2> QED BY <2>1, <2>2, <2>3, <2>4 DEF IsOpen
<1>4. CASE ~NoneExpected
  <2>1. app = "home"
    BY <1>4 DEF PageInv
  <2>2. PICK c \in Callback : Completes(c)
    BY <1>4, <2>1 DEF PageInv
  <2>3. c # NoCallback
    BY JournalAssumption
  <2>4. CASE Queried(c)
    <3>1. Carried = {} /\ mainQueue = <<>> /\ queries # {} /\ Rows = <<>>
      BY <2>2, <2>3, <2>4, OneCarried DEF Completes, Queried, Queued, Granted, Answered
    <3> QED BY <1>2, <3>1 DEF DocsOf, IsOpen
  <2>5. CASE Queued(c) \/ Granted(c)
    <3>1. Carried = {c} /\ queries = {} /\ ~Queried(c)
      BY <2>3, <2>5, OneCarried DEF Queued, Granted, Answered, Queried
    <3>2. /\ Queued(c) => mainQueue = <<>>
          /\ Granted(c) => DOMAIN mainQueue = {1} /\ mainQueue[1].callback = c
      BY DEF Queued, Granted, Answered, Event
    <3>3. CASE c.kind = "fetch"
      <4>1. Granted(c) /\ Head(mainQueue).ids = View(server)
        BY <2>2, <3>1, <3>3 DEF Completes
      <4> QED BY <1>2, <2>1, <3>1, <3>2, <3>3, <4>1 DEF IsOpen
    <3>4. CASE c.kind # "fetch"
      <4>1. ~\E i \in DOMAIN mainQueue : mainQueue[i].callback.kind = "fetch"
        BY <2>5, <3>2, <3>4
      <4>2. CASE c.kind = "insert"
        <5>1. PageSoon = DocsOf(Rows) \cup {c.doc}
          BY <1>2, <3>1, <4>1, <4>2
        <5> QED BY <2>1, <2>2, <3>1, <4>2, <5>1 DEF Completes, IsOpen
      <4>3. CASE c.kind = "delete"
        <5>1. c.row \in DOMAIN Rows /\ View(server) = DocsOf(Rows) \ {Rows[c.row].doc}
          BY <2>2, <4>3 DEF Completes
        <5>2. PageSoon = DocsOf(Rows) \ {Rows[c.row].doc}
          BY <1>2, <3>1, <4>1, <4>3, <5>1
        <5> QED BY <2>1, <3>1, <5>1, <5>2 DEF IsOpen
      <4>4. CASE c.kind = "reload"
        <5>1. PageSoon = DocsOf(Rows)
          BY <1>2, <3>1, <4>1, <4>4
        <5>2. View(server) = DocsOf(Rows)
          BY <2>2, <4>4 DEF Completes
        <5> QED BY <2>1, <3>1, <5>1, <5>2 DEF IsOpen
      <4> QED BY <2>2, <3>4, <4>2, <4>3, <4>4 DEF Completes
    <3> QED BY <3>3, <3>4
  <2> QED BY <2>2, <2>4, <2>5 DEF Completes
<1> QED BY <1>3, <1>4

LEMMA PageShowsBookNext == (PageInv => PageSoon = IF IsOpen THEN View(server) ELSE {})'
BY PageShowsBook, PTL

\* What may become of the book and of the page that shows it.
Turns ==
  \/ IsOpen' = IsOpen /\ View(server)' = View(server)
  \/ IsOpen' # IsOpen /\ View(server)' = View(server)
  \/ /\ IsOpen /\ IsOpen'
     /\ \E entry \in DocIds : \/ entry \notin View(server) /\ View(server)' = View(server) \cup {entry}
                              \/ entry \in View(server) /\ View(server)' = View(server) \ {entry}
  \/ /\ ~IsOpen /\ ~IsOpen'
     /\ \E entry \in DocIds : \/ View(server)' = View(server) \cup {entry}
                              \/ View(server)' = View(server) \ {entry}

LEMMA TurnsIsABookStep ==
  ASSUME PageInv, PageInv', Turns
  PROVE  [Book!Next]_<<View(server), app = "home" /\ queries = {}, PageSoon>>
<1>1. /\ PageSoon = IF IsOpen THEN View(server) ELSE {}
      /\ PageSoon' = IF IsOpen' THEN View(server)' ELSE {}
  BY PageShowsBook, PageShowsBookNext
<1>2. IsOpen \in BOOLEAN /\ IsOpen' \in BOOLEAN
  BY DEF IsOpen
<1>3. (app = "home" /\ queries = {}) = IsOpen /\ (app = "home" /\ queries = {})' = IsOpen'
  BY DEF IsOpen
<1>4. CASE UNCHANGED <<IsOpen, View(server)>>
  BY <1>1, <1>3, <1>4
<1>5. CASE IsOpen' # IsOpen /\ View(server)' = View(server)
  <2>1. Book!Open \/ Book!Close
    BY <1>1, <1>2, <1>3, <1>5 DEF Book!Open, Book!Close
  <2> QED BY <2>1 DEF Book!Next
<1>6. ASSUME IsOpen, IsOpen', NEW entry \in DocIds, entry \notin View(server),
             View(server)' = View(server) \cup {entry}
      PROVE  Book!Next
  BY <1>1, <1>3, <1>6 DEF Book!Keep, Book!Next
<1>7. ASSUME IsOpen, IsOpen', NEW entry \in DocIds, entry \in View(server),
             View(server)' = View(server) \ {entry}
      PROVE  Book!Next
  BY <1>1, <1>3, <1>7 DEF Book!Discard, Book!Next
<1>8. ASSUME ~IsOpen, ~IsOpen', NEW entry \in DocIds,
             View(server)' = View(server) \cup {entry} \/ View(server)' = View(server) \ {entry}
      PROVE  Book!Next
  BY <1>1, <1>3, <1>8 DEF Book!EditElsewhere, Book!Next
<1> QED BY <1>2, <1>4, <1>5, <1>6, <1>7, <1>8 DEF Turns

LEMMA CompletesSomething ==
  ASSUME NEW c \in Callback, Completes(c) PROVE Expected(c) /\ ~NoneExpected
<1>1. c # NoCallback
  BY JournalAssumption
<1>2. Queried(c) \/ Queued(c) \/ Granted(c)
  BY DEF Completes
<1>3. Queried(c) => ~NoneExpected
  BY DEF Queried, NoneExpected
<1>4. Queued(c) => ~NoneExpected
  BY <1>1 DEF Queued, NoneExpected, NoneQueued
<1>5. Granted(c) => ~NoneExpected
  <2> SUFFICES ASSUME Granted(c) PROVE mainQueue # <<>>
    BY DEF NoneExpected
  <2>1. PICK ok \in BOOLEAN, ids \in SUBSET DocIds : mainQueue = <<Event(c, ok, ids)>>
    BY DEF Granted, Answered
  <2> QED BY <2>1
<1> QED BY <1>2, <1>3, <1>4, <1>5 DEF Expected, Granted

LEMMA PageWhenQuiet ==
  ASSUME PageInv, NoneExpected, app = "home"
  PROVE  View(server) = DocsOf(Rows) /\ IsOpen
BY CompletesSomething DEF PageInv, IsOpen, NoneExpected

LEMMA NoRowsNoPage == Rows = <<>> => DocsOf(Rows) = {} /\ OneEach(Rows)
BY DEF DocsOf, OneEach

LEMMA NoRowsNoPageNext == (Rows = <<>> => DocsOf(Rows) = {} /\ OneEach(Rows))'
BY NoRowsNoPage, PTL

\* The rows and the client stay as they are.
LEMMA ScreenBook ==
  ASSUME BookInv, UNCHANGED <<clientVars, app, session, journals>>,
         ui' = "confirm" => /\ dialog'.journal = journals[session][dialog'.row]
                            /\ dialog'.journal.uuid # DefaultId
  PROVE  BookInv' /\ Turns
<1>1. UNCHANGED <<written, server, pending, taken, queries, mainQueue>>
  BY DEF clientVars
<1>2. ReplayInv' /\ View(server)' = View(server)
  BY <1>1, StreamReplays DEF BookInv
<1>3. Rows' = Rows /\ IsOpen' = IsOpen /\ (NoneExpected => NoneExpected')
  BY <1>1 DEF Rows, IsOpen, NoneExpected, NoneQueued
<1>4. \A c : Completes(c) => Completes(c)'
  BY <1>1, <1>2, <1>3 DEF Completes, Granted, Queried, Queued, Answered, NoneQueued
<1>5. PageInv'
  BY <1>1, <1>2, <1>3, <1>4 DEF BookInv, PageInv
<1> QED BY <1>2, <1>3, <1>5 DEF BookInv, Turns

LEMMA ScreenStepsBook ==
  ASSUME BookInv, CarefulStep, OpenForm \/ CancelForm \/ CancelDelete \/ SwipeDelete
  PROVE  BookInv' /\ Turns
<1>1. UNCHANGED <<clientVars, app, session, journals>>
  BY DEF OpenForm, CancelForm, CancelDelete, SwipeDelete
<1>2. ui' = "confirm" => /\ dialog'.journal = journals[session][dialog'.row]
                         /\ dialog'.journal.uuid # DefaultId
  BY DEF OpenForm, CancelForm, CancelDelete, SwipeDelete, CarefulStep
<1> QED BY <1>1, <1>2, ScreenBook

LEMMA OpenBook ==
  ASSUME IInv, CalmInv, BookInv, OpenJournal
  PROVE  BookInv' /\ Turns
<1>1. /\ app = "signedOut" /\ app' = "home" /\ session' = session + 1 /\ session + 1 \in Sessions
      /\ ui' = "list" /\ NoneExpected /\ UNCHANGED <<written, server, pending, taken, mainQueue, journals>>
      /\ queries' = queries \cup {FetchDone(session + 1)}
  BY JournalAssumption
     DEF OpenJournal, GetDocuments, CalmInv, IInv, ScreenInv, Sessions
<1> PICK c \in Callback : c = FetchDone(session + 1)
  BY <1>1 DEF FetchDone, Callback
<1>2. ReplayInv' /\ View(server)' = View(server)
  BY <1>1, StreamReplays DEF BookInv
<1>3. journals[session + 1] = <<>>
  <2>1. \A d : ~Holds(d, session + 1) \/ d # NoCallback
    BY DEF Holds
  <2>2. ~Held(session + 1, mainQueue)
    BY <1>1 DEF Held, Holds, NoneExpected, NoneQueued
  <2> QED BY <1>1, <2>2 DEF IInv, HeldInv, OnScreen
<1>4. Rows' = <<>>
  BY <1>1, <1>3 DEF Rows
<1>5. Queried(c)' /\ c.kind = "fetch" /\ c.session = session'
  BY <1>1 DEF FetchDone, Queried, NoneExpected, NoneQueued
<1>6. Completes(c)'
  BY <1>4, <1>5 DEF Completes
<1>7. PageInv'
  BY <1>1, <1>4, <1>5, <1>6, NoRowsNoPageNext DEF PageInv
<1>8. ~IsOpen /\ ~IsOpen'
  BY <1>1 DEF IsOpen
<1> QED BY <1>2, <1>7, <1>8 DEF BookInv, Turns

\* The screen goes, and nothing is to come.
LEMMA AwayBook ==
  ASSUME ReplayInv', View(server)' = View(server), app' = "signedOut", ui' = "list",
         NoneExpected', taken' = 0
  PROVE  BookInv' /\ Turns
<1>1. Rows' = <<>> /\ IsOpen' \in BOOLEAN /\ IsOpen \in BOOLEAN
  BY DEF Rows, IsOpen
<1>2. PageInv'
  BY <1>1, NoRowsNoPageNext DEF PageInv
<1> QED BY <1>1, <1>2 DEF BookInv, Turns

LEMMA CloseBook ==
  ASSUME IInv, CalmInv, BookInv, (Quiet /\ SignOut) \/ Relaunch
  PROVE  BookInv' /\ Turns
<1>1. CASE Quiet /\ SignOut
  <2>1. /\ UNCHANGED <<written, server, pending, queries, mainQueue>> /\ taken' = 0
        /\ app' = "signedOut" /\ ui' = "list" /\ NoneExpected
    BY <1>1, QuietIsNone DEF SignOut, StreamsStop
  <2>2. NoneExpected' /\ ReplayInv' /\ View(server)' = View(server)
    BY <2>1, StreamReplays DEF NoneExpected, NoneQueued, BookInv
  <2> QED BY <2>1, <2>2, AwayBook
<1>2. CASE Relaunch
  <2>1. ProcessDies /\ app' = "signedOut" /\ ui' = "list" /\ taken' = 0
    BY <1>2 DEF Relaunch, ProcessDies
  <2>2. NoneExpected' /\ ReplayInv' /\ View(server)' = View(server)
    BY <2>1, DeadExpectNothing, DyingReplays DEF IInv, StoreInv, BookInv
  <2> QED BY <2>1, <2>2, AwayBook
<1> QED BY <1>1, <1>2

LEMMA SaveBook ==
  ASSUME IInv, CalmInv, BookInv, Quiet, SaveJournal
  PROVE  BookInv' /\ Turns
<1>1. /\ session \in Sessions /\ app = "home" /\ ui' = "list" /\ NoneExpected
      /\ UNCHANGED <<app, session, journals>> /\ Rows' = Rows
  BY QuietIsNone DEF IInv, ScreenInv, SaveJournal, Rows
<1>2. PICK id \in Fresh, date \in Dates : SetDocument(id, date, InsertDone(id, session))
  BY DEF SaveJournal
<1> PICK c \in Callback : c = InsertDone(id, session)
  BY <1>1 DEF InsertDone, Callback, Fresh
<1>3. /\ ReplayInv' /\ id \notin View(server) /\ View(server)' = View(server) \cup {id}
      /\ id \in DocIds
  BY <1>2, SetReplays, JournalAssumption DEF IInv, StoreInv, BookInv, Fresh
<1>4. Queued(c)' /\ UNCHANGED queries
  <2>1. pending' = Append(pending, Write("set", id, c)) /\ UNCHANGED <<queries, mainQueue>>
    BY <1>2 DEF SetDocument
  <2> QED BY <1>1, <1>3, <2>1, CallExpected DEF IInv, StoreInv
<1>5. View(server) = DocsOf(Rows) /\ IsOpen
  BY <1>1, PageWhenQuiet DEF BookInv
<1>6. c.kind = "insert" /\ c.doc = id /\ c.session = session
  BY DEF InsertDone
<1>7. Completes(c)'
  BY <1>1, <1>3, <1>4, <1>5, <1>6 DEF Completes
<1>8. PageInv'
  BY <1>1, <1>6, <1>7 DEF BookInv, PageInv
<1>9. Turns
  BY <1>1, <1>3, <1>4, <1>5 DEF Turns, IsOpen
<1> QED BY <1>3, <1>8, <1>9 DEF BookInv

LEMMA ConfirmBook ==
  ASSUME IInv, CalmInv, BookInv, ConfirmDelete
  PROVE  BookInv' /\ Turns
<1>1. /\ session \in Sessions /\ app = "home" /\ ui = "confirm" /\ ui' = "list" /\ NoneExpected
      /\ UNCHANGED <<app, session, journals>> /\ Rows' = Rows /\ Rows = journals[session]
      /\ dialog \in [row : Nat \ {0}, journal : KnownRow]
      /\ dialog.row \in DOMAIN Rows
  BY DEF IInv, ScreenInv, CalmInv, ConfirmDelete, Rows
<1>2. dialog.journal = Rows[dialog.row] /\ dialog.journal.uuid # DefaultId
  BY <1>1 DEF BookInv, PageInv
<1> PICK id \in Known : id = dialog.journal.uuid
  BY <1>1, <1>2 DEF KnownRow
<1>3. id = Rows[dialog.row].doc /\ id \in DocIds
  BY <1>1, <1>2 DEF KnownRow, Known
<1> PICK c \in Callback : c = DeleteDone(dialog.row, session)
  BY <1>1 DEF DeleteDone, Callback
<1>4. DeleteDocument(id, c)
  BY DEF ConfirmDelete
<1>5. ReplayInv' /\ View(server)' = View(server) \ {id}
  BY <1>3, <1>4, DeleteReplays DEF IInv, StoreInv, BookInv
<1>6. Queued(c)' /\ UNCHANGED queries
  <2>1. pending' = Append(pending, Write("delete", id, c)) /\ UNCHANGED <<queries, mainQueue>>
    BY <1>4 DEF DeleteDocument
  <2>2. /\ ClientInv(Dates, Callback, DocIds \cup {DefaultId})
        /\ id \in DocIds \cup {DefaultId} /\ NoneExpected
    BY <1>1, <1>3 DEF IInv, StoreInv
  <2>3. Queued(c)'
    BY ONLY <2>1, <2>2, c \in Callback, CallExpected
  <2> QED BY <2>1, <2>3
<1>7. View(server) = DocsOf(Rows) /\ IsOpen
  BY <1>1, PageWhenQuiet DEF BookInv
<1>8. c.kind = "delete" /\ c.row = dialog.row /\ c.session = session
  BY DEF DeleteDone
<1>9. Completes(c)'
  BY <1>1, <1>3, <1>5, <1>6, <1>7, <1>8 DEF Completes
<1>10. PageInv'
  BY <1>1, <1>8, <1>9 DEF BookInv, PageInv
<1>11. id \in View(server)
  BY <1>1, <1>3, <1>7 DEF DocsOf
<1>12. Turns
  BY <1>1, <1>3, <1>5, <1>6, <1>7, <1>11 DEF Turns, IsOpen
<1> QED BY <1>5, <1>10, <1>12 DEF BookInv

\* A fetched list shows each document of the answer once.
LEMMA FetchedOneEach ==
  ASSUME NEW ids \in SUBSET Known, NEW rows \in OldestFirst(ids)
  PROVE  DocsOf(rows) = ids /\ OneEach(rows)
<1>1. IsFiniteSet(ids) /\ Cardinality(ids) \in Nat
  BY JournalAssumption, FS_Subset, FS_CardinalityType DEF Known
<1>2. /\ rows \in [1 .. Cardinality(ids) -> {FetchedJournal(id) : id \in ids}]
      /\ \A id \in ids : \E row \in DOMAIN rows : rows[row] = FetchedJournal(id)
  BY DEF OldestFirst
<1>3. \A row \in DOMAIN rows : rows[row].doc \in ids
  BY <1>2 DEF FetchedJournal
<1>4. \A id \in ids : \E row \in 1 .. Cardinality(ids) : rows[row].doc = id
  BY <1>2 DEF FetchedJournal
<1> DEFINE shown == [row \in 1 .. Cardinality(ids) |-> rows[row].doc]
<1>5. shown \in Surjection(1 .. Cardinality(ids), ids)
  BY <1>2, <1>3, <1>4 DEF Surjection
<1>6. shown \in Injection(1 .. Cardinality(ids), ids)
  <2>1. IsFiniteSet(1 .. Cardinality(ids)) /\ Cardinality(1 .. Cardinality(ids)) = Cardinality(ids)
    BY <1>1, FS_Interval
  <2> HIDE DEF shown
  <2> QED BY <1>1, <1>5, <2>1, FS_SurjSameCardinalityImpliesInj
<1>7. ASSUME NEW i \in DOMAIN rows, NEW j \in DOMAIN rows, rows[i].doc = rows[j].doc
      PROVE  i = j
  <2>1. i \in 1 .. Cardinality(ids) /\ j \in 1 .. Cardinality(ids) /\ shown[i] = shown[j]
    BY <1>2, <1>7
  <2> HIDE DEF shown
  <2> QED BY <1>6, <2>1 DEF Injection, IsInjective
<1>8. DocsOf(rows) = ids
  BY <1>2, <1>3, <1>4 DEF DocsOf
<1> QED BY <1>7, <1>8 DEF OneEach

LEMMA DeliveryBook ==
  ASSUME IInv, CalmInv, BookInv, MainQueue
  PROVE  BookInv' /\ Turns
<1>1. mainQueue # <<>>
  BY DEF MainQueue, FetchDelivered, ReloadDelivered, InsertDelivered, DeleteDelivered, Arrived
<1>2. PICK c \in Callback : app = "home" /\ c.session = session /\ Completes(c)
  BY <1>1 DEF BookInv, PageInv, NoneExpected
<1>3. Expected(c) /\ ui # "confirm"
  BY <1>2, CompletesSomething DEF CalmInv
<1>4. Answered(c) /\ Arriving = c
  BY <1>1, <1>3, ExpectedIsNext DEF Arriving
<1>5. Granted(c) /\ ~Queried(c)
  BY <1>1, <1>2 DEF Completes, Queried, Queued
<1>6. Alive /\ Mine = Rows /\ session \in Sessions
  BY <1>2, <1>4 DEF Alive, OnScreen, Mine, Rows, Callback
<1>7. Rows \in Seq(KnownRow)
  BY <1>2, <1>6 DEF Rows, IInv, RowsInv
<1>8. ASSUME NEW rows, Show(rows), DocsOf(rows) = View(server), OneEach(rows)
      PROVE  BookInv' /\ Turns
  <2>1. /\ TakeEvent /\ UNCHANGED <<written, server, pending, taken, queries, app, session, ui>>
        /\ journals' = [journals EXCEPT ![session] = rows]
    BY <1>2, <1>4, <1>6, <1>8 DEF Show
  <2>2. ReplayInv' /\ View(server)' = View(server)
    BY <2>1, StreamReplays DEF BookInv
  <2>3. Rows' = rows
    BY <1>2, <1>6, <2>1 DEF Rows, IInv, RowsInv
  <2>4. NoneExpected'
    BY <1>3, <2>1, ExpectedArrives
  <2>5. DocsOf(Rows)' = View(server)' /\ OneEach(Rows)'
    BY <1>8, <2>2, <2>3 DEF DocsOf, OneEach
  <2>6. PageInv'
    BY <1>2, <1>3, <2>1, <2>4, <2>5 DEF PageInv
  <2>7. IsOpen' = IsOpen
    BY <2>1 DEF IsOpen
  <2> QED BY <2>2, <2>6, <2>7 DEF BookInv, Turns
<1>9. CASE FetchDelivered
  <2>1. c.kind = "fetch" /\ Head(mainQueue).ids = View(server)
    BY <1>2, <1>4, <1>5, <1>9 DEF FetchDelivered, Arrived, Arriving, Completes
  <2>2. PICK rows \in OldestFirst(Head(mainQueue).ids) : ShowAndReload(rows)
    BY <1>5, <1>9 DEF FetchDelivered, Granted
  <2>3. View(server) \in SUBSET Known
    BY ViewIsKnown, ClientInvIs DEF IInv, StoreInv
  <2>4. DocsOf(rows) = View(server) /\ OneEach(rows)
    BY <2>1, <2>2, <2>3, FetchedOneEach
  <2>5. /\ mainQueue' = Append(Tail(mainQueue), Event(ReloadData(session), TRUE, {}))
        /\ UNCHANGED <<written, server, pending, taken, queries, app, session, ui>>
        /\ journals' = [journals EXCEPT ![session] = rows]
    BY <1>2, <1>4, <2>2 DEF ShowAndReload
  <2> PICK d \in Callback : d = ReloadData(session)
    BY <1>6 DEF Callback, ReloadData
  <2>0. d.kind = "reload" /\ d.session = session
    BY DEF ReloadData
  <2>6. ReplayInv' /\ View(server)' = View(server)
    BY <2>5, StreamReplays DEF BookInv
  <2>7. Rows' = rows
    BY <1>2, <1>6, <2>5 DEF Rows, IInv, RowsInv
  <2>8. Granted(d)'
    BY <1>1, <1>3, <2>5, BlockExpected
  <2>9. DocsOf(Rows)' = View(server)' /\ OneEach(Rows)'
    BY <2>4, <2>6, <2>7 DEF DocsOf, OneEach
  <2>10. Completes(d)'
    BY <2>0, <2>8, <2>9 DEF Completes
  <2>11. PageInv'
    BY <1>2, <1>3, <2>0, <2>5, <2>9, <2>10 DEF PageInv
  <2>12. IsOpen' = IsOpen
    BY <2>5 DEF IsOpen
  <2> QED BY <2>6, <2>11, <2>12 DEF BookInv, Turns
<1>10. CASE InsertDelivered
  <2>1. c.kind = "insert" /\ c.doc \notin DocsOf(Rows) /\ View(server) = DocsOf(Rows) \cup {c.doc}
    BY <1>2, <1>4, <1>10 DEF InsertDelivered, Arrived, Arriving, Completes
  <2>2. Show(Cons(LocalJournal(c.doc), Rows))
    BY <1>4, <1>5, <1>6, <1>10 DEF InsertDelivered, Granted
  <2>4. c.doc \in DocIds
    BY <2>1 DEF Callback
  <2>5. LocalJournal(c.doc) \in KnownRow
    BY <2>4, JournalAssumption DEF LocalJournal, KnownRow, Journal
  <2> PICK row \in KnownRow : row = LocalJournal(c.doc) /\ row.doc = c.doc
    BY <2>5 DEF LocalJournal
  <2>3. DocsOf(Cons(row, Rows)) = View(server) /\ OneEach(Cons(row, Rows))
    BY <1>7, <2>1, ConsOneEach DEF BookInv, PageInv
  <2> QED BY <1>8, <2>2, <2>3
<1>11. CASE DeleteDelivered
  <2>1. c.kind = "delete" /\ c.row \in DOMAIN Rows /\ View(server) = DocsOf(Rows) \ {Rows[c.row].doc}
    BY <1>2, <1>4, <1>11 DEF DeleteDelivered, Arrived, Arriving, Completes
  <2>2. Show(RemoveAt(Rows, c.row))
    BY <1>4, <1>5, <1>6, <1>11, <2>1 DEF DeleteDelivered, Granted
  <2>3. DocsOf(RemoveAt(Rows, c.row)) = View(server) /\ OneEach(RemoveAt(Rows, c.row))
    BY <1>7, <2>1, RemoveAtOneEach DEF BookInv, PageInv
  <2> QED BY <1>8, <2>2, <2>3
<1>12. CASE ReloadDelivered
  <2>1. c.kind = "reload" /\ View(server) = DocsOf(Rows) /\ Show(Rows)
    BY <1>2, <1>4, <1>6, <1>12 DEF ReloadDelivered, Ignore, Arrived, Arriving, Completes
  <2> QED BY <1>8, <2>1 DEF BookInv, PageInv
<1> QED BY <1>9, <1>10, <1>11, <1>12 DEF MainQueue

LEMMA ServerBook ==
  ASSUME IInv, CalmInv, BookInv, FriendlyServer
  PROVE  BookInv' /\ Turns
<1>1. /\ ClientInv(Dates, Callback, DocIds \cup {DefaultId}) /\ app = "home"
      /\ ServerTakes \/ StreamBreaks \/ Acknowledge \/ AnswerFromServer
      /\ UNCHANGED <<app, session, journals, ui, dialog>> /\ Rows' = Rows
  BY DEF IInv, StoreInv, FriendlyServer, screenVars, Rows
<1>2. ReplayInv' /\ View(server)' = View(server)
  BY <1>1, ServerReplays DEF BookInv
<1>3. NoneExpected => NoneExpected'
  BY <1>1, ServerExpects, JournalAssumption
<1>4. ASSUME NEW c \in Callback, Completes(c) PROVE Completes(c)'
  <2>1. /\ Queried(c) => \/ Queried(c)'
                         \/ Granted(c)' /\ Head(mainQueue)'.ids = View(server)
        /\ Queued(c) => Queued(c)' \/ Granted(c)'
        /\ Granted(c) => Granted(c)' /\ UNCHANGED mainQueue
    BY <1>1, ServerExpects, JournalAssumption
  <2> QED BY <1>1, <1>2, <1>4, <2>1 DEF Completes
<1>5. PageInv'
  BY <1>1, <1>2, <1>3, <1>4 DEF BookInv, PageInv
<1> QED BY <1>2, <1>5 DEF BookInv, Turns

LEMMA OthersBook ==
  ASSUME IInv, BookInv, OthersStayAway
  PROVE  BookInv' /\ Turns
<1>1. /\ app # "home" /\ taken = 0 /\ NoneExpected
      /\ UNCHANGED <<app, session, journals, ui, dialog, pending, taken, queries, mainQueue>>
      /\ OtherDeviceDeletes \/ \E date \in Dates : OtherDeviceAdds(date)
  BY DEF OthersStayAway, OtherDeviceSaves, OtherDeviceErases, OtherDeviceAdds,
         OtherDeviceDeletes, screenVars, BookInv, PageInv
<1>2. /\ ReplayInv'
      /\ \E id \in DocIds : \/ View(server)' = View(server) \cup {id}
                            \/ View(server)' = View(server) \ {id}
                            \/ View(server)' = View(server)
  BY <1>1, OthersReplay, JournalAssumption DEF IInv, StoreInv, BookInv
<1>3. ~IsOpen /\ ~IsOpen' /\ NoneExpected' /\ Rows' = Rows
  BY <1>1 DEF IsOpen, NoneExpected, NoneQueued, Rows
<1>4. ui # "confirm"
  BY <1>1 DEF IInv, ScreenInv
<1>5. PageInv'
  BY <1>1, <1>3, <1>4 DEF BookInv, PageInv
<1>6. Turns
  BY <1>2, <1>3 DEF Turns
<1> QED BY <1>2, <1>5, <1>6 DEF BookInv

LEMMA NextBook ==
  ASSUME IInv, CalmInv, BookInv, [CalmNext]_vars
  PROVE  BookInv' /\ Turns
<1>1. CASE UNCHANGED vars
  <2>1. /\ UNCHANGED <<clientVars, app, session, journals>>
        /\ ui' = "confirm" => /\ dialog'.journal = journals[session][dialog'.row]
                              /\ dialog'.journal.uuid # DefaultId
    BY <1>1 DEF vars, screenVars, BookInv, PageInv
  <2> QED BY <2>1, ScreenBook
<1>2. CASE CalmNext
  BY <1>2, OpenBook, CloseBook, SaveBook, ConfirmBook, ScreenStepsBook, DeliveryBook,
     ServerBook, OthersBook DEF CalmNext, PatientUser
<1> QED BY <1>1, <1>2

LEMMA InitBook == Init => BookInv /\ Book!Init
<1> SUFFICES ASSUME Init PROVE BookInv /\ Book!Init
  OBVIOUS
<1>1. /\ ClientInit /\ app = "signedOut" /\ ui = "list" /\ taken = 0
      /\ queries = {} /\ mainQueue = <<>> /\ pending = <<>>
  BY DEF Init, ClientInit
<1>2. ReplayInv /\ View(server) = {} /\ NoneExpected /\ Rows = <<>> /\ ~IsOpen
  BY <1>1, InitReplays DEF NoneExpected, NoneQueued, Rows, IsOpen
<1>3. PageInv
  BY <1>1, <1>2, NoRowsNoPage DEF PageInv
<1>4. PageSoon = {}
  BY <1>2, <1>3, PageShowsBook
<1> QED BY <1>2, <1>3, <1>4 DEF BookInv, Book!Init, IsOpen

\* Used calmly, the Journal tab implements the book its user takes it for: while the
\* tab is open, every save and every confirmed deletion changes at once what the
\* device sees of the collection and what the list shows, or will show when the
\* answers that are due have come; nothing else changes either; and across sign-outs,
\* kills and relaunches nothing that was kept is lost (viewDidLoad, addJournal,
\* deleteJournal, with the client's queue and the server behind them).
THEOREM CalmUseIsTheBook == CalmSpec => IsTheBook
<1>1. CalmSpec => []IInv /\ []CalmInv
  BY CalmIsUse, Invariant, NextCalm, InitCalm, PTL DEF CalmSpec
<1>2. IInv /\ CalmInv /\ BookInv /\ [CalmNext]_vars
        => BookInv' /\ [Book!Next]_<<View(server), app = "home" /\ queries = {}, PageSoon>>
  BY NextBook, TurnsIsABookStep DEF BookInv
<1> QED BY <1>1, <1>2, InitBook, PTL DEF CalmSpec, IsTheBook, Book!Spec

=============================================================================
