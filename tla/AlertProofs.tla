----------------------------- MODULE AlertProofs -----------------------------
(***************************************************************************)
(* Theorems about the alert of the Goals tab, for any number of touches,   *)
(* and so of animations under way at once.                                 *)
(*                                                                         *)
(* The completions know nothing of each other; what frees the tab need not *)
(* be the end of the animation begun last.  The invariant says of a view   *)
(* that is in the way, whoever left it there, that some animation whose    *)
(* end moves it out of the way still runs.                                 *)
(***************************************************************************)
EXTENDS Alert, TLAPS, SequenceTheorems

\* Only views that are there are animated.
RunningAreThere == running # <<>> => alert # "absent"

\* The table is covered and Dismiss is not at hand: one of the animations under way
\* brings the alert down when it ends, or clears the background.
CoveredIsFreed ==
  ~cut /\ background = "dimmed" /\ alert # "centre" => Runs({"dim", "sink"})

AlertInv == TypeOK /\ RunningAreThere /\ CoveredIsFreed

-----------------------------------------------------------------------------
(* The animations under way *)

LEMMA RunningIs ==
  ASSUME TypeOK
  PROVE  /\ running \in Seq(Animations)
         /\ Len(running) \in Nat /\ DOMAIN running = 1 .. Len(running)
         /\ \A i \in 1 .. Len(running) : running[i] \in Animations
BY LenProperties, ElementOfSeq DEF TypeOK

\* One ends: those before it and those after it run on.
LEMMA OthersRunOn ==
  ASSUME TypeOK, NEW i \in DOMAIN running
  PROVE  /\ Others(i) \in Seq(Animations)
         /\ \A j \in DOMAIN running : j # i =>
              \E k \in DOMAIN Others(i) : Others(i)[k] = running[j]
<1> DEFINE before == SubSeq(running, 1, i - 1)
           after == SubSeq(running, i + 1, Len(running))
<1>1. i \in 1 .. Len(running) /\ Len(running) \in Nat /\ DOMAIN running = 1 .. Len(running)
      /\ \A j \in 1 .. Len(running) : running[j] \in Animations
  BY RunningIs
<1>2. /\ before \in Seq(Animations) /\ Len(before) = i - 1
      /\ \A k \in 1 .. i - 1 : before[k] = running[k]
  BY <1>1, SubSeqProperties
<1>3. /\ after \in Seq(Animations) /\ Len(after) = Len(running) - i
      /\ \A k \in 1 .. Len(running) - i : after[k] = running[i + k]
  <2>1. \A k \in i + 1 .. Len(running) : running[k] \in Animations
    BY <1>1
  <2>2. /\ after \in Seq(Animations)
        /\ Len(after) = IF i + 1 <= Len(running) THEN Len(running) - (i + 1) + 1 ELSE 0
        /\ \A k \in 1 .. Len(running) - (i + 1) + 1 : after[k] = running[i + 1 + k - 1]
    BY <1>1, <2>1, SubSeqProperties
  <2>3. /\ (IF i + 1 <= Len(running) THEN Len(running) - (i + 1) + 1 ELSE 0) = Len(running) - i
        /\ Len(running) - (i + 1) + 1 = Len(running) - i
    BY <1>1
  <2>4. \A k \in 1 .. Len(running) - i : i + 1 + k - 1 = i + k
    BY <1>1
  <2> QED BY ONLY <2>2, <2>3, <2>4
<1>4. Others(i) = before \o after
  BY DEF Others
<1> HIDE DEF before, after
<1>5. /\ Others(i) \in Seq(Animations) /\ Len(Others(i)) = Len(running) - 1
      /\ \A k \in 1 .. Len(running) - 1 :
           Others(i)[k] = IF k <= i - 1 THEN before[k] ELSE after[k - (i - 1)]
  <2>1. /\ before \o after \in Seq(Animations)
        /\ Len(before \o after) = Len(before) + Len(after)
        /\ \A k \in 1 .. Len(before) + Len(after) : (before \o after)[k] =
             IF k <= Len(before) THEN before[k] ELSE after[k - Len(before)]
    BY <1>2, <1>3, ConcatProperties
  <2>2. Len(before) = i - 1 /\ Len(before) + Len(after) = Len(running) - 1
    BY <1>1, <1>2, <1>3
  <2> QED BY <1>4, <2>1, <2>2
<1>6. DOMAIN Others(i) = 1 .. Len(running) - 1
  BY <1>5, LenProperties
<1>7. ASSUME NEW j \in DOMAIN running, j # i
      PROVE  \E k \in DOMAIN Others(i) : Others(i)[k] = running[j]
  <2>1. CASE j < i
    <3>1. j \in DOMAIN Others(i) /\ Others(i)[j] = running[j]
      BY <1>1, <1>2, <1>5, <1>6, <2>1
    <3> QED BY <3>1
  <2>2. CASE j > i
    <3>1. j - 1 \in DOMAIN Others(i) /\ Others(i)[j - 1] = after[j - i]
      BY <1>1, <1>5, <1>6, <2>2
    <3>2. after[j - i] = running[j]
      BY <1>1, <1>3, <2>2
    <3> QED BY <3>1, <3>2
  <2> QED BY <1>1, <1>7, <2>1, <2>2
<1> QED BY <1>5, <1>7

\* One begins: it runs, and those that ran do.
LEMMA OneMoreRuns ==
  ASSUME NEW s \in Seq(Animations), NEW animation \in Animations
  PROVE  /\ Append(s, animation) \in Seq(Animations)
         /\ \E k \in DOMAIN Append(s, animation) : Append(s, animation)[k] = animation
         /\ \A j \in DOMAIN s : \E k \in DOMAIN Append(s, animation) :
              Append(s, animation)[k] = s[j]
<1> DEFINE all == Append(s, animation)
<1>1. /\ all \in Seq(Animations) /\ Len(all) = Len(s) + 1 /\ all[Len(s) + 1] = animation
      /\ \A j \in 1 .. Len(s) : all[j] = s[j]
  BY AppendProperties
<1>2. DOMAIN all = 1 .. Len(s) + 1 /\ DOMAIN s = 1 .. Len(s) /\ Len(s) \in Nat
  BY <1>1, LenProperties
<1> HIDE DEF all
<1>3. Len(s) + 1 \in DOMAIN all /\ \A j \in DOMAIN s : j \in DOMAIN all
  BY <1>2
<1>4. /\ \E k \in DOMAIN all : all[k] = animation
      /\ \A j \in DOMAIN s : \E k \in DOMAIN all : all[k] = s[j]
  BY <1>1, <1>2, <1>3
<1> QED BY <1>1, <1>4 DEF all

-----------------------------------------------------------------------------
(* The steps *)

LEMMA ShowAlertInv ==
  ASSUME AlertInv, ShowAlert
  PROVE  AlertInv'
<1>1. running' = Append(running, "dim") /\ running \in Seq(Animations) /\ "dim" \in Animations
  BY RunningIs DEF AlertInv, ShowAlert, Animations
<1>2. running' \in Seq(Animations) /\ \E k \in DOMAIN running' : running'[k] = "dim"
  BY <1>1, OneMoreRuns
<1>3. touches' \in 0 .. MaxTouches
  BY AlertAssumption DEF AlertInv, TypeOK, ShowAlert
<1>4. TypeOK' /\ RunningAreThere'
  BY <1>2, <1>3 DEF ShowAlert, TypeOK, RunningAreThere
<1>5. CoveredIsFreed'
  BY <1>2 DEF CoveredIsFreed, Runs
<1> QED BY <1>4, <1>5 DEF AlertInv

LEMMA DismissAlertInv ==
  ASSUME AlertInv, DismissAlert
  PROVE  AlertInv'
<1>1. running' = Append(running, "sink") /\ running \in Seq(Animations) /\ "sink" \in Animations
  BY RunningIs DEF AlertInv, DismissAlert, Animations
<1>2. running' \in Seq(Animations) /\ \E k \in DOMAIN running' : running'[k] = "sink"
  BY <1>1, OneMoreRuns
<1>3. TypeOK' /\ RunningAreThere'
  BY <1>2 DEF AlertInv, DismissAlert, DismissInReach, TypeOK, RunningAreThere
<1>4. CoveredIsFreed'
  BY <1>2 DEF CoveredIsFreed, Runs
<1> QED BY <1>3, <1>4 DEF AlertInv

LEMMA AnimationEndsInv ==
  ASSUME AlertInv, AnimationEnds
  PROVE  AlertInv'
<1>1. PICK i \in DOMAIN running : DimEnds(i) \/ DropEnds(i) \/ SinkEnds(i) \/ ClearEnds(i)
  BY DEF AnimationEnds
<1>2. TypeOK /\ RunningAreThere /\ CoveredIsFreed /\ Others(i) \in Seq(Animations)
  BY OthersRunOn DEF AlertInv
<1>3. running # <<>> /\ alert # "absent" /\ background # "absent"
  BY <1>2 DEF RunningAreThere, TypeOK
<1>4. CASE DimEnds(i)
  <2>1. running' \in Seq(Animations)
    BY <1>2, <1>4, OneMoreRuns DEF DimEnds, Animations
  <2> QED
    BY <1>2, <1>3, <1>4, <2>1
       DEF DimEnds, AlertInv, TypeOK, RunningAreThere, CoveredIsFreed
<1>5. CASE DropEnds(i)
  <2>1. TypeOK' /\ RunningAreThere'
    BY <1>2, <1>3, <1>5 DEF DropEnds, TypeOK, RunningAreThere
  <2>2. CoveredIsFreed'
    <3> SUFFICES ASSUME ~cut', background' = "dimmed", alert' # "centre"
                 PROVE  \E k \in DOMAIN running' : running'[k] \in {"dim", "sink"}
      BY DEF CoveredIsFreed, Runs
    <3>1. PICK j \in DOMAIN running : running[j] \in {"dim", "sink"}
      BY <1>2, <1>5 DEF DropEnds, CoveredIsFreed, Runs
    <3>2. j # i
      BY <1>5, <3>1 DEF DropEnds
    <3>3. PICK k \in DOMAIN Others(i) : Others(i)[k] = running[j]
      BY <1>2, <3>2, OthersRunOn
    <3> QED BY <1>5, <3>1, <3>3 DEF DropEnds
  <2> QED BY <2>1, <2>2 DEF AlertInv
<1>6. CASE SinkEnds(i)
  <2>1. running' \in Seq(Animations)
    BY <1>2, <1>6, OneMoreRuns DEF SinkEnds, Animations
  <2> QED
    BY <1>2, <1>3, <1>6, <2>1
       DEF SinkEnds, AlertInv, TypeOK, RunningAreThere, CoveredIsFreed
<1>7. CASE ClearEnds(i)
  <2>1. <<>> \in Seq(Animations)
    BY EmptySeq
  <2> QED BY <1>2, <1>7, <2>1
     DEF ClearEnds, AlertInv, TypeOK, RunningAreThere, CoveredIsFreed
<1> QED BY <1>1, <1>4, <1>5, <1>6, <1>7

\* The animations are cut short, or there is a new view without any.
LEMMA AllEndInv ==
  ASSUME AlertInv, Interrupted \/ Relaunch
  PROVE  AlertInv'
<1>1. <<>> \in Seq(Animations) /\ 0 \in 0 .. MaxTouches
  BY AlertAssumption, EmptySeq
<1> QED
  BY <1>1 DEF Interrupted, Relaunch, AlertInv, TypeOK, RunningAreThere, CoveredIsFreed

LEMMA Invariant == Spec => []AlertInv
<1>1. Init => AlertInv
  <2>1. <<>> \in Seq(Animations) /\ 0 \in 0 .. MaxTouches
    BY AlertAssumption, EmptySeq
  <2> QED BY <2>1 DEF Init, AlertInv, TypeOK, RunningAreThere, CoveredIsFreed
<1>2. AlertInv /\ UNCHANGED vars => AlertInv'
  BY DEF vars, AlertInv, TypeOK, RunningAreThere, CoveredIsFreed, Runs
<1>3. AlertInv /\ [Next]_vars => AlertInv'
  BY <1>2, ShowAlertInv, DismissAlertInv, AnimationEndsInv, AllEndInv DEF Next
<1> QED BY <1>1, <1>3, PTL DEF Spec

-----------------------------------------------------------------------------
(* Theorems *)

\* Type correctness, however many animations run: among it, that the alert and its
\* background are in the view together, or neither is.
THEOREM TypeCorrect == Spec => []TypeOK
BY Invariant, PTL DEF AlertInv

\* However touches and completions interleave (didTapButton, showAlert,
\* dismissAlert), the tab never comes to rest with the table covered and Dismiss out
\* of reach, unless an animation was cut short.
THEOREM RestsInReach == Spec => []OnlyInterruptionTraps
<1>1. AlertInv => OnlyInterruptionTraps
  <2> SUFFICES ASSUME AlertInv, running = <<>>, ~cut PROVE TableInReach \/ DismissInReach
    BY DEF OnlyInterruptionTraps
  <2>1. \A animations : ~Runs(animations)
    BY DEF Runs
  <2> QED BY <2>1 DEF AlertInv, CoveredIsFreed, TableInReach, DismissInReach
<1> QED BY <1>1, Invariant, PTL

=============================================================================
