-------------------------------- MODULE Alert --------------------------------
(***************************************************************************)
(* The congratulation of the Goals tab (MyAlert): an alert over a dimmed   *)
(* background, shown by every touch of a goal's checkbox and put away by   *)
(* its Dismiss button, each in two animations of which the second begins   *)
(* in the completion of the first, if that one finished.                   *)
(*                                                                         *)
(* The views have their new places and alpha as soon as an animation       *)
(* begins.  As UIKit has it, a view that is being animated gets no touch,  *)
(* nor does one that is transparent: they pass to what is behind it.       *)
(* Which of two animations ends first is left open: they last equally      *)
(* long, but one that changes nothing ends at once.                        *)
(***************************************************************************)
EXTENDS Naturals, Sequences

CONSTANT MaxTouches   \* bound: touches of checkboxes between two starts

ASSUME AlertAssumption == MaxTouches \in Nat

VARIABLES alert,       \* where alertView is
          background,  \* backgroundView: not in the view, transparent, or dimming it
          running,     \* the animations under way
          touches,     \* checkboxes touched since the start
          cut          \* an animation was cut short since the last touch

vars == <<alert, background, running, touches, cut>>

Animations == {"dim", "drop", "sink", "clear"}

Init ==
  /\ alert = "absent" /\ background = "absent"
  /\ running = <<>> /\ touches = 0 /\ cut = FALSE

Runs(animations) == \E i \in DOMAIN running : running[i] \in animations

\* The table's checkboxes get the touches that the background does not take.
TableInReach == background # "dimmed" \/ Runs({"dim", "clear"})

DismissInReach == alert = "centre" /\ ~Runs({"drop", "sink"})

\* didTapButton, showAlert: both views are put on top, the alert above the screen.
ShowAlert ==
  /\ TableInReach
  /\ touches < MaxTouches
  /\ touches' = touches + 1
  /\ alert' = "above" /\ background' = "dimmed"
  /\ running' = Append(running, "dim")
  /\ cut' = FALSE

\* The alert leaves to below the screen.
DismissAlert ==
  /\ DismissInReach
  /\ alert' = "below"
  /\ running' = Append(running, "sink")
  /\ cut' = FALSE
  /\ UNCHANGED <<background, touches>>

Others(i) == SubSeq(running, 1, i - 1) \o SubSeq(running, i + 1, Len(running))

\* Mutant of DimEnds: the alert is not brought down.
DimEndsThere(i) ==
  /\ running[i] = "dim"
  /\ running' = Others(i)
  /\ UNCHANGED <<alert, background, touches, cut>>

\* showAlert's first completion: the alert comes down to the centre.
DimEnds(i) ==
  /\ running[i] = "dim"
  /\ alert' = "centre"
  /\ running' = Append(Others(i), "drop")
  /\ UNCHANGED <<background, touches, cut>>

DropEnds(i) ==
  /\ running[i] = "drop"
  /\ running' = Others(i)
  /\ UNCHANGED <<alert, background, touches, cut>>

\* Mutant of SinkEnds: the background stays.
SinkEndsDimmed(i) ==
  /\ running[i] = "sink"
  /\ alert' = "absent"
  /\ running' = Others(i)
  /\ UNCHANGED <<background, touches, cut>>

\* Mutant of SinkEnds: the views are faded and not taken away.
SinkEndsThere(i) ==
  /\ running[i] = "sink"
  /\ background' = "clear"
  /\ running' = Others(i)
  /\ UNCHANGED <<alert, touches, cut>>

\* dismissAlert's first completion: the background fades.
SinkEnds(i) ==
  /\ running[i] = "sink"
  /\ background' = "clear"
  /\ running' = Append(Others(i), "clear")
  /\ UNCHANGED <<alert, touches, cut>>

\* dismissAlert's second completion removes both views, also those of an alert
\* shown since.  The animations of removed views end unfinished.
ClearEnds(i) ==
  /\ running[i] = "clear"
  /\ alert' = "absent" /\ background' = "absent"
  /\ running' = <<>>
  /\ UNCHANGED <<touches, cut>>

AnimationEnds ==
  \E i \in DOMAIN running : DimEnds(i) \/ DropEnds(i) \/ SinkEnds(i) \/ ClearEnds(i)

\* The app goes to the background, or another tab is chosen: the animations end
\* unfinished, and their completions do nothing.
Interrupted ==
  /\ running # <<>>
  /\ running' = <<>>
  /\ cut' = TRUE
  /\ UNCHANGED <<alert, background, touches>>

\* The app is started again, with a new view.
Relaunch ==
  /\ touches > 0
  /\ alert' = "absent" /\ background' = "absent"
  /\ running' = <<>> /\ touches' = 0 /\ cut' = FALSE

Next == ShowAlert \/ DismissAlert \/ AnimationEnds \/ Interrupted \/ Relaunch

Spec == Init /\ [][Next]_vars /\ WF_vars(AnimationEnds)

-----------------------------------------------------------------------------
(* Properties *)

\* Every variable has its type; the two views are in the tab's view together.
TypeOK ==
  /\ alert \in {"absent", "above", "centre", "below"}
  /\ background \in {"absent", "clear", "dimmed"}
  /\ alert = "absent" <=> background = "absent"
  /\ running \in Seq(Animations)
  /\ touches \in 0 .. MaxTouches
  /\ cut \in BOOLEAN

\* However touches and completions interleave, the Goals tab comes to rest with the
\* table or the Dismiss button within reach; only an animation cut short can leave
\* the tab covered for good, until the app is started again.
OnlyInterruptionTraps ==
  running = <<>> /\ ~cut => TableInReach \/ DismissInReach

\* An alert shown or dismissed reaches its end, unless it is cut short: it stands in
\* the centre, or it is gone, with the alert dismissed before it if that is still on
\* its way out.
AlertsArrive ==
  alert \in {"above", "below"} ~> alert \in {"absent", "centre"} \/ cut

=============================================================================
