------------------------------- MODULE MCGoals -------------------------------
(* Small instances of the Goals tab for TLC. *)
EXTENDS GoalsCalm

\* Document ids are interchangeable.
IdSymmetry == Permutations(DocIds)

\* One session, in which nothing is marked complete: room for a third goal.
OneSessionStep ==
  /\ app = "signedOut" \/ app' # "signedOut"
  /\ ~SwipeComplete /\ ~TouchCheckbox
OneSession == Init /\ [][Next /\ OneSessionStep]_vars

=============================================================================
