----------------------------- MODULE DocumentLife -----------------------------
(***************************************************************************)
(* What a collection promises of each of its documents: it is created      *)
(* once, under an id nobody used before, and once it is gone, refused or   *)
(* deleted, it never comes back, not by a retry, a restart or a late       *)
(* answer.  One document changes at a time.                                *)
(***************************************************************************)
CONSTANT DocIds
VARIABLE life   \* id -> "unused", "queued" (on a device), "stored" or "gone"

Init == life = [id \in DocIds |-> "unused"]

\* Written here or on another device; taken or refused by the server; deleted.
After == [unused |-> {"queued", "stored"}, queued |-> {"stored", "gone"},
          stored |-> {"gone"}, gone |-> {}]

Next ==
  \E id \in DocIds : \E to \in After[life[id]] : life' = [life EXCEPT ![id] = to]

Spec == Init /\ [][Next]_life

=============================================================================
