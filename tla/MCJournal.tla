------------------------------ MODULE MCJournal ------------------------------
(* Small instances of the Journal tab for TLC. *)
EXTENDS JournalProperties, TLC

\* Document ids are interchangeable.
IdSymmetry == Permutations(DocIds)

=============================================================================
