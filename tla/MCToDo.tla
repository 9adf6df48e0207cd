-------------------------------- MODULE MCToDo --------------------------------
(* Small instances of the Today tab for TLC. *)
EXTENDS ToDoProperties

=============================================================================
