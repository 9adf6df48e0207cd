---------------------------- MODULE MCRemoteStore ----------------------------
(* Small instances of the client's streams for TLC. *)
EXTENDS RemoteStoreRefinement

CONSTANTS u1, u2, d1, d2

MCAuthor == d1 :> u1 @@ d2 :> u2

MCLoad(writes, reads, faults, users) ==
  [writes |-> writes, reads |-> reads, faults |-> faults, users |-> users]

\* Writes alone, reads alone, and both streams at once.
MCLoads ==
  {MCLoad(3, 0, 2, 1), MCLoad(2, 0, 1, 2), MCLoad(0, 3, 3, 1), MCLoad(1, 1, 1, 1)}

=============================================================================
