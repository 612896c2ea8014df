---------------------------- MODULE MCUserFiles ----------------------------
(* Instances of UserFiles for TLC. *)
EXTENDS UserFiles

MCRequests == {"q1", "q2"}
MCResources == {"profile"}
=============================================================================
