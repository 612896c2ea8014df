----------------------------- MODULE MCThreads ------------------------------
(* A user (persona 1) and an administrator (persona 2). *)
EXTENDS Threads
=============================================================================
