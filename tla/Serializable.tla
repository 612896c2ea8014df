---------------------------- MODULE Serializable ----------------------------
(***************************************************************************)
(* What PostgreSQL promises of transactions at the level that begin of     *)
(* postgres/database.go asks for, SERIALIZABLE: a transaction reads the    *)
(* state in which it began, and is aborted rather than committed when no   *)
(* serial order explains it together with those that have committed.       *)
(*                                                                         *)
(* A log holds what committed, in the order of the commits.  An entry says *)
(* how many had committed when the transaction began, what it read and     *)
(* what it wrote.  Items are rows, and predicates a new row may satisfy.   *)
(***************************************************************************)
EXTENDS Naturals, Sequences

Entry(since, reads, writes) == [since |-> since, reads |-> reads, writes |-> writes]

Overlap(a, b) == a \cap b # {}

(* Transaction j has read or overwritten what i wrote. *)
Follows(log, i, j) ==
    i <= log[j].since /\ Overlap(log[i].writes, log[j].reads \cup log[j].writes)

(* Transaction j has overwritten what i read, without i seeing it. *)
Overtakes(log, i, j) == log[i].since < j /\ Overlap(log[i].reads, log[j].writes)

Precedes(log, i, j) == i # j /\ (Follows(log, i, j) \/ Overtakes(log, i, j))

(* There is a serial order: every set of transactions has a first one. *)
IsSerializable(log) ==
    \A S \in (SUBSET DOMAIN log) \ {{}} :
        \E first \in S : \A i \in S : ~Precedes(log, i, first)

(* A row that somebody else has changed since the transaction began: the   *)
(* second UPDATE fails, with an error that Retry does not know.            *)
ChangedSince(log, since, rows) ==
    \E j \in (since + 1)..Len(log) : Overlap(log[j].writes, rows)

=============================================================================
