----------------------------- MODULE MCSessions -----------------------------
(* Instances of Sessions for TLC. *)
EXTENDS Sessions

MCTwoHandles == {"root", "ann"}
MCTwoEmails == {"r@x", "a@x"}
MCTwoILike == {<<v, v>> : v \in MCTwoHandles \cup MCTwoEmails}
=============================================================================
