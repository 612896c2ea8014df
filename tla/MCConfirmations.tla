-------------------------- MODULE MCConfirmations --------------------------
(* Instances of Confirmations for TLC. *)
EXTENDS Confirmations

MCAccounts == {"a", "b"}
MCEmails == {"a@x", "b@x", "c@x"}
MCFirstEmail == [x \in MCAccounts |-> IF x = "a" THEN "a@x" ELSE "b@x"]
MCILike == {<<e, e>> : e \in MCEmails}
MCOne == {"a"}
MCTwoEmails == {"a@x", "c@x"}
MCOneEmail == [x \in MCOne |-> "a@x"]
=============================================================================
