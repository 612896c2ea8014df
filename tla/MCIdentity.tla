----------------------------- MODULE MCIdentity -----------------------------
(* Instances of Identity for TLC.  "ann" and "Ann" are one handle to ILIKE. *)
EXTENDS Identity

MCHandles == {"root", "ann", "Ann"}
MCEmails == {"r@x", "a@x"}
MCSame == {"ann", "Ann"}
MCILike == {<<v, v>> : v \in MCHandles \cup MCEmails} \cup (MCSame \X MCSame)

MCTwoHandles == {"root", "ann"}
MCExact == {<<v, v>> : v \in MCTwoHandles \cup MCEmails}
=============================================================================
