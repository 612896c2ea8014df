------------------------------ MODULE MCAccess ------------------------------
EXTENDS Access, TLC

(* Account a has personas p and q, account b has the administrator r. *)
MCAccountOf == "p" :> "a" @@ "q" :> "a" @@ "r" :> "b"
MCKindOf == "x" :> "event" @@ "y" :> "post"
=============================================================================
