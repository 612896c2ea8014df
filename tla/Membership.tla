----------------------------- MODULE Membership -----------------------------
(***************************************************************************)
(* What StoryDevs promises about an account, without tables, personas,     *)
(* e-mails or tokens: it is applied for, admitted and left; only members   *)
(* start to act, and whoever has left is out for good, except that what    *)
(* was already being done for them may still be finished.                  *)
(* Module Sessions implements this specification.                          *)
(***************************************************************************)
CONSTANT Accounts

VARIABLES
    status,     \* of every account there may ever be
    acting      \* accounts some request is acting for

memberVars == <<status, acting>>

Status == {"none", "applicant", "member", "left"}

MembershipTypeOK == status \in [Accounts -> Status] /\ acting \subseteq Accounts

MembershipInit == status = [a \in Accounts |-> "none"] /\ acting = {}

(* The first account is admitted without an application. *)
Apply(a) ==
    /\ status[a] = "none"
    /\ status' \in {[status EXCEPT ![a] = s] : s \in {"applicant", "member"}}
    /\ UNCHANGED acting

Admit(a) ==
    /\ status[a] = "applicant"
    /\ status' = [status EXCEPT ![a] = "member"]
    /\ UNCHANGED acting

(* A member leaves while acting; an application is withdrawn. *)
Leave(a) ==
    /\ status[a] \in {"applicant", "member"}
    /\ status' = [status EXCEPT ![a] = "left"]
    /\ acting' \in {acting, acting \ {a}}

Begin(a) ==
    /\ status[a] = "member"
    /\ acting' = acting \cup {a}
    /\ UNCHANGED status

Finish(a) ==
    /\ acting' = acting \ {a}
    /\ UNCHANGED status

Restart == acting' = {} /\ UNCHANGED status

MembershipNext ==
    \/ \E a \in Accounts : Apply(a) \/ Admit(a) \/ Leave(a) \/ Begin(a) \/ Finish(a)
    \/ Restart

MembershipSpec == MembershipInit /\ [][MembershipNext]_memberVars
=============================================================================
