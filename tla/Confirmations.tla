--------------------------- MODULE Confirmations ---------------------------
(***************************************************************************)
(* Changes that take effect through an e-mailed code: a new address, a new *)
(* password, a forgotten password and a mailing list subscription (tables  *)
(* change_email, change_password and mailing; ChangeEmail, ChangePassword, *)
(* ForgotPassword, Mailing and their Confirm counterparts in account.go;   *)
(* the dispatch on the kind of a link in handler/modal/submit.go).         *)
(*                                                                         *)
(* Each request commits its row in one transaction and then sends the      *)
(* code; the code may never arrive, and the request may report an error    *)
(* for one that did.  A code is random and unique; here codes count up, so *)
(* an older request has a smaller code.  The accounts are the confirmed    *)
(* ones; passwords are correct, as an incorrect one changes nothing.       *)
(***************************************************************************)
EXTENDS Naturals, Sequences, FiniteSets

CONSTANTS
    Accounts, Emails, Passwords,
    ILike,              \* pairs <<stored, given>> with stored ILIKE given
    FirstEmail,         \* address of each account to begin with
    FirstPassword,
    Codes               \* bound on the codes generated

ASSUME CodeAssumption == Codes \in Nat

ASSUME AccountAssumption ==
    /\ FirstEmail \in [Accounts -> Emails]
    /\ FirstPassword \in Passwords
    /\ \A e \in Emails : <<e, e>> \in ILike
    /\ \A a, b \in Accounts : <<FirstEmail[a], FirstEmail[b]>> \in ILike => a = b

VARIABLES
    email, pass,        \* columns of accounts
    deleted,            \* accounts flagged as deleted
    changeEmail,        \* rows of change_email
    changePassword,     \* rows of change_password
    mailing,            \* rows of mailing
    lastCode,           \* number of codes generated so far
    sending,            \* messages a handler has still to send
    inbox,              \* messages that arrived
    applied             \* history: the codes whose change took effect, in order

vars == <<email, pass, deleted, changeEmail, changePassword, mailing,
          lastCode, sending, inbox, applied>>

Kinds == {"email", "password", "forgot", "mailing"}
Changing == {"email", "password"}      \* endpoints that change an account
CodeRange == 1..Codes
Message == [kind : Kinds, to : Emails, code : CodeRange]

TypeOK ==
    /\ email \in [Accounts -> Emails]
    /\ pass \in [Accounts -> Passwords]
    /\ deleted \subseteq Accounts
    /\ changeEmail \subseteq [ref_id : Accounts, email : Emails, code : CodeRange]
    /\ changePassword \subseteq [ref_id : Accounts, pass : Passwords, code : CodeRange]
    /\ mailing \subseteq [email : Emails, code : CodeRange, confirmed : BOOLEAN]
    /\ lastCode \in 0..Codes
    /\ sending \subseteq Message
    /\ inbox \subseteq Message
    /\ applied \in [Changing -> [Accounts -> Seq(CodeRange)]]

Like(stored, given) == <<stored, given>> \in ILike

-----------------------------------------------------------------------------

Init ==
    /\ email = FirstEmail
    /\ pass = [a \in Accounts |-> FirstPassword]
    /\ deleted = {} /\ changeEmail = {} /\ changePassword = {} /\ mailing = {}
    /\ lastCode = 0 /\ sending = {} /\ inbox = {}
    /\ applied = [k \in Changing |-> [a \in Accounts |-> <<>>]]

NewCode(kind, to) ==
    /\ lastCode < Codes
    /\ lastCode' = lastCode + 1
    /\ sending' = sending \cup {[kind |-> kind, to |-> to, code |-> lastCode + 1]}
    /\ UNCHANGED <<email, pass, deleted, inbox, applied>>

(* Mutant: the code goes to the address the account has already. *)
ChangeEmailToOld(a, new) ==
    /\ ~\E b \in Accounts : Like(email[b], new)
    /\ NewCode("email", email[a])
    /\ changeEmail' = changeEmail \cup {[ref_id |-> a, email |-> new, code |-> lastCode + 1]}
    /\ UNCHANGED <<changePassword, mailing>>

(* Neither the address check nor the later ones look at accounts.deleted. *)
ChangeEmail(a, new) ==
    /\ ~\E b \in Accounts : Like(email[b], new)
    /\ NewCode("email", new)
    /\ changeEmail' = changeEmail \cup {[ref_id |-> a, email |-> new, code |-> lastCode + 1]}
    /\ UNCHANGED <<changePassword, mailing>>

InsertPassword(a, new) ==
    /\ changePassword' = changePassword \cup
                             {[ref_id |-> a, pass |-> new, code |-> lastCode + 1]}
    /\ UNCHANGED <<changeEmail, mailing>>

(* Mutant: the message says that it is about a new address. *)
ChangePasswordMislabelled(a, new) == NewCode("email", email[a]) /\ InsertPassword(a, new)

ChangePassword(a, new) == NewCode("password", email[a]) /\ InsertPassword(a, new)

(* By address or by handle; the account is not deleted. *)
ForgotPassword(a, new) ==
    /\ a \notin deleted
    /\ NewCode("forgot", email[a])
    /\ InsertPassword(a, new)

Mailing(address) ==
    /\ ~\E m \in mailing : Like(m.email, address) /\ m.confirmed
    /\ NewCode("mailing", address)
    /\ mailing' = mailing \cup {[email |-> address, code |-> lastCode + 1, confirmed |-> FALSE]}
    /\ UNCHANGED <<changeEmail, changePassword>>

(* The attempts to send end, with the message delivered or not. *)
Sent(m) ==
    /\ sending' = sending \ {m}
    /\ inbox' \in {inbox, inbox \cup {m}}
    /\ UNCHANGED <<email, pass, deleted, changeEmail, changePassword, mailing, lastCode, applied>>

Crash ==
    /\ sending' = {}
    /\ UNCHANGED <<email, pass, deleted, changeEmail, changePassword, mailing,
                   lastCode, inbox, applied>>

DeleteAccount(a) ==
    /\ deleted' = deleted \cup {a}
    /\ UNCHANGED <<email, pass, changeEmail, changePassword, mailing, lastCode,
                   sending, inbox, applied>>

Apply(kind, a, code) == applied' = [applied EXCEPT ![kind][a] = Append(@, code)]

(* Mutant: other requests of the account stay. *)
ConfirmEmailOnce(code) ==
    \E row \in changeEmail :
        /\ row.code = code
        /\ email' = [email EXCEPT ![row.ref_id] = row.email]
        /\ changeEmail' = changeEmail \ {row}
        /\ Apply("email", row.ref_id, code)
        /\ UNCHANGED <<pass, deleted, changePassword, mailing, lastCode, sending, inbox>>

ConfirmEmail(code) ==
    \E row \in changeEmail :
        /\ row.code = code
        /\ email' = [email EXCEPT ![row.ref_id] = row.email]
        /\ changeEmail' = {other \in changeEmail : other.ref_id # row.ref_id}
        /\ Apply("email", row.ref_id, code)
        /\ UNCHANGED <<pass, deleted, changePassword, mailing, lastCode, sending, inbox>>

(* Mutant: the password is written where the address belongs. *)
ConfirmPasswordAsEmail(code) ==
    \E row \in changePassword :
        /\ row.code = code
        /\ email' = [email EXCEPT ![row.ref_id] = row.pass]
        /\ changePassword' = {other \in changePassword : other.ref_id # row.ref_id}
        /\ Apply("password", row.ref_id, code)
        /\ UNCHANGED <<pass, deleted, changeEmail, mailing, lastCode, sending, inbox>>

ConfirmPassword(code) ==
    \E row \in changePassword :
        /\ row.code = code
        /\ pass' = [pass EXCEPT ![row.ref_id] = row.pass]
        /\ changePassword' = {other \in changePassword : other.ref_id # row.ref_id}
        /\ Apply("password", row.ref_id, code)
        /\ UNCHANGED <<email, deleted, changeEmail, mailing, lastCode, sending, inbox>>

(* Mutant: any code confirms any subscription. *)
ConfirmAnySubscription(code) ==
    \E row \in mailing :
        /\ ~row.confirmed
        /\ mailing' = (mailing \ {row}) \cup {[row EXCEPT !.confirmed = TRUE]}
        /\ UNCHANGED <<email, pass, deleted, changeEmail, changePassword, lastCode,
                       sending, inbox, applied>>

ConfirmSubscription(code) ==
    \E row \in mailing :
        /\ row.code = code /\ ~row.confirmed
        /\ mailing' = (mailing \ {row}) \cup {[row EXCEPT !.confirmed = TRUE]}
        /\ UNCHANGED <<email, pass, deleted, changeEmail, changePassword, lastCode,
                       sending, inbox, applied>>

(* Mutant: the kind of the links to a new address is not known. *)
ConfirmPartialNoEmail(kind, code) ==
    \/ kind = "mailing" /\ ConfirmSubscription(code)
    \/ kind = "password" /\ ConfirmPassword(code)
    \/ kind \in {"email", "forgot"} /\ UNCHANGED vars

(* The kind is the first part of the path a code is submitted to. *)
ConfirmPartial(kind, code) ==
    \/ kind = "mailing" /\ ConfirmSubscription(code)
    \/ kind = "email" /\ ConfirmEmail(code)
    \/ kind = "password" /\ ConfirmPassword(code)
    \/ kind = "forgot" /\ UNCHANGED vars

(* The link in a message names the kind the message was sent with. *)
FollowLink(m) == ConfirmPartial(m.kind, m.code)

(* Or the code is typed into a dialog, any dialog that asks for one. *)
TypeCode(m) == \E kind \in Kinds : ConfirmPartial(kind, m.code)

Next ==
    \/ \E a \in Accounts :
           \/ \E new \in Emails : ChangeEmail(a, new)
           \/ \E new \in Passwords : ChangePassword(a, new) \/ ForgotPassword(a, new)
           \/ DeleteAccount(a)
    \/ \E address \in Emails : Mailing(address)
    \/ \E m \in sending : Sent(m)
    \/ Crash
    \/ \E m \in inbox : FollowLink(m) \/ TypeCode(m)

Spec == Init /\ [][Next]_vars

(* The receivers of messages follow the links in them, sooner or later. *)
ReadersSpec == Spec /\ \A m \in Message : WF_vars(m \in inbox /\ FollowLink(m))

-----------------------------------------------------------------------------
(* Properties. *)

(* The changes of an account take effect in the order they were asked for, *)
(* each at most once: confirming one makes every older or equal code dead, *)
(* in whatever order the messages arrive and the links are followed.       *)
AppliedInOrder ==
    \A k \in Changing, a \in Accounts :
        \A i, j \in DOMAIN applied[k][a] :
            i < j => applied[k][a][i] < applied[k][a][j]

(* An account has its first address or one that received a code the        *)
(* account asked for: an address nobody can read is never adopted.         *)
AddressProven ==
    \A a \in Accounts :
        \/ email[a] = FirstEmail[a]
        \/ \E m \in inbox : /\ m.kind = "email" /\ m.to = email[a]
                            /\ \E i \in DOMAIN applied["email"][a] :
                                   applied["email"][a][i] = m.code

(* Only addresses that received the message are on the mailing list, and a *)
(* later request for a listed address leaves the list alone.               *)
Subscribed(address) ==
    \E row \in mailing : row.confirmed /\ row.email = address

SubscribedByMail ==
    \A address \in Emails : Subscribed(address) =>
        \E m \in inbox : m.kind = "mailing" /\ m.to = address

(* A code sent for one purpose has no other effect: an account's address   *)
(* changes only through a code sent for that, its password only through a  *)
(* code of a password message.                                             *)
EffectOf(kind) == IF kind = "email" THEN {"email"} ELSE {"password", "forgot"}

CodeKeepsPurpose ==
    \A k \in Changing, a \in Accounts : \A i \in DOMAIN applied[k][a] :
        \E m \in inbox : m.code = applied[k][a][i] /\ m.kind \in EffectOf(k)

(* The code of a message still stands for a change that can be made. *)
Pending(m) ==
    \/ m.kind = "email" /\ \E row \in changeEmail : row.code = m.code
    \/ m.kind \in {"password", "forgot"} /\ \E row \in changePassword : row.code = m.code
    \/ m.kind = "mailing" /\ \E row \in mailing : row.code = m.code /\ ~row.confirmed

TakesEffect(m) == (m \in inbox) ~> ~Pending(m)

(* If the receivers of messages follow the links, every change asked for   *)
(* by e-mail is made, or made obsolete by another one of the same account. *)
(* Not so a new password for a forgotten one: ConfirmPartial has no case   *)
(* for the kind in its link, though sendConfirmationEmail offers it.       *)
LinkTakesEffect ==
    \A m \in Message : m.kind # "forgot" => TakesEffect(m)

=============================================================================
