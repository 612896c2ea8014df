------------------------------ MODULE Identity ------------------------------
(***************************************************************************)
(* Accounts, personas and handle reservations of StoryDevs: the tables     *)
(* accounts, personas, reserved and change_email, and every handler that   *)
(* writes them (postgres/service/account.go, the identity category of      *)
(* postgres/service/settings.go, firstAccount in setup/database.go).       *)
(*                                                                         *)
(* Every handler runs its queries in one SERIALIZABLE transaction, which   *)
(* is one action here; a transaction that aborts changes nothing.  What    *)
(* happens outside the transaction is a step of its own: each attempt to   *)
(* send the confirmation e-mail, the transaction that undoes a             *)
(* registration whose e-mail could not be sent, a crash of the server      *)
(* between any two of these, and the reader of the e-mail.                 *)
(*                                                                         *)
(* Rows of the first three are only ever flagged, never removed, so such a *)
(* table is a sequence: a row's id is its position, INSERT appends, and    *)
(* creation time grows with the id.  A change of address is pending from   *)
(* its request until one of the account's changes is confirmed; whether    *)
(* its message arrives is module Confirmations' subject, here it may be    *)
(* confirmed at any time or never.  The random confirmation code of a row  *)
(* is unique to it: the model keeps whether 'code' IS NULL (confirmed) and *)
(* names a code by the row it belongs to.                                  *)
(*                                                                         *)
(* Definitions introduced as a mutant are wrong on purpose and used by no  *)
(* action: each is the definition after it with a plausible bug, put in    *)
(* its place to see that a property notices.                               *)
(***************************************************************************)
EXTENDS Naturals, Sequences, FiniteSets

CONSTANTS
    Handles, Emails,         \* persona handles and e-mail addresses
    ILike,                   \* pairs <<stored, given>> with stored ILIKE given
    InitHandle, InitEmail,   \* config.Credentials: the first account
    MaxPersonas,             \* config.MaxPersonas
    EmailTries,              \* attempts TryerEmail makes
    AccountRows, PersonaRows, ReservedRows, ChangeRows   \* bounds on the tables

ASSUME ILikeAssumption == \A v \in Handles \cup Emails : <<v, v>> \in ILike

ASSUME ConfigAssumption ==
    /\ InitHandle \in Handles
    /\ InitEmail \in Emails
    /\ MaxPersonas \in Nat \ {0}
    /\ EmailTries \in Nat \ {0}

ASSUME BoundsAssumption == {AccountRows, PersonaRows, ReservedRows, ChangeRows} \subseteq Nat

VARIABLES
    accounts,   \* rows of table accounts
    personas,   \* rows of table personas
    reserved,   \* rows of table reserved
    changing,   \* rows of table change_email
    sending,    \* confirmation e-mails a handler is still trying to send
    inbox,      \* confirmation e-mails that reached their address
    server      \* "up", "down", or "panicked" while starting

vars == <<accounts, personas, reserved, changing, sending, inbox, server>>

-----------------------------------------------------------------------------

Like(stored, given) == <<stored, given>> \in ILike

(* A nullable boolean column, and what SQL's comparisons make of it. *)
Flag == {"null", "true", "false"}
IsNull(v) == v = "null"
NotTrue(v) == v = "false"         \* v != true is NULL, not true, when v is NULL

AccountRow == [email : Emails, confirmed : BOOLEAN, deleted : BOOLEAN]
PersonaRow == [acc : Nat \ {0}, handle : Handles, default_p : BOOLEAN, deleted : Flag]
ReservedRow == [handle : Handles, email : Emails, confirmed : BOOLEAN, redeemed : BOOLEAN]
ChangeEmailRow == [acc : Nat \ {0}, email : Emails]
Message == [kind : {"register", "reserve"}, row : Nat \ {0}]

TypeOK ==
    /\ accounts \in Seq(AccountRow)
    /\ personas \in Seq(PersonaRow)
    /\ reserved \in Seq(ReservedRow)
    /\ changing \subseteq ChangeEmailRow
    /\ sending \subseteq [msg : Message, tries : 0..EmailTries]
    /\ inbox \subseteq Message
    /\ server \in {"up", "down", "panicked"}

(* What the queries of the handlers select. *)

Registered(a) == accounts[a].confirmed /\ ~accounts[a].deleted

PersonasOf(a) == {p \in DOMAIN personas : personas[p].acc = a}

LivePersonas(a) == {p \in PersonasOf(a) : IsNull(personas[p].deleted)}

HandleReserved(handle) ==
    \E r \in DOMAIN reserved : Like(reserved[r].handle, handle) /\ reserved[r].confirmed

HandleReservedUnredeemed(handle) ==
    \E r \in DOMAIN reserved :
        Like(reserved[r].handle, handle) /\ reserved[r].confirmed /\ ~reserved[r].redeemed

EmailReserved(email) ==
    \E r \in DOMAIN reserved : Like(reserved[r].email, email) /\ reserved[r].confirmed

ReservedTogether(handle, email) ==
    \E r \in DOMAIN reserved :
        /\ Like(reserved[r].handle, handle)
        /\ Like(reserved[r].email, email)
        /\ reserved[r].confirmed

(* The handle is on a persona, deleted or not, other than those in except. *)
HandleHeld(handle, except) ==
    \E p \in DOMAIN personas \ except :
        Like(personas[p].handle, handle) /\ Registered(personas[p].acc)

(* Mutant: the handles of personas are not looked at. *)
NewPersonaRefusesReserved(handle) == HandleReserved(handle)

(* NewPersona's variant: any confirmed reservation counts, redeemed or not; *)
(* deleted personas are skipped, deleted accounts are not.                  *)
NewPersonaRefuses(handle) ==
    \/ HandleReserved(handle)
    \/ \E p \in DOMAIN personas :
           /\ Like(personas[p].handle, handle)
           /\ accounts[personas[p].acc].confirmed
           /\ IsNull(personas[p].deleted)

EmailHeld(email) ==
    \E a \in DOMAIN accounts : Like(accounts[a].email, email) /\ Registered(a)

HandleAndEmailFree(handle, email, registering) ==
    /\ \/ registering /\ ReservedTogether(handle, email)
       \/ ~HandleReservedUnredeemed(handle) /\ ~EmailReserved(email)
    /\ ~HandleHeld(handle, {})
    /\ ~EmailHeld(email)

-----------------------------------------------------------------------------

Init ==
    /\ accounts = <<>> /\ personas = <<>> /\ reserved = <<>> /\ changing = {}
    /\ sending = {} /\ inbox = {}
    /\ server = "down"

(* INSERT of an account and of its first persona, the default one. *)
InsertAccount(handle, email, confirmed) ==
    /\ Len(accounts) < AccountRows /\ Len(personas) < PersonaRows
    /\ accounts' = Append(accounts,
           [email |-> email, confirmed |-> confirmed, deleted |-> FALSE])
    /\ personas' = Append(personas,
           [acc |-> Len(accounts) + 1, handle |-> handle,
            default_p |-> TRUE, deleted |-> "null"])

StartSending(kind, row) ==
    sending' = sending \cup {[msg |-> [kind |-> kind, row |-> row], tries |-> 0]}

(* Start-up: make sure the administrator's account exists.  A look-up that *)
(* fails is logged and the server starts all the same, as if the account   *)
(* had been found; feedback from Create makes firstAccount panic, so does  *)
(* an error of Create, which leaves the process where it was.              *)
Boot ==
    LET exists == \E p \in DOMAIN personas :
                      personas[p].handle = InitHandle /\ Registered(personas[p].acc)
        free == HandleAndEmailFree(InitHandle, InitEmail, TRUE)
    IN  /\ server # "up"
        /\ \/ server' = "up" /\ UNCHANGED <<accounts, personas>>
           \/ ~exists /\ free /\ server' = "up" /\ InsertAccount(InitHandle, InitEmail, TRUE)
           \/ ~exists /\ ~free /\ server' = "panicked" /\ UNCHANGED <<accounts, personas>>
        /\ UNCHANGED <<reserved, changing, sending, inbox>>

(* The process stops; what its handlers still had to do is lost. *)
Crash ==
    /\ server = "up"
    /\ server' = "down"
    /\ sending' = {}
    /\ UNCHANGED <<accounts, personas, reserved, changing, inbox>>

(* Registration with ConfirmManual. *)
Create(handle, email) ==
    /\ server = "up"
    /\ HandleAndEmailFree(handle, email, TRUE)
    /\ InsertAccount(handle, email, FALSE)
    /\ StartSending("register", Len(accounts) + 1)
    /\ UNCHANGED <<reserved, changing, inbox, server>>

Reserve(handle, email) ==
    /\ server = "up"
    /\ HandleAndEmailFree(handle, email, FALSE)
    /\ Len(reserved) < ReservedRows
    /\ reserved' = Append(reserved, [handle |-> handle, email |-> email,
                                     confirmed |-> FALSE, redeemed |-> FALSE])
    /\ StartSending("reserve", Len(reserved) + 1)
    /\ UNCHANGED <<accounts, personas, changing, inbox, server>>

(* An attempt succeeds and the handler answers. *)
EmailSent(s) ==
    /\ s.tries < EmailTries
    /\ sending' = sending \ {s}
    /\ inbox' = inbox \cup {s.msg}
    /\ UNCHANGED <<accounts, personas, reserved, changing, server>>

(* Mutant: one attempt too many. *)
EmailFailsOnceMore(s) ==
    /\ s.tries <= EmailTries
    /\ sending' = (sending \ {s}) \cup {[s EXCEPT !.tries = @ + 1]}
    /\ UNCHANGED <<accounts, personas, reserved, changing, inbox, server>>

(* An attempt reports an error, having delivered the message or not.  Only *)
(* a registration has something left to do after its last attempt.         *)
EmailFails(s) ==
    /\ s.tries < EmailTries
    /\ \/ s.msg.kind = "reserve" /\ s.tries + 1 = EmailTries /\ sending' = sending \ {s}
       \/ /\ s.msg.kind = "register" \/ s.tries + 1 < EmailTries
          /\ sending' = (sending \ {s}) \cup {[s EXCEPT !.tries = @ + 1]}
    /\ inbox' \in {inbox, inbox \cup {s.msg}}
    /\ UNCHANGED <<accounts, personas, reserved, changing, server>>

(* Flag the account as deleted; its personas keep their flags. *)
Delete(a) ==
    /\ accounts' = [accounts EXCEPT ![a].deleted = TRUE]
    /\ UNCHANGED <<personas, reserved, changing, inbox, server>>

(* Mutant: having undone the registration, the handler does not return. *)
UndoCreateForever(s) ==
    /\ s.tries = EmailTries
    /\ Delete(s.msg.row)
    /\ UNCHANGED sending

(* No attempt succeeded: Create undoes the registration with Delete, a *)
(* second transaction, which may fail as well.                         *)
UndoCreate(s) ==
    /\ s.tries = EmailTries
    /\ sending' = sending \ {s}
    /\ \/ Delete(s.msg.row)
       \/ UNCHANGED <<accounts, personas, reserved, changing, inbox, server>>

(* Mutant: a reservation is redeemed by its handle alone. *)
ConfirmAccountByHandle(a) ==
    /\ server = "up"
    /\ [kind |-> "register", row |-> a] \in inbox
    /\ ~accounts[a].confirmed
    /\ accounts' = [accounts EXCEPT ![a].confirmed = TRUE]
    /\ \E p \in PersonasOf(a) :
           reserved' = [r \in DOMAIN reserved |->
               [reserved[r] EXCEPT !.redeemed = @ \/ Like(reserved[r].handle, personas[p].handle)]]
    /\ UNCHANGED <<personas, changing, sending, inbox, server>>

ConfirmAccount(a) ==
    /\ server = "up"
    /\ [kind |-> "register", row |-> a] \in inbox
    /\ ~accounts[a].confirmed
    /\ accounts' = [accounts EXCEPT ![a].confirmed = TRUE]
    /\ \E p \in PersonasOf(a) :
           reserved' = [r \in DOMAIN reserved |->
               IF /\ Like(reserved[r].handle, personas[p].handle)
                  /\ Like(reserved[r].email, accounts[a].email)
               THEN [reserved[r] EXCEPT !.redeemed = TRUE]
               ELSE reserved[r]]
    /\ UNCHANGED <<personas, changing, sending, inbox, server>>

ConfirmReservation(r) ==
    /\ server = "up"
    /\ [kind |-> "reserve", row |-> r] \in inbox
    /\ ~reserved[r].confirmed
    /\ reserved' = [reserved EXCEPT ![r].confirmed = TRUE]
    /\ UNCHANGED <<accounts, personas, changing, sending, inbox, server>>

(* A code for a new address, followed: the address is not looked at again, *)
(* and the account's other pending changes go.                             *)
ConfirmEmail(c) ==
    /\ server = "up"
    /\ c \in changing
    /\ accounts' = [accounts EXCEPT ![c.acc].email = c.email]
    /\ changing' = {d \in changing : d.acc # c.acc}
    /\ UNCHANGED <<personas, reserved, sending, inbox, server>>

(***************************************************************************)
(* Handlers behind a login.  The account was confirmed and not deleted     *)
(* when the request was authenticated; by the time its transaction runs it *)
(* is still confirmed but may have been deleted.                           *)
(***************************************************************************)

DeleteAccount(a) ==
    /\ server = "up"
    /\ accounts[a].confirmed
    /\ Delete(a)
    /\ UNCHANGED sending

(* The new address must not be that of any account ever confirmed, deleted *)
(* or not; reservations of it are not looked at.                           *)
ChangeEmail(a, email) ==
    /\ server = "up"
    /\ accounts[a].confirmed
    /\ ~\E b \in DOMAIN accounts : Like(accounts[b].email, email) /\ accounts[b].confirmed
    /\ Cardinality(changing) < ChangeRows
    /\ changing' = changing \cup {[acc |-> a, email |-> email]}
    /\ UNCHANGED <<accounts, personas, reserved, sending, inbox, server>>

NewPersona(a, handle) ==
    /\ server = "up"
    /\ accounts[a].confirmed
    /\ Cardinality(LivePersonas(a)) < MaxPersonas
    /\ ~NewPersonaRefuses(handle)
    /\ Len(personas) < PersonaRows
    /\ personas' = Append(personas, [acc |-> a, handle |-> handle,
                                     default_p |-> FALSE, deleted |-> "null"])
    /\ UNCHANGED <<accounts, reserved, changing, sending, inbox, server>>

(* Mutant: reservations are not looked at. *)
UpdateIdentityUnreserved(p, handle) ==
    /\ server = "up"
    /\ accounts[personas[p].acc].confirmed
    /\ ~HandleHeld(handle, {p})
    /\ personas' = [personas EXCEPT ![p].handle = handle]
    /\ UNCHANGED <<accounts, reserved, changing, sending, inbox, server>>

(* Settings, category identity: the active persona takes a handle. *)
UpdateIdentity(p, handle) ==
    /\ server = "up"
    /\ accounts[personas[p].acc].confirmed
    /\ ~HandleReservedUnredeemed(handle)
    /\ ~HandleHeld(handle, {p})
    /\ personas' = [personas EXCEPT ![p].handle = handle]
    /\ UNCHANGED <<accounts, reserved, changing, sending, inbox, server>>

(* The rows DeletePersona's first UPDATE selects to succeed a default      *)
(* persona: "deleted != true AND default_p != true", the oldest of them.   *)
Successors(a, p) ==
    LET candidates == {q \in PersonasOf(a) \ {p} :
                           NotTrue(personas[q].deleted) /\ ~personas[q].default_p}
    IN  {q \in candidates : personas[p].default_p /\ \A c \in candidates : q <= c}

(* Mutants: the deleted persona keeps the mark; the last one can be deleted. *)
DeletePersonaKeepsDefault(a, p) ==
    /\ server = "up"
    /\ accounts[a].confirmed
    /\ Cardinality(LivePersonas(a)) >= 2
    /\ personas' = [personas EXCEPT ![p].deleted = "true"]
    /\ UNCHANGED <<accounts, reserved, changing, sending, inbox, server>>

DeletePersonaEvenLast(a, p) ==
    /\ server = "up"
    /\ accounts[a].confirmed
    /\ personas' = [personas EXCEPT ![p].default_p = FALSE, ![p].deleted = "true"]
    /\ UNCHANGED <<accounts, reserved, changing, sending, inbox, server>>

(* DeletePersona's effect on the personas; module Sessions adds the logins. *)
(* The persona is named by the request's slug: whose it is is not asked,    *)
(* and the personas that are counted are those of the requesting account.   *)
DeletePersona(a, p) ==
    /\ server = "up"
    /\ accounts[a].confirmed
    /\ Cardinality(LivePersonas(a)) >= 2
    /\ personas' = [q \in DOMAIN personas |->
           IF q = p THEN [personas[q] EXCEPT !.default_p = FALSE, !.deleted = "true"]
           ELSE IF q \in Successors(a, p) THEN [personas[q] EXCEPT !.default_p = TRUE]
           ELSE personas[q]]
    /\ UNCHANGED <<accounts, reserved, changing, sending, inbox, server>>

-----------------------------------------------------------------------------

Next ==
    \/ Boot
    \/ Crash
    \/ \E handle \in Handles, email \in Emails :
           Create(handle, email) \/ Reserve(handle, email)
    \/ \E s \in sending : EmailSent(s) \/ EmailFails(s) \/ UndoCreate(s)
    \/ \E r \in DOMAIN reserved : ConfirmReservation(r)
    \/ \E c \in changing : ConfirmEmail(c)
    \/ \E a \in DOMAIN accounts :
           \/ ConfirmAccount(a)
           \/ DeleteAccount(a)
           \/ \E email \in Emails : ChangeEmail(a, email)
           \/ \E handle \in Handles : NewPersona(a, handle)
           \/ \E p \in DOMAIN personas : DeletePersona(a, p)
    \/ \E p \in DOMAIN personas, handle \in Handles : UpdateIdentity(p, handle)

(* A handler that is sending keeps going as long as the server runs. *)
Fairness == WF_vars(\E s \in sending : EmailSent(s) \/ EmailFails(s) \/ UndoCreate(s))

Spec == Init /\ [][Next]_vars /\ Fairness

-----------------------------------------------------------------------------
(* Properties. *)

(* An account never has more live personas than the configured number,     *)
(* whatever requests of the same account interleave: NewPersona counts     *)
(* inside its transaction.                                                 *)
PersonaCount ==
    \A a \in DOMAIN accounts : Cardinality(LivePersonas(a)) <= MaxPersonas

(* No request takes the last live persona from the account it is made for: *)
(* DeletePersona counts them inside its transaction.  (It counts those of  *)
(* the requesting account, so the last one of another account may go.)     *)
LosesLastByAnother ==
    \A a \in DOMAIN accounts :
        LivePersonas(a) # {} /\ LivePersonas(a)' = {} =>
            \E b \in DOMAIN accounts \ {a}, p \in DOMAIN personas : DeletePersona(b, p)

LastPersonaKept == [][LosesLastByAnother]_vars

(* An account has at most one default persona, a deleted persona is not    *)
(* the default, and until its account is confirmed the persona that came   *)
(* with the registration is the only one, and the default while it lives.  *)
DefaultSound ==
    /\ \A p, q \in DOMAIN personas :
           /\ personas[p].default_p => IsNull(personas[p].deleted)
           /\ personas[p].default_p /\ personas[q].default_p
                  /\ personas[p].acc = personas[q].acc => p = q
    /\ \A a \in DOMAIN accounts : ~accounts[a].confirmed =>
           \E p \in DOMAIN personas :
               PersonasOf(a) = {p} /\ (IsNull(personas[p].deleted) => personas[p].default_p)

(* A reservation is used up only on behalf of the account that takes it    *)
(* into use: in the step that admits an account which registered with the  *)
(* reserved address, whose only persona carries the reserved handle.  A    *)
(* registration that is never confirmed, or one for another address, does  *)
(* not use it up, and a change of address meanwhile makes no difference.   *)
RedeemsForItself ==
    \A r \in DOMAIN reserved' :
        reserved'[r].redeemed /\ (r \in DOMAIN reserved => ~reserved[r].redeemed) =>
            \E a \in DOMAIN accounts, p \in DOMAIN personas :
                /\ ~accounts[a].confirmed /\ accounts'[a].confirmed
                /\ PersonasOf(a) = {p}
                /\ Like(reserved'[r].handle, personas[p].handle)
                /\ Like(reserved'[r].email, accounts[a].email)

RedeemedByConfirmed == [][RedeemsForItself]_vars

(* A persona the public can meet: live, of a registered account. *)
Public(p) ==
    /\ p \in DOMAIN personas
    /\ personas[p].acc \in DOMAIN accounts
    /\ IsNull(personas[p].deleted)
    /\ Registered(personas[p].acc)

Confirming == \E a \in DOMAIN accounts : ConfirmAccount(a)

ChangingAddress == \E c \in changing : ConfirmEmail(c)

SameHandle(p, q) == Public(p) /\ Public(q) /\ personas[p].handle = personas[q].handle

SameEmail(a, b) ==
    /\ {a, b} \subseteq DOMAIN accounts
    /\ Registered(a) /\ Registered(b) /\ accounts[a].email = accounts[b].email

(* Two public personas come to share a handle only when one of two         *)
(* competing registrations is confirmed, and two registered accounts an    *)
(* address only then or when a change of address is confirmed: what was    *)
(* asked for while it was free is not looked at again.  Registering, a new *)
(* persona, a change of handle and asking for an address never cause it.   *)
ClashConfirms ==
    /\ \A p, q \in DOMAIN personas' :
           p # q /\ SameHandle(p, q)' /\ ~SameHandle(p, q) => Confirming
    /\ \A a, b \in DOMAIN accounts' :
           a # b /\ SameEmail(a, b)' /\ ~SameEmail(a, b) => Confirming \/ ChangingAddress

ClashOnlyByConfirming == [][ClashConfirms]_vars

(* While a handle is reserved and not redeemed, only the confirmation of a *)
(* registration puts it on a public persona: no signed-in user can take it *)
(* by adding a persona or renaming one.  (The first account is created     *)
(* confirmed; it takes the handle only if it was reserved for its address.) *)
TakingReservedConfirms ==
    \A p \in DOMAIN personas' :
        /\ Public(p)'
        /\ ~(Public(p) /\ personas[p].handle = personas'[p].handle)
        /\ HandleReservedUnredeemed(personas'[p].handle)
        => Confirming \/ (Boot /\ ReservedTogether(personas'[p].handle, InitEmail))

ReservationKept == [][TakingReservedConfirms]_vars

(* A handler that sends a confirmation e-mail comes to an end: the retries *)
(* and the undoing of the registration do not go on forever.               *)
SendingEnds ==
    \A row \in 1..AccountRows, kind \in {"register", "reserve"} :
        LET busy == \E s \in sending : s.msg = [kind |-> kind, row |-> row]
        IN  busy ~> ~busy

-----------------------------------------------------------------------------
(* What the repository says and the code does not do. *)

(* firstAccount asserts, with a panic, that the first account can be       *)
(* created whenever it is missing.                                         *)
FirstAccountCreated == server # "panicked"

=============================================================================
