------------------------------ MODULE Sessions ------------------------------
(***************************************************************************)
(* Logins and authenticated requests on top of module Identity: table      *)
(* 'logins' (Login, Logout, Switch, DeletePersona of account.go), the      *)
(* account.Add middleware that attaches the account to a request, and the  *)
(* handlers that later act on that snapshot.                               *)
(*                                                                         *)
(* A request is authenticated in one transaction and acts in another; the  *)
(* account, the persona and the login it was authenticated with may have   *)
(* been deleted in between.  Login likewise reads the account in one       *)
(* transaction and inserts the login in a second one.                      *)
(*                                                                         *)
(* Tokens are random and never reused: a token is the position of its row  *)
(* in logins, and a row removed by Logout stays with present = FALSE.      *)
(* Switch and DeletePersona take the persona's slug from the request's     *)
(* path and do not ask whose it is: any persona of the table, deleted or   *)
(* not, and of any account.                                                *)
(***************************************************************************)
EXTENDS Identity

CONSTANTS
    LoginRows,      \* bound on the rows ever inserted into logins
    MaxInFlight     \* bound on logins and requests in progress at once

VARIABLES
    logins,      \* rows of table logins
    loggingIn,   \* Login calls between reading the account and inserting the row
    requests     \* authenticated requests that have not been handled yet

sessionVars == <<logins, loggingIn, requests>>
allVars == <<vars, sessionVars>>

NoPersona == 0      \* NULL in logins.p_id, and the id of Persona{}

LoginRow == [acc : Nat \ {0}, p_id : Nat, present : BOOLEAN]

SessionsTypeOK ==
    /\ TypeOK
    /\ logins \in Seq(LoginRow)
    /\ \A t \in DOMAIN logins : logins[t].acc \in DOMAIN accounts
    /\ loggingIn \subseteq [acc : Nat \ {0}, persona : Nat]
    /\ requests \subseteq [token : Nat \ {0}, acc : Nat \ {0}, persona : Nat]

InFlight == Cardinality(loggingIn) + Cardinality(requests)

Oldest(S) == CHOOSE p \in S : \A q \in S : p <= q

(* Mutant: the oldest persona is not considered. *)
ActivePersonaMarked(a, active) ==
    LET marked == {p \in LivePersonas(a) : p \in active \/ personas[p].default_p}
    IN  IF marked # {} THEN Oldest(marked) ELSE NoPersona

(* Account.ActivePersona: the persona marked active, else the default one, *)
(* else the oldest; retrieve only lists live personas.                     *)
ActivePersona(a, active) ==
    LET live == LivePersonas(a)
        default == {p \in live : personas[p].default_p}
    IN  IF live \cap active # {} THEN Oldest(live \cap active)
        ELSE IF default # {} THEN Oldest(default)
        ELSE IF live # {} THEN Oldest(live)
        ELSE NoPersona

WithHandle(handle) == {p \in DOMAIN personas : personas[p].handle = handle}

-----------------------------------------------------------------------------

SessionsInit == Init /\ logins = <<>> /\ loggingIn = {} /\ requests = {}

(* Mutant: an account that was not confirmed logs in. *)
StartLoginUnconfirmed(a, active) ==
    /\ server = "up"
    /\ ~accounts[a].deleted
    /\ InFlight < MaxInFlight
    /\ loggingIn' = loggingIn \cup {[acc |-> a, persona |-> ActivePersona(a, active)]}
    /\ UNCHANGED <<vars, logins, requests>>

StartLogin(a, active) ==
    /\ server = "up"
    /\ Registered(a)
    /\ InFlight < MaxInFlight
    /\ loggingIn' = loggingIn \cup {[acc |-> a, persona |-> ActivePersona(a, active)]}
    /\ UNCHANGED <<vars, logins, requests>>

(* Login's read: the account of a persona, deleted or not, with the handle. *)
LoginByHandle(handle) ==
    \E p \in WithHandle(handle) : StartLogin(personas[p].acc, WithHandle(handle))

LoginByEmail(email) ==
    \E a \in DOMAIN accounts : accounts[a].email = email /\ StartLogin(a, {})

(* Mutant: the row carries its own id in place of the account's. *)
InsertLoginOwnId(l) ==
    /\ l.persona # NoPersona
    /\ Len(logins) < LoginRows
    /\ logins' = Append(logins, [acc |-> Len(logins) + 1, p_id |-> l.persona, present |-> TRUE])
    /\ loggingIn' = loggingIn \ {l}
    /\ UNCHANGED <<vars, requests>>

(* Login's write, after the password matched; p_id refers to a persona, so *)
(* an account without a live one cannot log in.                            *)
InsertLogin(l) ==
    /\ l.persona # NoPersona
    /\ Len(logins) < LoginRows
    /\ logins' = Append(logins, [acc |-> l.acc, p_id |-> l.persona, present |-> TRUE])
    /\ loggingIn' = loggingIn \ {l}
    /\ UNCHANGED <<vars, requests>>

(* Wrong password, or the transaction failed. *)
LoginRefused(l) ==
    /\ loggingIn' = loggingIn \ {l}
    /\ UNCHANGED <<vars, logins, requests>>

(* Mutant: the account may have been deleted. *)
AuthenticateDeleted(t) ==
    /\ server = "up"
    /\ logins[t].present
    /\ InFlight < MaxInFlight
    /\ requests' = requests \cup
           {[token |-> t, acc |-> logins[t].acc,
             persona |-> ActivePersona(logins[t].acc, {logins[t].p_id})]}
    /\ UNCHANGED <<vars, logins, loggingIn>>

(* account.Add: RetrieveByToken. *)
Authenticate(t) ==
    /\ server = "up"
    /\ logins[t].present
    /\ Registered(logins[t].acc)
    /\ InFlight < MaxInFlight
    /\ requests' = requests \cup
           {[token |-> t, acc |-> logins[t].acc,
             persona |-> ActivePersona(logins[t].acc, {logins[t].p_id})]}
    /\ UNCHANGED <<vars, logins, loggingIn>>

(* The request has been answered. *)
Answer(r) == requests' = requests \ {r} /\ UNCHANGED loggingIn

Switch(r, p) ==
    /\ logins' = IF logins[r.token].present
                  THEN [logins EXCEPT ![r.token].p_id = p]
                  ELSE logins
    /\ UNCHANGED vars

Logout(r) ==
    /\ logins' = [logins EXCEPT ![r.token].present = FALSE]
    /\ UNCHANGED vars

(* Mutant: the transaction commits although the login has no persona left. *)
DeletePersonaAndForget(r, p) ==
    LET defaults == {q \in PersonasOf(r.acc) :
                         q # p /\ (personas[q].default_p \/ q \in Successors(r.acc, p))}
        login == logins[r.token]
    IN  /\ DeletePersona(r.acc, p)
        /\ logins' = [logins EXCEPT ![r.token].p_id =
               IF login.p_id # p THEN @ ELSE IF defaults = {} THEN NoPersona ELSE Oldest(defaults)]

(* The login that deletes its own persona moves to the account's default   *)
(* persona: the one after the first UPDATE and before the last, when the   *)
(* deleted persona still carries the mark.  The transaction rolls back     *)
(* when the login has no persona to report afterwards.                     *)
DeletePersonaAndMove(r, p) ==
    LET defaults == {q \in PersonasOf(r.acc) :
                         personas[q].default_p \/ q \in Successors(r.acc, p)}
        login == logins[r.token]
        moved == IF login.p_id # p THEN login.p_id
                 ELSE IF defaults = {} THEN NoPersona
                 ELSE Oldest(defaults)
    IN  /\ DeletePersona(r.acc, p)
        /\ login.p_id = p => Cardinality(defaults) <= 1
        /\ login.present /\ moved # NoPersona
        /\ logins' = [logins EXCEPT ![r.token].p_id = moved]

(* What an authenticated request may do; it may also fail or only read. *)
Handle(r) ==
    /\ Answer(r)
    /\ \/ UNCHANGED <<vars, logins>>
       \/ Logout(r)
       \/ \E p \in DOMAIN personas : Switch(r, p) \/ DeletePersonaAndMove(r, p)
       \/ /\ UNCHANGED logins
          /\ \/ DeleteAccount(r.acc)
             \/ \E email \in Emails : ChangeEmail(r.acc, email)
             \/ \E handle \in Handles :
                    \/ NewPersona(r.acc, handle)
                    \/ r.persona # NoPersona /\ UpdateIdentity(r.persona, handle)

(* Steps of Identity that need no login. *)
Anonymous ==
    \/ Boot
    \/ \E handle \in Handles, email \in Emails :
           Create(handle, email) \/ Reserve(handle, email)
    \/ \E s \in sending : EmailSent(s) \/ EmailFails(s) \/ UndoCreate(s)
    \/ \E r \in DOMAIN reserved : ConfirmReservation(r)
    \/ \E c \in changing : ConfirmEmail(c)
    \/ \E a \in DOMAIN accounts : ConfirmAccount(a)

(* Logins are rows of the database and survive. *)
CrashAll == Crash /\ loggingIn' = {} /\ requests' = {} /\ UNCHANGED logins

SessionsNext ==
    \/ Anonymous /\ UNCHANGED sessionVars
    \/ CrashAll
    \/ \E handle \in Handles : LoginByHandle(handle)
    \/ \E email \in Emails : LoginByEmail(email)
    \/ \E l \in loggingIn : InsertLogin(l) \/ LoginRefused(l)
    \/ \E t \in DOMAIN logins : Authenticate(t)
    \/ \E r \in requests : Handle(r)

(* Handlers and login calls run to their end while the server is up. *)
SessionsFairness ==
    \A a \in 1..AccountRows, p \in 0..PersonaRows :
        /\ LET l == [acc |-> a, persona |-> p]
           IN  WF_allVars(l \in loggingIn /\ (InsertLogin(l) \/ LoginRefused(l)))
        /\ \A t \in 1..LoginRows :
               LET r == [token |-> t, acc |-> a, persona |-> p]
               IN  WF_allVars(r \in requests /\ Handle(r))

SessionsSpec == SessionsInit /\ [][SessionsNext]_allVars /\ SessionsFairness

-----------------------------------------------------------------------------
(* Properties. *)

(* The login's owner can act through it: it authenticates, as a live       *)
(* persona of the owner's own account.                                     *)
CanAct(t) ==
    /\ t \in DOMAIN logins
    /\ logins[t].present
    /\ Registered(logins[t].acc)
    /\ ActivePersona(logins[t].acc, {logins[t].p_id}) \in LivePersonas(logins[t].acc)

(* A login that can act goes on being able to, whatever personas are       *)
(* deleted and wherever it was switched to, the default persona and other  *)
(* accounts' included, until it is logged out, its account is deleted, or  *)
(* a request made for another account deletes the last persona of its own. *)
StopsActingFor(t) ==
    \/ ~logins'[t].present
    \/ accounts'[logins[t].acc].deleted
    \/ \E r \in requests, p \in LivePersonas(logins[t].acc) :
           r.acc # logins[t].acc /\ DeletePersonaAndMove(r, p)

SomeoneToActAs ==
    [][\A t \in DOMAIN logins : CanAct(t) /\ ~CanAct(t)' => StopsActingFor(t)]_allVars

(* A login always names a persona, never NULL: DeletePersona rolls back    *)
(* rather than leave the login without one, and a login call that found no *)
(* live persona fails.  So Logout, which joins on p_id, finds every login. *)
LoginKeepsPersona ==
    \A t \in DOMAIN logins : logins[t].p_id \in DOMAIN personas

(* Nobody logs in to or acts for an account that was not confirmed, and a  *)
(* request acts as no persona but one of its own account, whichever one    *)
(* its login names.                                                        *)
OnlyConfirmedAct ==
    /\ \A t \in DOMAIN logins : accounts[logins[t].acc].confirmed
    /\ \A x \in loggingIn \cup requests :
           /\ accounts[x.acc].confirmed
           /\ x.persona \in PersonasOf(x.acc) \cup {NoPersona}

(* Once an account is deleted, the requests that were already running are  *)
(* the last ones: even a login that was being made at that moment, and     *)
(* whose row is inserted afterwards, authenticates nobody.                 *)
DeletedFallsSilent ==
    \A a \in 1..AccountRows :
        (a \in DOMAIN accounts /\ accounts[a].deleted) ~> [](\A r \in requests : r.acc # a)

(* The accounts as module Membership sees them. *)
StatusOf(a) ==
    IF a \notin DOMAIN accounts THEN "none"
    ELSE IF accounts[a].deleted THEN "left"
    ELSE IF accounts[a].confirmed THEN "member"
    ELSE "applicant"

Abstract == INSTANCE Membership WITH
    Accounts <- 1..AccountRows,
    status <- [a \in 1..AccountRows |-> StatusOf(a)],
    acting <- {r.acc : r \in requests}

(* Logins, personas, e-mails, undone registrations, late confirmations and *)
(* restarts add up to the simple life of a membership.                     *)
ImplementsMembership == Abstract!MembershipSpec

=============================================================================
