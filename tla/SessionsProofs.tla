--------------------------- MODULE SessionsProofs ---------------------------
(***************************************************************************)
(* Proofs about module Sessions, for any handles, addresses, limits and    *)
(* bounds: a login keeps a persona, somebody can act through it for as     *)
(* long as its account has one, nobody acts for an account that was not    *)
(* confirmed, and logins, requests, e-mails and restarts implement module  *)
(* Membership.                                                             *)
(*                                                                         *)
(* Every step of Sessions is a step of Identity or leaves its tables       *)
(* alone, so that what module IdentityProofs proves of the rows of         *)
(* accounts and personas holds here as well (PromisesKept).                *)
(***************************************************************************)
EXTENDS Sessions, IdentityProofs, WellFoundedInduction

(* Logins belong to accounts that were confirmed and name some persona;    *)
(* what is being done with them acts as a persona of these accounts, or,   *)
(* when there is none to act as, as nobody.                                *)
Admitted(a) == a \in DOMAIN accounts /\ accounts[a].confirmed

Fits(a, p) == Admitted(a) /\ p \in PersonasOf(a) \cup {NoPersona}

LoginsFit == \A t \in DOMAIN logins : Admitted(logins[t].acc) /\ logins[t].p_id \in DOMAIN personas

RequestsFit ==
    /\ \A l \in loggingIn : Fits(l.acc, l.persona)
    /\ \A r \in requests :
           Fits(r.acc, r.persona) /\ r.token \in DOMAIN logins /\ logins[r.token].acc = r.acc

AccountsBounded == Len(accounts) <= AccountRows

SessionsOK == PersonasOK /\ SessionsTypeOK /\ LoginsFit /\ RequestsFit /\ AccountsBounded

-----------------------------------------------------------------------------
(* The active persona. *)

LEMMA OldestIn ==
    ASSUME NEW S, S \subseteq Nat, S # {}
    PROVE  Oldest(S) \in S
  <1>. DEFINE Before == {pair \in Nat \X Nat : pair[1] < pair[2]}
  <1>1. IsWellFoundedOn(Before, Nat)
    BY NatLessThanWellFounded DEF OpToRel
  <1>. HIDE DEF Before
  <1>2. \E p \in S : \A q \in S : <<q, p>> \notin Before
    BY <1>1, WFMin
  <1>3. \E p \in S : \A q \in S : ~(q < p)
    BY <1>2 DEF Before
  <1>4. \E p \in S : \A q \in S : p <= q
    BY <1>3
  <1>. QED
    BY <1>4 DEF Oldest

(* As long as an account has a live persona one of them is active. *)
LEMMA ActiveIsLive ==
    ASSUME StructureOK, NEW a, NEW active
    PROVE  /\ LivePersonas(a) # {} => ActivePersona(a, active) \in LivePersonas(a)
           /\ ActivePersona(a, active) \in PersonasOf(a) \cup {NoPersona}
           /\ ActivePersona(a, active) \in Nat
  <1>2. LivePersonas(a) \subseteq PersonasOf(a) /\ PersonasOf(a) \subseteq Nat \ {0}
    BY RowTypes DEF StructureOK, LivePersonas, PersonasOf
  <1>3. \A S : S \subseteq LivePersonas(a) /\ S # {} => Oldest(S) \in LivePersonas(a)
    BY <1>2, OldestIn
  <1>4. LivePersonas(a) # {} => ActivePersona(a, active) \in LivePersonas(a)
    BY <1>3 DEF ActivePersona
  <1>5. LivePersonas(a) = {} => ActivePersona(a, active) = NoPersona
    BY DEF ActivePersona
  <1>. QED
    BY <1>2, <1>4, <1>5 DEF NoPersona

-----------------------------------------------------------------------------
(* Steps of Sessions are steps of Identity. *)

LEMMA SessionsRefineIdentity ==
    ASSUME SessionsOK, [SessionsNext]_allVars
    PROVE  [Next]_vars
  <1>1. CASE Anonymous
    BY <1>1 DEF Anonymous, Next
  <1>2. CASE CrashAll
    BY <1>2 DEF CrashAll, Next
  <1>3. ASSUME NEW r \in requests, Handle(r) PROVE [Next]_vars
    <2>1. /\ r.acc \in DOMAIN accounts
          /\ r.persona # NoPersona => r.persona \in DOMAIN personas
      BY DEF SessionsOK, RequestsFit, Fits, Admitted, PersonasOf
    <2>2. \A p \in DOMAIN personas : DeletePersonaAndMove(r, p) => DeletePersona(r.acc, p)
      BY DEF DeletePersonaAndMove
    <2>3. CASE UNCHANGED vars
      BY <2>3
    <2>4. CASE \E p \in DOMAIN personas : DeletePersona(r.acc, p)
      BY <2>1, <2>4 DEF Next
    <2>5. CASE \/ DeleteAccount(r.acc)
               \/ \E email \in Emails : ChangeEmail(r.acc, email)
               \/ \E handle \in Handles : NewPersona(r.acc, handle)
      BY <2>1, <2>5 DEF Next
    <2>6. CASE \E handle \in Handles : r.persona # NoPersona /\ UpdateIdentity(r.persona, handle)
      BY <2>1, <2>6 DEF Next
    <2>. QED
      BY <1>3, <2>2, <2>3, <2>4, <2>5, <2>6 DEF Handle, Logout, Switch
  <1>4. CASE UNCHANGED vars
    BY <1>4
  <1>. QED
    BY <1>1, <1>2, <1>3, <1>4
       DEF SessionsNext, allVars, LoginByHandle, LoginByEmail, StartLogin, InsertLogin, LoginRefused,
           Authenticate

LEMMA FitsStay ==
    ASSUME SessionsOK, [SessionsNext]_allVars
    PROVE  /\ \A a : Admitted(a) => Admitted(a)'
           /\ \A a, p : Fits(a, p) => Fits(a, p)'
           /\ DOMAIN personas \subseteq DOMAIN personas'
  <1>1. [Next]_vars /\ StructureOK
    BY SessionsRefineIdentity DEF SessionsOK, PersonasOK
  <1>. QED
    BY <1>1, AccountsStay, PersonasStay DEF Fits, Admitted, PersonasOf

LEMMA FitsTyped ==
    ASSUME StructureOK, NEW a, NEW p, Fits(a, p)
    PROVE  /\ a \in Nat \ {0} /\ p \in Nat
           /\ p # NoPersona => p \in DOMAIN personas
  BY RowTypes DEF StructureOK, Fits, Admitted, PersonasOf, NoPersona

-----------------------------------------------------------------------------
(* Logins. *)

LEMMA LoginRowType ==
    ASSUME NEW acc \in Nat \ {0}, NEW p \in Nat, NEW present \in BOOLEAN
    PROVE  [acc |-> acc, p_id |-> p, present |-> present] \in LoginRow
  BY DEF LoginRow

LEMMA LoginInserted ==
    ASSUME SessionsOK, NEW l \in loggingIn, InsertLogin(l)
    PROVE  /\ logins' \in Seq(LoginRow)
           /\ DOMAIN logins \subseteq DOMAIN logins'
           /\ \A t \in DOMAIN logins : logins'[t] = logins[t]
           /\ \A t \in DOMAIN logins' \ DOMAIN logins :
                  Admitted(logins'[t].acc) /\ logins'[t].p_id \in DOMAIN personas
  <1>. DEFINE row == [acc |-> l.acc, p_id |-> l.persona, present |-> TRUE]
  <1>1. /\ l.acc \in Nat \ {0} /\ l.persona \in Nat
        /\ Admitted(l.acc) /\ l.persona \in DOMAIN personas
    BY FitsTyped DEF SessionsOK, PersonasOK, RequestsFit, Fits, InsertLogin
  <1>2. row \in LoginRow /\ row.acc = l.acc /\ row.p_id = l.persona
    BY <1>1, LoginRowType
  <1>3. logins' = Append(logins, row)
    BY DEF InsertLogin
  <1>. HIDE DEF row
  <1>. QED
    BY <1>1, <1>2, <1>3, InsertRow DEF SessionsOK, SessionsTypeOK

(* UPDATEs of logins: what Switch, Logout and DeletePersona do to the row  *)
(* of the request's token.                                                 *)
LEMMA LoginUpdated ==
    ASSUME SessionsOK, NEW r \in requests,
           NEW p \in DOMAIN personas,
           \/ logins' = logins
           \/ logins' = [logins EXCEPT ![r.token].p_id = p]
           \/ logins' = [logins EXCEPT ![r.token].present = FALSE]
    PROVE  /\ logins' \in Seq(LoginRow)
           /\ DOMAIN logins' = DOMAIN logins
           /\ \A t \in DOMAIN logins : /\ logins'[t].acc = logins[t].acc
                                       /\ logins'[t].p_id \in DOMAIN personas
  <1>1. logins \in Seq(LoginRow) /\ \A t \in DOMAIN logins : logins[t] \in LoginRow
    BY TableDomain DEF SessionsOK, SessionsTypeOK
  <1>2. p \in Nat
    BY RowTypes DEF SessionsOK, PersonasOK, StructureOK
  <1>3. CASE logins' = logins
    BY <1>1, <1>3 DEF SessionsOK, LoginsFit
  <1>4. CASE logins' # logins
    <2>1. \A t \in DOMAIN logins :
              /\ logins'[t] \in LoginRow
              /\ logins'[t].acc = logins[t].acc
              /\ logins'[t].p_id # logins[t].p_id => t = r.token /\ logins'[t].p_id = p
      <3>1. CASE logins' = [logins EXCEPT ![r.token].p_id = p]
        BY <1>1, <1>2, <3>1 DEF LoginRow
      <3>2. CASE logins' = [logins EXCEPT ![r.token].present = FALSE]
        BY <1>1, <3>2 DEF LoginRow
      <3>. QED
        BY <1>4, <3>1, <3>2
    <2>2. logins' = [t \in DOMAIN logins |-> logins'[t]]
      BY <1>1, <1>4
    <2>3. logins' \in Seq(LoginRow) /\ DOMAIN logins' = DOMAIN logins
      BY <1>1, <2>1, <2>2, UpdateRows
    <2>4. \A t \in DOMAIN logins : logins'[t].p_id \in DOMAIN personas
      BY <2>1 DEF SessionsOK, LoginsFit
    <2>. QED
      BY <2>1, <2>3, <2>4
  <1>. QED
    BY <1>3, <1>4

(* The login that deletes the persona it names moves to another. *)
LEMMA DeletePersonaMoves ==
    ASSUME SessionsOK, NEW r \in requests, NEW p \in DOMAIN personas, DeletePersonaAndMove(r, p)
    PROVE  \E moved \in DOMAIN personas : logins' = [logins EXCEPT ![r.token].p_id = moved]
  <1>. DEFINE defaults == {q \in PersonasOf(r.acc) :
                               personas[q].default_p \/ q \in Successors(r.acc, p)}
              login == logins[r.token]
              moved == IF login.p_id # p THEN login.p_id
                       ELSE IF defaults = {} THEN NoPersona
                       ELSE Oldest(defaults)
  <1>1. moved # NoPersona /\ logins' = [logins EXCEPT ![r.token].p_id = moved]
    BY DEF DeletePersonaAndMove
  <1>2. login.p_id \in DOMAIN personas
    BY DEF SessionsOK, LoginsFit, RequestsFit
  <1>3. \A q \in PersonasOf(r.acc) : q \in Nat /\ q \in DOMAIN personas
    BY RowTypes DEF SessionsOK, PersonasOK, StructureOK, PersonasOf
  <1>4. defaults # {} => Oldest(defaults) \in defaults
    BY <1>3, OldestIn
  <1>. QED
    BY <1>1, <1>2, <1>3, <1>4

LEMMA LoginsStep ==
    ASSUME SessionsOK, [SessionsNext]_allVars
    PROVE  /\ logins' \in Seq(LoginRow)
           /\ DOMAIN logins \subseteq DOMAIN logins'
           /\ \A t \in DOMAIN logins : logins'[t].acc = logins[t].acc
           /\ LoginsFit'
  <1>. DEFINE Goal == /\ logins' \in Seq(LoginRow)
                      /\ DOMAIN logins \subseteq DOMAIN logins'
                      /\ \A t \in DOMAIN logins : logins'[t].acc = logins[t].acc
                      /\ LoginsFit'
  <1>. SUFFICES Goal
    OBVIOUS
  <1>1. ASSUME logins' = logins PROVE Goal
    BY <1>1, FitsStay DEF SessionsOK, SessionsTypeOK, LoginsFit
  <1>2. ASSUME NEW l \in loggingIn, InsertLogin(l) PROVE Goal
    BY <1>2, LoginInserted, FitsStay DEF SessionsOK, LoginsFit
  <1>3. ASSUME NEW r \in requests, NEW p \in DOMAIN personas,
               \/ logins' = [logins EXCEPT ![r.token].p_id = p]
               \/ logins' = [logins EXCEPT ![r.token].present = FALSE]
        PROVE  Goal
    <2>1. /\ logins' \in Seq(LoginRow)
          /\ DOMAIN logins' = DOMAIN logins
          /\ \A t \in DOMAIN logins : /\ logins'[t].acc = logins[t].acc
                                      /\ logins'[t].p_id \in DOMAIN personas
      BY <1>3, LoginUpdated
    <2>2. \A t \in DOMAIN logins' : Admitted(logins[t].acc)' /\ logins'[t].p_id \in DOMAIN personas'
      BY <2>1, FitsStay DEF SessionsOK, LoginsFit, Admitted
    <2>. QED
      BY <2>1, <2>2 DEF LoginsFit, Admitted
  <1>4. ASSUME NEW r \in requests, Handle(r) PROVE Goal
    <2>1. \E p : p \in DOMAIN personas
      BY DEF SessionsOK, RequestsFit, LoginsFit
    <2>2. CASE logins' = logins
      BY <1>1, <2>2
    <2>3. CASE Logout(r)
      BY <1>3, <2>1, <2>3 DEF Logout
    <2>4. ASSUME NEW p \in DOMAIN personas, Switch(r, p) PROVE Goal
      BY <1>1, <1>3, <2>4 DEF Switch
    <2>5. ASSUME NEW p \in DOMAIN personas, DeletePersonaAndMove(r, p) PROVE Goal
      BY <1>3, <2>5, DeletePersonaMoves
    <2>. QED
      BY <1>4, <2>2, <2>3, <2>4, <2>5 DEF Handle
  <1>. HIDE DEF Goal
  <1>5. CASE SessionsNext
    BY <1>1, <1>2, <1>4, <1>5
       DEF SessionsNext, sessionVars, CrashAll, LoginByHandle, LoginByEmail, StartLogin, LoginRefused,
           Authenticate
  <1>6. CASE UNCHANGED allVars
    BY <1>1, <1>6 DEF allVars, sessionVars
  <1>. QED
    BY <1>5, <1>6

-----------------------------------------------------------------------------
(* Login calls and requests in progress. *)

LEMMA AuthenticateFits ==
    ASSUME SessionsOK, NEW t \in DOMAIN logins, Authenticate(t)
    PROVE  \E r : /\ requests' = requests \cup {r}
                  /\ r \in [token : Nat \ {0}, acc : Nat \ {0}, persona : Nat]
                  /\ Fits(r.acc, r.persona) /\ r.token = t /\ r.acc = logins[t].acc
                  /\ Registered(r.acc)
  <1>. DEFINE p == ActivePersona(logins[t].acc, {logins[t].p_id})
              r == [token |-> t, acc |-> logins[t].acc, persona |-> p]
  <1>1. requests' = requests \cup {r} /\ Registered(logins[t].acc)
    BY DEF Authenticate
  <1>2. Admitted(logins[t].acc) /\ t \in Nat \ {0}
    BY TableDomain DEF SessionsOK, SessionsTypeOK, LoginsFit
  <1>3. Fits(logins[t].acc, p) /\ p \in Nat /\ logins[t].acc \in Nat \ {0}
    BY <1>2, ActiveIsLive, FitsTyped DEF SessionsOK, PersonasOK, Fits
  <1>. HIDE DEF p
  <1>4. /\ r \in [token : Nat \ {0}, acc : Nat \ {0}, persona : Nat]
        /\ r.token = t /\ r.acc = logins[t].acc /\ r.persona = p
    BY <1>2, <1>3
  <1>. HIDE DEF r
  <1>5. Fits(r.acc, r.persona) /\ Registered(r.acc)
    BY <1>1, <1>3, <1>4
  <1>. QED
    BY <1>1, <1>4, <1>5

LEMMA StartLoginFits ==
    ASSUME SessionsOK, NEW a \in DOMAIN accounts, NEW active, StartLogin(a, active)
    PROVE  \E l : /\ loggingIn' = loggingIn \cup {l}
                  /\ l \in [acc : Nat \ {0}, persona : Nat]
                  /\ Fits(l.acc, l.persona)
  <1>. DEFINE p == ActivePersona(a, active)
              l == [acc |-> a, persona |-> p]
  <1>1. loggingIn' = loggingIn \cup {l} /\ accounts[a].confirmed
    BY DEF StartLogin, Registered
  <1>2. Fits(a, p) /\ p \in Nat /\ a \in Nat \ {0}
    BY <1>1, ActiveIsLive, FitsTyped DEF SessionsOK, PersonasOK, Fits, Admitted
  <1>. HIDE DEF p
  <1>3. l \in [acc : Nat \ {0}, persona : Nat] /\ l.acc = a /\ l.persona = p
    BY <1>2
  <1>. HIDE DEF l
  <1>4. Fits(l.acc, l.persona)
    BY <1>2, <1>3
  <1>. QED
    BY <1>1, <1>3, <1>4

LEMMA LoginCalls ==
    ASSUME SessionsOK, NEW l \in loggingIn
    PROVE  l \in [acc : Nat \ {0}, persona : Nat] /\ Fits(l.acc, l.persona)
  BY DEF SessionsOK, SessionsTypeOK, RequestsFit

LEMMA RequestsStep ==
    ASSUME SessionsOK, [SessionsNext]_allVars
    PROVE  /\ loggingIn' \subseteq [acc : Nat \ {0}, persona : Nat]
           /\ requests' \subseteq [token : Nat \ {0}, acc : Nat \ {0}, persona : Nat]
           /\ RequestsFit'
  <1>1. \A l \in loggingIn' \ loggingIn :
            l \in [acc : Nat \ {0}, persona : Nat] /\ Fits(l.acc, l.persona)
    <2>1. ASSUME NEW a \in DOMAIN accounts, NEW active, StartLogin(a, active)
          PROVE  \A l \in loggingIn' \ loggingIn :
                     l \in [acc : Nat \ {0}, persona : Nat] /\ Fits(l.acc, l.persona)
      BY <2>1, StartLoginFits
    <2>2. ASSUME NEW handle, LoginByHandle(handle)
          PROVE  \E a \in DOMAIN accounts : \E active : StartLogin(a, active)
      BY <2>2 DEF LoginByHandle, WithHandle, SessionsOK, PersonasOK, StructureOK, ReferencesOK
    <2>3. ASSUME NEW email, LoginByEmail(email)
          PROVE  \E a \in DOMAIN accounts : \E active : StartLogin(a, active)
      BY <2>3 DEF LoginByEmail
    <2>4. CASE loggingIn' \subseteq loggingIn
      BY <2>4
    <2>. QED
      BY <2>1, <2>2, <2>3, <2>4
         DEF SessionsNext, allVars, sessionVars, CrashAll, InsertLogin, LoginRefused, Authenticate,
             Handle, Answer
  <1>2. \A r \in requests' \ requests :
            /\ r \in [token : Nat \ {0}, acc : Nat \ {0}, persona : Nat]
            /\ Fits(r.acc, r.persona) /\ r.token \in DOMAIN logins /\ r.acc = logins[r.token].acc
    <2>1. ASSUME NEW t \in DOMAIN logins, Authenticate(t)
          PROVE  \A r \in requests' \ requests :
                     /\ r \in [token : Nat \ {0}, acc : Nat \ {0}, persona : Nat]
                     /\ Fits(r.acc, r.persona) /\ r.token \in DOMAIN logins
                     /\ r.acc = logins[r.token].acc
      BY <2>1, AuthenticateFits
    <2>2. CASE requests' \subseteq requests
      BY <2>2
    <2>. QED
      BY <2>1, <2>2
         DEF SessionsNext, allVars, sessionVars, CrashAll, InsertLogin, LoginRefused, LoginByHandle,
             LoginByEmail, StartLogin, Handle, Answer
  <1>3. \A l \in loggingIn' : Fits(l.acc, l.persona)
    BY <1>1 DEF SessionsOK, RequestsFit
  <1>4. \A r \in requests' :
            Fits(r.acc, r.persona) /\ r.token \in DOMAIN logins /\ r.acc = logins[r.token].acc
    BY <1>2 DEF SessionsOK, RequestsFit
  <1>5. \A a, p : Fits(a, p) => Fits(a, p)'
    BY FitsStay
  <1>6. \A l \in loggingIn' : Fits(l.acc, l.persona)'
    BY <1>3, <1>5
  <1>7. \A r \in requests' : Fits(r.acc, r.persona)'
    BY <1>4, <1>5
  <1>8. RequestsFit'
    BY <1>4, <1>6, <1>7, LoginsStep DEF RequestsFit
  <1>. QED
    BY <1>1, <1>2, <1>8 DEF SessionsOK, SessionsTypeOK

LEMMA BoundedStep ==
    ASSUME SessionsOK, [SessionsNext]_allVars
    PROVE  AccountsBounded'
  <1>1. StructureOK /\ [Next]_vars
    BY SessionsRefineIdentity DEF SessionsOK, PersonasOK
  <1>2. Len(accounts) \in Nat /\ DOMAIN accounts = 1..Len(accounts) /\ AccountRows \in Nat
    BY <1>1, TableDomain, BoundsAssumption DEF StructureOK, TypeOK
  <1>3. ASSUME NEW handle \in Handles, NEW email \in Emails, NEW confirmed \in BOOLEAN,
               InsertAccount(handle, email, confirmed)
        PROVE  AccountsBounded'
    <2>1. accounts \in Seq(AccountRow) /\ [email |-> email, confirmed |-> confirmed, deleted |-> FALSE] \in AccountRow
      BY <1>1 DEF StructureOK, TypeOK, AccountRow
    <2>2. Len(accounts') = Len(accounts) + 1
      BY <1>3, <2>1, AppendProperties DEF InsertAccount
    <2>. QED
      BY <1>2, <1>3, <2>2 DEF InsertAccount, AccountsBounded
  <1>4. ASSUME NEW a, NEW email \in Emails, Updated(a, email) PROVE AccountsBounded'
    <2>1. accounts' \in Seq(AccountRow) /\ DOMAIN accounts' = DOMAIN accounts
      BY <1>1, <1>4, AccountUpdate DEF StructureOK, Updated
    <2>2. Len(accounts') \in Nat /\ DOMAIN accounts' = 1..Len(accounts')
      BY <2>1, TableDomain
    <2>3. Len(accounts') = Len(accounts)
      BY <1>2, <2>1, <2>2
    <2>. QED
      BY <2>3 DEF SessionsOK, AccountsBounded
  <1>5. CASE accounts' = accounts
    BY <1>5 DEF SessionsOK, AccountsBounded
  <1>. QED
    BY <1>1, <1>3, <1>4, <1>5, AccountsStep

-----------------------------------------------------------------------------

LEMMA SessionsInductive == SessionsSpec => []SessionsOK
  <1>1. SessionsInit => SessionsOK
    <2>. SUFFICES ASSUME SessionsInit PROVE SessionsOK
      OBVIOUS
    <2>1. PersonasOK
      BY PersonasInit DEF SessionsInit
    <2>2. AccountsBounded
      BY BoundsAssumption DEF SessionsInit, Init, AccountsBounded
    <2>3. SessionsTypeOK /\ LoginsFit /\ RequestsFit
      BY <2>1, EmptySeq DEF SessionsInit, SessionsTypeOK, LoginsFit, RequestsFit, PersonasOK, StructureOK
    <2>. QED
      BY <2>1, <2>2, <2>3 DEF SessionsOK
  <1>2. SessionsOK /\ [SessionsNext]_allVars => SessionsOK'
    <2>. SUFFICES ASSUME SessionsOK, [SessionsNext]_allVars PROVE SessionsOK'
      OBVIOUS
    <2>1. PersonasOK'
      BY SessionsRefineIdentity, PersonasStep DEF SessionsOK
    <2>2. SessionsTypeOK'
      BY <2>1, LoginsStep, RequestsStep DEF SessionsTypeOK, PersonasOK, StructureOK, LoginsFit, Admitted
    <2>. QED
      BY <2>1, <2>2, LoginsStep, RequestsStep, BoundedStep DEF SessionsOK
  <1>. QED
    BY <1>1, <1>2, PTL DEF SessionsSpec

(* Logins, login calls and requests are well typed. *)
THEOREM SessionsTyped == SessionsSpec => []SessionsTypeOK
  <1>1. SessionsOK => SessionsTypeOK
    BY DEF SessionsOK
  <1>. QED
    BY <1>1, SessionsInductive, PTL

(* A login always names a persona: one that Login found live, one that     *)
(* Switch stored without asking whose it is, or the one DeletePersona      *)
(* moved it to; when there is none, these transactions do not commit.      *)
THEOREM LoginsKeepPersona == SessionsSpec => []LoginKeepsPersona
  <1>1. SessionsOK => LoginKeepsPersona
    BY DEF SessionsOK, LoginsFit, LoginKeepsPersona
  <1>. QED
    BY <1>1, SessionsInductive, PTL

(* No login is made and no request authenticated for an account that was   *)
(* not confirmed, and a request acts as a persona of its own account,      *)
(* whichever persona its login names: RetrieveByToken lists only those.    *)
THEOREM ConfirmedAct == SessionsSpec => []OnlyConfirmedAct
  <1>1. SessionsOK => OnlyConfirmedAct
    BY DEF SessionsOK, LoginsFit, RequestsFit, Fits, Admitted, OnlyConfirmedAct
  <1>. QED
    BY <1>1, SessionsInductive, PTL

(* Only DeletePersona, on behalf of a request, changes the flag of a       *)
(* persona.                                                                *)
LEMMA FlagsKept ==
    ASSUME SessionsOK, [SessionsNext]_allVars, NEW q \in DOMAIN personas,
           personas'[q].deleted # personas[q].deleted
    PROVE  \E r \in requests, p \in DOMAIN personas : DeletePersonaAndMove(r, p)
  <1>0. StructureOK
    BY DEF SessionsOK, PersonasOK
  <1>1. personas' # personas
    OBVIOUS
  <1>2. ASSUME NEW handle \in Handles, NEW email \in Emails, NEW confirmed \in BOOLEAN,
               InsertAccount(handle, email, confirmed)
        PROVE  FALSE
    <2>1. personas'[q] = personas[q]
      BY <1>0, <1>2, InsertAccountType DEF StructureOK
    <2>. QED
      BY <2>1
  <1>3. ~Anonymous
    <2>1. ~Boot
      BY <1>1, <1>2, ConfigAssumption DEF Boot
    <2>2. ASSUME NEW handle \in Handles, NEW email \in Emails, Create(handle, email) \/ Reserve(handle, email)
          PROVE  FALSE
      BY <1>1, <1>2, <2>2 DEF Create, Reserve
    <2>3. ASSUME NEW s, EmailSent(s) \/ EmailFails(s) \/ UndoCreate(s)
          PROVE  FALSE
      BY <1>1, <2>3 DEF EmailSent, EmailFails, UndoCreate, Delete
    <2>4. ASSUME NEW x, ConfirmReservation(x) \/ ConfirmEmail(x) \/ ConfirmAccount(x)
          PROVE  FALSE
      BY <1>1, <2>4 DEF ConfirmReservation, ConfirmEmail, ConfirmAccount
    <2>. QED
      BY <2>1, <2>2, <2>3, <2>4 DEF Anonymous
  <1>4. ASSUME NEW r \in requests, Handle(r)
        PROVE  \E p \in DOMAIN personas : DeletePersonaAndMove(r, p)
    <2>1. r.acc \in DOMAIN accounts /\ (r.persona # NoPersona => r.persona \in DOMAIN personas)
      BY <1>0, FitsTyped DEF SessionsOK, RequestsFit, Fits, Admitted
    <2>2. ASSUME NEW handle \in Handles, NewPersona(r.acc, handle)
          PROVE  FALSE
      <3>1. personas'[q] = personas[q]
        BY <1>0, <2>1, <2>2, NewPersonaRows
      <3>. QED
        BY <3>1
    <2>3. ASSUME NEW handle \in Handles, r.persona # NoPersona, UpdateIdentity(r.persona, handle)
          PROVE  FALSE
      BY <1>0, <2>1, <2>3, UpdateIdentityRows
    <2>4. ASSUME UNCHANGED vars \/ DeleteAccount(r.acc) \/ \E email \in Emails : ChangeEmail(r.acc, email)
          PROVE  FALSE
      BY <1>1, <2>4 DEF vars, DeleteAccount, Delete, ChangeEmail
    <2>. QED
      BY <1>4, <2>2, <2>3, <2>4 DEF Handle, Logout, Switch
  <1>5. ~UNCHANGED vars
    BY <1>1 DEF vars
  <1>. QED
    BY <1>1, <1>3, <1>4, <1>5
       DEF SessionsNext, allVars, CrashAll, Crash, LoginByHandle, LoginByEmail, StartLogin, InsertLogin,
           LoginRefused, Authenticate

SomeoneActive ==
    \A t \in DOMAIN logins : LivePersonas(logins[t].acc) # {} =>
        ActivePersona(logins[t].acc, {logins[t].p_id}) \in LivePersonas(logins[t].acc)

(* A login that stops being able to act, though it is still there and its  *)
(* account is not deleted, has lost the last live persona of its account.  *)
LEMMA LosesLastPersona ==
    ASSUME SessionsOK, SomeoneActive', [SessionsNext]_allVars, NEW t \in DOMAIN logins,
           CanAct(t), ~CanAct(t)'
    PROVE  StopsActingFor(t)
  <1>. PICK a : a = logins[t].acc
    OBVIOUS
  <1>1. StructureOK /\ [Next]_vars
    BY SessionsRefineIdentity DEF SessionsOK, PersonasOK
  <1>2. a \in DOMAIN accounts /\ accounts[a].confirmed
    BY DEF SessionsOK, LoginsFit, Admitted
  <1>3. /\ t \in DOMAIN logins' /\ logins'[t].acc = a
        /\ a \in DOMAIN accounts' /\ accounts'[a].confirmed
    BY <1>1, <1>2, LoginsStep, AccountsStay
  <1>. SUFFICES ASSUME logins'[t].present, ~accounts'[a].deleted
                PROVE  \E r \in requests, p \in LivePersonas(a) : r.acc # a /\ DeletePersonaAndMove(r, p)
    BY DEF StopsActingFor
  <1>4. LivePersonas(logins[t].acc)' = {}
    BY <1>3 DEF SomeoneActive, CanAct, Registered
  <1>5. LivePersonas(a)' = {}
    BY <1>3, <1>4 DEF LivePersonas, PersonasOf
  <1>6. PICK q : q \in LivePersonas(a)
    BY DEF CanAct
  <1>7. q \in DOMAIN personas /\ personas[q].acc = a /\ IsNull(personas[q].deleted)
    BY <1>6 DEF LivePersonas, PersonasOf
  <1>8. q \in DOMAIN personas' /\ personas'[q].acc = a
    BY <1>1, <1>7, PersonasStay
  <1>9. personas'[q].deleted # personas[q].deleted
    BY <1>5, <1>7, <1>8 DEF LivePersonas, PersonasOf
  <1>10. \E r \in requests, p \in DOMAIN personas : DeletePersonaAndMove(r, p)
    BY <1>7, <1>9, FlagsKept
  <1>11. PICK r \in requests, p \in DOMAIN personas : DeletePersonaAndMove(r, p)
    BY <1>10
  <1>12. DeletePersona(r.acc, p) /\ r.acc \in DOMAIN accounts
    BY <1>11 DEF DeletePersonaAndMove, SessionsOK, RequestsFit, Fits, Admitted
  <1>13. LivePersonas(a)' = LivePersonas(a) \ {p}
    BY <1>12, PersonasDeleted DEF SessionsOK
  <1>14. LivePersonas(a) = {p}
    BY <1>5, <1>6, <1>13
  <1>15. r.acc # a
    <2>1. Cardinality(LivePersonas(r.acc)) >= 2
      BY <1>12 DEF DeletePersona
    <2>2. Cardinality({p}) = 1
      BY FS_Singleton
    <2>. QED
      BY <1>14, <2>1, <2>2
  <1>. QED
    BY <1>11, <1>14, <1>15

(* A login goes on having somebody to act as: RetrieveByToken finds a live *)
(* persona of the account whichever persona the login names, and requests  *)
(* of the account never delete its last one.  Only one made for another    *)
(* account can, besides a logout and the deletion of the account.          *)
THEOREM AlwaysSomeone == SessionsSpec => SomeoneToActAs
  <1>. DEFINE Step == \A t \in DOMAIN logins : CanAct(t) /\ ~CanAct(t)' => StopsActingFor(t)
  <1>1. SessionsOK => SomeoneActive
    BY ActiveIsLive DEF SessionsOK, PersonasOK, SomeoneActive
  <1>2. SessionsOK /\ SomeoneActive' /\ [SessionsNext]_allVars => [Step]_allVars
    BY LosesLastPersona
  <1>. QED
    BY <1>1, <1>2, SessionsInductive, PTL DEF SessionsSpec, SomeoneToActAs

-----------------------------------------------------------------------------
(* Module Membership is implemented: what each step does to the status of  *)
(* the accounts and to the accounts some request acts for.                 *)

Statuses == [a \in 1..AccountRows |-> StatusOf(a)]
Acting == {r.acc : r \in requests}

LEMMA AccountIds ==
    ASSUME SessionsOK
    PROVE  /\ \A a \in DOMAIN accounts : a \in 1..AccountRows /\ accounts[a] \in AccountRow
           /\ Acting \subseteq 1..AccountRows
  <1>1. accounts \in Seq(AccountRow)
    BY DEF SessionsOK, PersonasOK, StructureOK, TypeOK
  <1>2. /\ Len(accounts) \in Nat /\ DOMAIN accounts = 1..Len(accounts)
        /\ \A a \in DOMAIN accounts : accounts[a] \in AccountRow
    BY <1>1, TableDomain
  <1>3. \A a \in DOMAIN accounts : a \in 1..AccountRows
    BY <1>2, BoundsAssumption DEF SessionsOK, AccountsBounded
  <1>. QED
    BY <1>2, <1>3 DEF SessionsOK, RequestsFit, Fits, Admitted, Acting

LEMMA StatusKept ==
    ASSUME accounts' = accounts
    PROVE  Statuses' = Statuses
  BY DEF Statuses, StatusOf

LEMMA StatusInserted ==
    ASSUME SessionsOK, NEW handle \in Handles, NEW email \in Emails, NEW confirmed \in BOOLEAN,
           InsertAccount(handle, email, confirmed)
    PROVE  \E a \in 1..AccountRows :
               /\ Statuses[a] = "none"
               /\ Statuses' \in {[Statuses EXCEPT ![a] = s] : s \in {"applicant", "member"}}
  <1>. PICK a0 : a0 = Len(accounts) + 1
    OBVIOUS
  <1>1. /\ DOMAIN accounts' = DOMAIN accounts \cup {a0} /\ a0 \notin DOMAIN accounts
        /\ \A a \in DOMAIN accounts : accounts'[a] = accounts[a]
        /\ accounts'[a0] = [email |-> email, confirmed |-> confirmed, deleted |-> FALSE]
    BY InsertAccountType DEF SessionsOK, PersonasOK, StructureOK
  <1>2. a0 \in 1..AccountRows
    BY RowTypes, BoundsAssumption DEF SessionsOK, PersonasOK, StructureOK, InsertAccount
  <1>3. accounts'[a0].confirmed = confirmed /\ ~accounts'[a0].deleted
    BY <1>1
  <1>4. StatusOf(a0) = "none" /\ StatusOf(a0)' \in {"applicant", "member"}
    BY <1>1, <1>3 DEF StatusOf
  <1>5. \A a \in (1..AccountRows) \ {a0} : StatusOf(a)' = StatusOf(a)
    BY <1>1 DEF StatusOf
  <1>6. Statuses' = [Statuses EXCEPT ![a0] = StatusOf(a0)']
    BY <1>5 DEF Statuses
  <1>. QED
    BY <1>2, <1>4, <1>6 DEF Statuses

LEMMA StatusDeleted ==
    ASSUME SessionsOK, NEW a, Delete(a)
    PROVE  \/ Statuses' = Statuses
           \/ /\ a \in 1..AccountRows /\ Statuses[a] \in {"applicant", "member"}
              /\ Statuses' = [Statuses EXCEPT ![a] = "left"]
  <1>1. /\ DOMAIN accounts' = DOMAIN accounts
        /\ \A b \in DOMAIN accounts :
               /\ accounts'[b].confirmed = accounts[b].confirmed
               /\ accounts'[b].deleted = (accounts[b].deleted \/ b = a)
    BY AccountIds DEF Delete, AccountRow
  <1>2. \A b \in 1..AccountRows : b # a => StatusOf(b)' = StatusOf(b)
    BY <1>1 DEF StatusOf
  <1>3. CASE a \in DOMAIN accounts /\ ~accounts[a].deleted
    <2>1. a \in 1..AccountRows
      BY <1>3, AccountIds
    <2>2. StatusOf(a) \in {"applicant", "member"} /\ StatusOf(a)' = "left"
      BY <1>1, <1>3 DEF StatusOf
    <2>. QED
      BY <1>2, <2>1, <2>2 DEF Statuses
  <1>4. CASE ~(a \in DOMAIN accounts /\ ~accounts[a].deleted)
    <2>1. StatusOf(a)' = StatusOf(a)
      BY <1>1, <1>4 DEF StatusOf
    <2>. QED
      BY <1>2, <2>1 DEF Statuses
  <1>. QED
    BY <1>3, <1>4

LEMMA StatusConfirmed ==
    ASSUME SessionsOK, NEW a \in DOMAIN accounts, ConfirmAccount(a)
    PROVE  \/ Statuses' = Statuses
           \/ /\ a \in 1..AccountRows /\ Statuses[a] = "applicant"
              /\ Statuses' = [Statuses EXCEPT ![a] = "member"]
  <1>1. /\ DOMAIN accounts' = DOMAIN accounts
        /\ \A b \in DOMAIN accounts :
               /\ accounts'[b].deleted = accounts[b].deleted
               /\ accounts'[b].confirmed = (accounts[b].confirmed \/ b = a)
    BY AccountIds DEF ConfirmAccount, AccountRow
  <1>2. a \in 1..AccountRows /\ ~accounts[a].confirmed
    BY AccountIds DEF ConfirmAccount
  <1>3. \A b \in 1..AccountRows : b # a => StatusOf(b)' = StatusOf(b)
    BY <1>1 DEF StatusOf
  <1>4. CASE accounts[a].deleted
    <2>1. StatusOf(a)' = StatusOf(a)
      BY <1>1, <1>4 DEF StatusOf
    <2>. QED
      BY <1>3, <2>1 DEF Statuses
  <1>5. CASE ~accounts[a].deleted
    <2>1. StatusOf(a) = "applicant" /\ StatusOf(a)' = "member"
      BY <1>1, <1>2, <1>5 DEF StatusOf
    <2>. QED
      BY <1>2, <1>3, <2>1 DEF Statuses
  <1>. QED
    BY <1>4, <1>5

LEMMA StatusReaddressed ==
    ASSUME SessionsOK, NEW c, ConfirmEmail(c)
    PROVE  Statuses' = Statuses
  <1>1. /\ DOMAIN accounts' = DOMAIN accounts
        /\ \A b \in DOMAIN accounts :
               /\ accounts'[b].confirmed = accounts[b].confirmed
               /\ accounts'[b].deleted = accounts[b].deleted
    BY AccountIds DEF ConfirmEmail, AccountRow
  <1>2. \A b \in 1..AccountRows : StatusOf(b)' = StatusOf(b)
    BY <1>1 DEF StatusOf
  <1>. QED
    BY <1>2 DEF Statuses

LEMMA ActingKept ==
    ASSUME requests' = requests
    PROVE  Acting' = Acting
  BY DEF Acting

(* A request that is answered may have been one of several. *)
LEMMA ActingAnswered ==
    ASSUME NEW r \in requests, Answer(r)
    PROVE  Acting' \in {Acting, Acting \ {r.acc}}
  BY DEF Answer, Acting

MembershipStep == [Abstract!MembershipNext]_(Abstract!memberVars)

LEMMA MembershipSteps ==
    ASSUME NEW a \in 1..AccountRows
    PROVE  /\ Statuses' = Statuses /\ Acting' \in {Acting, {}, Acting \ {a}} => MembershipStep
           /\ Statuses[a] = "none" /\ Acting' = Acting
                  /\ Statuses' \in {[Statuses EXCEPT ![a] = s] : s \in {"applicant", "member"}}
              => MembershipStep
           /\ Statuses[a] = "applicant" /\ Acting' = Acting
                  /\ Statuses' = [Statuses EXCEPT ![a] = "member"]
              => MembershipStep
           /\ Statuses[a] \in {"applicant", "member"} /\ Acting' \in {Acting, Acting \ {a}}
                  /\ Statuses' = [Statuses EXCEPT ![a] = "left"]
              => MembershipStep
           /\ Statuses[a] = "member" /\ Acting' = Acting \cup {a} /\ Statuses' = Statuses
              => MembershipStep
  BY DEF MembershipStep, Statuses, Acting, Abstract!MembershipNext, Abstract!memberVars, Abstract!Apply,
         Abstract!Admit, Abstract!Leave, Abstract!Begin, Abstract!Finish, Abstract!Restart

LEMMA MembershipIdle ==
    ASSUME Statuses' = Statuses, Acting' \in {Acting, {}}
    PROVE  MembershipStep
  BY DEF MembershipStep, Statuses, Acting, Abstract!MembershipNext, Abstract!memberVars, Abstract!Restart

LEMMA AnonymousImplements ==
    ASSUME SessionsOK, Anonymous, UNCHANGED sessionVars
    PROVE  MembershipStep
  <1>0. Acting' = Acting
    BY ActingKept DEF sessionVars
  <1>1. ASSUME accounts' = accounts PROVE MembershipStep
    BY <1>0, <1>1, StatusKept, MembershipIdle
  <1>2. ASSUME NEW handle \in Handles, NEW email \in Emails, NEW confirmed \in BOOLEAN,
               InsertAccount(handle, email, confirmed)
        PROVE  MembershipStep
    BY <1>0, <1>2, StatusInserted, MembershipSteps
  <1>3. CASE Boot
    BY <1>1, <1>2, <1>3, ConfigAssumption DEF Boot
  <1>4. ASSUME NEW handle \in Handles, NEW email \in Emails, Create(handle, email) \/ Reserve(handle, email)
        PROVE  MembershipStep
    BY <1>1, <1>2, <1>4 DEF Create, Reserve
  <1>5. ASSUME NEW a, Delete(a) PROVE MembershipStep
    BY <1>0, <1>5, StatusDeleted, MembershipSteps, MembershipIdle
  <1>6. ASSUME NEW s \in sending, EmailSent(s) \/ EmailFails(s) \/ UndoCreate(s)
        PROVE  MembershipStep
    BY <1>1, <1>5, <1>6 DEF EmailSent, EmailFails, UndoCreate
  <1>7. ASSUME NEW r \in DOMAIN reserved, ConfirmReservation(r) PROVE MembershipStep
    BY <1>1, <1>7 DEF ConfirmReservation
  <1>8. ASSUME NEW a \in DOMAIN accounts, ConfirmAccount(a) PROVE MembershipStep
    BY <1>0, <1>8, StatusConfirmed, MembershipSteps, MembershipIdle
  <1>9. ASSUME NEW c \in changing, ConfirmEmail(c) PROVE MembershipStep
    BY <1>0, <1>9, StatusReaddressed, MembershipIdle
  <1>. QED
    BY <1>3, <1>4, <1>6, <1>7, <1>8, <1>9 DEF Anonymous

LEMMA AuthenticateImplements ==
    ASSUME SessionsOK, NEW t \in DOMAIN logins, Authenticate(t)
    PROVE  MembershipStep
  <1>1. PICK r : /\ requests' = requests \cup {r}
                 /\ Fits(r.acc, r.persona) /\ Registered(r.acc)
    BY AuthenticateFits
  <1>2. r.acc \in 1..AccountRows /\ r.acc \in DOMAIN accounts
    BY <1>1, AccountIds DEF Fits, Admitted
  <1>3. Statuses[r.acc] = "member"
    BY <1>1, <1>2 DEF Statuses, StatusOf, Registered
  <1>4. Acting' = Acting \cup {r.acc}
    BY <1>1 DEF Acting
  <1>5. Statuses' = Statuses
    BY StatusKept DEF Authenticate, vars
  <1>. QED
    BY <1>2, <1>3, <1>4, <1>5, MembershipSteps

LEMMA HandleImplements ==
    ASSUME SessionsOK, NEW r \in requests, Handle(r)
    PROVE  MembershipStep
  <1>1. Acting' \in {Acting, Acting \ {r.acc}}
    BY ActingAnswered DEF Handle
  <1>2. r.acc \in 1..AccountRows
    BY AccountIds DEF SessionsOK, RequestsFit, Fits, Admitted
  <1>3. CASE accounts' = accounts
    BY <1>1, <1>2, <1>3, StatusKept, MembershipSteps
  <1>4. CASE Delete(r.acc)
    BY <1>1, <1>2, <1>4, StatusDeleted, MembershipSteps
  <1>. QED
    BY <1>3, <1>4
       DEF Handle, Logout, Switch, DeletePersonaAndMove, DeletePersona, DeleteAccount, ChangeEmail,
           NewPersona, UpdateIdentity, vars

LEMMA SessionsImplement ==
    ASSUME SessionsOK, [SessionsNext]_allVars
    PROVE  MembershipStep
  <1>1. CASE Anonymous /\ UNCHANGED sessionVars
    BY <1>1, AnonymousImplements
  <1>2. ASSUME NEW t \in DOMAIN logins, Authenticate(t) PROVE MembershipStep
    BY <1>2, AuthenticateImplements
  <1>3. ASSUME NEW r \in requests, Handle(r) PROVE MembershipStep
    BY <1>3, HandleImplements
  <1>4. CASE CrashAll
    <2>1. Acting' = {}
      BY <1>4 DEF CrashAll, Acting
    <2>. QED
      BY <1>4, <2>1, StatusKept, MembershipIdle DEF CrashAll, Crash
  <1>5. CASE UNCHANGED <<accounts, requests>>
    BY <1>5, StatusKept, ActingKept, MembershipIdle
  <1>. QED
    BY <1>1, <1>2, <1>3, <1>4, <1>5
       DEF SessionsNext, allVars, vars, sessionVars, LoginByHandle, LoginByEmail, StartLogin, InsertLogin,
           LoginRefused

(* With logins and requests, the tables of accounts, personas and          *)
(* reservations do nothing that module Identity does not allow: what is    *)
(* proved of the safety of Identity holds of every login's requests too.   *)
THEOREM IdentityImplemented == SessionsSpec => Init /\ [][Next]_vars
  <1>1. SessionsInit => Init
    BY DEF SessionsInit
  <1>2. SessionsOK /\ [SessionsNext]_allVars => [Next]_vars
    BY SessionsRefineIdentity
  <1>. QED
    BY <1>1, <1>2, SessionsInductive, PTL DEF SessionsSpec

(* Logins, personas, e-mails that get lost, registrations that are undone, *)
(* confirmations that come late and restarts implement the simple life of  *)
(* a membership: only members start to act, and whoever left is out for    *)
(* good.                                                                   *)
THEOREM MembershipImplemented == SessionsSpec => ImplementsMembership
  <1>1. SessionsInit => Abstract!MembershipInit
    BY DEF SessionsInit, Init, Abstract!MembershipInit, StatusOf
  <1>2. SessionsOK /\ [SessionsNext]_allVars => [Abstract!MembershipNext]_(Abstract!memberVars)
    BY SessionsImplement DEF MembershipStep
  <1>. QED
    BY <1>1, <1>2, SessionsInductive, PTL DEF SessionsSpec, ImplementsMembership, Abstract!MembershipSpec

-----------------------------------------------------------------------------
(* What the refinements are good for. *)

(* What module Identity promises about personas, handles, addresses and    *)
(* reservations.                                                           *)
IdentityPromises ==
    /\ [](PersonaCount /\ DefaultSound)
    /\ LastPersonaKept /\ RedeemedByConfirmed
    /\ ClashOnlyByConfirming /\ ReservationKept

(* The handlers that run for a login, with an account that may have been   *)
(* deleted and a persona that may not be live since the request was        *)
(* authenticated, keep every promise of module Identity.                   *)
THEOREM PromisesKept == SessionsSpec => IdentityPromises
  <1>1. Init => PersonasOK
    BY PersonasInit
  <1>2. PersonasOK /\ [Next]_vars => PersonasOK'
    BY PersonasStep
  <1>3. PersonasOK => PersonaCount /\ DefaultSound
    BY DEF PersonasOK
  <1>4. PersonasOK /\ [Next]_vars => [LosesLastByAnother]_vars
    BY LastOneStep
  <1>5. PersonasOK /\ [Next]_vars => [RedeemsForItself]_vars
    BY RedeemedStep
  <1>6. PersonasOK /\ [Next]_vars => [ClashConfirms]_vars /\ [TakingReservedConfirms]_vars
    BY PublicStep DEF PersonasOK
  <1>. QED
    BY <1>1, <1>2, <1>3, <1>4, <1>5, <1>6, IdentityImplemented, PTL
       DEF IdentityPromises, LastPersonaKept, RedeemedByConfirmed, ClashOnlyByConfirming, ReservationKept

(* An account that has been deleted. *)
Left(a) == a \in DOMAIN accounts /\ accounts[a].deleted

(* Nothing brings a deleted account back, and no request is authenticated  *)
(* for it any more: those that act for it were acting before.              *)
LeftStaysOut ==
    \A a : Left(a) => Left(a)' /\ \A r \in requests' : r.acc = a => r \in requests

(* The requests of a step were there before it, but for one of a           *)
(* registered account.                                                     *)
LEMMA OnlyRegisteredBegin ==
    ASSUME SessionsOK, [SessionsNext]_allVars, NEW r \in requests' \ requests
    PROVE  Registered(r.acc)
  <1>1. ASSUME requests' \subseteq requests PROVE FALSE
    BY <1>1
  <1>2. ASSUME NEW t \in DOMAIN logins, Authenticate(t)
        PROVE  Registered(r.acc)
    BY <1>2, AuthenticateFits
  <1>3. \A q \in requests : Handle(q) => requests' \subseteq requests
    BY DEF Handle, Answer
  <1>. QED
    BY <1>1, <1>2, <1>3
       DEF SessionsNext, CrashAll, allVars, sessionVars, LoginByHandle, LoginByEmail, StartLogin, InsertLogin,
           LoginRefused

LEMMA LeftForGood ==
    ASSUME MembershipStep, NEW a \in 1..AccountRows, Statuses[a] = "left"
    PROVE  Statuses'[a] = "left"
  <1>. DEFINE Goal == Statuses'[a] = "left"
  <1>0. Statuses[a] # "none" /\ Statuses[a] # "applicant" /\ Statuses[a] # "member"
    OBVIOUS
  <1>1. CASE UNCHANGED <<Statuses, Acting>>
    BY <1>1
  <1>2. ASSUME NEW b \in 1..AccountRows,
               \/ Abstract!Apply(b) \/ Abstract!Admit(b) \/ Abstract!Leave(b)
               \/ Abstract!Begin(b) \/ Abstract!Finish(b)
        PROVE  Goal
    BY <1>0, <1>2 DEF Abstract!Apply, Abstract!Admit, Abstract!Leave, Abstract!Begin, Abstract!Finish,
                      Statuses, Acting
  <1>3. CASE Abstract!Restart
    BY <1>3 DEF Abstract!Restart, Statuses, Acting
  <1>. QED
    BY <1>1, <1>2, <1>3
       DEF MembershipStep, Abstract!MembershipNext, Abstract!memberVars, Statuses, Acting

(* Whoever deleted their account is out for good: no login, not even one   *)
(* whose row was inserted after the deletion, authenticates another        *)
(* request, so that the requests already running are the last ones, and a  *)
(* confirmation that comes late does not undo the deletion.                *)
THEOREM DeletedStayOut == SessionsSpec => [][LeftStaysOut]_allVars
  <1>1. ASSUME SessionsOK, [SessionsNext]_allVars
        PROVE  LeftStaysOut
    <2>1. ASSUME NEW a, Left(a)
          PROVE  Left(a)'
      <3>1. a \in 1..AccountRows /\ Statuses[a] = "left"
        BY <1>1, <2>1, AccountIds DEF Left, Statuses, StatusOf
      <3>2. Statuses'[a] = "left"
        BY <1>1, <3>1, SessionsImplement, LeftForGood
      <3>3. Statuses'[a] = StatusOf(a)'
        BY <3>1 DEF Statuses
      <3>4. StatusOf(a)' = "left" => Left(a)'
        BY DEF StatusOf, Left
      <3>. QED
        BY <3>2, <3>3, <3>4
    <2>2. ASSUME NEW a, Left(a), NEW r \in requests', r.acc = a
          PROVE  r \in requests
      BY <1>1, <2>2, OnlyRegisteredBegin DEF Left, Registered
    <2>. QED
      BY <2>1, <2>2 DEF LeftStaysOut
  <1>2. SessionsOK /\ [SessionsNext]_allVars => [LeftStaysOut]_allVars
    BY <1>1
  <1>. QED
    BY <1>2, SessionsInductive, PTL DEF SessionsSpec
=============================================================================
