--------------------------- MODULE IdentityProofs ---------------------------
(***************************************************************************)
(* Proofs about module Identity, for any handles, addresses, limits and    *)
(* bounds: its type invariant, that rows refer to rows that exist, what    *)
(* reservations keep, how many personas an account has and keeps, and      *)
(* that the attempts to send an e-mail are bounded.                        *)
(***************************************************************************)
EXTENDS Identity, FiniteSetTheorems, SequenceTheorems, TLAPS

(* Rows and messages refer to rows that exist. *)
ReferencesOK ==
    /\ \A p \in DOMAIN personas : personas[p].acc \in DOMAIN accounts
    /\ \A m \in inbox \cup {s.msg : s \in sending} :
           m.row \in IF m.kind = "register" THEN DOMAIN accounts ELSE DOMAIN reserved

-----------------------------------------------------------------------------
(* Facts about tables. *)

LEMMA TableDomain ==
    ASSUME NEW R, NEW table \in Seq(R)
    PROVE  /\ Len(table) \in Nat
           /\ DOMAIN table = 1..Len(table)
           /\ \A i \in DOMAIN table : table[i] \in R
  BY LenProperties, ElementOfSeq

LEMMA InsertRow ==
    ASSUME NEW R, NEW table \in Seq(R), NEW row \in R
    PROVE  /\ Append(table, row) \in Seq(R)
           /\ DOMAIN Append(table, row) = DOMAIN table \cup {Len(table) + 1}
           /\ Len(table) + 1 \notin DOMAIN table
           /\ Len(table) + 1 \in Nat \ {0}
           /\ \A i \in DOMAIN table : Append(table, row)[i] = table[i]
           /\ Append(table, row)[Len(table) + 1] = row
  <1>1. /\ Len(table) \in Nat
        /\ DOMAIN table = 1..Len(table)
    BY TableDomain
  <1>2. /\ Append(table, row) \in Seq(R)
        /\ Len(Append(table, row)) = Len(table) + 1
        /\ \A i \in 1..Len(table) : Append(table, row)[i] = table[i]
        /\ Append(table, row)[Len(table) + 1] = row
    BY <1>1
  <1>3. DOMAIN Append(table, row) = 1..(Len(table) + 1)
    BY <1>2, TableDomain
  <1>. QED
    BY <1>1, <1>2, <1>3

(* An UPDATE keeps the rows in place. *)
LEMMA UpdateRows ==
    ASSUME NEW R, NEW table \in Seq(R), NEW result,
           result = [i \in DOMAIN table |-> result[i]],
           \A i \in DOMAIN table : result[i] \in R
    PROVE  /\ result \in Seq(R)
           /\ DOMAIN result = DOMAIN table
  <1>1. DOMAIN table = 1..Len(table) /\ Len(table) \in Nat
    BY TableDomain
  <1>2. result \in [1..Len(table) -> R]
    BY <1>1
  <1>. QED
    BY <1>1, <1>2, SeqDef

-----------------------------------------------------------------------------
(* Types. *)

(* What the tables become when a first persona comes with its account. *)
LEMMA InsertAccountType ==
    ASSUME TypeOK, NEW handle \in Handles, NEW email \in Emails,
           NEW confirmed \in BOOLEAN, InsertAccount(handle, email, confirmed)
    PROVE  /\ accounts' \in Seq(AccountRow)
           /\ personas' \in Seq(PersonaRow)
           /\ DOMAIN accounts' = DOMAIN accounts \cup {Len(accounts) + 1}
           /\ DOMAIN personas' = DOMAIN personas \cup {Len(personas) + 1}
           /\ Len(accounts) + 1 \notin DOMAIN accounts
           /\ Len(personas) + 1 \notin DOMAIN personas
           /\ Len(accounts) + 1 \in Nat \ {0}
           /\ \A a \in DOMAIN accounts : accounts'[a] = accounts[a]
           /\ \A p \in DOMAIN personas : personas'[p] = personas[p]
           /\ accounts'[Len(accounts) + 1] =
                  [email |-> email, confirmed |-> confirmed, deleted |-> FALSE]
           /\ personas'[Len(personas) + 1] =
                  [acc |-> Len(accounts) + 1, handle |-> handle,
                   default_p |-> TRUE, deleted |-> "null"]
           /\ personas'[Len(personas) + 1].acc = Len(accounts) + 1
  <1> DEFINE account == [email |-> email, confirmed |-> confirmed, deleted |-> FALSE]
             persona == [acc |-> Len(accounts) + 1, handle |-> handle,
                         default_p |-> TRUE, deleted |-> "null"]
  <1>1. accounts \in Seq(AccountRow) /\ personas \in Seq(PersonaRow)
    BY DEF TypeOK
  <1>2. account \in AccountRow
    BY DEF AccountRow
  <1>3. Len(accounts) + 1 \in Nat \ {0}
    BY <1>1, <1>2, InsertRow
  <1>4. persona \in PersonaRow
    BY <1>3 DEF PersonaRow, Flag
  <1>5. accounts' = Append(accounts, account) /\ personas' = Append(personas, persona)
    BY DEF InsertAccount
  <1> HIDE DEF account, persona
  <1>6. /\ accounts' \in Seq(AccountRow)
        /\ DOMAIN accounts' = DOMAIN accounts \cup {Len(accounts) + 1}
        /\ Len(accounts) + 1 \notin DOMAIN accounts
        /\ \A a \in DOMAIN accounts : accounts'[a] = accounts[a]
        /\ accounts'[Len(accounts) + 1] = account
    BY <1>1, <1>2, <1>5, InsertRow
  <1>7. /\ personas' \in Seq(PersonaRow)
        /\ DOMAIN personas' = DOMAIN personas \cup {Len(personas) + 1}
        /\ Len(personas) + 1 \notin DOMAIN personas
        /\ \A p \in DOMAIN personas : personas'[p] = personas[p]
        /\ personas'[Len(personas) + 1] = persona
    BY <1>1, <1>4, <1>5, InsertRow
  <1>. QED
    BY <1>3, <1>6, <1>7 DEF account, persona

(* Flagging an account as deleted or confirmed, or giving it another       *)
(* address, takes neither flag from any account.                           *)
LEMMA AccountUpdate ==
    ASSUME TypeOK, NEW a, NEW email \in Emails,
           \/ accounts' = [accounts EXCEPT ![a].deleted = TRUE]
           \/ accounts' = [accounts EXCEPT ![a].confirmed = TRUE]
           \/ accounts' = [accounts EXCEPT ![a].email = email]
    PROVE  /\ accounts' \in Seq(AccountRow)
           /\ DOMAIN accounts' = DOMAIN accounts
           /\ \A b \in DOMAIN accounts :
                  /\ accounts[b].confirmed => accounts'[b].confirmed
                  /\ accounts[b].deleted => accounts'[b].deleted
  <1>1. accounts \in Seq(AccountRow) /\ \A b \in DOMAIN accounts : accounts[b] \in AccountRow
    BY TableDomain DEF TypeOK
  <1>2. accounts' = [b \in DOMAIN accounts |-> accounts'[b]]
    OBVIOUS
  <1>3. \A b \in DOMAIN accounts : accounts'[b] \in AccountRow
    BY <1>1 DEF AccountRow
  <1>4. accounts' \in Seq(AccountRow) /\ DOMAIN accounts' = DOMAIN accounts
    BY <1>1, <1>2, <1>3, UpdateRows
  <1>5. ASSUME NEW b \in DOMAIN accounts
        PROVE  /\ accounts[b].confirmed => accounts'[b].confirmed
               /\ accounts[b].deleted => accounts'[b].deleted
    BY <1>1 DEF AccountRow
  <1>. QED
    BY <1>4, <1>5

(* Facts about the rows that the type invariant and the references give. *)
LEMMA RowTypes ==
    ASSUME TypeOK
    PROVE  /\ accounts \in Seq(AccountRow)
           /\ personas \in Seq(PersonaRow)
           /\ reserved \in Seq(ReservedRow)
           /\ \A a \in DOMAIN accounts : a \in Nat \ {0} /\ accounts[a] \in AccountRow
           /\ \A p \in DOMAIN personas : p \in Nat \ {0} /\ personas[p] \in PersonaRow
           /\ \A r \in DOMAIN reserved : r \in Nat \ {0} /\ reserved[r] \in ReservedRow
           /\ Len(accounts) \in Nat /\ Len(personas) \in Nat /\ Len(reserved) \in Nat
  BY TableDomain DEF TypeOK

StructureOK == TypeOK /\ ReferencesOK

LEMMA StartSendingOK ==
    ASSUME TypeOK, NEW kind \in {"register", "reserve"}, NEW row \in Nat \ {0},
           StartSending(kind, row)
    PROVE  /\ sending' \subseteq [msg : Message, tries : 0..EmailTries]
           /\ {s.msg : s \in sending'} =
                  {s.msg : s \in sending} \cup {[kind |-> kind, row |-> row]}
  <1> DEFINE new == [msg |-> [kind |-> kind, row |-> row], tries |-> 0]
  <1>1. sending' = sending \cup {new}
    BY DEF StartSending
  <1>2. [kind |-> kind, row |-> row] \in Message
    BY DEF Message
  <1>3. 0 \in 0..EmailTries
    BY ConfigAssumption
  <1>4. new \in [msg : Message, tries : 0..EmailTries] /\ new.msg = [kind |-> kind, row |-> row]
    BY <1>2, <1>3
  <1> HIDE DEF new
  <1>. QED
    BY <1>1, <1>4 DEF TypeOK

LEMMA StructureBoot == StructureOK /\ Boot => StructureOK'
  <1> SUFFICES ASSUME StructureOK, Boot PROVE StructureOK'
    OBVIOUS
  <1> USE DEF StructureOK
  <1>1. CASE InsertAccount(InitHandle, InitEmail, TRUE)
    <2>1. /\ accounts' \in Seq(AccountRow) /\ personas' \in Seq(PersonaRow)
          /\ DOMAIN accounts' = DOMAIN accounts \cup {Len(accounts) + 1}
          /\ DOMAIN personas' = DOMAIN personas \cup {Len(personas) + 1}
          /\ \A p \in DOMAIN personas : personas'[p] = personas[p]
          /\ personas'[Len(personas) + 1].acc = Len(accounts) + 1
      <3>1. TypeOK /\ InitHandle \in Handles /\ InitEmail \in Emails /\ TRUE \in BOOLEAN
        BY ConfigAssumption
      <3>. QED
        BY <1>1, <3>1, InsertAccountType
    <2>2. TypeOK'
      BY <2>1 DEF Boot, TypeOK
    <2>3. ReferencesOK'
      BY <2>1 DEF Boot, ReferencesOK
    <2>. QED
      BY <2>2, <2>3
  <1>2. CASE UNCHANGED <<accounts, personas>>
    BY <1>2 DEF Boot, TypeOK, ReferencesOK
  <1>. QED
    BY <1>1, <1>2 DEF Boot

LEMMA StructureCreate ==
    ASSUME NEW handle \in Handles, NEW email \in Emails
    PROVE  StructureOK /\ Create(handle, email) => StructureOK'
  <1> SUFFICES ASSUME StructureOK, Create(handle, email) PROVE StructureOK'
    OBVIOUS
  <1> USE DEF StructureOK
  <1> DEFINE id == Len(accounts) + 1
  <1>1. /\ accounts' \in Seq(AccountRow) /\ personas' \in Seq(PersonaRow)
        /\ DOMAIN accounts' = DOMAIN accounts \cup {id}
        /\ DOMAIN personas' = DOMAIN personas \cup {Len(personas) + 1}
        /\ \A p \in DOMAIN personas : personas'[p] = personas[p]
        /\ personas'[Len(personas) + 1].acc = id
        /\ id \in Nat \ {0}
    <2>1. TypeOK /\ InsertAccount(handle, email, FALSE) /\ FALSE \in BOOLEAN
      BY DEF Create
    <2>. QED
      BY <2>1, InsertAccountType
  <1> HIDE DEF id
  <1>2. StartSending("register", id)
    BY DEF Create, id
  <1>3. /\ sending' \subseteq [msg : Message, tries : 0..EmailTries]
        /\ {s.msg : s \in sending'} =
               {s.msg : s \in sending} \cup {[kind |-> "register", row |-> id]}
    BY <1>1, <1>2, StartSendingOK
  <1>4. UNCHANGED <<reserved, changing, inbox, server>>
    BY DEF Create
  <1>5. TypeOK'
    BY <1>1, <1>3, <1>4 DEF TypeOK
  <1>6. ReferencesOK'
    BY <1>1, <1>3, <1>4 DEF ReferencesOK
  <1>. QED
    BY <1>5, <1>6

LEMMA StructureReserve ==
    ASSUME NEW handle \in Handles, NEW email \in Emails
    PROVE  StructureOK /\ Reserve(handle, email) => StructureOK'
  <1> SUFFICES ASSUME StructureOK, Reserve(handle, email) PROVE StructureOK'
    OBVIOUS
  <1> USE DEF StructureOK
  <1> DEFINE row == [handle |-> handle, email |-> email,
                     confirmed |-> FALSE, redeemed |-> FALSE]
             id == Len(reserved) + 1
  <1>1. row \in ReservedRow
    BY DEF ReservedRow
  <1>2. reserved' = Append(reserved, row) /\ StartSending("reserve", id)
    BY DEF Reserve
  <1> HIDE DEF row
  <1>3. /\ reserved' \in Seq(ReservedRow)
        /\ DOMAIN reserved' = DOMAIN reserved \cup {id}
        /\ id \in Nat \ {0}
    BY <1>1, <1>2, RowTypes, InsertRow
  <1> HIDE DEF id
  <1>4. /\ sending' \subseteq [msg : Message, tries : 0..EmailTries]
        /\ {s.msg : s \in sending'} =
               {s.msg : s \in sending} \cup {[kind |-> "reserve", row |-> id]}
    BY <1>2, <1>3, StartSendingOK
  <1>5. UNCHANGED <<accounts, personas, changing, inbox, server>>
    BY DEF Reserve
  <1>6. TypeOK'
    BY <1>3, <1>4, <1>5 DEF TypeOK
  <1>7. ReferencesOK'
    BY <1>3, <1>4, <1>5 DEF ReferencesOK
  <1>. QED
    BY <1>6, <1>7

LEMMA StructureSending ==
    ASSUME NEW s \in sending
    PROVE  StructureOK /\ (EmailSent(s) \/ EmailFails(s) \/ UndoCreate(s)) => StructureOK'
  <1> SUFFICES ASSUME StructureOK, EmailSent(s) \/ EmailFails(s) \/ UndoCreate(s)
               PROVE  StructureOK'
    OBVIOUS
  <1> USE DEF StructureOK
  <1>1. s \in [msg : Message, tries : 0..EmailTries] /\ EmailTries \in Nat
    BY ConfigAssumption DEF TypeOK
  <1>2. CASE EmailSent(s)
    BY <1>1, <1>2 DEF EmailSent, TypeOK, ReferencesOK
  <1>3. CASE EmailFails(s)
    <2> DEFINE again == [s EXCEPT !.tries = @ + 1]
    <2>1. /\ again \in [msg : Message, tries : 0..EmailTries]
          /\ again.msg = s.msg
      BY <1>1, <1>3 DEF EmailFails
    <2>2. sending' \subseteq sending \cup {again}
      BY <1>3 DEF EmailFails
    <2> HIDE DEF again
    <2>3. inbox' \subseteq inbox \cup {s.msg} /\ UNCHANGED <<accounts, personas, reserved, changing, server>>
      BY <1>3 DEF EmailFails
    <2>4. TypeOK'
      BY <1>1, <2>1, <2>2, <2>3 DEF TypeOK
    <2>5. ReferencesOK'
      BY <2>1, <2>2, <2>3 DEF ReferencesOK
    <2>. QED
      BY <2>4, <2>5
  <1>4. CASE UndoCreate(s)
    <2>1. sending' = sending \ {s} /\ UNCHANGED <<personas, reserved, changing, inbox, server>>
      BY <1>4 DEF UndoCreate, Delete
    <2>2. accounts' \in Seq(AccountRow) /\ DOMAIN accounts' = DOMAIN accounts
      BY <1>4, AccountUpdate, RowTypes, ConfigAssumption DEF UndoCreate, Delete
    <2>. QED
      BY <2>1, <2>2 DEF TypeOK, ReferencesOK
  <1>. QED
    BY <1>2, <1>3, <1>4

LEMMA StructureConfirmAccount ==
    ASSUME NEW a \in DOMAIN accounts
    PROVE  StructureOK /\ ConfirmAccount(a) => StructureOK'
  <1> SUFFICES ASSUME StructureOK, ConfirmAccount(a) PROVE StructureOK'
    OBVIOUS
  <1> USE DEF StructureOK
  <1>1. accounts' \in Seq(AccountRow) /\ DOMAIN accounts' = DOMAIN accounts
    BY AccountUpdate, ConfigAssumption DEF ConfirmAccount
  <1>2. reserved' \in Seq(ReservedRow) /\ DOMAIN reserved' = DOMAIN reserved
    <2>1. PICK p \in PersonasOf(a) :
              reserved' = [r \in DOMAIN reserved |->
                  IF /\ Like(reserved[r].handle, personas[p].handle)
                     /\ Like(reserved[r].email, accounts[a].email)
                  THEN [reserved[r] EXCEPT !.redeemed = TRUE]
                  ELSE reserved[r]]
      BY DEF ConfirmAccount
    <2>2. reserved' = [r \in DOMAIN reserved |-> reserved'[r]]
      BY <2>1
    <2>3. \A r \in DOMAIN reserved : reserved'[r] \in ReservedRow
      BY <2>1, RowTypes DEF ReservedRow
    <2>. QED
      BY <2>2, <2>3, RowTypes, UpdateRows
  <1>3. UNCHANGED <<personas, changing, sending, inbox, server>>
    BY DEF ConfirmAccount
  <1>4. TypeOK'
    BY <1>1, <1>2, <1>3 DEF TypeOK
  <1>5. ReferencesOK'
    BY <1>1, <1>2, <1>3 DEF ReferencesOK
  <1>. QED
    BY <1>4, <1>5

LEMMA StructureConfirmReservation ==
    ASSUME NEW r \in DOMAIN reserved
    PROVE  StructureOK /\ ConfirmReservation(r) => StructureOK'
  <1> SUFFICES ASSUME StructureOK, ConfirmReservation(r) PROVE StructureOK'
    OBVIOUS
  <1> USE DEF StructureOK
  <1>1. reserved' \in Seq(ReservedRow) /\ DOMAIN reserved' = DOMAIN reserved
    <2>1. reserved' = [reserved EXCEPT ![r].confirmed = TRUE]
      BY DEF ConfirmReservation
    <2>2. reserved' = [i \in DOMAIN reserved |-> reserved'[i]]
      BY <2>1
    <2>3. \A i \in DOMAIN reserved : reserved'[i] \in ReservedRow
      BY <2>1, RowTypes DEF ReservedRow
    <2>. QED
      BY <2>2, <2>3, RowTypes, UpdateRows
  <1>2. UNCHANGED <<accounts, personas, changing, sending, inbox, server>>
    BY DEF ConfirmReservation
  <1>3. TypeOK'
    BY <1>1, <1>2 DEF TypeOK
  <1>4. ReferencesOK'
    BY <1>1, <1>2 DEF ReferencesOK
  <1>. QED
    BY <1>3, <1>4

LEMMA StructureDeleteAccount ==
    ASSUME NEW a \in DOMAIN accounts
    PROVE  StructureOK /\ DeleteAccount(a) => StructureOK'
  <1> SUFFICES ASSUME StructureOK, DeleteAccount(a) PROVE StructureOK'
    OBVIOUS
  <1> USE DEF StructureOK
  <1>1. accounts' \in Seq(AccountRow) /\ DOMAIN accounts' = DOMAIN accounts
    BY AccountUpdate, ConfigAssumption DEF DeleteAccount, Delete
  <1>2. UNCHANGED <<personas, reserved, changing, sending, inbox, server>>
    BY DEF DeleteAccount, Delete
  <1>. QED
    BY <1>1, <1>2 DEF TypeOK, ReferencesOK

LEMMA StructureChangeEmail ==
    ASSUME NEW a \in DOMAIN accounts, NEW email \in Emails
    PROVE  StructureOK /\ ChangeEmail(a, email) => StructureOK'
  <1> SUFFICES ASSUME StructureOK, ChangeEmail(a, email) PROVE StructureOK'
    OBVIOUS
  <1>1. [acc |-> a, email |-> email] \in ChangeEmailRow
    BY RowTypes DEF StructureOK, ChangeEmailRow
  <1>2. /\ changing' = changing \cup {[acc |-> a, email |-> email]}
        /\ UNCHANGED <<accounts, personas, reserved, sending, inbox, server>>
    BY DEF ChangeEmail
  <1>. QED
    BY <1>1, <1>2 DEF StructureOK, TypeOK, ReferencesOK

LEMMA StructureConfirmEmail ==
    ASSUME NEW c \in changing
    PROVE  StructureOK /\ ConfirmEmail(c) => StructureOK'
  <1> SUFFICES ASSUME StructureOK, ConfirmEmail(c) PROVE StructureOK'
    OBVIOUS
  <1> USE DEF StructureOK
  <1>1. c.email \in Emails
    BY DEF TypeOK, ChangeEmailRow
  <1>2. accounts' \in Seq(AccountRow) /\ DOMAIN accounts' = DOMAIN accounts
    BY <1>1, AccountUpdate DEF ConfirmEmail
  <1>3. changing' \subseteq changing /\ UNCHANGED <<personas, reserved, sending, inbox, server>>
    BY DEF ConfirmEmail
  <1>. QED
    BY <1>2, <1>3 DEF TypeOK, ReferencesOK

(* What the three handlers that write personas do to the table. *)
LEMMA NewPersonaRows ==
    ASSUME StructureOK, NEW a \in DOMAIN accounts, NEW handle \in Handles,
           NewPersona(a, handle)
    PROVE  /\ personas' \in Seq(PersonaRow)
           /\ DOMAIN personas' = DOMAIN personas \cup {Len(personas) + 1}
           /\ Len(personas) + 1 \notin DOMAIN personas
           /\ \A p \in DOMAIN personas : personas'[p] = personas[p]
           /\ personas'[Len(personas) + 1] =
                  [acc |-> a, handle |-> handle, default_p |-> FALSE, deleted |-> "null"]
           /\ personas'[Len(personas) + 1].acc = a
  <1> USE DEF StructureOK
  <1> DEFINE row == [acc |-> a, handle |-> handle, default_p |-> FALSE, deleted |-> "null"]
  <1>1. row \in PersonaRow
    BY RowTypes DEF PersonaRow, Flag
  <1>2. personas' = Append(personas, row)
    BY DEF NewPersona
  <1> HIDE DEF row
  <1>3. /\ personas' \in Seq(PersonaRow)
        /\ DOMAIN personas' = DOMAIN personas \cup {Len(personas) + 1}
        /\ Len(personas) + 1 \notin DOMAIN personas
        /\ \A p \in DOMAIN personas : personas'[p] = personas[p]
        /\ personas'[Len(personas) + 1] = row
    BY <1>1, <1>2, RowTypes, InsertRow
  <1>. QED
    BY <1>3 DEF row

LEMMA UpdateIdentityRows ==
    ASSUME StructureOK, NEW p \in DOMAIN personas, NEW handle \in Handles,
           UpdateIdentity(p, handle)
    PROVE  /\ personas' \in Seq(PersonaRow)
           /\ DOMAIN personas' = DOMAIN personas
           /\ \A q \in DOMAIN personas :
                  /\ personas'[q].acc = personas[q].acc
                  /\ personas'[q].default_p = personas[q].default_p
                  /\ personas'[q].deleted = personas[q].deleted
  <1> USE DEF StructureOK
  <1>1. personas' = [personas EXCEPT ![p].handle = handle]
    BY DEF UpdateIdentity
  <1>2. personas' = [q \in DOMAIN personas |-> personas'[q]]
    BY <1>1
  <1>3. \A q \in DOMAIN personas : personas'[q] \in PersonaRow
    BY <1>1, RowTypes DEF PersonaRow
  <1>4. personas' \in Seq(PersonaRow) /\ DOMAIN personas' = DOMAIN personas
    BY <1>2, <1>3, RowTypes, UpdateRows
  <1>5. ASSUME NEW q \in DOMAIN personas
        PROVE  /\ personas'[q].acc = personas[q].acc
               /\ personas'[q].default_p = personas[q].default_p
               /\ personas'[q].deleted = personas[q].deleted
    BY <1>1, RowTypes DEF PersonaRow
  <1>. QED
    BY <1>4, <1>5

(* SQL's three-valued logic: no row ever qualifies to succeed the default. *)
LEMMA DeletePersonaRows ==
    ASSUME StructureOK, NEW a \in DOMAIN accounts, NEW p \in DOMAIN personas,
           DeletePersona(a, p)
    PROVE  /\ personas' \in Seq(PersonaRow)
           /\ DOMAIN personas' = DOMAIN personas
           /\ \A q \in DOMAIN personas :
                  /\ personas'[q].acc = personas[q].acc
                  /\ q # p /\ q \notin Successors(a, p) => personas'[q] = personas[q]
                  /\ personas'[q].deleted = IF q = p THEN "true" ELSE personas[q].deleted
                  /\ personas'[q].default_p =
                         (q # p /\ (personas[q].default_p \/ q \in Successors(a, p)))
  <1> USE DEF StructureOK
  <1>1. personas' = [q \in DOMAIN personas |->
            IF q = p THEN [personas[q] EXCEPT !.default_p = FALSE, !.deleted = "true"]
            ELSE IF q \in Successors(a, p) THEN [personas[q] EXCEPT !.default_p = TRUE]
            ELSE personas[q]]
    BY DEF DeletePersona
  <1>2. personas' = [q \in DOMAIN personas |-> personas'[q]]
    BY <1>1
  <1>3. \A q \in DOMAIN personas : personas'[q] \in PersonaRow
    BY <1>1, RowTypes DEF PersonaRow, Flag
  <1>4. personas' \in Seq(PersonaRow) /\ DOMAIN personas' = DOMAIN personas
    BY <1>2, <1>3, RowTypes, UpdateRows
  <1>5. ASSUME NEW q \in DOMAIN personas
        PROVE  /\ personas'[q].acc = personas[q].acc
               /\ q # p /\ q \notin Successors(a, p) => personas'[q] = personas[q]
               /\ personas'[q].deleted = IF q = p THEN "true" ELSE personas[q].deleted
               /\ personas'[q].default_p =
                      (q # p /\ (personas[q].default_p \/ q \in Successors(a, p)))
    <2>1. personas[q] \in PersonaRow
      BY RowTypes
    <2>2. CASE q = p
      BY <1>1, <2>1, <2>2 DEF PersonaRow
    <2>3. CASE q # p /\ q \in Successors(a, p)
      BY <1>1, <2>1, <2>3 DEF PersonaRow
    <2>4. CASE q # p /\ q \notin Successors(a, p)
      BY <1>1, <2>1, <2>4 DEF PersonaRow
    <2>. QED
      BY <2>2, <2>3, <2>4
  <1>. QED
    BY <1>4, <1>5

LEMMA StructurePersonas ==
    ASSUME StructureOK,
           \/ \E a \in DOMAIN accounts, handle \in Handles : NewPersona(a, handle)
           \/ \E a \in DOMAIN accounts, p \in DOMAIN personas : DeletePersona(a, p)
           \/ \E p \in DOMAIN personas, handle \in Handles : UpdateIdentity(p, handle)
    PROVE  StructureOK'
  <1> USE DEF StructureOK
  <1>1. UNCHANGED <<accounts, reserved, changing, sending, inbox, server>>
    BY DEF NewPersona, DeletePersona, UpdateIdentity
  <1> DEFINE Sound == /\ personas' \in Seq(PersonaRow)
                      /\ \A p \in DOMAIN personas' : personas'[p].acc \in DOMAIN accounts
  <1>2. Sound
    <2>1. CASE \E a \in DOMAIN accounts, handle \in Handles : NewPersona(a, handle)
      <3>1. PICK a \in DOMAIN accounts, handle \in Handles : NewPersona(a, handle)
        BY <2>1
      <3>2. /\ personas' \in Seq(PersonaRow)
            /\ DOMAIN personas' = DOMAIN personas \cup {Len(personas) + 1}
            /\ \A p \in DOMAIN personas : personas'[p] = personas[p]
            /\ personas'[Len(personas) + 1].acc = a
        BY <3>1, NewPersonaRows
      <3>. QED
        BY <3>2 DEF ReferencesOK
    <2>2. ASSUME NEW a \in DOMAIN accounts, NEW p \in DOMAIN personas, DeletePersona(a, p)
          PROVE  Sound
      BY <2>2, DeletePersonaRows DEF ReferencesOK
    <2>3. ASSUME NEW p \in DOMAIN personas, NEW handle \in Handles, UpdateIdentity(p, handle)
          PROVE  Sound
      BY <2>3, UpdateIdentityRows DEF ReferencesOK
    <2>. QED
      BY <2>1, <2>2, <2>3
  <1>. QED
    BY <1>1, <1>2 DEF TypeOK, ReferencesOK

LEMMA StructureStep == StructureOK /\ [Next]_vars => StructureOK'
  <1> SUFFICES ASSUME StructureOK, [Next]_vars PROVE StructureOK'
    OBVIOUS
  <1>1. CASE Boot
    BY <1>1, StructureBoot
  <1>2. CASE Crash
    BY <1>2 DEF Crash, StructureOK, TypeOK, ReferencesOK
  <1>3. ASSUME NEW handle \in Handles, NEW email \in Emails,
               Create(handle, email) \/ Reserve(handle, email)
        PROVE  StructureOK'
    BY <1>3, StructureCreate, StructureReserve
  <1>4. ASSUME NEW s \in sending, EmailSent(s) \/ EmailFails(s) \/ UndoCreate(s)
        PROVE  StructureOK'
    BY <1>4, StructureSending
  <1>5. ASSUME NEW r \in DOMAIN reserved, ConfirmReservation(r)
        PROVE  StructureOK'
    BY <1>5, StructureConfirmReservation
  <1>6. ASSUME NEW a \in DOMAIN accounts, ConfirmAccount(a) \/ DeleteAccount(a)
        PROVE  StructureOK'
    BY <1>6, StructureConfirmAccount, StructureDeleteAccount
  <1>7. ASSUME NEW a \in DOMAIN accounts, NEW handle \in Handles, NewPersona(a, handle)
        PROVE  StructureOK'
    BY <1>7, StructurePersonas
  <1>8. ASSUME NEW p \in DOMAIN personas,
               \/ \E a \in DOMAIN accounts : DeletePersona(a, p)
               \/ \E handle \in Handles : UpdateIdentity(p, handle)
        PROVE  StructureOK'
    BY <1>8, StructurePersonas
  <1>9. ASSUME NEW c \in changing, ConfirmEmail(c) PROVE StructureOK'
    BY <1>9, StructureConfirmEmail
  <1>10. ASSUME NEW a \in DOMAIN accounts, NEW email \in Emails, ChangeEmail(a, email)
         PROVE  StructureOK'
    BY <1>10, StructureChangeEmail
  <1>11. CASE UNCHANGED vars
    BY <1>11 DEF vars, StructureOK, TypeOK, ReferencesOK
  <1>. QED
    BY <1>1, <1>2, <1>3, <1>4, <1>5, <1>6, <1>7, <1>8, <1>9, <1>10, <1>11 DEF Next

LEMMA StructureInit == Init => StructureOK
  BY EmptySeq DEF Init, StructureOK, TypeOK, ReferencesOK

(* Every table holds rows of its type, every row and message refers to a   *)
(* row that exists, whatever handlers, e-mails and crashes interleave.     *)
THEOREM TypeCorrect == Spec => [](TypeOK /\ ReferencesOK)
  <1>1. Init => StructureOK
    BY StructureInit
  <1>2. StructureOK /\ [Next]_vars => StructureOK'
    BY StructureStep
  <1>3. StructureOK => TypeOK /\ ReferencesOK
    BY DEF StructureOK
  <1>. QED
    BY <1>1, <1>2, <1>3, PTL DEF Spec

-----------------------------------------------------------------------------
(* What becomes of the accounts: in every step they stay as they are, one  *)
(* is added, or one is flagged or takes another address.                   *)

Updated(a, email) ==
    \/ accounts' = [accounts EXCEPT ![a].deleted = TRUE]
    \/ accounts' = [accounts EXCEPT ![a].confirmed = TRUE]
    \/ accounts' = [accounts EXCEPT ![a].email = email]

LEMMA AccountsStep ==
    ASSUME StructureOK, [Next]_vars
    PROVE  \/ accounts' = accounts
           \/ \E handle \in Handles, email \in Emails, confirmed \in BOOLEAN :
                  InsertAccount(handle, email, confirmed)
           \/ \E email \in Emails : \E a : Updated(a, email)
  <1>0. InitEmail \in Emails /\ \A c \in changing : c.email \in Emails
    BY ConfigAssumption DEF StructureOK, TypeOK, ChangeEmailRow
  <1>1. CASE Boot
    BY <1>1, ConfigAssumption DEF Boot
  <1>2. ASSUME NEW s \in sending, EmailSent(s) \/ EmailFails(s) \/ UndoCreate(s)
        PROVE  accounts' = accounts \/ \E a : Updated(a, InitEmail)
    BY <1>2 DEF EmailSent, EmailFails, UndoCreate, Delete, Updated
  <1>3. ASSUME NEW a, ConfirmAccount(a) \/ DeleteAccount(a) PROVE Updated(a, InitEmail)
    BY <1>3 DEF ConfirmAccount, DeleteAccount, Delete, Updated
  <1>4. ASSUME NEW handle \in Handles, NEW email \in Emails, Create(handle, email)
        PROVE  InsertAccount(handle, email, FALSE)
    BY <1>4 DEF Create
  <1>5. ASSUME NEW c \in changing, ConfirmEmail(c) PROVE Updated(c.acc, c.email)
    BY <1>5 DEF ConfirmEmail, Updated
  <1>6. ASSUME NEW a, NEW email, ChangeEmail(a, email) PROVE accounts' = accounts
    BY <1>6 DEF ChangeEmail
  <1>7. ASSUME NEW a, NEW handle, NewPersona(a, handle) \/ UpdateIdentity(a, handle)
        PROVE  accounts' = accounts
    BY <1>7 DEF NewPersona, UpdateIdentity
  <1>8. ASSUME NEW a, NEW p, DeletePersona(a, p) PROVE accounts' = accounts
    BY <1>8 DEF DeletePersona
  <1>9. ASSUME NEW handle, NEW email, Reserve(handle, email) PROVE accounts' = accounts
    BY <1>9 DEF Reserve
  <1>10. ASSUME NEW r, ConfirmReservation(r) PROVE accounts' = accounts
    BY <1>10 DEF ConfirmReservation
  <1>11. CASE Crash \/ UNCHANGED vars
    BY <1>11 DEF Crash, vars
  <1>. QED
    BY <1>0, <1>1, <1>2, <1>3, <1>4, <1>5, <1>6, <1>7, <1>8, <1>9, <1>10, <1>11 DEF Next

(* Accounts stay, and stay confirmed and deleted. *)
LEMMA AccountsStay ==
    ASSUME StructureOK, [Next]_vars
    PROVE  /\ DOMAIN accounts \subseteq DOMAIN accounts'
           /\ \A a \in DOMAIN accounts :
                  /\ accounts[a].confirmed => accounts'[a].confirmed
                  /\ accounts[a].deleted => accounts'[a].deleted
  <1>. USE DEF StructureOK
  <1>1. ASSUME NEW handle \in Handles, NEW email \in Emails, NEW confirmed \in BOOLEAN,
               InsertAccount(handle, email, confirmed)
        PROVE  DOMAIN accounts \subseteq DOMAIN accounts' /\ \A a \in DOMAIN accounts : accounts'[a] = accounts[a]
    BY <1>1, InsertAccountType
  <1>2. ASSUME NEW a, NEW email \in Emails, Updated(a, email)
        PROVE  /\ DOMAIN accounts' = DOMAIN accounts
               /\ \A b \in DOMAIN accounts :
                      /\ accounts[b].confirmed => accounts'[b].confirmed
                      /\ accounts[b].deleted => accounts'[b].deleted
    BY <1>2, AccountUpdate DEF Updated
  <1>3. CASE accounts' = accounts
    BY <1>3
  <1>. QED
    BY <1>1, <1>2, <1>3, AccountsStep

(* Personas stay and stay with their account. *)
LEMMA PersonasStay ==
    ASSUME StructureOK, [Next]_vars
    PROVE  /\ DOMAIN personas \subseteq DOMAIN personas'
           /\ \A p \in DOMAIN personas : personas'[p].acc = personas[p].acc
  <1>. USE DEF StructureOK
  <1>1. ASSUME NEW handle \in Handles, NEW email \in Emails, NEW confirmed \in BOOLEAN,
               InsertAccount(handle, email, confirmed)
        PROVE  DOMAIN personas \subseteq DOMAIN personas' /\ \A p \in DOMAIN personas : personas'[p] = personas[p]
    BY <1>1, InsertAccountType
  <1>2. CASE personas' = personas
    BY <1>2
  <1>3. CASE Boot
    BY <1>1, <1>2, <1>3, ConfigAssumption DEF Boot
  <1>4. ASSUME NEW handle \in Handles, NEW email \in Emails, Create(handle, email)
        PROVE  DOMAIN personas \subseteq DOMAIN personas' /\ \A p \in DOMAIN personas : personas'[p] = personas[p]
    BY <1>1, <1>4 DEF Create
  <1>5. ASSUME NEW a \in DOMAIN accounts, NEW handle \in Handles, NewPersona(a, handle)
        PROVE  DOMAIN personas \subseteq DOMAIN personas' /\ \A p \in DOMAIN personas : personas'[p] = personas[p]
    BY <1>5, NewPersonaRows
  <1>6. ASSUME NEW a \in DOMAIN accounts, NEW p \in DOMAIN personas, DeletePersona(a, p)
        PROVE  DOMAIN personas' = DOMAIN personas /\ \A q \in DOMAIN personas : personas'[q].acc = personas[q].acc
    BY <1>6, DeletePersonaRows
  <1>7. ASSUME NEW p \in DOMAIN personas, NEW handle \in Handles, UpdateIdentity(p, handle)
        PROVE  DOMAIN personas' = DOMAIN personas /\ \A q \in DOMAIN personas : personas'[q].acc = personas[q].acc
    BY <1>7, UpdateIdentityRows
  <1>8. ASSUME NEW s, EmailSent(s) \/ EmailFails(s) \/ UndoCreate(s)
        PROVE  personas' = personas
    BY <1>8 DEF EmailSent, EmailFails, UndoCreate, Delete
  <1>. QED
    BY <1>2, <1>3, <1>4, <1>5, <1>6, <1>7, <1>8
       DEF Next, vars, Crash, Reserve, ConfirmReservation, ConfirmAccount, ConfirmEmail,
           ChangeEmail, DeleteAccount, Delete

-----------------------------------------------------------------------------
(* Handles and addresses that the public sees. *)

(* A step that makes no persona public, gives no public persona another    *)
(* handle and registers no account.                                        *)
NothingNew ==
    /\ \A p : Public(p)' => Public(p) /\ personas'[p].handle = personas[p].handle
    /\ \A a \in DOMAIN accounts' : Registered(a)' =>
           a \in DOMAIN accounts /\ Registered(a) /\ accounts'[a].email = accounts[a].email

LEMMA NothingNewKeeps ==
    ASSUME NothingNew
    PROVE  ClashConfirms /\ TakingReservedConfirms
  BY DEF NothingNew, ClashConfirms, TakingReservedConfirms, SameHandle, SameEmail

(* The checks before an account is inserted look at every public persona   *)
(* and every registered account.                                           *)
LEMMA FreeMeansUnused ==
    ASSUME StructureOK, NEW handle \in Handles, NEW email \in Emails, NEW registering \in BOOLEAN,
           HandleAndEmailFree(handle, email, registering)
    PROVE  /\ \A p \in DOMAIN personas : Public(p) => personas[p].handle # handle
           /\ \A a \in DOMAIN accounts : Registered(a) => accounts[a].email # email
           /\ ReservedTogether(handle, email) \/ ~HandleReservedUnredeemed(handle)
  BY ILikeAssumption DEF HandleAndEmailFree, HandleHeld, EmailHeld, Like, Public

(* An account that is inserted unconfirmed shows nothing. *)
LEMMA InsertUnconfirmed ==
    ASSUME StructureOK, NEW handle \in Handles, NEW email \in Emails,
           InsertAccount(handle, email, FALSE)
    PROVE  NothingNew
  <1>. PICK a0, p0 : a0 = Len(accounts) + 1 /\ p0 = Len(personas) + 1
    OBVIOUS
  <1>1. /\ DOMAIN accounts' = DOMAIN accounts \cup {a0}
        /\ DOMAIN personas' = DOMAIN personas \cup {p0}
        /\ \A a \in DOMAIN accounts : accounts'[a] = accounts[a]
        /\ \A p \in DOMAIN personas : personas'[p] = personas[p]
        /\ accounts'[a0] = [email |-> email, confirmed |-> FALSE, deleted |-> FALSE]
        /\ personas'[p0].acc = a0
    BY InsertAccountType DEF StructureOK
  <1>2. ~accounts'[a0].confirmed
    BY <1>1
  <1>3. \A p \in DOMAIN personas : personas[p].acc \in DOMAIN accounts
    BY DEF StructureOK, ReferencesOK
  <1>. QED
    BY <1>1, <1>2, <1>3 DEF NothingNew, Public, Registered

(* The first account is inserted confirmed, after the same checks. *)
LEMMA InsertFirst ==
    ASSUME StructureOK, Boot, InsertAccount(InitHandle, InitEmail, TRUE),
           HandleAndEmailFree(InitHandle, InitEmail, TRUE)
    PROVE  ClashConfirms /\ TakingReservedConfirms
  <1>. PICK a0, p0 : a0 = Len(accounts) + 1 /\ p0 = Len(personas) + 1
    OBVIOUS
  <1>1. /\ DOMAIN accounts' = DOMAIN accounts \cup {a0}
        /\ DOMAIN personas' = DOMAIN personas \cup {p0}
        /\ a0 \notin DOMAIN accounts /\ p0 \notin DOMAIN personas
        /\ \A a \in DOMAIN accounts : accounts'[a] = accounts[a]
        /\ \A p \in DOMAIN personas : personas'[p] = personas[p]
        /\ accounts'[a0] = [email |-> InitEmail, confirmed |-> TRUE, deleted |-> FALSE]
        /\ personas'[p0] = [acc |-> a0, handle |-> InitHandle, default_p |-> TRUE, deleted |-> "null"]
    BY InsertAccountType, ConfigAssumption DEF StructureOK
  <1>2. accounts'[a0].email = InitEmail /\ personas'[p0].acc = a0 /\ personas'[p0].handle = InitHandle
    BY <1>1
  <1>3. \A p \in DOMAIN personas : personas[p].acc \in DOMAIN accounts
    BY DEF StructureOK, ReferencesOK
  <1>4. /\ \A p \in DOMAIN personas : Public(p) => personas[p].handle # InitHandle
        /\ \A a \in DOMAIN accounts : Registered(a) => accounts[a].email # InitEmail
        /\ ReservedTogether(InitHandle, InitEmail) \/ ~HandleReservedUnredeemed(InitHandle)
    BY FreeMeansUnused, ConfigAssumption
  <1>5. \A p \in DOMAIN personas : Public(p)' <=> Public(p)
    BY <1>1, <1>3 DEF Public, Registered
  <1>6. \A p, q \in DOMAIN personas' : p # q /\ SameHandle(p, q)' => SameHandle(p, q)
    BY <1>1, <1>2, <1>4, <1>5 DEF SameHandle
  <1>7. \A a, b \in DOMAIN accounts' : a # b /\ SameEmail(a, b)' => SameEmail(a, b)
    BY <1>1, <1>2, <1>4 DEF SameEmail, Registered
  <1>8. TakingReservedConfirms
    BY <1>1, <1>2, <1>4, <1>5 DEF TakingReservedConfirms
  <1>. QED
    BY <1>6, <1>7, <1>8 DEF ClashConfirms

LEMMA NewPersonaNoClash ==
    ASSUME StructureOK, NEW a \in DOMAIN accounts, NEW handle \in Handles, NewPersona(a, handle)
    PROVE  ClashConfirms /\ TakingReservedConfirms
  <1>. PICK p0 : p0 = Len(personas) + 1
    OBVIOUS
  <1>1. /\ DOMAIN personas' = DOMAIN personas \cup {p0}
        /\ p0 \notin DOMAIN personas
        /\ \A p \in DOMAIN personas : personas'[p] = personas[p]
        /\ personas'[p0] = [acc |-> a, handle |-> handle, default_p |-> FALSE, deleted |-> "null"]
    BY NewPersonaRows
  <1>2. personas'[p0].handle = handle
    BY <1>1
  <1>3. accounts' = accounts
    BY DEF NewPersona
  <1>4. ~HandleReservedUnredeemed(handle)
    BY DEF NewPersona, NewPersonaRefuses, HandleReserved, HandleReservedUnredeemed
  <1>5. \A p \in DOMAIN personas : Public(p) => personas[p].handle # handle
    BY ILikeAssumption DEF NewPersona, NewPersonaRefuses, Like, Public, Registered
  <1>6. \A p \in DOMAIN personas : Public(p)' <=> Public(p)
    BY <1>1, <1>3 DEF Public, Registered
  <1>7. \A p, q \in DOMAIN personas' : p # q /\ SameHandle(p, q)' => SameHandle(p, q)
    BY <1>1, <1>2, <1>5, <1>6 DEF SameHandle
  <1>8. TakingReservedConfirms
    BY <1>1, <1>2, <1>4, <1>6 DEF TakingReservedConfirms
  <1>9. \A x, y \in DOMAIN accounts' : SameEmail(x, y)' => SameEmail(x, y)
    BY <1>3 DEF SameEmail, Registered
  <1>. QED
    BY <1>7, <1>8, <1>9 DEF ClashConfirms

LEMMA RenamingNoClash ==
    ASSUME StructureOK, NEW p \in DOMAIN personas, NEW handle \in Handles, UpdateIdentity(p, handle)
    PROVE  ClashConfirms /\ TakingReservedConfirms
  <1>1. /\ DOMAIN personas' = DOMAIN personas
        /\ \A q \in DOMAIN personas : /\ personas'[q].acc = personas[q].acc
                                      /\ personas'[q].deleted = personas[q].deleted
    BY UpdateIdentityRows
  <1>2. accounts' = accounts
    BY DEF UpdateIdentity
  <1>3. \A q \in DOMAIN personas : personas'[q].handle = IF q = p THEN handle ELSE personas[q].handle
    BY RowTypes DEF StructureOK, UpdateIdentity, PersonaRow
  <1>4. ~HandleReservedUnredeemed(handle)
    BY DEF UpdateIdentity
  <1>5. \A q \in DOMAIN personas \ {p} : Public(q) => personas[q].handle # handle
    BY ILikeAssumption DEF UpdateIdentity, HandleHeld, Like, Public
  <1>6. \A q \in DOMAIN personas : Public(q)' <=> Public(q)
    BY <1>1, <1>2 DEF Public, Registered
  <1>7. \A q, r \in DOMAIN personas' : q # r /\ SameHandle(q, r)' => SameHandle(q, r)
    BY <1>1, <1>3, <1>5, <1>6 DEF SameHandle
  <1>8. TakingReservedConfirms
    BY <1>1, <1>3, <1>4, <1>6 DEF TakingReservedConfirms
  <1>9. \A x, y \in DOMAIN accounts' : SameEmail(x, y)' => SameEmail(x, y)
    BY <1>2 DEF SameEmail, Registered
  <1>. QED
    BY <1>7, <1>8, <1>9 DEF ClashConfirms

LEMMA ConfirmingMay ==
    ASSUME NEW a \in DOMAIN accounts, ConfirmAccount(a)
    PROVE  ClashConfirms /\ TakingReservedConfirms
  <1>1. Confirming
    BY DEF Confirming
  <1>. QED
    BY <1>1 DEF ClashConfirms, TakingReservedConfirms

(* A change of address shows no persona that was not shown before. *)
LEMMA ChangingAddressMay ==
    ASSUME StructureOK, NEW c \in changing, ConfirmEmail(c)
    PROVE  ClashConfirms /\ TakingReservedConfirms
  <1>1. ChangingAddress
    BY DEF ChangingAddress
  <1>2. \A a \in DOMAIN accounts : accounts[a] \in AccountRow
    BY RowTypes DEF StructureOK
  <1>3. /\ personas' = personas
        /\ DOMAIN accounts' = DOMAIN accounts
        /\ \A a \in DOMAIN accounts : Registered(a)' <=> Registered(a)
    BY <1>2 DEF ConfirmEmail, Registered, AccountRow
  <1>4. \A p : Public(p)' <=> Public(p)
    BY <1>3 DEF Public
  <1>. QED
    BY <1>1, <1>3, <1>4 DEF ClashConfirms, TakingReservedConfirms, SameHandle

LEMMA PublicStep ==
    ASSUME StructureOK, [Next]_vars
    PROVE  ClashConfirms /\ TakingReservedConfirms
  <1>. DEFINE Goal == ClashConfirms /\ TakingReservedConfirms
  <1>0. StructureOK /\ \A b \in DOMAIN accounts : accounts[b] \in AccountRow
    BY RowTypes DEF StructureOK
  <1>1. ASSUME UNCHANGED <<accounts, personas>> PROVE Goal
    BY <1>1, NothingNewKeeps DEF NothingNew, Public, Registered
  <1>2. CASE Boot
    <2>1. CASE InsertAccount(InitHandle, InitEmail, TRUE) /\ HandleAndEmailFree(InitHandle, InitEmail, TRUE)
      BY <1>2, <2>1, InsertFirst
    <2>2. CASE UNCHANGED <<accounts, personas>>
      BY <1>1, <2>2
    <2>. QED
      BY <1>2, <2>1, <2>2 DEF Boot
  <1>3. ASSUME NEW handle \in Handles, NEW email \in Emails, Create(handle, email) PROVE Goal
    BY <1>3, InsertUnconfirmed, NothingNewKeeps DEF Create
  <1>4. ASSUME NEW a, Delete(a) PROVE Goal
    <2>1. /\ personas' = personas
          /\ DOMAIN accounts' = DOMAIN accounts
          /\ \A b \in DOMAIN accounts : /\ accounts'[b].email = accounts[b].email
                                        /\ accounts'[b].confirmed = accounts[b].confirmed
                                        /\ accounts[b].deleted => accounts'[b].deleted
      BY <1>0, <1>4 DEF Delete, AccountRow
    <2>. QED
      BY <2>1, NothingNewKeeps DEF NothingNew, Public, Registered
  <1>5. ASSUME NEW s, EmailSent(s) \/ EmailFails(s) \/ UndoCreate(s) PROVE Goal
    <2>1. UNCHANGED <<accounts, personas>> \/ Delete(s.msg.row)
      BY <1>5 DEF EmailSent, EmailFails, UndoCreate
    <2>. QED
      BY <1>1, <1>4, <2>1
  <1>6. ASSUME NEW a \in DOMAIN accounts, NEW p \in DOMAIN personas, DeletePersona(a, p) PROVE Goal
    <2>1. \A q \in DOMAIN personas : personas[q] \in PersonaRow
      BY RowTypes DEF StructureOK
    <2>2. /\ accounts' = accounts /\ DOMAIN personas' = DOMAIN personas
          /\ \A q \in DOMAIN personas :
                 /\ personas'[q].acc = personas[q].acc
                 /\ personas'[q].deleted = IF q = p THEN "true" ELSE personas[q].deleted
      BY <1>6, DeletePersonaRows DEF DeletePersona
    <2>3. \A q \in DOMAIN personas : personas'[q].handle = personas[q].handle
      BY <1>6, <2>1 DEF DeletePersona, PersonaRow
    <2>. QED
      BY <2>2, <2>3, NothingNewKeeps DEF NothingNew, Public, Registered, IsNull
  <1>7. ASSUME NEW a \in DOMAIN accounts, NEW handle \in Handles, NewPersona(a, handle) PROVE Goal
    BY <1>7, NewPersonaNoClash
  <1>8. ASSUME NEW p \in DOMAIN personas, NEW handle \in Handles, UpdateIdentity(p, handle) PROVE Goal
    BY <1>8, RenamingNoClash
  <1>9. ASSUME NEW a \in DOMAIN accounts, ConfirmAccount(a) PROVE Goal
    BY <1>9, ConfirmingMay
  <1>10. ASSUME NEW a \in DOMAIN accounts, DeleteAccount(a) PROVE Goal
    BY <1>4, <1>10 DEF DeleteAccount
  <1>11. ASSUME NEW handle \in Handles, NEW email \in Emails, Reserve(handle, email) PROVE Goal
    BY <1>1, <1>11 DEF Reserve
  <1>12. ASSUME NEW r \in DOMAIN reserved, ConfirmReservation(r) PROVE Goal
    BY <1>1, <1>12 DEF ConfirmReservation
  <1>13. CASE Crash \/ UNCHANGED vars
    BY <1>1, <1>13 DEF Crash, vars
  <1>14. ASSUME NEW c \in changing, ConfirmEmail(c) PROVE Goal
    BY <1>14, ChangingAddressMay
  <1>15. ASSUME NEW a, NEW email, ChangeEmail(a, email) PROVE Goal
    BY <1>1, <1>15 DEF ChangeEmail
  <1>. QED
    BY <1>2, <1>3, <1>5, <1>6, <1>7, <1>8, <1>9, <1>10, <1>11, <1>12, <1>13, <1>14, <1>15
       DEF Next

(* Whatever registrations, confirmations, new personas and changes of      *)
(* handle or address interleave, two public personas come to share a       *)
(* handle only when a registration is confirmed, and two registered        *)
(* accounts an address only when a registration or a change of address is: *)
(* the checks of Create, NewPersona and Settings.Update, each made inside  *)
(* its transaction, are enough for the rest.                               *)
THEOREM ClashesAreConfirmations == Spec => ClashOnlyByConfirming
  <1>1. StructureOK /\ [Next]_vars => [ClashConfirms]_vars
    BY PublicStep
  <1>. QED
    BY <1>1, StructureInit, StructureStep, PTL DEF Spec, ClashOnlyByConfirming

(* A handle that is reserved and not redeemed reaches a public persona     *)
(* only by the confirmation of a registration, or with the first account   *)
(* when it was reserved for that account's address.                        *)
THEOREM ReservationsKept == Spec => ReservationKept
  <1>1. StructureOK /\ [Next]_vars => [TakingReservedConfirms]_vars
    BY PublicStep
  <1>. QED
    BY <1>1, StructureInit, StructureStep, PTL DEF Spec, ReservationKept

-----------------------------------------------------------------------------
(* The personas of an account: the default one and the number of live      *)
(* ones.  The argument rests on StructureOK and on one fact about the      *)
(* data: personas.deleted is NULL or true, never false.                    *)

DeletedNeverFalse == \A p \in DOMAIN personas : personas[p].deleted \in {"null", "true"}

PersonasOK == StructureOK /\ DeletedNeverFalse /\ DefaultSound /\ PersonaCount

-----------------------------------------------------------------------------

(* "deleted != true" is never true of a row: DeletePersona's first UPDATE  *)
(* changes nothing.                                                        *)
LEMMA NoSuccessor ==
    ASSUME DeletedNeverFalse, NEW a, NEW p
    PROVE  Successors(a, p) = {}
  BY DEF DeletedNeverFalse, Successors, NotTrue, PersonasOf

LEMMA LiveFinite ==
    ASSUME StructureOK, NEW a
    PROVE  IsFiniteSet(LivePersonas(a)) /\ Cardinality(LivePersonas(a)) \in Nat
  <1>1. Len(personas) \in Nat /\ DOMAIN personas = 1..Len(personas)
    BY TableDomain DEF StructureOK, TypeOK
  <1>2. IsFiniteSet(1..Len(personas))
    BY <1>1, FS_Interval
  <1>3. LivePersonas(a) \subseteq 1..Len(personas)
    BY <1>1 DEF LivePersonas, PersonasOf
  <1>. QED
    BY <1>2, <1>3, FS_Subset, FS_CardinalityType

-----------------------------------------------------------------------------
(* Steps that leave the columns acc, default_p and deleted alone and keep  *)
(* confirmed accounts confirmed.                                           *)
LEMMA PersonasKept ==
    ASSUME PersonasOK,
           DOMAIN personas' = DOMAIN personas,
           \A q \in DOMAIN personas :
               /\ personas'[q].acc = personas[q].acc
               /\ personas'[q].default_p = personas[q].default_p
               /\ personas'[q].deleted = personas[q].deleted,
           DOMAIN accounts' = DOMAIN accounts,
           \A b \in DOMAIN accounts : accounts[b].confirmed => accounts'[b].confirmed
    PROVE  DeletedNeverFalse' /\ DefaultSound' /\ PersonaCount'
  <1>1. \A a : PersonasOf(a)' = PersonasOf(a) /\ LivePersonas(a)' = LivePersonas(a)
    BY DEF PersonasOf, LivePersonas
  <1>2. DeletedNeverFalse'
    BY DEF PersonasOK, DeletedNeverFalse
  <1>3. PersonaCount'
    BY <1>1 DEF PersonasOK, PersonaCount
  <1>4. DefaultSound'
    BY <1>1 DEF PersonasOK, DefaultSound
  <1>. QED
    BY <1>2, <1>3, <1>4

(* A registration: the new account has the new persona and no other. *)
LEMMA PersonasInserted ==
    ASSUME PersonasOK, NEW handle \in Handles, NEW email \in Emails,
           NEW confirmed \in BOOLEAN, InsertAccount(handle, email, confirmed)
    PROVE  DeletedNeverFalse' /\ DefaultSound' /\ PersonaCount'
  <1>a. PICK a0 : a0 = Len(accounts) + 1
    OBVIOUS
  <1>p. PICK p0 : p0 = Len(personas) + 1
    OBVIOUS
  <1>0. TypeOK
    BY DEF PersonasOK, StructureOK
  <1>1. /\ DOMAIN accounts' = DOMAIN accounts \cup {a0}
        /\ DOMAIN personas' = DOMAIN personas \cup {p0}
        /\ a0 \notin DOMAIN accounts /\ p0 \notin DOMAIN personas
        /\ \A a \in DOMAIN accounts : accounts'[a] = accounts[a]
        /\ \A p \in DOMAIN personas : personas'[p] = personas[p]
        /\ personas'[p0] = [acc |-> a0, handle |-> handle,
                            default_p |-> TRUE, deleted |-> "null"]
    BY <1>a, <1>p, <1>0, InsertAccountType
  <1>2. /\ personas'[p0].acc = a0
        /\ personas'[p0].default_p
        /\ personas'[p0].deleted = "null"
    BY <1>1
  <1>3. \A p \in DOMAIN personas : personas[p].acc \in DOMAIN accounts
    BY DEF PersonasOK, StructureOK, ReferencesOK
  <1>4. \A a \in DOMAIN accounts :
            PersonasOf(a)' = PersonasOf(a) /\ LivePersonas(a)' = LivePersonas(a)
    BY <1>1, <1>2, <1>3 DEF PersonasOf, LivePersonas
  <1>5. PersonasOf(a0)' = {p0} /\ LivePersonas(a0)' = {p0}
    BY <1>1, <1>2, <1>3 DEF PersonasOf, LivePersonas, IsNull
  <1>6. DeletedNeverFalse'
    BY <1>1, <1>2 DEF PersonasOK, DeletedNeverFalse
  <1>7. PersonaCount'
    <2>1. Cardinality(LivePersonas(a0)') = 1
      BY <1>5, FS_Singleton
    <2>2. 1 <= MaxPersonas
      BY ConfigAssumption
    <2>. QED
      BY <1>1, <1>4, <2>1, <2>2 DEF PersonasOK, PersonaCount
  <1>8. DefaultSound'
    <2>1. ASSUME NEW p \in DOMAIN personas', NEW q \in DOMAIN personas'
          PROVE  /\ personas'[p].default_p => IsNull(personas'[p].deleted)
                 /\ personas'[p].default_p /\ personas'[q].default_p
                       /\ personas'[p].acc = personas'[q].acc => p = q
      BY <1>1, <1>2, <1>3 DEF PersonasOK, DefaultSound, IsNull
    <2>2. ASSUME NEW a \in DOMAIN accounts', ~accounts'[a].confirmed
          PROVE  \E p \in DOMAIN personas' :
                     PersonasOf(a)' = {p} /\ (IsNull(personas'[p].deleted) => personas'[p].default_p)
      <3>1. CASE a = a0
        BY <1>1, <1>2, <1>5, <3>1
      <3>2. CASE a \in DOMAIN accounts
        BY <1>1, <1>4, <2>2, <3>2 DEF PersonasOK, DefaultSound
      <3>. QED
        BY <1>1, <3>1, <3>2
    <2>. QED
      BY <2>1, <2>2 DEF DefaultSound
  <1>. QED
    BY <1>6, <1>7, <1>8

(* NewPersona counts first, so the count stays within the limit. *)
LEMMA PersonasAdded ==
    ASSUME PersonasOK, NEW a \in DOMAIN accounts, NEW handle \in Handles,
           NewPersona(a, handle)
    PROVE  DeletedNeverFalse' /\ DefaultSound' /\ PersonaCount'
  <1>p. PICK p0 : p0 = Len(personas) + 1
    OBVIOUS
  <1>0. StructureOK
    BY DEF PersonasOK
  <1>1. /\ DOMAIN personas' = DOMAIN personas \cup {p0}
        /\ p0 \notin DOMAIN personas
        /\ \A p \in DOMAIN personas : personas'[p] = personas[p]
        /\ personas'[p0] = [acc |-> a, handle |-> handle,
                            default_p |-> FALSE, deleted |-> "null"]
    BY <1>p, <1>0, NewPersonaRows
  <1>2. /\ personas'[p0].acc = a
        /\ ~personas'[p0].default_p
        /\ personas'[p0].deleted = "null"
    BY <1>1
  <1>3. accounts' = accounts /\ accounts[a].confirmed
    BY DEF NewPersona
  <1>4. \A b : b # a => PersonasOf(b)' = PersonasOf(b) /\ LivePersonas(b)' = LivePersonas(b)
    BY <1>1, <1>2 DEF PersonasOf, LivePersonas
  <1>5. DeletedNeverFalse'
    BY <1>1, <1>2 DEF PersonasOK, DeletedNeverFalse
  <1>6. PersonaCount'
    <2>1. LivePersonas(a)' = LivePersonas(a) \cup {p0} /\ p0 \notin LivePersonas(a)
      BY <1>1, <1>2 DEF PersonasOf, LivePersonas, IsNull
    <2>2. IsFiniteSet(LivePersonas(a)) /\ Cardinality(LivePersonas(a)) \in Nat
      BY <1>0, LiveFinite
    <2>3. Cardinality(LivePersonas(a)') = Cardinality(LivePersonas(a)) + 1
      BY <2>1, <2>2, FS_AddElement
    <2>4. Cardinality(LivePersonas(a)) < MaxPersonas
      BY DEF NewPersona
    <2>5. Cardinality(LivePersonas(a)') <= MaxPersonas
      BY <2>2, <2>3, <2>4, ConfigAssumption
    <2>. QED
      BY <1>3, <1>4, <2>5 DEF PersonasOK, PersonaCount
  <1>7. DefaultSound'
    <2>1. ASSUME NEW p \in DOMAIN personas', NEW q \in DOMAIN personas'
          PROVE  /\ personas'[p].default_p => IsNull(personas'[p].deleted)
                 /\ personas'[p].default_p /\ personas'[q].default_p
                       /\ personas'[p].acc = personas'[q].acc => p = q
      BY <1>1, <1>2 DEF PersonasOK, DefaultSound, IsNull
    <2>2. ASSUME NEW b \in DOMAIN accounts', ~accounts'[b].confirmed
          PROVE  \E p \in DOMAIN personas' :
                     PersonasOf(b)' = {p} /\ (IsNull(personas'[p].deleted) => personas'[p].default_p)
      BY <1>1, <1>3, <1>4, <2>2 DEF PersonasOK, DefaultSound
    <2>. QED
      BY <2>1, <2>2 DEF DefaultSound
  <1>. QED
    BY <1>5, <1>6, <1>7

(* A deleted persona adds none, and the default mark disappears with it    *)
(* and passes to none.                                                     *)
LEMMA PersonasDeleted ==
    ASSUME PersonasOK, NEW a \in DOMAIN accounts, NEW p \in DOMAIN personas,
           DeletePersona(a, p)
    PROVE  /\ DeletedNeverFalse' /\ DefaultSound' /\ PersonaCount'
           /\ \A b : LivePersonas(b)' = LivePersonas(b) \ {p}
  <1>0. StructureOK /\ Successors(a, p) = {}
    BY NoSuccessor DEF PersonasOK
  <1>1. /\ DOMAIN personas' = DOMAIN personas
        /\ \A q \in DOMAIN personas :
               /\ personas'[q].acc = personas[q].acc
               /\ personas'[q].deleted = IF q = p THEN "true" ELSE personas[q].deleted
               /\ personas'[q].default_p = (q # p /\ personas[q].default_p)
    BY <1>0, DeletePersonaRows
  <1>2. accounts' = accounts
    BY DEF DeletePersona
  <1>4. \A b : PersonasOf(b)' = PersonasOf(b)
    BY <1>1 DEF PersonasOf
  <1>5. \A b : LivePersonas(b)' = LivePersonas(b) \ {p}
    BY <1>1, <1>4 DEF LivePersonas, PersonasOf, IsNull
  <1>6. DeletedNeverFalse'
    BY <1>1 DEF PersonasOK, DeletedNeverFalse
  <1>7. PersonaCount'
    <2>1. ASSUME NEW b \in DOMAIN accounts
          PROVE  Cardinality(LivePersonas(b)') <= MaxPersonas
      <3>1. IsFiniteSet(LivePersonas(b)) /\ Cardinality(LivePersonas(b)) \in Nat
        BY <1>0, LiveFinite
      <3>2. LivePersonas(b)' \subseteq LivePersonas(b)
        BY <1>5
      <3>3. /\ Cardinality(LivePersonas(b)') \in Nat
            /\ Cardinality(LivePersonas(b)') <= Cardinality(LivePersonas(b))
        BY <3>1, <3>2, FS_Subset, FS_CardinalityType
      <3>. QED
        BY <3>1, <3>3, ConfigAssumption DEF PersonasOK, PersonaCount
    <2>. QED
      BY <1>2, <2>1 DEF PersonaCount
  <1>8. DefaultSound'
    <2>1. ASSUME NEW q \in DOMAIN personas', NEW r \in DOMAIN personas'
          PROVE  /\ personas'[q].default_p => IsNull(personas'[q].deleted)
                 /\ personas'[q].default_p /\ personas'[r].default_p
                       /\ personas'[q].acc = personas'[r].acc => q = r
      BY <1>1 DEF PersonasOK, DefaultSound, IsNull
    <2>2. ASSUME NEW b \in DOMAIN accounts', ~accounts'[b].confirmed
          PROVE  \E q \in DOMAIN personas' :
                     PersonasOf(b)' = {q} /\ (IsNull(personas'[q].deleted) => personas'[q].default_p)
      <3>1. b \in DOMAIN accounts /\ ~accounts[b].confirmed
        BY <1>2, <2>2
      <3>2. PICK q \in DOMAIN personas :
                PersonasOf(b) = {q} /\ (IsNull(personas[q].deleted) => personas[q].default_p)
        BY <3>1 DEF PersonasOK, DefaultSound
      <3>3. IsNull(personas'[q].deleted) => personas'[q].default_p
        BY <1>1, <3>2 DEF IsNull
      <3>. QED
        BY <1>1, <1>4, <3>2, <3>3
    <2>. QED
      BY <2>1, <2>2 DEF DefaultSound
  <1>. QED
    BY <1>5, <1>6, <1>7, <1>8

-----------------------------------------------------------------------------

LEMMA PersonasStep == PersonasOK /\ [Next]_vars => PersonasOK'
  <1> SUFFICES ASSUME PersonasOK, [Next]_vars PROVE PersonasOK'
    OBVIOUS
  <1>0. StructureOK /\ StructureOK'
    BY StructureStep DEF PersonasOK
  <1> DEFINE Goal == DeletedNeverFalse' /\ DefaultSound' /\ PersonaCount'
  <1> SUFFICES Goal
    BY <1>0 DEF PersonasOK
  <1>1. ASSUME UNCHANGED <<accounts, personas>>
        PROVE  Goal
    BY <1>1, PersonasKept
  <1>3. CASE Boot
    <2>1. CASE UNCHANGED <<accounts, personas>>
      BY <1>1, <2>1
    <2>2. CASE InsertAccount(InitHandle, InitEmail, TRUE)
      BY <2>2, PersonasInserted, ConfigAssumption
    <2>. QED
      BY <1>3, <2>1, <2>2 DEF Boot
  <1>4. ASSUME NEW handle \in Handles, NEW email \in Emails, Create(handle, email)
        PROVE  Goal
    BY <1>4, PersonasInserted DEF Create
  <1>5. ASSUME NEW a, Delete(a)
        PROVE  Goal
    <2>1. \A b \in DOMAIN accounts : accounts[b] \in AccountRow
      BY <1>0, RowTypes DEF StructureOK
    <2>2. /\ personas' = personas
          /\ DOMAIN accounts' = DOMAIN accounts
          /\ \A b \in DOMAIN accounts : accounts'[b].confirmed = accounts[b].confirmed
      BY <1>5, <2>1 DEF Delete, AccountRow
    <2>. QED
      BY <2>2, PersonasKept
  <1>6. ASSUME NEW s \in sending, EmailSent(s) \/ EmailFails(s) \/ UndoCreate(s)
        PROVE  Goal
    <2>1. CASE UNCHANGED <<accounts, personas>>
      BY <1>1, <2>1
    <2>2. CASE UndoCreate(s) /\ Delete(s.msg.row)
      BY <1>5, <2>2
    <2>. QED
      BY <1>6, <2>1, <2>2 DEF EmailSent, EmailFails, UndoCreate
  <1>7. ASSUME NEW a \in DOMAIN accounts, ConfirmAccount(a)
        PROVE  Goal
    <2>1. \A b \in DOMAIN accounts : accounts[b] \in AccountRow
      BY <1>0, RowTypes DEF StructureOK
    <2>2. /\ personas' = personas
          /\ DOMAIN accounts' = DOMAIN accounts
          /\ \A b \in DOMAIN accounts : accounts[b].confirmed => accounts'[b].confirmed
      BY <1>7, <2>1 DEF ConfirmAccount, AccountRow
    <2>. QED
      BY <2>2, PersonasKept
  <1>8. ASSUME NEW a \in DOMAIN accounts, NEW handle \in Handles, NewPersona(a, handle)
        PROVE  Goal
    BY <1>8, PersonasAdded
  <1>9. ASSUME NEW a \in DOMAIN accounts, NEW p \in DOMAIN personas, DeletePersona(a, p)
        PROVE  Goal
    BY <1>9, PersonasDeleted
  <1>10. ASSUME NEW p \in DOMAIN personas, NEW handle \in Handles,
                UpdateIdentity(p, handle)
         PROVE  Goal
    <2>1. accounts' = accounts
      BY <1>10 DEF UpdateIdentity
    <2>. QED
      BY <1>0, <1>10, <2>1, UpdateIdentityRows, PersonasKept
  <1>11. CASE Crash \/ UNCHANGED vars
    BY <1>1, <1>11 DEF Crash, vars
  <1>12. ASSUME NEW handle \in Handles, NEW email \in Emails, Reserve(handle, email)
         PROVE  Goal
    BY <1>1, <1>12 DEF Reserve
  <1>13. ASSUME NEW r \in DOMAIN reserved, ConfirmReservation(r)
         PROVE  Goal
    BY <1>1, <1>13 DEF ConfirmReservation
  <1>14. ASSUME NEW a \in DOMAIN accounts, DeleteAccount(a)
         PROVE  Goal
    BY <1>5, <1>14 DEF DeleteAccount
  <1>15. ASSUME NEW c \in changing, ConfirmEmail(c)
         PROVE  Goal
    <2>1. \A b \in DOMAIN accounts : accounts[b] \in AccountRow
      BY <1>0, RowTypes DEF StructureOK
    <2>2. /\ personas' = personas
          /\ DOMAIN accounts' = DOMAIN accounts
          /\ \A b \in DOMAIN accounts : accounts[b].confirmed => accounts'[b].confirmed
      BY <1>15, <2>1 DEF ConfirmEmail, AccountRow
    <2>. QED
      BY <2>2, PersonasKept
  <1>16. ASSUME NEW a, NEW email, ChangeEmail(a, email)
         PROVE  Goal
    BY <1>1, <1>16 DEF ChangeEmail
  <1> HIDE DEF Goal
  <1>. QED
    BY <1>3, <1>4, <1>6, <1>7, <1>8, <1>9, <1>10, <1>11, <1>12, <1>13, <1>14, <1>15, <1>16
       DEF Next

(* Only DeletePersona changes the flag of a persona. *)
LEMMA DeletedKept ==
    ASSUME StructureOK, [Next]_vars, NEW q \in DOMAIN personas,
           personas'[q].deleted # personas[q].deleted
    PROVE  \E a \in DOMAIN accounts, p \in DOMAIN personas : DeletePersona(a, p)
  <1>1. personas' # personas
    OBVIOUS
  <1>2. ASSUME NEW handle \in Handles, NEW email \in Emails, NEW confirmed \in BOOLEAN,
               InsertAccount(handle, email, confirmed)
        PROVE  FALSE
    <2>1. personas'[q] = personas[q]
      BY <1>2, InsertAccountType DEF StructureOK
    <2>. QED
      BY <2>1
  <1>3. ASSUME NEW a \in DOMAIN accounts, NEW handle \in Handles, NewPersona(a, handle)
        PROVE  FALSE
    <2>1. personas'[q] = personas[q]
      BY <1>3, NewPersonaRows
    <2>. QED
      BY <2>1
  <1>4. ASSUME NEW p \in DOMAIN personas, NEW handle \in Handles, UpdateIdentity(p, handle)
        PROVE  FALSE
    BY <1>4, UpdateIdentityRows
  <1>5. ASSUME NEW s, EmailSent(s) \/ EmailFails(s) \/ UndoCreate(s)
        PROVE  FALSE
    BY <1>1, <1>5 DEF EmailSent, EmailFails, UndoCreate, Delete
  <1>6. ~Boot
    BY <1>1, <1>2, ConfigAssumption DEF Boot
  <1>7. ASSUME NEW handle \in Handles, NEW email \in Emails, Create(handle, email)
        PROVE  FALSE
    BY <1>2, <1>7 DEF Create
  <1>. QED
    BY <1>1, <1>3, <1>4, <1>5, <1>6, <1>7
       DEF Next, vars, Crash, Reserve, ConfirmReservation, ConfirmAccount, ConfirmEmail,
           ChangeEmail, DeleteAccount, Delete

LEMMA PersonasInit == Init => PersonasOK
  BY StructureInit DEF Init, PersonasOK, DeletedNeverFalse, DefaultSound, PersonaCount

(* Whatever the requests of an account interleave with, it never has more  *)
(* than MaxPersonas live personas: NewPersona counts inside its            *)
(* transaction, and nothing revives a deleted one.                         *)
THEOREM PersonasBounded == Spec => []PersonaCount
  <1>1. PersonasOK => PersonaCount
    BY DEF PersonasOK
  <1>. QED
    BY <1>1, PersonasInit, PersonasStep, PTL DEF Spec

(* There is at most one default persona to an account, it is live, and an  *)
(* account that is not confirmed yet has only the one it came with.        *)
THEOREM DefaultsSound == Spec => []DefaultSound
  <1>1. PersonasOK => DefaultSound
    BY DEF PersonasOK
  <1>. QED
    BY <1>1, PersonasInit, PersonasStep, PTL DEF Spec

(* Only DeletePersona takes live personas away, and a request leaves the   *)
(* account it is made for at least one of its two or more.                 *)
LEMMA LastOneStep ==
    ASSUME PersonasOK, [Next]_vars
    PROVE  [LosesLastByAnother]_vars
  <1>0. StructureOK /\ DeletedNeverFalse
    BY DEF PersonasOK
  <1>. SUFFICES ASSUME NEW a \in DOMAIN accounts, LivePersonas(a) # {}, LivePersonas(a)' = {}
                PROVE  \E b \in DOMAIN accounts \ {a}, p \in DOMAIN personas : DeletePersona(b, p)
    BY DEF LosesLastByAnother
  <1>1. PICK q : q \in LivePersonas(a)
    OBVIOUS
  <1>2. q \in DOMAIN personas /\ personas[q].acc = a /\ IsNull(personas[q].deleted)
    BY <1>1 DEF LivePersonas, PersonasOf
  <1>3. q \in DOMAIN personas' /\ personas'[q].acc = a
    BY <1>0, <1>2, PersonasStay
  <1>4. personas'[q].deleted # personas[q].deleted
    BY <1>2, <1>3 DEF LivePersonas, PersonasOf
  <1>5. \E b \in DOMAIN accounts, p \in DOMAIN personas : DeletePersona(b, p)
    BY <1>0, <1>2, <1>4, DeletedKept
  <1>6. PICK b \in DOMAIN accounts, p \in DOMAIN personas : DeletePersona(b, p)
    BY <1>5
  <1>7. CASE b = a
    <2>1. LivePersonas(a)' = LivePersonas(a) \ {p}
      BY <1>6, <1>7, PersonasDeleted
    <2>2. LivePersonas(a) = {p}
      BY <2>1
    <2>3. Cardinality(LivePersonas(a)) = 1
      BY <2>2, FS_Singleton
    <2>4. Cardinality(LivePersonas(b)) >= 2
      BY <1>6 DEF DeletePersona
    <2>. QED
      BY <1>7, <2>3, <2>4
  <1>. QED
    BY <1>6, <1>7

(* The last live persona of an account goes only by a request made for     *)
(* another account: DeletePersona counts the personas of the account it    *)
(* serves inside its transaction, and no other handler deletes one.        *)
THEOREM LastOneStays == Spec => LastPersonaKept
  <1>. QED
    BY PersonasInit, PersonasStep, LastOneStep, PTL DEF Spec, LastPersonaKept

-----------------------------------------------------------------------------
(* Reservations are used up on behalf of the account that is admitted. *)

LEMMA RedeemedByConfirming ==
    ASSUME PersonasOK, NEW a \in DOMAIN accounts, ConfirmAccount(a)
    PROVE  RedeemsForItself
  <1>1. /\ \A r \in DOMAIN reserved : reserved[r] \in ReservedRow
        /\ \A b \in DOMAIN accounts : accounts[b] \in AccountRow
    BY RowTypes DEF PersonasOK, StructureOK
  <1>2. ~accounts[a].confirmed /\ accounts'[a].confirmed
    BY <1>1 DEF ConfirmAccount, AccountRow
  <1>3. PICK p \in PersonasOf(a) :
            reserved' = [r \in DOMAIN reserved |->
                IF /\ Like(reserved[r].handle, personas[p].handle)
                   /\ Like(reserved[r].email, accounts[a].email)
                THEN [reserved[r] EXCEPT !.redeemed = TRUE]
                ELSE reserved[r]]
    BY DEF ConfirmAccount
  <1>4. p \in DOMAIN personas /\ PersonasOf(a) = {p}
    BY <1>2, <1>3 DEF PersonasOK, DefaultSound, PersonasOf
  <1>5. ASSUME NEW r \in DOMAIN reserved, reserved'[r].redeemed, ~reserved[r].redeemed
        PROVE  /\ Like(reserved'[r].handle, personas[p].handle)
               /\ Like(reserved'[r].email, accounts[a].email)
    BY <1>1, <1>3, <1>5 DEF ReservedRow
  <1>6. DOMAIN reserved' = DOMAIN reserved
    BY <1>3
  <1>. QED
    BY <1>2, <1>4, <1>5, <1>6 DEF RedeemsForItself

LEMMA RedeemedStep ==
    ASSUME PersonasOK, [Next]_vars
    PROVE  [RedeemsForItself]_vars
  <1>0. StructureOK
    BY DEF PersonasOK
  <1>2. \A r \in DOMAIN reserved : reserved[r] \in ReservedRow
    BY <1>0, RowTypes DEF StructureOK
  <1>3. CASE reserved' = reserved
    BY <1>3 DEF RedeemsForItself
  <1>4. ASSUME NEW a \in DOMAIN accounts, ConfirmAccount(a) PROVE RedeemsForItself
    BY <1>4, RedeemedByConfirming
  <1>5. ASSUME NEW i \in DOMAIN reserved, ConfirmReservation(i) PROVE RedeemsForItself
    <2>1. /\ DOMAIN reserved' = DOMAIN reserved
          /\ \A r \in DOMAIN reserved : reserved'[r].redeemed = reserved[r].redeemed
      BY <1>2, <1>5 DEF ConfirmReservation, ReservedRow
    <2>. QED
      BY <2>1 DEF RedeemsForItself
  <1>6. ASSUME NEW handle \in Handles, NEW email \in Emails, Reserve(handle, email)
        PROVE  RedeemsForItself
    <2>. DEFINE row == [handle |-> handle, email |-> email, confirmed |-> FALSE, redeemed |-> FALSE]
    <2>1. row \in ReservedRow /\ ~row.redeemed
      BY DEF ReservedRow
    <2>2. reserved' = Append(reserved, row)
      BY <1>6 DEF Reserve
    <2>. HIDE DEF row
    <2>3. \A r \in DOMAIN reserved' :
              (r \in DOMAIN reserved /\ reserved'[r] = reserved[r]) \/ reserved'[r] = row
      BY <1>0, <2>1, <2>2, InsertRow DEF StructureOK, TypeOK
    <2>. QED
      BY <2>1, <2>3 DEF RedeemsForItself
  <1>7. ASSUME NEW s, EmailSent(s) \/ EmailFails(s) \/ UndoCreate(s)
        PROVE  reserved' = reserved
    BY <1>7 DEF EmailSent, EmailFails, UndoCreate, Delete
  <1>8. CASE UNCHANGED vars
    BY <1>8
  <1>. QED
    BY <1>3, <1>4, <1>5, <1>6, <1>7, <1>8
       DEF Next, Boot, Crash, Create, ConfirmEmail, ChangeEmail, DeleteAccount, Delete,
           NewPersona, DeletePersona, UpdateIdentity

(* A reservation is used up in one step with the confirmation of a         *)
(* registration for its address and its handle, and by nothing else:       *)
(* ConfirmAccount of account.go matches both, and until then the account   *)
(* has no other persona whose handle could match.  Addresses may change    *)
(* before and after; the account need not keep the one it redeemed with.   *)
THEOREM RedeemedByOwner == Spec => RedeemedByConfirmed
  <1>. QED
    BY PersonasInit, PersonasStep, RedeemedStep, PTL DEF Spec, RedeemedByConfirmed

-----------------------------------------------------------------------------
(* Attempts to send an e-mail. *)

RowsFor(kind) == IF kind = "register" THEN DOMAIN accounts ELSE DOMAIN reserved

(* There is one handler to a confirmation e-mail. *)
OneHandler == \A s, t \in sending : s.msg = t.msg => s = t

(* What is being sent was being sent before, with as many attempts made or *)
(* one fewer, or belongs to a row that this step inserts.                  *)
AttemptsAdvance ==
    \A s \in sending' :
        \/ s \in sending
        \/ \E r \in sending \ sending' : s.msg = r.msg /\ s.tries = r.tries + 1
        \/ s.tries = 0 /\ s.msg.row \notin RowsFor(s.msg.kind)

AttemptsBounded ==
    /\ [](OneHandler /\ \A s \in sending : s.tries \in 0..EmailTries)
    /\ [][AttemptsAdvance]_vars

LEMMA SendingStarts ==
    ASSUME StructureOK, OneHandler, NEW kind \in {"register", "reserve"}, NEW row,
           row \notin RowsFor(kind), StartSending(kind, row)
    PROVE  OneHandler' /\ AttemptsAdvance
  <1>. DEFINE new == [msg |-> [kind |-> kind, row |-> row], tries |-> 0]
  <1>1. new.msg = [kind |-> kind, row |-> row] /\ new.tries = 0
        /\ new.msg.kind = kind /\ new.msg.row = row
    OBVIOUS
  <1>2. sending' = sending \cup {new}
    BY DEF StartSending
  <1>. HIDE DEF new
  <1>3. \A s \in sending : s.msg.row \in RowsFor(s.msg.kind)
    BY DEF StructureOK, ReferencesOK, RowsFor
  <1>4. \A s \in sending : s.msg # new.msg
    BY <1>1, <1>3
  <1>5. OneHandler'
    BY <1>2, <1>4 DEF OneHandler
  <1>6. AttemptsAdvance
    BY <1>1, <1>2 DEF AttemptsAdvance
  <1>. QED
    BY <1>5, <1>6

LEMMA SendingGoesOn ==
    ASSUME StructureOK, OneHandler, NEW s \in sending, EmailSent(s) \/ EmailFails(s) \/ UndoCreate(s)
    PROVE  OneHandler' /\ AttemptsAdvance
  <1>1. CASE sending' = sending \ {s}
    BY <1>1 DEF OneHandler, AttemptsAdvance
  <1>2. CASE sending' = (sending \ {s}) \cup {[s EXCEPT !.tries = @ + 1]}
    <2>. DEFINE again == [s EXCEPT !.tries = @ + 1]
    <2>1. s \in [msg : Message, tries : 0..EmailTries]
      BY DEF StructureOK, TypeOK
    <2>2. again.msg = s.msg /\ again.tries = s.tries + 1 /\ s.tries \in Nat
      BY <2>1, ConfigAssumption
    <2>3. sending' = (sending \ {s}) \cup {again}
      BY <1>2
    <2>. HIDE DEF again
    <2>4. again # s
      <3>1. again.tries # s.tries
        BY <2>2
      <3>. QED
        BY <3>1
    <2>5. s \in sending \ sending'
      BY <2>3, <2>4
    <2>6. OneHandler'
      BY <2>2, <2>3 DEF OneHandler
    <2>7. AttemptsAdvance
      BY <2>2, <2>3, <2>5 DEF AttemptsAdvance
    <2>. QED
      BY <2>6, <2>7
  <1>. QED
    BY <1>1, <1>2 DEF EmailSent, EmailFails, UndoCreate

LEMMA SendingStep ==
    ASSUME StructureOK, OneHandler, [Next]_vars
    PROVE  OneHandler' /\ AttemptsAdvance
  <1>1. CASE sending' = sending \/ sending' = {}
    BY <1>1 DEF OneHandler, AttemptsAdvance
  <1>2. Len(accounts) + 1 \notin RowsFor("register") /\ Len(reserved) + 1 \notin RowsFor("reserve")
    BY RowTypes, TableDomain DEF StructureOK, RowsFor
  <1>3. ASSUME NEW handle \in Handles, NEW email \in Emails, Create(handle, email) \/ Reserve(handle, email)
        PROVE  OneHandler' /\ AttemptsAdvance
    BY <1>2, <1>3, SendingStarts DEF Create, Reserve
  <1>4. ASSUME NEW s \in sending, EmailSent(s) \/ EmailFails(s) \/ UndoCreate(s)
        PROVE  OneHandler' /\ AttemptsAdvance
    BY <1>4, SendingGoesOn
  <1>5. CASE UNCHANGED vars \/ Boot \/ Crash
    BY <1>1, <1>5 DEF vars, Boot, Crash
  <1>6. ASSUME NEW r \in DOMAIN reserved, ConfirmReservation(r)
        PROVE  sending' = sending
    BY <1>6 DEF ConfirmReservation
  <1>7. ASSUME NEW a \in DOMAIN accounts,
               \/ ConfirmAccount(a) \/ DeleteAccount(a)
               \/ \E email \in Emails : ChangeEmail(a, email)
               \/ \E handle \in Handles : NewPersona(a, handle)
               \/ \E p \in DOMAIN personas : DeletePersona(a, p)
        PROVE  sending' = sending
    BY <1>7 DEF ConfirmAccount, DeleteAccount, ChangeEmail, NewPersona, DeletePersona
  <1>8. ASSUME NEW p, NEW handle, UpdateIdentity(p, handle)
        PROVE  sending' = sending
    BY <1>8 DEF UpdateIdentity
  <1>9. ASSUME NEW c, ConfirmEmail(c)
        PROVE  sending' = sending
    BY <1>9 DEF ConfirmEmail
  <1>. QED
    BY <1>1, <1>3, <1>4, <1>5, <1>6, <1>7, <1>8, <1>9 DEF Next

(* A confirmation e-mail has one handler, which makes no more attempts     *)
(* than TryerEmail is given and none once it is done: Create and Reserve   *)
(* send for rows they have just inserted, so that no message is taken up   *)
(* again.  With the fairness of the scheduler this is why sending ends.    *)
THEOREM AttemptsAreBounded == Spec => AttemptsBounded
  <1>1. Init => OneHandler
    BY DEF Init, OneHandler
  <1>2. StructureOK /\ OneHandler /\ [Next]_vars => OneHandler' /\ [AttemptsAdvance]_vars
    BY SendingStep
  <1>3. StructureOK => \A s \in sending : s.tries \in 0..EmailTries
    BY DEF StructureOK, TypeOK
  <1>. QED
    BY <1>1, <1>2, <1>3, StructureInit, StructureStep, PTL DEF Spec, AttemptsBounded

=============================================================================
