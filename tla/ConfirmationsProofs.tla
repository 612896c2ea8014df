------------------------ MODULE ConfirmationsProofs -------------------------
(***************************************************************************)
(* Proofs about module Confirmations, for any accounts, addresses,         *)
(* passwords, comparison of addresses and number of codes: changes take    *)
(* effect in order and at most once, by codes that were sent for them, and *)
(* to addresses that were proven.                                          *)
(***************************************************************************)
EXTENDS Confirmations, SequenceTheorems, TLAPS

Messages == sending \cup inbox

(* Codes count up: every code in use has been generated. *)
CodesGenerated ==
    /\ \A m \in Messages : m.code <= lastCode
    /\ \A row \in changeEmail : row.code <= lastCode
    /\ \A row \in changePassword : row.code <= lastCode
    /\ \A row \in mailing : row.code <= lastCode

(* A message that carries the code of a row was sent for that row. *)
MessagesFit ==
    \A m \in Messages :
        /\ \A row \in changeEmail : row.code = m.code => m.kind = "email" /\ m.to = row.email
        /\ \A row \in changePassword : row.code = m.code => m.kind \in {"password", "forgot"}
        /\ \A row \in mailing : row.code = m.code => m.kind = "mailing" /\ m.to = row.email

(* The codes that may still change an account are later than those that    *)
(* have changed it: confirming one removes the rows of the others.         *)
PendingAfterApplied ==
    \A a \in Accounts :
        /\ \A row \in changeEmail, i \in DOMAIN applied["email"][a] :
               row.ref_id = a => applied["email"][a][i] < row.code
        /\ \A row \in changePassword, i \in DOMAIN applied["password"][a] :
               row.ref_id = a => applied["password"][a][i] < row.code

IInv ==
    /\ TypeOK /\ CodesGenerated /\ MessagesFit /\ PendingAfterApplied
    /\ AppliedInOrder /\ AddressProven /\ SubscribedByMail /\ CodeKeepsPurpose

-----------------------------------------------------------------------------
(* The history of what took effect. *)

LEMMA AppendCode ==
    ASSUME NEW codes \in Seq(CodeRange), NEW code \in CodeRange
    PROVE  /\ Append(codes, code) \in Seq(CodeRange)
           /\ Len(codes) \in Nat
           /\ DOMAIN codes = 1..Len(codes)
           /\ DOMAIN Append(codes, code) = 1..(Len(codes) + 1)
           /\ \A i \in 1..Len(codes) : Append(codes, code)[i] = codes[i] /\ codes[i] \in CodeRange
           /\ Append(codes, code)[Len(codes) + 1] = code
  BY LenProperties, ElementOfSeq, AppendProperties

LEMMA ApplyCode ==
    ASSUME applied \in [Changing -> [Accounts -> Seq(CodeRange)]],
           NEW kind \in Changing, NEW a \in Accounts, NEW code \in CodeRange,
           Apply(kind, a, code)
    PROVE  /\ applied' \in [Changing -> [Accounts -> Seq(CodeRange)]]
           /\ applied'[kind][a] = Append(applied[kind][a], code)
           /\ \A k \in Changing, b \in Accounts :
                  <<k, b>> # <<kind, a>> => applied'[k][b] = applied[k][b]
  <1>1. applied[kind][a] \in Seq(CodeRange)
    OBVIOUS
  <1>2. Append(applied[kind][a], code) \in Seq(CodeRange)
    BY <1>1, AppendProperties
  <1>. QED
    BY <1>2 DEF Apply

(* What a code applied at the end of the history leaves true of it. *)
LEMMA AppliedLast ==
    ASSUME applied \in [Changing -> [Accounts -> Seq(CodeRange)]], AppliedInOrder,
           NEW kind \in Changing, NEW a \in Accounts, NEW code \in CodeRange,
           \A i \in DOMAIN applied[kind][a] : applied[kind][a][i] < code,
           Apply(kind, a, code)
    PROVE  AppliedInOrder'
  <1>1. applied[kind][a] \in Seq(CodeRange) /\ CodeRange \subseteq Nat
    BY DEF CodeRange
  <1>2. ASSUME NEW k \in Changing, NEW b \in Accounts, <<k, b>> # <<kind, a>>
        PROVE  applied'[k][b] = applied[k][b]
    BY <1>2, ApplyCode
  <1>3. applied'[kind][a] = Append(applied[kind][a], code)
    BY ApplyCode
  <1>4. \A i, j \in DOMAIN applied'[kind][a] :
            i < j => applied'[kind][a][i] < applied'[kind][a][j]
    BY <1>1, <1>3, AppendCode DEF AppliedInOrder
  <1>. QED
    BY <1>2, <1>4 DEF AppliedInOrder

LEMMA AppliedForPurpose ==
    ASSUME applied \in [Changing -> [Accounts -> Seq(CodeRange)]], CodeKeepsPurpose,
           NEW kind \in Changing, NEW a \in Accounts, NEW m \in inbox,
           m.code \in CodeRange, m.kind \in EffectOf(kind),
           Apply(kind, a, m.code), inbox' = inbox
    PROVE  CodeKeepsPurpose'
  <1>1. applied[kind][a] \in Seq(CodeRange)
    OBVIOUS
  <1>2. ASSUME NEW k \in Changing, NEW b \in Accounts, <<k, b>> # <<kind, a>>
        PROVE  applied'[k][b] = applied[k][b]
    BY <1>2, ApplyCode
  <1>3. applied'[kind][a] = Append(applied[kind][a], m.code)
    BY ApplyCode
  <1>4. ASSUME NEW k \in Changing, NEW b \in Accounts, NEW i \in DOMAIN applied'[k][b]
        PROVE  \E n \in inbox : n.code = applied'[k][b][i] /\ n.kind \in EffectOf(k)
    <2>1. CASE <<k, b>> # <<kind, a>>
      BY <1>2, <1>4, <2>1 DEF CodeKeepsPurpose
    <2>2. CASE k = kind /\ b = a
      <3>1. i \in 1..(Len(applied[kind][a]) + 1)
        BY <1>1, <1>3, <1>4, <2>2, AppendCode
      <3>2. CASE i = Len(applied[kind][a]) + 1
        BY <1>1, <1>3, <2>2, <3>2, AppendCode
      <3>3. CASE i \in 1..Len(applied[kind][a])
        BY <1>1, <1>3, <2>2, <3>3, AppendCode DEF CodeKeepsPurpose
      <3>. QED
        BY <1>1, <3>1, <3>2, <3>3, AppendCode
    <2>. QED
      BY <2>1, <2>2
  <1>. QED
    BY <1>4 DEF CodeKeepsPurpose

LEMMA InitOK == Init => IInv
  <1> SUFFICES ASSUME Init PROVE IInv
    OBVIOUS
  <1>1. applied \in [Changing -> [Accounts -> Seq(CodeRange)]]
    BY EmptySeq DEF Init
  <1>2. \A k \in Changing, a \in Accounts : DOMAIN applied[k][a] = {}
    BY EmptySeq DEF Init
  <1>3. TypeOK
    BY <1>1, CodeAssumption, AccountAssumption DEF Init, TypeOK
  <1>4. AppliedInOrder /\ CodeKeepsPurpose
    BY <1>2 DEF AppliedInOrder, CodeKeepsPurpose
  <1>. QED
    BY <1>3, <1>4 DEF Init, IInv, Messages, CodesGenerated, MessagesFit, PendingAfterApplied,
                      AddressProven, SubscribedByMail, Subscribed

-----------------------------------------------------------------------------
(* One lemma for the requests, one for each way a code is confirmed. *)

LEMMA StepNewCode ==
    ASSUME IInv, NEW kind \in Kinds, NEW to \in Emails, NewCode(kind, to)
    PROVE  /\ lastCode' = lastCode + 1 /\ lastCode' \in CodeRange /\ lastCode \in Nat
           /\ sending' \subseteq Message /\ lastCode' \in 0..Codes
           /\ Messages' = Messages \cup {[kind |-> kind, to |-> to, code |-> lastCode']}
           /\ \A m \in Messages : m.code < lastCode' /\ m.code \in Nat
           /\ \A row \in changeEmail : row.code < lastCode' /\ row.code \in Nat
           /\ \A row \in changePassword : row.code < lastCode' /\ row.code \in Nat
           /\ \A row \in mailing : row.code < lastCode' /\ row.code \in Nat
  <1>1. lastCode \in Nat /\ lastCode' = lastCode + 1 /\ lastCode < Codes
    BY CodeAssumption DEF IInv, TypeOK, NewCode
  <1>2. lastCode' \in CodeRange /\ lastCode' \in 0..Codes
    BY <1>1, CodeAssumption DEF CodeRange
  <1>3. /\ sending' \subseteq Message
        /\ Messages' = Messages \cup {[kind |-> kind, to |-> to, code |-> lastCode']}
    BY <1>1, <1>2 DEF NewCode, Message, Messages, IInv, TypeOK
  <1>4. /\ \A m \in Messages : m.code \in CodeRange
        /\ \A row \in changeEmail : row.code \in CodeRange
        /\ \A row \in changePassword : row.code \in CodeRange
        /\ \A row \in mailing : row.code \in CodeRange
    BY DEF IInv, TypeOK, Message, Messages
  <1>5. \A c \in CodeRange : c \in Nat /\ (c <= lastCode => c < lastCode')
    BY <1>1 DEF CodeRange
  <1>6. /\ \A m \in Messages : m.code < lastCode' /\ m.code \in Nat
        /\ \A row \in changeEmail : row.code < lastCode' /\ row.code \in Nat
        /\ \A row \in changePassword : row.code < lastCode' /\ row.code \in Nat
        /\ \A row \in mailing : row.code < lastCode' /\ row.code \in Nat
    BY <1>4, <1>5 DEF IInv, CodesGenerated
  <1>. QED
    BY <1>1, <1>2, <1>3, <1>6

(* Codes that have taken effect are among the generated ones. *)
LEMMA AppliedGenerated ==
    ASSUME IInv, NEW k \in Changing, NEW a \in Accounts, NEW i \in DOMAIN applied[k][a]
    PROVE  applied[k][a][i] <= lastCode /\ applied[k][a][i] \in Nat
  <1>1. PICK m \in inbox : m.code = applied[k][a][i]
    BY DEF IInv, CodeKeepsPurpose
  <1>2. m.code \in Nat
    BY <1>1 DEF IInv, TypeOK, Message, CodeRange
  <1>. QED
    BY <1>1, <1>2 DEF IInv, CodesGenerated, Messages

LEMMA StepChangeEmail ==
    ASSUME IInv, NEW a \in Accounts, NEW new \in Emails, ChangeEmail(a, new)
    PROVE  IInv'
  <1> DEFINE row == [ref_id |-> a, email |-> new, code |-> lastCode']
             msg == [kind |-> "email", to |-> new, code |-> lastCode']
  <1>1. NewCode("email", new) /\ "email" \in Kinds
    BY DEF ChangeEmail, Kinds
  <1>2. /\ lastCode' = lastCode + 1 /\ lastCode' \in CodeRange /\ lastCode \in Nat
        /\ sending' \subseteq Message /\ lastCode' \in 0..Codes
        /\ Messages' = Messages \cup {msg}
        /\ \A m \in Messages : m.code < lastCode' /\ m.code \in Nat
        /\ \A r \in changeEmail : r.code < lastCode' /\ r.code \in Nat
        /\ \A r \in changePassword : r.code < lastCode' /\ r.code \in Nat
        /\ \A r \in mailing : r.code < lastCode' /\ r.code \in Nat
    BY <1>1, StepNewCode
  <1>3. /\ changeEmail' = changeEmail \cup {row}
        /\ UNCHANGED <<email, pass, deleted, changePassword, mailing, inbox, applied>>
    BY <1>2 DEF ChangeEmail, NewCode
  <1>4. TypeOK'
    BY <1>2, <1>3 DEF IInv, TypeOK
  <1>5. CodesGenerated'
    BY <1>2, <1>3 DEF CodesGenerated
  <1>6. MessagesFit'
    BY <1>2, <1>3 DEF IInv, MessagesFit
  <1>7. PendingAfterApplied'
    <2>1. \A i \in DOMAIN applied["email"][a] : applied["email"][a][i] < lastCode'
      BY <1>2, AppliedGenerated DEF Changing
    <2>. QED
      BY <1>3, <2>1 DEF IInv, PendingAfterApplied
  <1>8. AppliedInOrder' /\ AddressProven' /\ CodeKeepsPurpose'
    BY <1>3 DEF IInv, AppliedInOrder, AddressProven, CodeKeepsPurpose
  <1>9. SubscribedByMail'
    BY <1>3 DEF IInv, SubscribedByMail, Subscribed
  <1>. QED
    BY <1>4, <1>5, <1>6, <1>7, <1>8, <1>9 DEF IInv

LEMMA StepInsertPassword ==
    ASSUME IInv, NEW a \in Accounts, NEW new \in Passwords,
           NEW kind \in {"password", "forgot"},
           NewCode(kind, email[a]), InsertPassword(a, new)
    PROVE  IInv'
  <1> DEFINE row == [ref_id |-> a, pass |-> new, code |-> lastCode']
             msg == [kind |-> kind, to |-> email[a], code |-> lastCode']
  <1>1. kind \in Kinds /\ email[a] \in Emails
    BY DEF Kinds, IInv, TypeOK
  <1>2. /\ lastCode' = lastCode + 1 /\ lastCode' \in CodeRange /\ lastCode \in Nat
        /\ sending' \subseteq Message /\ lastCode' \in 0..Codes
        /\ Messages' = Messages \cup {msg}
        /\ \A m \in Messages : m.code < lastCode' /\ m.code \in Nat
        /\ \A r \in changeEmail : r.code < lastCode' /\ r.code \in Nat
        /\ \A r \in changePassword : r.code < lastCode' /\ r.code \in Nat
        /\ \A r \in mailing : r.code < lastCode' /\ r.code \in Nat
    BY <1>1, StepNewCode
  <1>3. /\ changePassword' = changePassword \cup {row}
        /\ UNCHANGED <<email, pass, deleted, changeEmail, mailing, inbox, applied>>
    BY <1>2 DEF InsertPassword, NewCode
  <1>4. TypeOK'
    BY <1>2, <1>3 DEF IInv, TypeOK
  <1>5. CodesGenerated'
    BY <1>2, <1>3 DEF CodesGenerated
  <1>6. MessagesFit'
    BY <1>2, <1>3 DEF IInv, MessagesFit
  <1>7. PendingAfterApplied'
    <2>1. \A i \in DOMAIN applied["password"][a] : applied["password"][a][i] < lastCode'
      BY <1>2, AppliedGenerated DEF Changing
    <2>. QED
      BY <1>3, <2>1 DEF IInv, PendingAfterApplied
  <1>8. AppliedInOrder' /\ AddressProven' /\ CodeKeepsPurpose'
    BY <1>3 DEF IInv, AppliedInOrder, AddressProven, CodeKeepsPurpose
  <1>9. SubscribedByMail'
    BY <1>3 DEF IInv, SubscribedByMail, Subscribed
  <1>. QED
    BY <1>4, <1>5, <1>6, <1>7, <1>8, <1>9 DEF IInv

LEMMA StepMailing ==
    ASSUME IInv, NEW address \in Emails, Mailing(address)
    PROVE  IInv'
  <1> DEFINE row == [email |-> address, code |-> lastCode', confirmed |-> FALSE]
             msg == [kind |-> "mailing", to |-> address, code |-> lastCode']
  <1>1. NewCode("mailing", address) /\ "mailing" \in Kinds
    BY DEF Mailing, Kinds
  <1>2. /\ lastCode' = lastCode + 1 /\ lastCode' \in CodeRange /\ lastCode \in Nat
        /\ sending' \subseteq Message /\ lastCode' \in 0..Codes
        /\ Messages' = Messages \cup {msg}
        /\ \A m \in Messages : m.code < lastCode' /\ m.code \in Nat
        /\ \A r \in changeEmail : r.code < lastCode' /\ r.code \in Nat
        /\ \A r \in changePassword : r.code < lastCode' /\ r.code \in Nat
        /\ \A r \in mailing : r.code < lastCode' /\ r.code \in Nat
    BY <1>1, StepNewCode
  <1>3. /\ mailing' = mailing \cup {row}
        /\ UNCHANGED <<email, pass, deleted, changeEmail, changePassword, inbox, applied>>
    BY <1>2 DEF Mailing, NewCode
  <1>4. TypeOK'
    <2>1. row \in [email : Emails, code : CodeRange, confirmed : BOOLEAN]
      BY <1>2
    <2>. QED
      BY <1>2, <1>3, <2>1 DEF IInv, TypeOK
  <1>5. CodesGenerated'
    BY <1>2, <1>3 DEF CodesGenerated
  <1>6. MessagesFit'
    BY <1>2, <1>3 DEF IInv, MessagesFit
  <1>7. PendingAfterApplied'
    BY <1>3 DEF IInv, PendingAfterApplied
  <1>8. AppliedInOrder' /\ AddressProven' /\ CodeKeepsPurpose'
    BY <1>3 DEF IInv, AppliedInOrder, AddressProven, CodeKeepsPurpose
  <1>9. SubscribedByMail'
    BY <1>3 DEF IInv, SubscribedByMail, Subscribed
  <1>. QED
    BY <1>4, <1>5, <1>6, <1>7, <1>8, <1>9 DEF IInv

LEMMA StepConfirmEmail ==
    ASSUME IInv, NEW m \in inbox, ConfirmEmail(m.code)
    PROVE  IInv'
  <1>1. PICK row \in changeEmail :
            /\ row.code = m.code
            /\ email' = [email EXCEPT ![row.ref_id] = row.email]
            /\ changeEmail' = {other \in changeEmail : other.ref_id # row.ref_id}
            /\ Apply("email", row.ref_id, m.code)
            /\ UNCHANGED <<pass, deleted, changePassword, mailing, lastCode, sending, inbox>>
    BY DEF ConfirmEmail
  <1>2. /\ row.ref_id \in Accounts /\ row.email \in Emails /\ m.code \in CodeRange
        /\ "email" \in Changing
    BY DEF IInv, TypeOK, Message, Changing
  <1>3. m.kind = "email" /\ m.to = row.email
    BY <1>1 DEF IInv, MessagesFit, Messages
  <1>4. applied \in [Changing -> [Accounts -> Seq(CodeRange)]]
    BY DEF IInv, TypeOK
  <1>5. /\ applied' \in [Changing -> [Accounts -> Seq(CodeRange)]]
        /\ applied'["email"][row.ref_id] = Append(applied["email"][row.ref_id], m.code)
        /\ \A k \in Changing, b \in Accounts :
               <<k, b>> # <<"email", row.ref_id>> => applied'[k][b] = applied[k][b]
    BY <1>1, <1>2, <1>4, ApplyCode
  <1>6. TypeOK'
    BY <1>1, <1>2, <1>5 DEF IInv, TypeOK
  <1>7. CodesGenerated' /\ MessagesFit'
    BY <1>1 DEF IInv, CodesGenerated, MessagesFit, Messages
  <1>8. PendingAfterApplied'
    BY <1>1, <1>5 DEF IInv, PendingAfterApplied, Changing
  <1>9. AppliedInOrder'
    <2>1. \A i \in DOMAIN applied["email"][row.ref_id] : applied["email"][row.ref_id][i] < m.code
      BY <1>1, <1>2 DEF IInv, PendingAfterApplied
    <2>. QED
      BY <1>1, <1>2, <1>4, <2>1, AppliedLast DEF IInv
  <1>10. applied["email"][row.ref_id] \in Seq(CodeRange)
    BY <1>2, <1>4
  <1>11. /\ DOMAIN applied["email"][row.ref_id] = 1..Len(applied["email"][row.ref_id])
         /\ DOMAIN applied'["email"][row.ref_id] = 1..(Len(applied["email"][row.ref_id]) + 1)
         /\ Len(applied["email"][row.ref_id]) \in Nat
         /\ \A i \in 1..Len(applied["email"][row.ref_id]) :
                applied'["email"][row.ref_id][i] = applied["email"][row.ref_id][i]
         /\ applied'["email"][row.ref_id][Len(applied["email"][row.ref_id]) + 1] = m.code
    BY <1>2, <1>5, <1>10, AppendCode
  <1>12. AddressProven'
    <2>1. ASSUME NEW a \in Accounts, a # row.ref_id
          PROVE  email'[a] = email[a] /\ applied'["email"][a] = applied["email"][a]
      BY <1>1, <1>2, <1>5, <2>1 DEF IInv, TypeOK
    <2>2. email'[row.ref_id] = m.to
      BY <1>1, <1>2, <1>3 DEF IInv, TypeOK
    <2>3. \E i \in DOMAIN applied'["email"][row.ref_id] : applied'["email"][row.ref_id][i] = m.code
      BY <1>11
    <2>. QED
      BY <1>1, <1>3, <2>1, <2>2, <2>3 DEF IInv, AddressProven
  <1>13. SubscribedByMail'
    BY <1>1 DEF IInv, SubscribedByMail, Subscribed
  <1>14. CodeKeepsPurpose'
    BY <1>1, <1>2, <1>3, <1>4, AppliedForPurpose DEF IInv, EffectOf
  <1>. QED
    BY <1>6, <1>7, <1>8, <1>9, <1>12, <1>13, <1>14 DEF IInv

LEMMA StepConfirmPassword ==
    ASSUME IInv, NEW m \in inbox, ConfirmPassword(m.code)
    PROVE  IInv'
  <1>1. PICK row \in changePassword :
            /\ row.code = m.code
            /\ pass' = [pass EXCEPT ![row.ref_id] = row.pass]
            /\ changePassword' = {other \in changePassword : other.ref_id # row.ref_id}
            /\ Apply("password", row.ref_id, m.code)
            /\ UNCHANGED <<email, deleted, changeEmail, mailing, lastCode, sending, inbox>>
    BY DEF ConfirmPassword
  <1>2. /\ row.ref_id \in Accounts /\ row.pass \in Passwords /\ m.code \in CodeRange
        /\ "password" \in Changing
    BY DEF IInv, TypeOK, Message, Changing
  <1>3. m.kind \in {"password", "forgot"}
    BY <1>1 DEF IInv, MessagesFit, Messages
  <1>4. applied \in [Changing -> [Accounts -> Seq(CodeRange)]]
    BY DEF IInv, TypeOK
  <1>5. /\ applied' \in [Changing -> [Accounts -> Seq(CodeRange)]]
        /\ applied'["password"][row.ref_id] = Append(applied["password"][row.ref_id], m.code)
        /\ \A k \in Changing, b \in Accounts :
               <<k, b>> # <<"password", row.ref_id>> => applied'[k][b] = applied[k][b]
    BY <1>1, <1>2, <1>4, ApplyCode
  <1>6. TypeOK'
    BY <1>1, <1>2, <1>5 DEF IInv, TypeOK
  <1>7. CodesGenerated' /\ MessagesFit'
    BY <1>1 DEF IInv, CodesGenerated, MessagesFit, Messages
  <1>8. PendingAfterApplied'
    BY <1>1, <1>5 DEF IInv, PendingAfterApplied, Changing
  <1>9. AppliedInOrder'
    <2>1. \A i \in DOMAIN applied["password"][row.ref_id] :
              applied["password"][row.ref_id][i] < m.code
      BY <1>1, <1>2 DEF IInv, PendingAfterApplied
    <2>. QED
      BY <1>1, <1>2, <1>4, <2>1, AppliedLast DEF IInv
  <1>10. AddressProven'
    <2>1. \A a \in Accounts : applied'["email"][a] = applied["email"][a]
      BY <1>5 DEF Changing
    <2>. QED
      BY <1>1, <2>1 DEF IInv, AddressProven
  <1>11. SubscribedByMail'
    BY <1>1 DEF IInv, SubscribedByMail, Subscribed
  <1>12. CodeKeepsPurpose'
    BY <1>1, <1>2, <1>3, <1>4, AppliedForPurpose DEF IInv, EffectOf
  <1>. QED
    BY <1>6, <1>7, <1>8, <1>9, <1>10, <1>11, <1>12 DEF IInv

LEMMA StepConfirmSubscription ==
    ASSUME IInv, NEW m \in inbox, ConfirmSubscription(m.code)
    PROVE  IInv'
  <1>1. PICK row \in mailing :
            /\ row.code = m.code
            /\ mailing' = (mailing \ {row}) \cup {[row EXCEPT !.confirmed = TRUE]}
            /\ UNCHANGED <<email, pass, deleted, changeEmail, changePassword, lastCode,
                            sending, inbox, applied>>
    BY DEF ConfirmSubscription
  <1>2. m.kind = "mailing" /\ m.to = row.email
    BY <1>1 DEF IInv, MessagesFit, Messages
  <1> DEFINE new == [row EXCEPT !.confirmed = TRUE]
  <1>3. row \in [email : Emails, code : CodeRange, confirmed : BOOLEAN]
    BY DEF IInv, TypeOK
  <1>4. /\ new \in [email : Emails, code : CodeRange, confirmed : BOOLEAN]
        /\ new.code = row.code /\ new.email = row.email
    BY <1>3
  <1>. HIDE DEF new
  <1>5. mailing' \subseteq mailing \cup {new}
    BY <1>1 DEF new
  <1>6. TypeOK'
    BY <1>1, <1>4, <1>5 DEF IInv, TypeOK
  <1>7. CodesGenerated' /\ MessagesFit'
    BY <1>1, <1>4, <1>5 DEF IInv, CodesGenerated, MessagesFit, Messages
  <1>8. PendingAfterApplied'
    BY <1>1 DEF IInv, PendingAfterApplied
  <1>9. AppliedInOrder' /\ AddressProven' /\ CodeKeepsPurpose'
    BY <1>1 DEF IInv, AppliedInOrder, AddressProven, CodeKeepsPurpose
  <1>10. SubscribedByMail'
    BY <1>1, <1>2, <1>4, <1>5 DEF IInv, SubscribedByMail, Subscribed
  <1>. QED
    BY <1>6, <1>7, <1>8, <1>9, <1>10 DEF IInv

(* Messages arrive or get lost, the process ends, an account is deleted. *)
LEMMA StepMessages ==
    ASSUME IInv, Crash \/ (\E m \in sending : Sent(m)) \/ (\E a \in Accounts : DeleteAccount(a))
    PROVE  IInv'
  <1>1. /\ UNCHANGED <<email, pass, changeEmail, changePassword, mailing, lastCode, applied>>
        /\ Messages' \subseteq Messages /\ inbox \subseteq inbox'
        /\ sending' \subseteq Message /\ inbox' \subseteq Message /\ deleted' \subseteq Accounts
    BY DEF Crash, Sent, DeleteAccount, Messages, IInv, TypeOK
  <1>2. TypeOK' /\ CodesGenerated' /\ MessagesFit' /\ PendingAfterApplied'
    BY <1>1 DEF IInv, TypeOK, CodesGenerated, MessagesFit, PendingAfterApplied
  <1>3. AppliedInOrder' /\ AddressProven' /\ SubscribedByMail' /\ CodeKeepsPurpose'
    BY <1>1 DEF IInv, AppliedInOrder, AddressProven, SubscribedByMail, Subscribed, CodeKeepsPurpose
  <1>. QED
    BY <1>2, <1>3 DEF IInv

LEMMA StepStutter == IInv /\ UNCHANGED vars => IInv'
  BY DEF IInv, vars, TypeOK, CodesGenerated, MessagesFit, PendingAfterApplied, Messages,
         AppliedInOrder, AddressProven, SubscribedByMail, Subscribed, CodeKeepsPurpose

LEMMA Step == IInv /\ [Next]_vars => IInv'
  <1> SUFFICES ASSUME IInv, [Next]_vars PROVE IInv'
    OBVIOUS
  <1>1. ASSUME NEW a \in Accounts, NEW new \in Emails, ChangeEmail(a, new)
        PROVE  IInv'
    BY <1>1, StepChangeEmail
  <1>2. ASSUME NEW a \in Accounts, NEW new \in Passwords,
               ChangePassword(a, new) \/ ForgotPassword(a, new)
        PROVE  IInv'
    BY <1>2, StepInsertPassword DEF ChangePassword, ForgotPassword
  <1>3. ASSUME NEW address \in Emails, Mailing(address)
        PROVE  IInv'
    BY <1>3, StepMailing
  <1>4. CASE Crash \/ (\E m \in sending : Sent(m)) \/ (\E a \in Accounts : DeleteAccount(a))
    BY <1>4, StepMessages
  <1>5. ASSUME NEW m \in inbox, NEW kind, ConfirmPartial(kind, m.code)
        PROVE  IInv'
    BY <1>5, StepConfirmEmail, StepConfirmPassword, StepConfirmSubscription, StepStutter
       DEF ConfirmPartial
  <1>6. CASE \E m \in inbox : FollowLink(m) \/ TypeCode(m)
    BY <1>5, <1>6 DEF FollowLink, TypeCode
  <1>7. CASE UNCHANGED vars
    BY <1>7, StepStutter
  <1>. QED
    BY <1>1, <1>2, <1>3, <1>4, <1>6, <1>7 DEF Next

-----------------------------------------------------------------------------
LEMMA IInvHolds == Spec => []IInv
  BY InitOK, Step, PTL DEF Spec

(* The tables, the messages and the history have their types. *)
THEOREM TypesKept == Spec => []TypeOK
  BY IInvHolds, PTL DEF IInv

(* Changes of an account take effect in the order they were asked for and  *)
(* at most once: ConfirmEmail and ConfirmPassword remove every row of the  *)
(* account, and codes of later requests are greater.                       *)
THEOREM InOrder == Spec => []AppliedInOrder
  BY IInvHolds, PTL DEF IInv

(* An account only ever has its first address or one that received a code  *)
(* it asked for, although ConfirmEmail does not look at the message.       *)
THEOREM AddressesProven == Spec => []AddressProven
  BY IInvHolds, PTL DEF IInv

(* Whoever is on the mailing list has received the message for it. *)
THEOREM SubscribersMailed == Spec => []SubscribedByMail
  BY IInvHolds, PTL DEF IInv

(* Whatever dialog a code is typed into, it only has the effect it was     *)
(* sent for.                                                               *)
THEOREM PurposesKept == Spec => []CodeKeepsPurpose
  BY IInvHolds, PTL DEF IInv

=============================================================================
