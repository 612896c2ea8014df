---------------------------- MODULE AccessProofs ----------------------------
(***************************************************************************)
(* Proofs about module Access, for any accounts, personas, resources,      *)
(* administrators and number of pages in progress: the pages show nothing  *)
(* they were never permitted to, the files of what they show can be        *)
(* loaded, and the files of what is private stay with its owners.          *)
(***************************************************************************)
EXTENDS Access, TLAPS

Phases == {"asked", "found"}
PageKinds == {"detail", "listing", "own", "all", "api"}
PersonaRows == [visibility : Visibilities, deleted : BOOLEAN]
ResourceRows == [ref_id : Personas, visibility : Visibilities, deleted : BOOLEAN]
LoginRows == [acc_id : Accounts, p_id : Personas]
Attachable == [acc : Accounts, personas : SUBSET Personas, active : Personas \cup {Nobody}]
PageRows == [kind : PageKinds, client : {Anonymous} \cup Attachable, rows : SUBSET Resources,
             phase : Phases, may : SUBSET Resources]

RowsTyped ==
    /\ personas \in [Personas -> PersonaRows]
    /\ resources \in [Resources -> ResourceRows \cup {Absent, Gone}]
    /\ logins \in [Tokens -> LoginRows \cup {LoggedOut}]

(* The client attached to a page has only personas of its own account, and *)
(* the guard of the page's route held for it.                              *)
ClientFits(page) ==
    /\ page.client # Anonymous => /\ \A p \in page.client.personas : AccountOf[p] = page.client.acc
                                  /\ page.client.active \in page.client.personas \cup {Nobody}
    /\ Routed(page.client, page.kind)

(* What is permitted now has been noticed.  A listing keeps the rows that  *)
(* it could show when it selected them; the rows of an account's or of an  *)
(* administrator's page stay permitted as long as they are there.          *)
RowsFit(page) ==
    /\ page.phase = "asked" => page.kind \notin {"detail", "api"}
    /\ \A x \in Concerned(page) : Permitted(page, x) => x \in page.may
    /\ page.phase = "found" =>
           /\ page.kind = "listing" => page.rows \subseteq page.may
           /\ page.kind \in {"own", "all"} =>
                  \A x \in page.rows : /\ resources[x] # Absent
                                       /\ x \in Present => Permitted(page, x)

PagesTyped == pages \subseteq PageRows
PagesFit == \A page \in pages : ClientFits(page) /\ RowsFit(page)

IInv == RowsTyped /\ PagesTyped /\ PagesFit

-----------------------------------------------------------------------------
(* The account attached to a request. *)

LEMMA AttachedFits ==
    ASSUME RowsTyped, NEW t \in Tokens \cup {Nobody}, NEW client \in Attached(t)
    PROVE  /\ client \in {Anonymous} \cup Attachable
           /\ client # Anonymous =>
                  /\ t \in Tokens /\ logins[t] # LoggedOut
                  /\ client.acc = logins[t].acc_id
                  /\ \A p \in client.personas : AccountOf[p] = client.acc
                  /\ client.active \in client.personas \cup {Nobody}
  <1>1. CASE t = Nobody \/ logins[t] = LoggedOut
    BY <1>1 DEF Attached
  <1>2. CASE t # Nobody /\ logins[t] # LoggedOut
    <2>1. t \in Tokens /\ logins[t] \in LoginRows
      BY <1>2 DEF RowsTyped
    <2>2. logins[t].acc_id \in Accounts
      BY <2>1 DEF LoginRows
    <2>. DEFINE live == Live(logins[t].acc_id)
    <2>3. live \subseteq Personas /\ \A p \in live : AccountOf[p] = logins[t].acc_id
      BY DEF Live
    <2>4. PICK active \in live \cup {Nobody} :
              client = [acc |-> logins[t].acc_id, personas |-> live, active |-> active]
      BY <1>2 DEF Attached
    <2>. HIDE DEF live
    <2>5. client.acc = logins[t].acc_id /\ client.personas = live /\ client.active = active
      BY <2>4
    <2>6. client \in Attachable
      BY <2>2, <2>3, <2>4 DEF Attachable
    <2>. QED
      BY <1>2, <2>1, <2>3, <2>5, <2>6
  <1>. QED
    BY <1>1, <1>2

LEMMA AnonymousSees ==
    ASSUME NEW x
    PROVE  ~IsAdmin(Anonymous) /\ ~IsOwner(Anonymous, x)
  BY AccessAssumption DEF IsAdmin, IsOwner, Anonymous

(* What is permitted to a page depends on its kind and client alone. *)
LEMMA PermittedByClient ==
    ASSUME NEW page, NEW other, NEW x, page.kind = other.kind, page.client = other.client
    PROVE  /\ Permitted(page, x) <=> Permitted(other, x)
           /\ Permitted(page, x)' <=> Permitted(other, x)'
  BY DEF Permitted

(* An owner and an administrator of a well-formed client are those that    *)
(* the promise is about.                                                   *)
LEMMA OwnIsPermitted ==
    ASSUME NEW page \in PageRows, ClientFits(page), NEW x \in Resources
    PROVE  /\ IsOwner(page.client, x) =>
                  page.client.acc # Nobody /\ AccountOf[resources[x].ref_id] = page.client.acc
           /\ IsAdmin(page.client) => \E p \in Admins : AccountOf[p] = page.client.acc
           /\ page.client # Anonymous => page.client.acc # Nobody
  <1>1. CASE page.client = Anonymous
    BY <1>1, AnonymousSees
  <1>2. CASE page.client # Anonymous
    <2>1. page.client \in Attachable /\ page.client.acc # Nobody
      BY <1>2, AccessAssumption DEF PageRows, Attachable
    <2>2. Nobody \notin Admins
      BY AccessAssumption
    <2>. QED
      BY <1>2, <2>1, <2>2 DEF ClientFits, IsOwner, IsAdmin
  <1>. QED
    BY <1>1, <1>2

(* The rows that are there. *)
LEMMA PresentTyped ==
    ASSUME RowsTyped, NEW x \in Present
    PROVE  x \in Resources /\ resources[x] \in ResourceRows /\ resources[x].ref_id \in Personas
  BY DEF Present, RowsTyped, ResourceRows

-----------------------------------------------------------------------------
(* The rows. *)

LEMMA SaveStep ==
    ASSUME RowsTyped, NEW t \in Tokens, NEW client \in Acting(t), NEW x \in Resources,
           NEW v \in Visibilities, Save(client, x, v)
    PROVE  \E row \in ResourceRows :
               /\ resources' = [resources EXCEPT ![x] = row]
               /\ resources[x] # Absent =>
                      x \in Present /\ row.ref_id = resources[x].ref_id
  <1>1. CASE Create(client, x, v)
    <2>1. client.active \in Personas
      BY AttachedFits, AccessAssumption DEF Acting, Attachable, Anonymous
    <2>2. [ref_id |-> client.active, visibility |-> v, deleted |-> FALSE] \in ResourceRows
      BY <2>1 DEF ResourceRows
    <2>. QED
      BY <1>1, <2>2 DEF Create
  <1>2. CASE Update(client, x, v)
    <2>1. x \in Present /\ resources[x] \in ResourceRows
      BY <1>2, PresentTyped DEF Update
    <2>2. [resources[x] EXCEPT !.visibility = v] \in ResourceRows
      BY <2>1 DEF ResourceRows
    <2>3. resources' = [resources EXCEPT ![x] = [resources[x] EXCEPT !.visibility = v]]
      BY <1>2 DEF Update
    <2>4. [resources[x] EXCEPT !.visibility = v].ref_id = resources[x].ref_id
      BY <2>1 DEF ResourceRows
    <2>. QED
      BY <2>1, <2>2, <2>3, <2>4
  <1>. QED
    BY <1>1, <1>2 DEF Save

LEMMA DeleteStep ==
    ASSUME RowsTyped, NEW client, NEW x \in Resources, Delete(client, x)
    PROVE  \E row \in ResourceRows \cup {Gone} :
               /\ resources' = [resources EXCEPT ![x] = row]
               /\ x \in Present
               /\ row # Gone => row.ref_id = resources[x].ref_id
  <1>1. x \in Present /\ resources[x] \in ResourceRows
    BY PresentTyped DEF Delete
  <1>2. CASE KindOf[x] = "post"
    <2>1. Marked(resources[x]) \in ResourceRows /\ Marked(resources[x]).ref_id = resources[x].ref_id
      BY <1>1 DEF ResourceRows, Marked
    <2>2. resources' = [resources EXCEPT ![x] = Marked(resources[x])]
      BY <1>2 DEF Delete
    <2>. QED
      BY <1>1, <2>1, <2>2
  <1>3. CASE KindOf[x] # "post"
    BY <1>1, <1>3 DEF Delete
  <1>. QED
    BY <1>2, <1>3

(* A row that was once there is replaced by rows of the same owner, or is  *)
(* gone.                                                                   *)
OwnersStay ==
    \A x \in Resources : resources[x] # Absent =>
        /\ resources'[x] # Absent
        /\ resources'[x] # Gone => x \in Present /\ resources'[x].ref_id = resources[x].ref_id

LEMMA RowReplaced ==
    ASSUME RowsTyped, NEW x \in Resources, NEW row \in ResourceRows \cup {Gone},
           resources' = [resources EXCEPT ![x] = row],
           resources[x] # Absent => x \in Present /\ (row # Gone => row.ref_id = resources[x].ref_id)
    PROVE  resources' \in [Resources -> ResourceRows \cup {Absent, Gone}] /\ OwnersStay
  <1>1. row # Absent
    BY AccessAssumption DEF ResourceRows, Absent, Gone
  <1>2. \A y \in Resources : resources'[y] = IF y = x THEN row ELSE resources[y]
    BY DEF RowsTyped
  <1>3. \A y \in Resources : resources[y] # Absent /\ resources[y] # Gone => y \in Present
    BY DEF Present
  <1>. QED
    BY <1>1, <1>2, <1>3 DEF RowsTyped, OwnersStay

LEMMA RowsUntouched ==
    ASSUME UNCHANGED resources
    PROVE  OwnersStay
  BY DEF OwnersStay, Present

LEMMA ChangeTyped ==
    ASSUME RowsTyped, Change
    PROVE  RowsTyped' /\ OwnersStay
  <1>. USE AccessAssumption
  <1>1. ASSUME NEW t \in Tokens, NEW client \in Acting(t), NEW x \in Resources, Delete(client, x)
        PROVE RowsTyped' /\ OwnersStay
    <2>1. resources' \in [Resources -> ResourceRows \cup {Absent, Gone}] /\ OwnersStay
      BY <1>1, DeleteStep, RowReplaced
    <2>. QED
      BY <1>1, <2>1 DEF Delete, RowsTyped
  <1>2. ASSUME NEW t \in Tokens, NEW client \in Acting(t), NEW x \in Resources,
               NEW v \in Visibilities, Save(client, x, v)
        PROVE  RowsTyped' /\ OwnersStay
    <2>1. PICK row \in ResourceRows :
              /\ resources' = [resources EXCEPT ![x] = row]
              /\ resources[x] # Absent => x \in Present /\ row.ref_id = resources[x].ref_id
      BY <1>2, SaveStep
    <2>2. resources' \in [Resources -> ResourceRows \cup {Absent, Gone}] /\ OwnersStay
      BY <2>1, RowReplaced
    <2>. QED
      BY <1>2, <2>2 DEF Save, RowsTyped
  <1>3. ASSUME NEW t \in Tokens, NEW client \in Acting(t), NEW v \in Privacies,
               SetPrivacy(client, v)
        PROVE  RowsTyped' /\ OwnersStay
    <2>1. PICK p : p = client.active
      OBVIOUS
    <2>2. p \in Personas
      BY <2>1, AttachedFits DEF Acting, Attachable, Anonymous
    <2>3. personas' = [personas EXCEPT ![p] = [personas[p] EXCEPT !.visibility = v]]
      BY <1>3, <2>1 DEF SetPrivacy
    <2>4. [personas[p] EXCEPT !.visibility = v] \in PersonaRows
      BY <2>2 DEF RowsTyped, PersonaRows
    <2>5. personas' \in [Personas -> PersonaRows]
      BY <2>2, <2>3, <2>4 DEF RowsTyped
    <2>6. UNCHANGED <<resources, logins>>
      BY <1>3 DEF SetPrivacy
    <2>. QED
      BY <2>5, <2>6, RowsUntouched DEF RowsTyped
  <1>4. ASSUME NEW t \in Tokens, NEW p \in Personas, DeletePersona(t, p)
        PROVE RowsTyped' /\ OwnersStay
    <2>1. personas' = [personas EXCEPT ![p] = [personas[p] EXCEPT !.deleted = TRUE]]
      BY <1>4 DEF DeletePersona
    <2>2. [personas[p] EXCEPT !.deleted = TRUE] \in PersonaRows
      BY DEF RowsTyped, PersonaRows
    <2>3. personas' \in [Personas -> PersonaRows]
      BY <2>1, <2>2 DEF RowsTyped
    <2>4. logins[t] \in LoginRows
      BY <1>4 DEF DeletePersona, RowsTyped
    <2>5. PICK q \in Personas : logins' = [logins EXCEPT ![t] = [logins[t] EXCEPT !.p_id = q]]
      BY <1>4, <2>4 DEF DeletePersona, LoginRows
    <2>6. [logins[t] EXCEPT !.p_id = q] \in LoginRows
      BY <2>4 DEF LoginRows
    <2>7. logins' \in [Tokens -> LoginRows \cup {LoggedOut}]
      BY <2>5, <2>6 DEF RowsTyped
    <2>8. UNCHANGED resources
      BY <1>4 DEF DeletePersona
    <2>. QED
      BY <2>3, <2>7, <2>8, RowsUntouched DEF RowsTyped
  <1>. QED
    BY <1>1, <1>2, <1>3, <1>4 DEF Change

LEMMA RowsTypedStep ==
    ASSUME RowsTyped, Next
    PROVE  RowsTyped'
  <1>1. ASSUME NEW t \in Tokens, Logout(t) PROVE RowsTyped'
    BY <1>1 DEF Logout, RowsTyped
  <1>2. ASSUME NEW t \in Tokens, NEW p \in Personas, Login(t, p) PROVE RowsTyped'
    <2>1. [acc_id |-> AccountOf[p], p_id |-> p] \in LoginRows
      BY AccessAssumption DEF LoginRows
    <2>. QED
      BY <1>2, <2>1 DEF Login, RowsTyped
  <1>3. ASSUME NEW t \in Tokens, NEW p \in Personas, Switch(t, p) PROVE RowsTyped'
    <2>1. logins[t] \in LoginRows
      BY <1>3 DEF Switch, RowsTyped
    <2>2. [logins[t] EXCEPT !.p_id = p] \in LoginRows
      BY <2>1 DEF LoginRows
    <2>3. logins' = [logins EXCEPT ![t] = [logins[t] EXCEPT !.p_id = p]]
      BY <1>3 DEF Switch
    <2>. QED
      BY <1>3, <2>2, <2>3 DEF Switch, RowsTyped
  <1>4. ASSUME AskAny \/ \E page \in pages : Find(page) \/ Answer(page)
        PROVE  RowsTyped'
    BY <1>4 DEF AskAny, Ask, Find, Answer, RowsTyped
  <1>. QED
    BY <1>1, <1>2, <1>3, <1>4, ChangeTyped DEF Next

-----------------------------------------------------------------------------
(* The pages. *)

(* The rows of an account's or an administrator's page stay permitted.     *)
LEMMA OwnStaysPermitted ==
    ASSUME RowsTyped, RowsTyped', OwnersStay, NEW page \in PageRows, ClientFits(page),
           page.kind \in {"own", "all"}, NEW x \in Resources, resources[x] # Absent,
           x \in Present => Permitted(page, x)
    PROVE  resources'[x] # Absent /\ (x \in Present' => Permitted(page, x)')
  <1>1. resources'[x] # Absent
    BY DEF OwnersStay
  <1>. SUFFICES ASSUME x \in Present' PROVE Permitted(page, x)'
    BY <1>1
  <1>2. x \in Present /\ resources'[x].ref_id = resources[x].ref_id /\ Permitted(page, x)
    BY DEF OwnersStay, Present
  <1>3. CASE page.kind = "own"
    BY <1>2, <1>3 DEF Permitted
  <1>4. CASE page.kind = "all"
    <2>1. \E p \in Admins : AccountOf[p] = page.client.acc
      BY <1>4, OwnIsPermitted DEF ClientFits, Routed
    <2>. QED
      BY <1>4, <2>1 DEF Permitted
  <1>. QED
    BY <1>3, <1>4

LEMMA NoticedFits ==
    ASSUME RowsTyped, RowsTyped', OwnersStay, NEW page \in PageRows, ClientFits(page), RowsFit(page),
           NEW rewritten, NEW next, next = Noticed(page, rewritten)
    PROVE  next \in PageRows /\ ClientFits(next)' /\ RowsFit(next)'
  <1>1. PICK now : now = {x \in Concerned(page) : Permitted(page, x)'}
    OBVIOUS
  <1>2. PICK kept : kept = IF page.kind = "listing" THEN page.may ELSE page.may \ rewritten
    OBVIOUS
  <1>3. Concerned(page) \subseteq Resources
    BY DEF Concerned, PageRows
  <1>4. next = [page EXCEPT !.may = kept \cup now]
    BY <1>1, <1>2 DEF Noticed
  <1>5. kept \cup now \subseteq Resources
    BY <1>1, <1>2, <1>3 DEF PageRows
  <1>6. /\ next \in PageRows
        /\ next.kind = page.kind /\ next.client = page.client
        /\ next.rows = page.rows /\ next.phase = page.phase
        /\ next.may = kept \cup now
    BY <1>4, <1>5 DEF PageRows
  <1>7. ClientFits(next)'
    BY <1>6 DEF ClientFits, Routed, IsAdmin
  <1>8. \A x : Permitted(next, x)' <=> Permitted(page, x)'
    BY <1>6, PermittedByClient
  <1>9. Concerned(next)' = Concerned(page)
    BY <1>6 DEF Concerned
  <1>10. \A x \in Concerned(next)' : Permitted(next, x)' => x \in next.may
    BY <1>1, <1>6, <1>8, <1>9
  <1>11. next.phase = "asked" => next.kind \notin {"detail", "api"}
    BY <1>6 DEF RowsFit
  <1>12. next.phase = "found" /\ next.kind = "listing" => next.rows \subseteq next.may
    BY <1>2, <1>6 DEF RowsFit
  <1>13. ASSUME next.phase = "found", next.kind \in {"own", "all"}, NEW x \in next.rows
         PROVE  resources'[x] # Absent /\ (x \in Present' => Permitted(next, x)')
    <2>1. x \in page.rows /\ x \in Resources
      BY <1>6, <1>13 DEF PageRows
    <2>2. resources[x] # Absent /\ (x \in Present => Permitted(page, x))
      BY <1>6, <1>13, <2>1 DEF RowsFit
    <2>3. resources'[x] # Absent /\ (x \in Present' => Permitted(page, x)')
      BY <1>6, <1>13, <2>1, <2>2, OwnStaysPermitted
    <2>. QED
      BY <1>8, <2>3
  <1>14. RowsFit(next)'
    BY <1>10, <1>11, <1>12, <1>13 DEF RowsFit
  <1>. QED
    BY <1>6, <1>7, <1>14

LEMMA ChangeStep ==
    ASSUME IInv, Change
    PROVE  PagesTyped' /\ PagesFit'
  <1>1. RowsTyped /\ RowsTyped' /\ OwnersStay
    BY ChangeTyped DEF IInv
  <1>2. PICK rewritten : pages' = {Noticed(page, rewritten) : page \in pages}
    BY DEF Change
  <1>3. ASSUME NEW next \in pages' PROVE next \in PageRows /\ ClientFits(next)' /\ RowsFit(next)'
    <2>1. PICK page \in pages : next = Noticed(page, rewritten)
      BY <1>2
    <2>2. page \in PageRows /\ ClientFits(page) /\ RowsFit(page)
      BY DEF IInv, PagesTyped, PagesFit
    <2>. QED
      BY <1>1, <2>1, <2>2, NoticedFits
  <1>. QED
    BY <1>3 DEF PagesTyped, PagesFit

LEMMA AskStep ==
    ASSUME IInv, NEW t \in Tokens \cup {Nobody}, NEW client \in Attached(t), NEW kind \in Kinds,
           NEW rows \in SUBSET Resources, Ask(client, kind, rows)
    PROVE  \E page \in PageRows : pages' = pages \cup {page} /\ ClientFits(page) /\ RowsFit(page)
  <1>. DEFINE asked == [kind |-> kind, client |-> client, rows |-> rows,
                        phase |-> IF kind \in {"detail", "api"} THEN "found" ELSE "asked", may |-> {}]
              now == {x \in Concerned(asked) : Permitted(asked, x)}
              page == [asked EXCEPT !.may = now]
  <1>1. pages' = pages \cup {page}
    BY DEF Ask
  <1>2. kind \in PageKinds /\ Routed(client, kind)
    BY AccessAssumption DEF Ask, PageKinds
  <1>3. /\ client \in {Anonymous} \cup Attachable
        /\ client # Anonymous =>
               /\ \A p \in client.personas : AccountOf[p] = client.acc
               /\ client.active \in client.personas \cup {Nobody}
    BY AttachedFits DEF IInv
  <1>4. /\ asked \in PageRows /\ asked.kind = kind /\ asked.client = client /\ asked.rows = rows
        /\ asked.phase = IF kind \in {"detail", "api"} THEN "found" ELSE "asked"
    BY <1>2, <1>3 DEF PageRows, Phases
  <1>. HIDE DEF asked
  <1>5. now \subseteq Resources
    BY <1>4 DEF Concerned, PageRows
  <1>6. \A x \in Concerned(asked) : Permitted(asked, x) => x \in now
    OBVIOUS
  <1>. HIDE DEF now
  <1>7. /\ page \in PageRows /\ page.kind = kind /\ page.client = client /\ page.rows = rows
        /\ page.phase = asked.phase /\ page.may = now
    BY <1>4, <1>5 DEF PageRows
  <1>. HIDE DEF page
  <1>8. \A x : Permitted(page, x) <=> Permitted(asked, x)
    BY <1>4, <1>7, PermittedByClient
  <1>9. ClientFits(page)
    BY <1>2, <1>3, <1>7 DEF ClientFits
  <1>10. Concerned(page) = Concerned(asked)
    BY <1>4, <1>7 DEF Concerned
  <1>11. \A x \in Concerned(page) : Permitted(page, x) => x \in page.may
    BY <1>6, <1>7, <1>8, <1>10
  <1>12. /\ page.phase = "asked" => page.kind \notin {"detail", "api"}
         /\ page.phase = "found" => page.kind \in {"detail", "api"}
    BY <1>4, <1>7
  <1>13. RowsFit(page)
    BY <1>11, <1>12 DEF RowsFit
  <1>. QED
    BY <1>1, <1>7, <1>9, <1>13

(* Every row a listing selects is permitted at that moment. *)
LEMMA FilteredPermitted ==
    ASSUME RowsTyped, NEW page \in PageRows, ClientFits(page), page.kind \notin {"detail", "api"},
           NEW x \in Filter(page)
    PROVE  x \in Resources /\ KindOf[x] # "post" /\ Permitted(page, x)
  <1>1. x \in Listable
    BY DEF Filter
  <1>2. x \in Resources /\ x \in Present /\ KindOf[x] # "post" /\ resources[x].ref_id \in Personas
    BY <1>1, PresentTyped DEF Listable
  <1>3. CASE page.kind = "listing"
    BY <1>2, <1>3 DEF Filter, Permitted
  <1>4. CASE page.kind = "own"
    <2>1. page.client # Anonymous
      BY <1>4 DEF ClientFits, Routed
    <2>2. resources[x].ref_id \in page.client.personas
      BY <1>2, <1>4, <2>1, AccessAssumption DEF Filter, ClientFits
    <2>3. page.client.acc # Nobody /\ AccountOf[resources[x].ref_id] = page.client.acc
      BY <1>2, <2>2, OwnIsPermitted DEF IsOwner
    <2>. QED
      BY <1>2, <1>4, <2>3 DEF Permitted
  <1>5. CASE page.kind = "all"
    <2>1. \E p \in Admins : AccountOf[p] = page.client.acc
      BY <1>2, <1>5, OwnIsPermitted DEF ClientFits, Routed
    <2>. QED
      BY <1>2, <1>5, <2>1 DEF Permitted
  <1>. QED
    BY <1>3, <1>4, <1>5 DEF PageRows, PageKinds

LEMMA FindStep ==
    ASSUME IInv, NEW page \in pages, Find(page)
    PROVE  \E found \in PageRows :
               pages' = (pages \ {page}) \cup {found} /\ ClientFits(found) /\ RowsFit(found)
  <1>. DEFINE found == [page EXCEPT !.rows = Filter(page), !.may = page.may \cap Filter(page),
                                    !.phase = "found"]
  <1>1. page \in PageRows /\ ClientFits(page) /\ RowsFit(page) /\ RowsTyped
    BY DEF IInv, PagesTyped, PagesFit
  <1>2. page.phase = "asked" /\ pages' = (pages \ {page}) \cup {found}
    BY DEF Find
  <1>3. \A x \in Filter(page) : x \in Resources /\ x \in page.may
    BY <1>1, <1>2, FilteredPermitted DEF RowsFit, Concerned
  <1>4. /\ found \in PageRows /\ found.kind = page.kind /\ found.client = page.client
        /\ found.rows = Filter(page) /\ found.may = page.may \cap Filter(page)
        /\ found.phase = "found"
    <2>1. Filter(page) \subseteq Resources
      BY <1>3
    <2>2. page.may \cap Filter(page) \subseteq Resources
      BY <2>1
    <2>. QED
      BY <1>1, <2>1, <2>2 DEF PageRows, Phases
  <1>. HIDE DEF found
  <1>5. ClientFits(found)
    BY <1>1, <1>4 DEF ClientFits
  <1>6. \A x \in found.rows : x \in found.may /\ Permitted(found, x) /\ x \in Present
    <2>1. \A x : Permitted(page, x) <=> Permitted(found, x)
      BY <1>4, PermittedByClient
    <2>2. \A x \in Filter(page) : Permitted(page, x) /\ x \in Present
      BY <1>1, <1>2, FilteredPermitted DEF RowsFit, Permitted
    <2>. QED
      BY <1>3, <1>4, <2>1, <2>2
  <1>7. RowsFit(found)
    <2>1. Concerned(found) = found.rows
      BY <1>4 DEF Concerned
    <2>. QED
      BY <1>4, <1>6, <2>1 DEF RowsFit, Present
  <1>. QED
    BY <1>2, <1>4, <1>5, <1>7

(* The checks of the handlers and templates admit only what is permitted.  *)
LEMMA ShownPermittedNow ==
    ASSUME NEW page \in PageRows, ClientFits(page), page.kind \in {"detail", "api"},
           NEW x \in Shown(page)
    PROVE  Permitted(page, x)
  <1>1. x \in page.rows /\ Showable(page) /\ (KindOf[x] = "post" => ShowsPost(page.client, x))
    BY DEF Shown
  <1>2. x \in Present /\ x \in Resources
    BY <1>1 DEF Showable, Present
  <1>3. CASE page.kind = "api"
    BY <1>1, <1>2, <1>3 DEF Showable, Permitted
  <1>4. CASE page.kind = "detail" /\ KindOf[x] = "post"
    BY <1>1, <1>2, <1>4, OwnIsPermitted DEF ShowsPost, Permitted
  <1>5. CASE page.kind = "detail" /\ KindOf[x] # "post"
    BY <1>1, <1>2, <1>5, OwnIsPermitted DEF Showable, MayAccess, Permitted
  <1>. QED
    BY <1>3, <1>4, <1>5

LEMMA ShownMay ==
    ASSUME IInv
    PROVE  ShownWerePermitted
  <1>. SUFFICES ASSUME NEW page \in pages, page.phase = "found", NEW x \in Shown(page)
                PROVE  x \in page.may
    BY DEF ShownWerePermitted
  <1>1. page \in PageRows /\ ClientFits(page) /\ RowsFit(page)
    BY DEF IInv, PagesTyped, PagesFit
  <1>2. x \in page.rows /\ x \in Present
    BY DEF Shown, Showable
  <1>3. Concerned(page) = page.rows
    BY DEF Concerned
  <1>4. CASE page.kind = "listing"
    BY <1>1, <1>2, <1>4 DEF RowsFit
  <1>5. CASE page.kind \in {"own", "all"}
    BY <1>1, <1>2, <1>3, <1>5 DEF RowsFit
  <1>6. CASE page.kind \in {"detail", "api"}
    BY <1>1, <1>2, <1>3, <1>6, ShownPermittedNow DEF RowsFit
  <1>. QED
    BY <1>1, <1>4, <1>5, <1>6 DEF PageRows, PageKinds

(* What is permitted does not depend on the logins or on other pages. *)
LEMMA RowsFitStays ==
    ASSUME NEW page, UNCHANGED <<personas, resources>>
    PROVE  /\ ClientFits(page)' <=> ClientFits(page)
           /\ RowsFit(page)' <=> RowsFit(page)
  BY DEF ClientFits, Routed, IsAdmin, RowsFit, Permitted, Present, Concerned

LEMMA PagesStep ==
    ASSUME IInv, Next
    PROVE  PagesTyped' /\ PagesFit'
  <1>1. CASE Change
    BY <1>1, ChangeStep
  <1>2. CASE AskAny
    <2>1. UNCHANGED <<personas, resources>>
      BY <1>2 DEF AskAny, Ask
    <2>2. \E page \in PageRows : pages' = pages \cup {page} /\ ClientFits(page) /\ RowsFit(page)
      <3>1. PICK t \in Tokens \cup {Nobody} : \E client \in Attached(t) :
                \E kind \in Kinds, rows \in SUBSET Resources : Ask(client, kind, rows)
        BY <1>2 DEF AskAny, Present
      <3>. QED
        BY <3>1, AskStep
    <2>. QED
      BY <2>1, <2>2, RowsFitStays DEF IInv, PagesTyped, PagesFit
  <1>3. ASSUME NEW page \in pages, Find(page)
        PROVE  PagesTyped' /\ PagesFit'
    <2>1. UNCHANGED <<personas, resources>>
      BY <1>3 DEF Find
    <2>2. \E next \in PageRows :
              pages' = (pages \ {page}) \cup {next} /\ ClientFits(next) /\ RowsFit(next)
      BY <1>3, FindStep
    <2>. QED
      BY <2>1, <2>2, RowsFitStays DEF IInv, PagesTyped, PagesFit
  <1>4. ASSUME NEW page \in pages, Answer(page) PROVE PagesTyped' /\ PagesFit'
    BY <1>4, RowsFitStays DEF Answer, IInv, PagesTyped, PagesFit
  <1>5. ASSUME NEW t \in Tokens, Logout(t) \/ \E p \in Personas : Login(t, p) \/ Switch(t, p)
        PROVE  PagesTyped' /\ PagesFit'
    BY <1>5, RowsFitStays DEF Logout, Login, Switch, IInv, PagesTyped, PagesFit
  <1>. QED
    BY <1>1, <1>2, <1>3, <1>4, <1>5 DEF Next

-----------------------------------------------------------------------------
(* The query of static.User. *)

(* The rows of a table are those of the present resources of its kind, and *)
(* at most one row of something else, which is private and nobody's.       *)
LEMMA TableRows ==
    ASSUME NEW kind, NEW row \in Table(kind)
    PROVE  \/ \E x \in Present : KindOf[x] = kind /\ row = <<x, resources[x]>>
           \/ row = <<"other", Other>>
  BY DEF Table

LEMMA RowInTable ==
    ASSUME NEW x \in Present
    PROVE  <<x, resources[x]>> \in Table(KindOf[x]) /\ KindOf[x] \in {"profile", "post", "event"}
  BY AccessAssumption DEF Table, Present

(* With a row in every table and a login, the row of a resource is joined  *)
(* with every login and persona.                                           *)
LEMMA Joined ==
    ASSUME TablesFilled, NEW x \in Present
    PROVE  \E profile \in Table("profile"), post \in Table("post"), event \in Table("event") :
               <<x, resources[x]>> \in {profile, post, event}
  BY RowInTable DEF TablesFilled

LEMMA FilesFollow ==
    ASSUME RowsTyped
    PROVE  FilesFollowPages
  <1>. SUFFICES ASSUME TablesFilled, NEW login \in Logins, NEW t \in Tokens \cup {Nobody},
                       NEW client \in Attached(t), NEW x \in Present, MayAccess(client, x)
                PROVE  /\ FileServed(t, x)
                       /\ ShowsPost(client, x) => FileServed(t, resources[x].ref_id)
    BY DEF FilesFollowPages
  <1>1. x \in Resources /\ resources[x] \in ResourceRows
    BY PresentTyped
  <1>2. resources[x].ref_id \in Personas
    BY PresentTyped
  <1>3. PICK profile \in Table("profile"), post \in Table("post"), event \in Table("event") :
            <<x, resources[x]>> \in {profile, post, event}
    BY Joined
  <1>4. CASE IsAdmin(client)
    <2>1. client # Anonymous
      BY <1>4, AnonymousSees
    <2>2. t \in Logins /\ client.active \in Personas /\ client.active \in Admins
          /\ AccountOf[client.active] = logins[t].acc_id
      BY <1>4, <2>1, AttachedFits, AccessAssumption DEF IsAdmin, Logins
    <2>3. \A file : FileServed(t, file)
      BY <1>3, <2>2 DEF FileServed
    <2>. QED
      BY <2>3
  <1>5. CASE IsOwner(client, x)
    <2>1. client # Anonymous
      BY <1>5, AnonymousSees
    <2>2. t \in Logins /\ AccountOf[resources[x].ref_id] = logins[t].acc_id
      BY <1>5, <2>1, AttachedFits DEF IsOwner, Logins
    <2>3. FileServed(t, x)
      BY <1>2, <1>3, <2>2 DEF FileServed
    <2>4. FileServed(t, resources[x].ref_id)
      BY <1>2, <1>3, <2>2 DEF FileServed
    <2>. QED
      BY <2>3, <2>4
  <1>6. CASE ~IsAdmin(client) /\ ~IsOwner(client, x)
    <2>1. resources[x].visibility # "private"
      BY <1>6 DEF MayAccess
    <2>2. FileServed(t, x)
      BY <1>2, <1>3, <2>1 DEF FileServed
    <2>3. ASSUME ShowsPost(client, x) PROVE FileServed(t, resources[x].ref_id)
      <3>1. personas[resources[x].ref_id].visibility # "private"
        BY <1>6, <2>3 DEF ShowsPost
      <3>. QED
        BY <1>2, <1>3, <3>1 DEF FileServed
    <2>. QED
      BY <2>2, <2>3
  <1>. QED
    BY <1>4, <1>5, <1>6

LEMMA FilesStay ==
    ASSUME RowsTyped
    PROVE  PrivateFilesStay
  <1>. SUFFICES ASSUME NEW t \in Tokens \cup {Nobody},
                       {p \in Personas : t \in Logins /\ AccountOf[p] = logins[t].acc_id} \cap Admins = {}
                PROVE  /\ \A x \in Present : resources[x].visibility = "private" /\ FileServed(t, x)
                              => /\ resources[x].ref_id \in Personas /\ t \in Logins
                                 /\ AccountOf[resources[x].ref_id] = logins[t].acc_id
                       /\ \A p \in Personas : personas[p].visibility = "private" /\ FileServed(t, p)
                              => t \in Logins /\ AccountOf[p] = logins[t].acc_id
    BY DEF PrivateFilesStay
  <1>1. \A l \in Logins, p \in Personas : AccountOf[p] = logins[l].acc_id /\ l = t => p \notin Admins
    OBVIOUS
  <1>2. ASSUME NEW x \in Present, resources[x].visibility = "private", FileServed(t, x)
        PROVE  /\ resources[x].ref_id \in Personas /\ t \in Logins
               /\ AccountOf[resources[x].ref_id] = logins[t].acc_id
    <2>1. x \in Resources /\ x \notin Personas /\ x # "other"
      BY AccessAssumption DEF Present
    <2>2. PICK l \in Logins, p \in Personas,
               profile \in Table("profile"), post \in Table("post"), event \in Table("event") :
              \E row \in {profile, post, event} :
                  /\ x = row[1]
                  /\ \/ row[2].visibility # "private"
                     \/ row[2].ref_id = p /\ AccountOf[p] = logins[l].acc_id /\ l = t
      BY <1>1, <1>2, <2>1 DEF FileServed
    <2>3. PICK row \in {profile, post, event} :
              /\ x = row[1]
              /\ \/ row[2].visibility # "private"
                 \/ row[2].ref_id = p /\ AccountOf[p] = logins[l].acc_id /\ l = t
      BY <2>2
    <2>4. row[2] = resources[x]
      BY <2>1, <2>3, TableRows
    <2>. QED
      BY <1>2, <2>3, <2>4
  <1>3. ASSUME NEW q \in Personas, personas[q].visibility = "private", FileServed(t, q)
        PROVE  t \in Logins /\ AccountOf[q] = logins[t].acc_id
    <2>1. q \notin Resources /\ q # "other"
      BY AccessAssumption
    <2>2. \A row \in Table("profile") \cup Table("post") \cup Table("event") : row[1] # q
      BY <2>1, TableRows DEF Present
    <2>. QED
      BY <1>1, <1>3, <2>2 DEF FileServed
  <1>. QED
    BY <1>2, <1>3

-----------------------------------------------------------------------------
LEMMA Inductive ==
    Spec => []IInv
  <1>1. Init => IInv
    <2>. SUFFICES ASSUME Init PROVE IInv
      OBVIOUS
    <2>1. [visibility |-> "public", deleted |-> FALSE] \in PersonaRows
      BY DEF PersonaRows, Visibilities
    <2>2. RowsTyped
      BY <2>1 DEF Init, RowsTyped
    <2>. QED
      BY <2>2 DEF Init, IInv, PagesTyped, PagesFit
  <1>2. IInv /\ [Next]_vars => IInv'
    <2>. SUFFICES ASSUME IInv, [Next]_vars PROVE IInv'
      OBVIOUS
    <2>1. CASE Next
      BY <2>1, RowsTypedStep, PagesStep DEF IInv
    <2>2. CASE UNCHANGED vars
      BY <2>2, RowsFitStays DEF vars, IInv, RowsTyped, PagesTyped, PagesFit
    <2>. QED
      BY <2>1, <2>2
  <1>. QED
    BY <1>1, <1>2, PTL DEF Spec

(* Whatever the handlers of others change between the steps of a page, a   *)
(* page shows only rows its client could have been shown at some moment    *)
(* since it asked, and what they said then except in a listing: mode.go    *)
(* attaches an account and selects and retrieves rows at three different   *)
(* times.                                                                  *)
THEOREM ShownPermitted == Spec => []ShownWerePermitted
  <1>1. IInv => ShownWerePermitted
    BY ShownMay
  <1>. QED
    BY <1>1, Inductive, PTL

(* With a login and a row in every table it joins, the query of            *)
(* static.User serves the files of everything mode.go lets a client see.   *)
THEOREM FilesLoad == Spec => []FilesFollowPages
  <1>1. IInv => FilesFollowPages
    BY FilesFollow DEF IInv
  <1>. QED
    BY <1>1, Inductive, PTL

(* The query of static.User, though it joins every login with every        *)
(* persona, serves the files of private rows to their owner's logins only, *)
(* and to accounts that have an administrator.                             *)
THEOREM FilesKept == Spec => []PrivateFilesStay
  <1>1. IInv => PrivateFilesStay
    BY FilesStay DEF IInv
  <1>. QED
    BY <1>1, Inductive, PTL

=============================================================================
