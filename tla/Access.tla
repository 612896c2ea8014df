------------------------------- MODULE Access -------------------------------
(***************************************************************************)
(* Who is shown what: the pages of handler/mode/mode.go, the listings of   *)
(* services Talent and Event and the posts of templates/thread.html decide *)
(* in Go on an account attached to the request; the files those pages name *)
(* are asked for afterwards, one by one, and static.User decides on them   *)
(* in one SQL query over logins, personas, profile, post, event and file.  *)
(*                                                                         *)
(* Every resource has one file and every persona has an avatar.  A page    *)
(* takes three steps, between which everything may change: the account is  *)
(* attached, the rows are selected, the rows are retrieved and shown.      *)
(* What a resource says is not modelled, but every update of it makes it   *)
(* say something new.                                                      *)
(* Modules Sessions and UserFiles have the rest of the life of logins,     *)
(* accounts and files.                                                     *)
(***************************************************************************)
EXTENDS Integers, FiniteSets

CONSTANTS
    Personas, Accounts, AccountOf, Admins,  \* rows of personas; Admins: admin = true
    Resources, KindOf,      \* "profile", "post" or "event"
    Elsewhere,              \* the kinds whose tables have rows besides Resources
    Tokens,                 \* tokens of logins
    Kinds,                  \* the kinds of page asked for
    Privacies,              \* what the privacy of a persona is set to
    MaxPages                \* bound on the pages in progress

VARIABLES
    personas,   \* [visibility, deleted] of every persona
    resources,  \* rows of profile, post and event: [ref_id, visibility, deleted], or one
                \* that is not there: Absent or Gone
    logins,     \* [acc_id, p_id] of every token, or LoggedOut
    pages       \* the pages in progress: kind, the client (account, its live personas,
                \* the active one), rows, phase, and, to compare with, the rows it could
                \* show at some moment since it was asked for, as they are now (in a
                \* listing: as they were at any time)

vars == <<personas, resources, logins, pages>>

Nobody == "nobody"   \* no account attached, no cookie, no owner, no persona
Absent == [ref_id |-> Nobody, visibility |-> "none", deleted |-> FALSE]
Gone == [ref_id |-> Nobody, visibility |-> "none", deleted |-> TRUE]
LoggedOut == [acc_id |-> Nobody, p_id |-> Nobody]
Visibilities == {"public", "unlisted", "private"}

ASSUME AccessAssumption ==
    /\ Nobody \notin Accounts \cup Personas \cup Tokens
    /\ Personas \cap Resources = {}   \* avatars are files of their own
    /\ "other" \notin Personas \cup Resources
    /\ AccountOf \in [Personas -> Accounts]
    /\ Admins \subseteq Personas
    /\ KindOf \in [Resources -> {"profile", "post", "event"}]
    /\ Kinds \subseteq {"detail", "listing", "own", "all", "api"}
    /\ Privacies \subseteq Visibilities

-----------------------------------------------------------------------------
(* The account attached to a request, and what the handlers make of it. *)

Live(acc) == {p \in Personas : AccountOf[p] = acc /\ ~personas[p].deleted}

Anonymous == [acc |-> Nobody, personas |-> {}, active |-> Nobody]

(* account.Add.  The active persona is the login's, or if the account has  *)
(* none such another one that is live (which one, module Sessions says).   *)
Attached(token) ==
    IF token = Nobody \/ logins[token] = LoggedOut THEN {Anonymous}
    ELSE LET acc == logins[token].acc_id
             p_id == logins[token].p_id
             live == Live(acc)
             active == IF p_id \in live THEN {p_id} ELSE IF live # {} THEN live ELSE {Nobody}
         IN  {[acc |-> acc, personas |-> live, active |-> p] : p \in active}

IsAdmin(client) == client.active \in Admins
IsOwner(client, x) == resources[x].ref_id \in client.personas
Present == {x \in Resources : resources[x] \notin {Absent, Gone}}

MayAccess(client, x) ==
    IsAdmin(client) \/ resources[x].visibility # "private" \/ IsOwner(client, x)

(* Listings of posts have a query of their own, Thread.Filter. *)
Listable == {x \in Present : KindOf[x] # "post"}

(* Mutant: personas are not looked at. *)
FilterAnyPersona(page) ==
    IF page.kind = "all" THEN Listable
    ELSE IF page.kind = "own" THEN {x \in Listable : resources[x].ref_id = page.client.active}
    ELSE {x \in Listable : resources[x].visibility = "public"}

(* Talent.Filter and Event.Filter, with the filters renderPartial adds. *)
Filter(page) ==
    IF page.kind = "all" THEN Listable
    ELSE IF page.kind = "own" THEN {x \in Listable : resources[x].ref_id = page.client.active}
    ELSE {x \in Listable : /\ resources[x].visibility = "public"
                           /\ personas[resources[x].ref_id].visibility = "public"}

(* The page of a thread shows in place of some posts that they are         *)
(* unavailable, and the others with their author's avatar.                 *)
ShowsPost(client, x) ==
    \/ IsAdmin(client)
    \/ /\ ~resources[x].deleted
       /\ personas[resources[x].ref_id].visibility = "public" \/ IsOwner(client, x)

-----------------------------------------------------------------------------
(* static.User. *)

Other == [ref_id |-> Nobody, visibility |-> "private", deleted |-> FALSE]

Table(kind) ==
    {<<x, resources[x]>> : x \in {y \in Present : KindOf[y] = kind}}
        \cup (IF kind \in Elsewhere THEN {<<"other", Other>>} ELSE {})

Logins == {t \in Tokens : logins[t] # LoggedOut}

(* Mutant: any login of the owner will do. *)
FileServedToAnyone(token, file) ==
    \E l \in Logins, p \in Personas,
       profile \in Table("profile"), post \in Table("post"), event \in Table("event") :
        \/ /\ l = token
           /\ logins[l].acc_id = AccountOf[p]
           /\ p \in Admins
        \/ /\ file = p
           /\ personas[p].visibility # "private" \/ AccountOf[p] = logins[l].acc_id
        \/ \E row \in {profile, post, event} :
               /\ file = row[1]
               /\ \/ row[2].visibility # "private"
                  \/ row[2].ref_id = p /\ AccountOf[p] = logins[l].acc_id

(* Mutant: unlisted is not enough. *)
FileServedPublic(token, file) ==
    \E l \in Logins, p \in Personas,
       profile \in Table("profile"), post \in Table("post"), event \in Table("event") :
        LET mine == AccountOf[p] = logins[l].acc_id /\ l = token
        IN  \/ mine /\ p \in Admins
            \/ file = p /\ (personas[p].visibility = "public" \/ mine)
            \/ \E row \in {profile, post, event} :
                   /\ file = row[1]
                   /\ row[2].visibility = "public" \/ (row[2].ref_id = p /\ mine)

(* The query joins all the tables, whichever the file belongs to, so that  *)
(* it finds nothing while one of them is empty.                            *)
FileServed(token, file) ==
    \E l \in Logins, p \in Personas,
       profile \in Table("profile"), post \in Table("post"), event \in Table("event") :
        LET mine == AccountOf[p] = logins[l].acc_id /\ l = token
        IN  \/ mine /\ p \in Admins
            \/ file = p /\ (personas[p].visibility # "private" \/ mine)
            \/ \E row \in {profile, post, event} :
                   /\ file = row[1]
                   /\ row[2].visibility # "private" \/ (row[2].ref_id = p /\ mine)

-----------------------------------------------------------------------------
(* What a client may be shown, as the product promises it: rows that are   *)
(* not private, rows of the client's own account, and everything to an     *)
(* administrator; a listing only offers public rows of public personas,    *)
(* and a thread no posts that are deleted or whose author is hidden.       *)
Permitted(page, x) ==
    LET row == resources[x]
        own == page.client.acc # Nobody /\ AccountOf[row.ref_id] = page.client.acc
        admin == \E p \in Admins : AccountOf[p] = page.client.acc
    IN  /\ x \in Present
        /\ CASE page.kind = "listing" ->
                    row.visibility = "public" /\ personas[row.ref_id].visibility = "public"
             [] page.kind = "api" -> row.visibility # "private"
             [] page.kind = "own" -> own
             [] page.kind = "detail" /\ KindOf[x] = "post" ->
                    \/ own \/ admin
                    \/ ~row.deleted /\ personas[row.ref_id].visibility = "public"
             [] OTHER -> row.visibility # "private" \/ own \/ admin

(* The rows a page may yet show. *)
Concerned(page) ==
    IF page.phase = "asked" THEN {x \in Resources : KindOf[x] # "post"} ELSE page.rows

Init ==
    /\ personas = [p \in Personas |-> [visibility |-> "public", deleted |-> FALSE]]
    /\ resources = [x \in Resources |-> Absent]
    /\ logins = [t \in Tokens |-> LoggedOut]
    /\ pages = {}

(* The persona was read in an earlier transaction and may be deleted. *)
Login(t, p) ==
    /\ logins[t] = LoggedOut
    /\ logins' = [logins EXCEPT ![t] = [acc_id |-> AccountOf[p], p_id |-> p]]
    /\ UNCHANGED <<personas, resources, pages>>

(* To any persona, whoever's it is, deleted or not. *)
Switch(t, p) ==
    /\ logins[t] # LoggedOut
    /\ logins' = [logins EXCEPT ![t].p_id = p]
    /\ UNCHANGED <<personas, resources, pages>>

Logout(t) ==
    /\ logins[t] # LoggedOut
    /\ logins' = [logins EXCEPT ![t] = LoggedOut]
    /\ UNCHANGED <<personas, resources, pages>>

(* Clients that act as a persona.  Without one, an insert fails on ref_id  *)
(* and an update concerns no row.                                          *)
Acting(t) == {client \in Attached(t) : client.active # Nobody}

(* personaOwnsResource *)
Owns(client, x) == resources[x].ref_id = client.active \/ IsAdmin(client)

Create(client, x, visibility) ==
    /\ resources[x] = Absent
    /\ resources' = [resources EXCEPT ![x] =
           [ref_id |-> client.active, visibility |-> visibility, deleted |-> FALSE]]

Update(client, x, visibility) ==
    /\ x \in Present /\ Owns(client, x)
    /\ resources' = [resources EXCEPT ![x].visibility = visibility]

(* Posts are always public. *)
Save(client, x, visibility) ==
    /\ KindOf[x] = "post" => visibility = "public"
    /\ Create(client, x, visibility) \/ Update(client, x, visibility)
    /\ UNCHANGED <<personas, logins>>

(* A post is only marked; its row, its file and its thread's page stay. *)
Marked(row) == [row EXCEPT !.deleted = TRUE]

Delete(client, x) ==
    /\ x \in Present /\ Owns(client, x)
    /\ resources' = [resources EXCEPT ![x] =
           IF KindOf[x] = "post" THEN Marked(resources[x]) ELSE Gone]
    /\ UNCHANGED <<personas, logins>>

(* The privacy dialog of Settings.Update. *)
SetPrivacy(client, visibility) ==
    /\ personas' = [personas EXCEPT ![client.active].visibility = visibility]
    /\ UNCHANGED <<resources, logins>>

(* Any persona, whoever's it is, as long as the account has two.  A login  *)
(* that acts as it moves to a persona of its account, or stays (module     *)
(* Sessions says which); other logins keep it.                             *)
DeletePersona(t, p) ==
    /\ logins[t] # LoggedOut /\ Cardinality(Live(logins[t].acc_id)) > 1
    /\ personas' = [personas EXCEPT ![p].deleted = TRUE]
    /\ \E q \in IF logins[t].p_id # p THEN {logins[t].p_id}
                ELSE {o \in Personas : AccountOf[o] = logins[t].acc_id} :
           logins' = [logins EXCEPT ![t].p_id = q]
    /\ UNCHANGED resources

(* Pages in progress notice what is permitted now, and, unless they are    *)
(* listings, that what a row said before is no longer what it says.        *)
Noticed(page, rewritten) ==
    [page EXCEPT !.may = (IF page.kind = "listing" THEN @ ELSE @ \ rewritten)
                             \cup {x \in Concerned(page) : Permitted(page, x)'}]

(* A handler that writes. *)
Change ==
    \E t \in Tokens :
        \/ /\ \/ \E client \in Acting(t) :
                     \/ \E x \in Resources : Delete(client, x)
                     \/ \E visibility \in Privacies : SetPrivacy(client, visibility)
              \/ \E p \in Personas : DeletePersona(t, p)
           /\ pages' = {Noticed(page, {}) : page \in pages}
        \/ \E x \in Resources :
              /\ \E client \in Acting(t), visibility \in Visibilities : Save(client, x, visibility)
              /\ pages' = {Noticed(page, {x}) : page \in pages}

(* The guards of the routes: /account needs an account, /admin an admin. *)
Routed(client, kind) ==
    /\ kind = "own" => client # Anonymous
    /\ kind = "all" => IsAdmin(client)

Ask(client, kind, rows) ==
    /\ Cardinality(pages) < MaxPages
    /\ Routed(client, kind)
    /\ LET page == [kind |-> kind, client |-> client, rows |-> rows,
                    phase |-> IF kind \in {"detail", "api"} THEN "found" ELSE "asked", may |-> {}]
       IN  pages' = pages \cup {[page EXCEPT !.may = {x \in Concerned(page) : Permitted(page, x)}]}
    /\ UNCHANGED <<personas, resources, logins>>

(* A listing selects its slugs. *)
Find(page) ==
    /\ page.phase = "asked"
    /\ pages' = (pages \ {page}) \cup
           {[page EXCEPT !.rows = Filter(page), !.may = @ \cap Filter(page), !.phase = "found"]}
    /\ UNCHANGED <<personas, resources, logins>>

(* Retrieve of every row, with or without GetPrivate, and renderPartial's check. *)
Showable(page) ==
    /\ page.rows \subseteq Present
    /\ page.kind = "api" => \A x \in page.rows : resources[x].visibility # "private"
    /\ page.kind = "detail" => \A x \in page.rows : MayAccess(page.client, x)

(* What a page that is found would show at this moment. *)
Shown(page) ==
    IF ~Showable(page) THEN {}
    ELSE {x \in page.rows : KindOf[x] = "post" => ShowsPost(page.client, x)}

(* The page is shown; one row that is gone or refused fails all of it. *)
Answer(page) ==
    /\ page.phase = "found"
    /\ pages' = pages \ {page}
    /\ UNCHANGED <<personas, resources, logins>>

(* The api has events only. *)
AskAny ==
    \E t \in Tokens \cup {Nobody} : \E client \in Attached(t) :
        \/ \E kind \in Kinds \ {"detail", "api"} : Ask(client, kind, {})
        \/ \E x \in Present :
              \/ "detail" \in Kinds /\ Ask(client, "detail", {x})
              \/ "api" \in Kinds /\ KindOf[x] = "event" /\ Ask(client, "api", {x})

Next ==
    \/ \E t \in Tokens : Logout(t) \/ \E p \in Personas : Login(t, p) \/ Switch(t, p)
    \/ Change
    \/ AskAny
    \/ \E page \in pages : Find(page) \/ Answer(page)

Spec == Init /\ [][Next]_vars

-----------------------------------------------------------------------------
(* Properties. *)

TablesFilled == \A kind \in {"profile", "post", "event"} : Table(kind) # {}

(* The files of what a page shows can be loaded.  The page decides on the  *)
(* account's live personas and the active one, the query on its own joins; *)
(* it needs a row in every table, as its comment says, and a login.        *)
FilesFollowPages ==
    TablesFilled /\ Logins # {} =>
        \A t \in Tokens \cup {Nobody} : \A client \in Attached(t), x \in Present :
            MayAccess(client, x) =>
                /\ FileServed(t, x)
                /\ KindOf[x] = "post" /\ ShowsPost(client, x) => FileServed(t, resources[x].ref_id)

(* A file of a private resource or persona is only served to a login of    *)
(* the account it belongs to or of one that has an administrator, though   *)
(* the query joins every login with every persona.                         *)
PrivateFilesStay ==
    \A t \in Tokens \cup {Nobody} :
        LET mine == {p \in Personas : t \in Logins /\ AccountOf[p] = logins[t].acc_id}
        IN  mine \cap Admins # {} \/
            /\ \A x \in Present :
                   resources[x].visibility = "private" /\ FileServed(t, x)
                       => resources[x].ref_id \in mine
            /\ \A p \in Personas :
                   personas[p].visibility = "private" /\ FileServed(t, p) => p \in mine

(* Whatever changes between the steps of a page, it shows no row that its  *)
(* client could not have been shown at some moment since it was asked for, *)
(* and except in a listing that row said then what it says now.  (Filter   *)
(* retrieves with GetPrivate: a row that was public when it was selected,  *)
(* then hidden and changed, is listed with what it says since.)            *)
ShownWerePermitted ==
    \A page \in pages : page.phase = "found" => Shown(page) \subseteq page.may

=============================================================================
