------------------------------ MODULE Threads -------------------------------
(***************************************************************************)
(* Threads of the library and the forums (threads.go): transactions of     *)
(* several requests at once, the attempts that follow an aborted one, the  *)
(* table tree they share, and the connections they occupy.                 *)
(*                                                                         *)
(* A transaction is open between two steps: it has read the state in which *)
(* it began, and commits or fails later.  Serializable says which may      *)
(* commit.  An attempt may be aborted at any point all the same: the       *)
(* database may see a conflict where there is none, and a slug may be      *)
(* taken.  A post is its position in table post, which stands for its id   *)
(* and for its slug; no row is ever removed.                               *)
(***************************************************************************)
EXTENDS Serializable, SequencesExt

CONSTANTS
    Personas,   \* a set of numbers: ids of personas
    Admins,     \* personas that are administrators
    InProgress, \* number of requests that may be in progress at once
    MaxPosts,   \* bound on the rows of table post
    MaxRequests,\* bound on the requests that arrive
    MaxLog,     \* bound on the transactions beside one that stays open
    TxTries,    \* attempts TryerTx makes at a transaction
    Connections \* connections the database accepts

ASSUME ThreadsAssumption ==
    /\ Personas \subseteq Nat \ {0} /\ Admins \subseteq Personas /\ Personas # Admins
    /\ {MaxPosts, MaxRequests, InProgress, MaxLog, TxTries, Connections} \subseteq Nat \ {0}

VARIABLES
    post,       \* rows of table post
    log,        \* transactions that an open one may be in conflict with
    request,    \* what each request is doing
    arrived,    \* number of requests that have arrived
    lost,       \* connections whose transaction nobody will end
    seenLocked, \* history: locked threads a committed transaction has read
    actor       \* history: persona whose change the last step committed, or 0

vars == <<post, log, request, arrived, lost, seenLocked, actor>>

Columns == {"ref_id", "thread", "idx", "slug", "created", "locked", "name", "deleted"}
Post == [Columns -> Nat]

Blank == [c \in Columns |-> 0]

Root(rows, p) == rows[p].thread
IsRoot(rows, p) == rows[p].thread = p
InThread(rows, t) == {p \in DOMAIN rows : rows[p].thread = t}
IsLocked(rows, p) == rows[Root(rows, p)].locked = 1

Tree == [columns : Seq(Columns), values : Seq(Nat)]
Requests == 1..InProgress
Ops == {"thread", "reply", "edit", "delete", "read"}

Request ==
    [phase : {"idle", "trying", "open"},
     op : Ops, who : Personas, target : 0..MaxPosts,
     form : [locked : 0..1, name : 0..1],
     tree : Tree, attempt : 1..TxTries, since : 0..(MaxLog + 1), view : Seq(Post)]

TypeOK ==
    /\ post \in Seq(Post) /\ Len(post) <= MaxPosts
    /\ \A p \in DOMAIN post : Root(post, p) \in DOMAIN post /\ post[p].ref_id \in Personas
    /\ request \in [Requests -> Request]
    /\ arrived \in 0..MaxRequests /\ lost \in 0..Connections
    /\ actor \in {0} \cup Personas
    /\ seenLocked \subseteq {t \in DOMAIN post : post[t].locked = 1}

-----------------------------------------------------------------------------
(* The tree of tables that validation has built and every attempt changes. *)

SafeAdd(tree, column, value) ==
    IF Contains(tree.columns, column)
    THEN [tree EXCEPT !.values =
              [i \in DOMAIN @ |-> IF i \in DOMAIN tree.columns /\ tree.columns[i] = column
                                  THEN value ELSE @[i]]]
    ELSE [columns |-> Append(tree.columns, column), values |-> Append(tree.values, value)]

AddSlug(tree) == SafeAdd(tree, "slug", 1)

Omit == {"id", "ref_id", "slug", "created"}

(* Mutant: only the columns are dropped. *)
KeptColumnsOnly(tree) ==
    [columns |-> SelectSeq(tree.columns, LAMBDA c : c \notin Omit), values |-> tree.values]

(* The positions an update keeps, and the one that comes to be the k-th. *)
Keep(tree) == {i \in DOMAIN tree.columns : tree.columns[i] \notin Omit}
Place(keep, k) == CHOOSE i \in keep : Cardinality({j \in keep : j <= i}) = k

Kept(tree) ==
    LET keep == Keep(tree)
    IN  [columns |-> [k \in 1..Cardinality(keep) |-> tree.columns[Place(keep, k)]],
         values  |-> [k \in 1..Cardinality(keep) |-> tree.values[Place(keep, k)]]]

(* Mutant: the table does not get the persona's id. *)
ForInsertAnonymous(tree, who) == tree

(* What insertTables leaves of the tree: an update drops what it omits and *)
(* appends the slug to the values, for its WHERE clause.                   *)
ForInsert(tree, who) == SafeAdd(tree, "ref_id", who)
ForUpdate(tree, who) ==
    LET kept == Kept(ForInsert(tree, who))
    IN  [kept EXCEPT !.values = Append(@, 1)]

Assign(row, tree) ==
    [c \in Columns |->
        IF Contains(tree.columns, c)
        THEN tree.values[CHOOSE i \in DOMAIN tree.columns : tree.columns[i] = c]
        ELSE row[c]]

FormTree(created, locked, name) ==
    [columns |-> <<"slug", "created", "locked", "name">>,
     values  |-> <<0, created, locked, name>>]

-----------------------------------------------------------------------------

Idle ==
    [phase |-> "idle", op |-> "read", who |-> CHOOSE w \in Personas : TRUE,
     target |-> 0, form |-> [locked |-> 0, name |-> 0],
     tree |-> FormTree(0, 0, 0), attempt |-> 1, since |-> 0,
     view |-> <<>>]

(* A user has started a thread before. *)
FirstPost(w) == [Blank EXCEPT !.ref_id = w, !.thread = 1, !.idx = 1, !.slug = 1, !.created = 1]

Init ==
    /\ \E w \in Personas \ Admins : post = <<FirstPost(w)>>
    /\ log = <<>> /\ arrived = 0 /\ lost = 0 /\ seenLocked = {} /\ actor = 0
    /\ request = [q \in Requests |-> Idle]

Becomes(q, new) == request' = [request EXCEPT ![q] = new]
Answer(q) == Becomes(q, Idle)
OthersOpen(q) == \E o \in Requests \ {q} : request[o].phase = "open"

(* Open transactions occupy connections, and so do those nobody ends. *)
InUse == lost + Cardinality({q \in Requests : request[q].phase = "open"})

(* A request arrives with a form.  The mark for a locked thread is one for *)
(* administrators, but validateBool takes it from anybody.  Only the form  *)
(* of a first post has the mark and a title; to bound the forms, that of   *)
(* an edit sets one of the two and all others set neither.  It does not    *)
(* matter who reads, who starts another thread, and which of the requests  *)
(* that are not in progress stands for the new one.                        *)
Arrive(q, op, who, target, locked, name) ==
    /\ request[q].phase = "idle" /\ \A o \in 1..(q - 1) : request[o].phase # "idle"
    /\ arrived' = arrived + 1 /\ arrived < MaxRequests
    /\ op = "thread" <=> target = 0
    /\ op \in {"thread", "read"} => who = Idle.who
    /\ locked + name = IF op = "edit" /\ IsRoot(post, target) THEN 1 ELSE 0
    /\ LET tree == FormTree(IF op \in {"thread", "reply"} THEN 1 ELSE 0, locked, name)
       IN  Becomes(q, [Idle EXCEPT !.phase = "trying", !.op = op, !.who = who, !.target = target,
                           !.form = [locked |-> locked, name |-> name],
                           !.tree = IF op = "thread" THEN SafeAdd(tree, "idx", 1) ELSE tree])
    /\ actor' = 0
    /\ UNCHANGED <<post, log, lost, seenLocked>>

(* An attempt draws a new slug before it begins. *)
Begin(q) ==
    /\ request[q].phase = "trying"
    /\ InUse < Connections /\ Len(log) < MaxLog
    /\ Becomes(q, [request[q] EXCEPT !.phase = "open", !.since = Len(log), !.view = post,
                       !.tree = IF request[q].op \in {"thread", "reply"} THEN AddSlug(@) ELSE @])
    /\ actor' = 0
    /\ UNCHANGED <<post, log, arrived, lost, seenLocked>>

(* The database has no connection left: an error Retry does not know. *)
BeginFails(q) ==
    /\ request[q].phase = "trying"
    /\ InUse = Connections
    /\ Answer(q)
    /\ actor' = 0
    /\ UNCHANGED <<post, log, arrived, lost, seenLocked>>

-----------------------------------------------------------------------------
(* What the open transaction of a request has found and would write.       *)

Seen(q) == request[q].view
IsAdmin(q) == request[q].who \in Admins
Open(q, op) == request[q].phase = "open" /\ request[q].op = op

(* personaOwnsResource *)
Owns(q) == Seen(q)[request[q].target].ref_id = request[q].who \/ IsAdmin(q)

Locked(q) == IsLocked(Seen(q), request[q].target)

(* Mutant: an old version of the thread's rows is good enough. *)
ReadsRowOnly(q) ==
    LET p == request[q].target
    IN  IF request[q].op = "thread" THEN {} ELSE {<<"row", p>>, <<"row", Root(Seen(q), p)>>}

Reads(q) ==
    LET p == request[q].target
        rows == Seen(q)
    IN  CASE request[q].op = "thread" -> {}
          [] request[q].op \in {"reply", "read"} /\ IsRoot(rows, p) ->
                 {<<"thread", p>>} \cup ({"row"} \X InThread(rows, p))
          [] OTHER -> {<<"row", p>>, <<"row", Root(rows, p)>>}

New == Len(post) + 1

Writes(q) ==
    CASE request[q].op = "thread" -> {<<"row", New>>, <<"thread", New>>}
      [] request[q].op = "reply" -> {<<"row", New>>, <<"thread", request[q].target>>}
      [] request[q].op = "read" -> {}
      [] OTHER -> {<<"row", request[q].target>>}

Me(q) == Entry(request[q].since, Reads(q), Writes(q))
MayCommit(q) == IsSerializable(Append(log, Me(q)))

(* Once nothing is open, nothing can be in conflict with what committed. *)
Logged(q) == log' = IF OthersOpen(q) THEN Append(log, Me(q)) ELSE <<>>
Unlogged(q) == log' = IF OthersOpen(q) THEN log ELSE <<>>

(* The transaction ends without effect and the request is answered. *)
RolledBack(q) ==
    /\ Answer(q)
    /\ Unlogged(q)
    /\ UNCHANGED <<post, seenLocked>>

(* Mutant: attempts are not counted. *)
AbortedUncounted(q, tree) ==
    /\ Becomes(q, [request[q] EXCEPT !.phase = "trying", !.tree = tree, !.since = 0, !.view = <<>>])
    /\ Unlogged(q)
    /\ UNCHANGED <<post, seenLocked>>

(* The attempt was aborted; if it was not the last one there is another,   *)
(* on the tree this one leaves.                                            *)
Aborted(q, tree) ==
    /\ IF request[q].attempt < TxTries
       THEN Becomes(q, [request[q] EXCEPT !.phase = "trying", !.attempt = @ + 1, !.tree = tree,
                            !.since = 0, !.view = <<>>])
       ELSE Answer(q)
    /\ Unlogged(q)
    /\ UNCHANGED <<post, seenLocked>>

(* A reply or an edit is answered with the whole thread it belongs to,     *)
(* read in a transaction of its own.                                       *)
ThenRead(q, t) ==
    Becomes(q, [Idle EXCEPT !.phase = "trying", !.op = "read", !.target = t])

-----------------------------------------------------------------------------
(* Thread.createThread, createReply *)

CommitThread(q) ==
    LET tree == ForInsert(request[q].tree, request[q].who)
    IN  /\ Open(q, "thread")
        /\ Len(post) < MaxPosts
        /\ post' = Append(post, [Assign(Blank, tree) EXCEPT !.thread = New])
        /\ Answer(q)
        /\ Logged(q)
        /\ UNCHANGED <<lost, seenLocked>>

LastIdx(rows, t) == rows[CHOOSE p \in InThread(rows, t) :
                             \A o \in InThread(rows, t) : rows[o].idx <= rows[p].idx].idx

(* Mutant: the place of a reply that an aborted attempt has computed is    *)
(* kept.                                                                   *)
ReplyTreeStale(q) ==
    LET t == request[q].target
        tree == request[q].tree
    IN  IF Contains(tree.columns, "idx") THEN tree
        ELSE SafeAdd(SafeAdd(tree, "thread", t), "idx", LastIdx(Seen(q), t) + 1)

ReplyTree(q) ==
    LET t == request[q].target
    IN  SafeAdd(SafeAdd(request[q].tree, "thread", t), "idx", LastIdx(Seen(q), t) + 1)

(* No post has the target for its thread: the error is returned and the    *)
(* transaction stays open.                                                 *)
ReplyToReply(q) ==
    /\ Open(q, "reply")
    /\ ~IsRoot(Seen(q), request[q].target)
    /\ lost' = lost + 1
    /\ RolledBack(q)

MayReply(q) ==
    /\ Open(q, "reply")
    /\ IsRoot(Seen(q), request[q].target)
    /\ ~Locked(q) \/ IsAdmin(q)

CommitReply(q) ==
    LET tree == ForInsert(ReplyTree(q), request[q].who)
    IN  /\ MayReply(q)
        /\ Len(post) < MaxPosts
        /\ MayCommit(q)
        /\ post' = Append(post, Assign(Blank, tree))
        /\ ThenRead(q, request[q].target)
        /\ Logged(q)
        /\ UNCHANGED <<lost, seenLocked>>

-----------------------------------------------------------------------------
(* Thread.Update, Delete *)

(* Mutant: a locked thread is only looked up for replies. *)
MayChangeEvenLocked(q, op) == Open(q, op) /\ Owns(q)

MayChange(q, op) ==
    /\ Open(q, op)
    /\ Owns(q)
    /\ ~Locked(q) \/ IsAdmin(q)

ConcurrentUpdate(q) == ChangedSince(log, request[q].since, {<<"row", request[q].target>>})

CommitEdit(q) ==
    LET p == request[q].target
        tree == ForUpdate(request[q].tree, request[q].who)
    IN  /\ MayChange(q, "edit")
        /\ ~ConcurrentUpdate(q) /\ MayCommit(q)
        /\ post' = [post EXCEPT ![p] = Assign(@, tree)]
        /\ seenLocked' = IF post'[p].locked = 1 THEN seenLocked ELSE seenLocked \ {p}
        /\ ThenRead(q, Root(post, p))
        /\ Logged(q)
        /\ UNCHANGED lost

CommitDelete(q) ==
    LET p == request[q].target
    IN  /\ MayChange(q, "delete")
        /\ ~ConcurrentUpdate(q) /\ MayCommit(q)
        /\ post' = [post EXCEPT ![p].deleted = 1]
        /\ Answer(q)
        /\ Logged(q)
        /\ UNCHANGED <<lost, seenLocked>>

(* The persona neither wrote the post nor is an administrator, or somebody *)
(* else changed the row first.                                             *)
ChangeFails(q) ==
    /\ \/ \E op \in {"edit", "delete"} : Open(q, op) /\ ~Owns(q)
       \/ \E op \in {"edit", "delete"} : MayChange(q, op) /\ ConcurrentUpdate(q)
    /\ RolledBack(q)
    /\ UNCHANGED lost

(* The thread is locked: feedback. *)
Refuse(q) ==
    /\ \/ Open(q, "reply") /\ IsRoot(Seen(q), request[q].target)
       \/ (Open(q, "edit") \/ Open(q, "delete")) /\ Owns(q)
    /\ Locked(q) /\ ~IsAdmin(q)
    /\ RolledBack(q)
    /\ UNCHANGED lost

-----------------------------------------------------------------------------
(* Thread.retrieve: a thread with all of its posts, or a reply alone with  *)
(* the title and the lock of its thread.                                   *)

CommitRead(q) ==
    LET t == Root(Seen(q), request[q].target)
    IN  /\ Open(q, "read")
        /\ MayCommit(q)
        /\ seenLocked' =
               IF /\ IsRoot(Seen(q), request[q].target) /\ Locked(q)
                  /\ ~ChangedSince(log, request[q].since, {<<"row", t>>})
               THEN seenLocked \cup {t} ELSE seenLocked
        /\ Answer(q)
        /\ Logged(q)
        /\ UNCHANGED <<post, lost>>

-----------------------------------------------------------------------------

(* The tree when an attempt is aborted: as it began, or as inserting has   *)
(* left it.                                                                *)
Trees(q) ==
    {request[q].tree} \cup
    CASE request[q].op = "thread" -> {ForInsert(request[q].tree, request[q].who)}
      [] MayReply(q) -> {ForInsert(ReplyTree(q), request[q].who)}
      [] MayChange(q, "edit") -> {ForUpdate(request[q].tree, request[q].who)}
      [] OTHER -> {}

Abort(q) ==
    /\ request[q].phase = "open"
    /\ \E tree \in Trees(q) : Aborted(q, tree)
    /\ UNCHANGED lost

(* The first statements of a reply and of a read return their error        *)
(* without a rollback; the next attempt takes another connection.          *)
AbortUnrolled(q) ==
    /\ Open(q, "reply") \/ Open(q, "read")
    /\ lost' = lost + 1
    /\ Aborted(q, request[q].tree)

Step(q) ==
    \/ Begin(q) \/ BeginFails(q)
    \/ /\ CommitThread(q) \/ CommitReply(q) \/ CommitEdit(q) \/ CommitDelete(q)
       /\ actor' = request[q].who
       /\ UNCHANGED arrived
    \/ /\ \/ ReplyToReply(q) \/ ChangeFails(q) \/ Refuse(q)
          \/ CommitRead(q)
          \/ Abort(q) \/ AbortUnrolled(q)
       /\ actor' = 0
       /\ UNCHANGED arrived

Next ==
    \E q \in Requests :
        \/ Step(q)
        \/ \E op \in Ops, who \in Personas, target \in {0} \cup DOMAIN post :
               \E locked, name \in 0..1 : Arrive(q, op, who, target, locked, name)

(* Retry tries again at once, and the database answers every statement, so *)
(* no transaction that is not lost stays open for ever.                    *)
Fairness ==
    \A q \in Requests :
        /\ WF_vars(Begin(q) \/ BeginFails(q))
        /\ []<>(request[q].phase # "open")

Spec == Init /\ [][Next]_vars /\ Fairness

-----------------------------------------------------------------------------
(* Properties. *)

(* The posts of a thread are numbered from one without gaps, one post to a *)
(* number: createReply counts on from what its transaction has read,       *)
(* whatever other replies do and however often it is tried again.          *)
NumberedWithoutGaps ==
    \A t \in {p \in DOMAIN post : IsRoot(post, p)} :
        LET posts == InThread(post, t)
        IN  /\ {post[p].idx : p \in posts} = 1..Cardinality(posts)
            /\ post[t].idx = 1

(* Every attempt writes what the form says: insertTables leaves a tree     *)
(* whose values still stand at their columns, and an edit fits the query   *)
(* with one value more than columns, that of its WHERE clause.             *)
AttemptsAgree ==
    \A q \in Requests :
        LET form == request[q].form
            new == Assign(Blank, ForInsert(ReplyTree(q), request[q].who))
            tree == ForUpdate(request[q].tree, request[q].who)
        IN  /\ MayReply(q) =>
                   new = [Blank EXCEPT !.ref_id = request[q].who, !.thread = request[q].target,
                              !.idx = LastIdx(Seen(q), request[q].target) + 1,
                              !.slug = 1, !.created = 1]
            /\ MayChange(q, "edit") =>
                   /\ Len(tree.values) = Len(tree.columns) + 1
                   /\ Assign(Blank, tree) =
                          [Blank EXCEPT !.locked = form.locked, !.name = form.name]

(* The posts of a thread in the order of their numbers. *)
ListOf(t) ==
    [i \in 1..Cardinality(InThread(post, t)) |->
        CHOOSE p \in InThread(post, t) : post[p].idx = i]

Lists == [t \in {p \in DOMAIN post : IsRoot(post, p)} |-> ListOf(t)]
AuthorsOf == [p \in DOMAIN post |-> post[p].ref_id]
ContentOf == [p \in DOMAIN post |-> [name |-> post[p].name, deleted |-> post[p].deleted]]
LockedOnes == {t \in DOMAIN post : post[t].locked = 1}

(* Threads keep the promise of Forum: numbers and authors never change,    *)
(* and once a committed transaction has read a locked thread, no reply,    *)
(* edit or deletion that began before it was locked still happens.  (One   *)
(* that has read a reply alone, and the lock of its thread with it, is     *)
(* promised nothing: a serial order may put it after a reply that commits  *)
(* later.)                                                                 *)
Promise ==
    INSTANCE Forum WITH Authors <- Personas, thread <- Lists, author <- AuthorsOf,
                        content <- ContentOf, locked <- LockedOnes, seen <- seenLocked,
                        by <- actor

ImplementsForum == Promise!Spec

(* Every request is answered in the end, however often its transactions    *)
(* are aborted and however few connections are left.                       *)
RequestsEnd == \A q \in Requests : request[q].phase # "idle" ~> request[q].phase = "idle"

=============================================================================
