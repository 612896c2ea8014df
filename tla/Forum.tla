------------------------------- MODULE Forum --------------------------------
(***************************************************************************)
(* What the threads promise: a thread is a list of posts that only grows   *)
(* at its end, the author and place of a post never change, and once       *)
(* somebody has read a thread that is locked, nobody but an administrator  *)
(* adds to it or changes what it says, until it is unlocked.               *)
(***************************************************************************)
EXTENDS Naturals, Sequences

CONSTANTS
    Authors,    \* personas
    Admins,     \* those that are administrators
    MaxPosts    \* bound on the posts of all threads

VARIABLES
    thread,     \* posts of each thread, in order; a thread is its first post
    author,     \* author of each post
    content,    \* what a post says: its title, and whether it is deleted
    locked,     \* threads that are locked
    seen,       \* locked threads that somebody has read
    by          \* who made the change of the last step, 0 if it made none

vars == <<thread, author, content, locked, seen, by>>

Content == [name : 0..1, deleted : 0..1]

(* There is one thread, with one post. *)
Init ==
    /\ thread = [t \in {1} |-> <<1>>] /\ author \in [{1} -> Authors]
    /\ content = [p \in {1} |-> [name |-> 0, deleted |-> 0]]
    /\ locked = {} /\ seen = {} /\ by = 0

New == Len(author) + 1
MayChange(t, who) == t \notin seen \/ who \in Admins

Start(who, c) ==
    /\ by' = who
    /\ Len(author) < MaxPosts
    /\ author' = Append(author, who)
    /\ content' = Append(content, c)
    /\ thread' = [t \in DOMAIN thread \cup {New} |-> IF t = New THEN <<New>> ELSE thread[t]]
    /\ UNCHANGED <<locked, seen>>

Reply(t, who, c) ==
    /\ by' = who
    /\ MayChange(t, who)
    /\ Len(author) < MaxPosts
    /\ author' = Append(author, who)
    /\ content' = Append(content, c)
    /\ thread' = [thread EXCEPT ![t] = Append(@, New)]
    /\ UNCHANGED <<locked, seen>>

(* An edit of the first post also says whether the thread is locked: its   *)
(* author can lock it, and only an administrator can unlock it.            *)
Change(t, p, who, c) ==
    /\ by' = who
    /\ MayChange(t, who)
    /\ who = author[p] \/ who \in Admins
    /\ content' = [content EXCEPT ![p] = c]
    /\ locked' \in {locked, locked \cup {p}} \/ (who \in Admins /\ locked' = locked \ {p})
    /\ seen' = seen \cap locked'
    /\ UNCHANGED <<thread, author>>

See(t) ==
    /\ by' = 0
    /\ t \in locked
    /\ seen' = seen \cup {t}
    /\ UNCHANGED <<thread, author, content, locked>>

(* Nothing the forum shows. *)
Rest == by' = 0 /\ UNCHANGED <<thread, author, content, locked, seen>>

Next ==
    \/ Rest
    \/ \E t \in DOMAIN thread : See(t)
    \/ \E who \in Authors, c \in Content :
           \/ Start(who, c)
           \/ \E t \in DOMAIN thread :
                  \/ Reply(t, who, c)
                  \/ \E i \in DOMAIN thread[t] : Change(t, thread[t][i], who, c)

Spec == Init /\ [][Next]_vars

=============================================================================
