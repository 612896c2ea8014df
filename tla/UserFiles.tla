----------------------------- MODULE UserFiles -----------------------------
(***************************************************************************)
(* Images of a resource on disk and in table 'file': the handlers that     *)
(* create, update and delete a resource (handler/mode), the validation     *)
(* that writes its new images to disk (handler/form), and the transaction  *)
(* that registers them (talent.go, updateFiles and addFiles of common.go). *)
(*                                                                         *)
(* Disk and database change in separate steps of a handler.  New images    *)
(* are written before the transaction and removed again if it fails;       *)
(* images that are no longer needed are removed after it.  Several         *)
(* requests run at once, each may fail at any step, and the process may    *)
(* stop between any two.                                                   *)
(*                                                                         *)
(* An image is stored under two names, itself and its thumbnail.  Names    *)
(* are random and long: an image is a number that is never drawn twice     *)
(* (the retry after drawing the name of an existing file changes nothing). *)
(* The answer to a COMMIT is assumed not to get lost.                      *)
(***************************************************************************)
EXTENDS Naturals

CONSTANTS
    Resources,      \* resources there may be, of one kind
    Requests,       \* requests that may be in progress at once
    Images,         \* bound on the images ever uploaded
    MaxUploads,     \* images submitted with one form
    TxTries         \* attempts TryerTx makes at a transaction

ASSUME BoundsAssumption ==
    /\ Resources # {}
    /\ Images \in Nat /\ MaxUploads \in Nat /\ TxTries \in Nat \ {0}

VARIABLES
    disk,       \* names in the directory of user files
    file,       \* rows of table file: the names registered for each resource
    shown,      \* images the tables of each resource mention
    live,       \* resources that exist
    pages,      \* images some page of the resource has shown: a client may
                \* retain these, however old its page is
    request,    \* what each request is doing
    lastImage,  \* number of images uploaded so far
    abandoned   \* history: names left behind by a fault, a crash or feedback

vars == <<disk, file, shown, live, pages, request, lastImage, abandoned>>

Image == 1..Images
Name == Image \X {"image", "thumb"}
NamesOf(images) == images \X {"image", "thumb"}

(* unchecked: images to retain that were not found on disk yet; uploads:   *)
(* images still to be written; half: an image without its thumbnail;       *)
(* written: images on disk; attempt: of the transaction; removing: names   *)
(* to remove, in batches, one for each attempt that selected them.         *)
Attempt == 1..TxTries

Request ==
    [phase : {"idle", "validating", "removing"},
     op : {"create", "update", "delete"},
     res : Resources,
     retain : SUBSET Image, unchecked : SUBSET Image,
     uploads : 0..MaxUploads, half : SUBSET Image, written : SUBSET Image,
     attempt : Attempt, removing : [Attempt -> SUBSET Name]]

TypeOK ==
    /\ disk \subseteq Name
    /\ file \in [Resources -> SUBSET Name]
    /\ shown \in [Resources -> SUBSET Image]
    /\ pages \in [Resources -> SUBSET Image]
    /\ live \subseteq Resources
    /\ request \in [Requests -> Request]
    /\ lastImage \in 0..Images
    /\ abandoned \subseteq Name

Registered == UNION {file[r] : r \in Resources}

-----------------------------------------------------------------------------

Idle ==
    [phase |-> "idle", op |-> "create", res |-> CHOOSE r \in Resources : TRUE,
     retain |-> {}, unchecked |-> {}, uploads |-> 0,
     half |-> {}, written |-> {}, attempt |-> 1,
     removing |-> [t \in Attempt |-> {}]]

Init ==
    /\ disk = {} /\ live = {} /\ lastImage = 0 /\ abandoned = {}
    /\ file = [r \in Resources |-> {}]
    /\ shown = [r \in Resources |-> {}]
    /\ pages = [r \in Resources |-> {}]
    /\ request = [q \in Requests |-> Idle]

Becomes(q, new) == request' = [request EXCEPT ![q] = new]

(* A form arrives: it names the images to keep and carries new ones. *)
Submit(q, op, r, retain, uploads) ==
    /\ request[q].phase = "idle"
    /\ op = "create" <=> r \notin live /\ pages[r] = {}
    /\ op = "delete" => uploads = 0 /\ retain = {}
    /\ lastImage + uploads <= Images
    /\ Becomes(q, [Idle EXCEPT !.phase = "validating", !.op = op, !.res = r, !.retain = retain,
                               !.unchecked = retain, !.uploads = uploads])
    /\ UNCHANGED <<disk, file, shown, live, pages, lastImage, abandoned>>

Validating(q) == request[q].phase = "validating" /\ request[q].half = {}

(* The request goes on to remove names from disk, if there are any, and    *)
(* ends.  (Delete also removes a directory of the resource's own, which    *)
(* nothing ever writes to: makeFilePath puts all files in DirUser.)        *)
StartRemoving(q, batches) ==
    Becomes(q, IF \A t \in Attempt : batches[t] = {} THEN Idle
               ELSE [Idle EXCEPT !.phase = "removing", !.removing = batches])

Nothing == [t \in Attempt |-> {}]
OneBatch(names) == [Nothing EXCEPT ![1] = names]

(* A retained image is opened: if it is gone the form is rejected. *)
CheckRetained(q, i) ==
    /\ Validating(q)
    /\ i \in request[q].unchecked
    /\ IF <<i, "image">> \in disk
       THEN Becomes(q, [request[q] EXCEPT !.unchecked = @ \ {i}])
       ELSE StartRemoving(q, OneBatch(NamesOf(request[q].written)))
    /\ UNCHANGED <<disk, file, shown, live, pages, lastImage, abandoned>>

WriteImage(q) ==
    /\ Validating(q)
    /\ request[q].uploads > 0 /\ lastImage < Images
    /\ lastImage' = lastImage + 1
    /\ disk' = disk \cup {<<lastImage + 1, "image">>}
    /\ Becomes(q, [request[q] EXCEPT !.uploads = @ - 1, !.half = {lastImage + 1}])
    /\ UNCHANGED <<file, shown, live, pages, abandoned>>

(* Mutant: the thumbnail goes unrecorded with the image it belongs to. *)
WriteThumbUnrecorded(q) ==
    /\ request[q].half # {}
    /\ disk' = disk \cup (request[q].half \X {"thumb"})
    /\ Becomes(q, [request[q] EXCEPT !.half = {}])
    /\ UNCHANGED <<file, shown, live, pages, lastImage, abandoned>>

WriteThumb(q) ==
    /\ request[q].half # {}
    /\ disk' = disk \cup (request[q].half \X {"thumb"})
    /\ Becomes(q, [request[q] EXCEPT !.half = {}, !.written = @ \cup request[q].half])
    /\ UNCHANGED <<file, shown, live, pages, lastImage, abandoned>>

(* Writing the image or its thumbnail fails with a part of it on disk that *)
(* is not recorded as written.  The form is rejected (validateFile), or    *)
(* accepted without the image (validateMediaFile drops the error).  An     *)
(* upload that fails before anything is written is a form without it.      *)
WriteFails(q) ==
    /\ request[q].half # {}
    /\ disk' \in {disk, disk \cup (request[q].half \X {"thumb"})}
    /\ abandoned' = abandoned \cup (disk' \cap NamesOf(request[q].half))
    /\ \/ Becomes(q, [request[q] EXCEPT !.half = {}])
       \/ StartRemoving(q, OneBatch(NamesOf(request[q].written)))
    /\ UNCHANGED <<file, shown, live, pages, lastImage>>

(* Another field is invalid, or the transaction of a create or an update   *)
(* fails: the files written so far are removed.                            *)
Rejected(q) ==
    /\ Validating(q)
    /\ StartRemoving(q, OneBatch(NamesOf(request[q].written)))
    /\ UNCHANGED <<disk, file, shown, live, pages, lastImage, abandoned>>

(* The form is valid and the service runs its transaction. *)
Ready(q, op) ==
    /\ Validating(q)
    /\ request[q].op = op
    /\ request[q].unchecked = {} /\ request[q].uploads = 0

CommitCreate(q) ==
    LET r == request[q].res
    IN  /\ Ready(q, "create")
        /\ r \notin live /\ pages[r] = {}
        /\ live' = live \cup {r}
        /\ file' = [file EXCEPT ![r] = NamesOf(request[q].written)]
        /\ shown' = [shown EXCEPT ![r] = request[q].written]
        /\ pages' = [pages EXCEPT ![r] = request[q].written]
        /\ StartRemoving(q, Nothing)
        /\ UNCHANGED <<disk, lastImage, abandoned>>

(* Mutant: only the images that are retained are kept, not the thumbnails. *)
NotRetainedThumbs(q) == file[request[q].res] \ (request[q].retain \X {"image"})

(* The rows updateFiles selects. *)
NotRetained(q) == file[request[q].res] \ NamesOf(request[q].retain)

(* Mutant: nothing is handed back for removal. *)
CommitUpdateForgets(q) ==
    LET r == request[q].res
        images == request[q].retain \cup request[q].written
    IN  /\ Ready(q, "update")
        /\ r \in live
        /\ file' = [file EXCEPT ![r] = (@ \ NotRetained(q)) \cup NamesOf(request[q].written)]
        /\ shown' = [shown EXCEPT ![r] = images]
        /\ pages' = [pages EXCEPT ![r] = @ \cup images]
        /\ StartRemoving(q, Nothing)
        /\ UNCHANGED <<disk, live, lastImage, abandoned>>

(* The tables mention what is retained and what is new; rows of what is    *)
(* not retained go, and their files after them.                            *)
CommitUpdate(q) ==
    LET r == request[q].res
        images == request[q].retain \cup request[q].written
    IN  /\ Ready(q, "update")
        /\ r \in live
        /\ file' = [file EXCEPT ![r] = (@ \ NotRetained(q)) \cup NamesOf(request[q].written)]
        /\ shown' = [shown EXCEPT ![r] = images]
        /\ pages' = [pages EXCEPT ![r] = @ \cup images]
        /\ StartRemoving(q, OneBatch(NotRetained(q)))
        /\ UNCHANGED <<disk, live, lastImage, abandoned>>

WithFilesOf(q, r) == [request[q].removing EXCEPT ![request[q].attempt] = file[r]]

(* Mutant: one attempt too many. *)
AbortDeleteOnceMore(q) ==
    LET r == request[q].res
    IN  /\ Ready(q, "delete")
        /\ request[q].attempt <= TxTries
        /\ r \in live
        /\ Becomes(q, [request[q] EXCEPT !.attempt = @ + 1, !.removing = WithFilesOf(q, r)])
        /\ UNCHANGED <<disk, file, shown, live, pages, lastImage, abandoned>>

(* A transaction that deletes runs again after it was aborted; what the    *)
(* earlier attempts selected stays in the list.                            *)
AbortDelete(q) ==
    LET r == request[q].res
    IN  /\ Ready(q, "delete")
        /\ request[q].attempt < TxTries
        /\ r \in live
        /\ Becomes(q, [request[q] EXCEPT !.attempt = @ + 1, !.removing = WithFilesOf(q, r)])
        /\ UNCHANGED <<disk, file, shown, live, pages, lastImage, abandoned>>

(* Mutant: the files are listed, and removed, although the resource stays. *)
CommitDeleteNothing(q) ==
    LET r == request[q].res
    IN  /\ Ready(q, "delete")
        /\ r \in live
        /\ StartRemoving(q, WithFilesOf(q, r))
        /\ UNCHANGED <<disk, file, shown, live, pages, lastImage, abandoned>>

CommitDelete(q) ==
    LET r == request[q].res
    IN  /\ Ready(q, "delete")
        /\ r \in live
        /\ live' = live \ {r}
        /\ file' = [file EXCEPT ![r] = {}]
        /\ shown' = [shown EXCEPT ![r] = {}]
        /\ StartRemoving(q, WithFilesOf(q, r))
        /\ UNCHANGED <<disk, pages, lastImage, abandoned>>

(* The service answers with feedback (the thread is locked, the handle is  *)
(* taken): the handler returns and leaves the new files where they are.    *)
AnswerFeedback(q) ==
    /\ Ready(q, "create") \/ Ready(q, "update")
    /\ abandoned' = abandoned \cup NamesOf(request[q].written)
    /\ StartRemoving(q, Nothing)
    /\ UNCHANGED <<disk, file, shown, live, pages, lastImage>>

ToRemove(q) == UNION {request[q].removing[t] : t \in Attempt}

(* removeFiles and RemoveNewFiles: one name after the other. *)
Remove(q) ==
    /\ request[q].phase = "removing"
    /\ \E t \in Attempt, n \in disk :
           /\ n \in request[q].removing[t]
           /\ \A before \in 1..(t - 1) : request[q].removing[before] = {}
           /\ disk' = disk \ {n}
           /\ StartRemoving(q, [request[q].removing EXCEPT ![t] = @ \ {n}])
    /\ UNCHANGED <<file, shown, live, pages, lastImage, abandoned>>

(* They stop at the first error, which a missing file is as well. *)
RemoveFails(q) ==
    /\ request[q].phase = "removing"
    /\ abandoned' = abandoned \cup (ToRemove(q) \cap disk)
    /\ StartRemoving(q, Nothing)
    /\ UNCHANGED <<disk, file, shown, live, pages, lastImage>>

(* What a request has written and not registered yet, or has to remove. *)
Held(q) ==
    IF request[q].phase = "removing" THEN ToRemove(q)
    ELSE NamesOf(request[q].written \cup request[q].half)

Crash ==
    /\ abandoned' = abandoned \cup
           ((disk \ Registered) \cap UNION {Held(q) : q \in Requests})
    /\ request' = [q \in Requests |-> Idle]
    /\ UNCHANGED <<disk, file, shown, live, pages, lastImage>>

Step(q) ==
    \/ \E i \in request[q].unchecked : CheckRetained(q, i)
    \/ WriteImage(q) \/ WriteThumb(q) \/ WriteFails(q)
    \/ Rejected(q)
    \/ CommitCreate(q) \/ CommitUpdate(q) \/ AbortDelete(q) \/ CommitDelete(q)
    \/ AnswerFeedback(q)
    \/ Remove(q) \/ RemoveFails(q)

Next ==
    \/ \E q \in Requests :
           \/ Step(q)
           \/ \E op \in {"create", "update", "delete"}, r \in Resources, n \in 0..MaxUploads :
                  \E retain \in SUBSET pages[r] : Submit(q, op, r, retain, n)
    \/ Crash

Spec == Init /\ [][Next]_vars /\ \A q \in Requests : WF_vars(Step(q))

-----------------------------------------------------------------------------
(* Properties. *)

(* Every name in table file is on disk: nothing a resource still has is    *)
(* removed, whatever other requests retain, remove or roll back, and       *)
(* nothing is registered that was not written.                             *)
RowsHaveFiles == Registered \subseteq disk

(* An image and its thumbnail are registered together or not at all: what  *)
(* an update retains is kept whole, what it drops goes whole.              *)
PairsTogether ==
    \A r \in Resources, i \in Image :
        <<i, "image">> \in file[r] <=> <<i, "thumb">> \in file[r]

(* Every file on disk is registered, is about to be registered or removed  *)
(* by a request in progress, or was abandoned by one of the steps that are *)
(* known to leave files behind; and no row of table file names an          *)
(* abandoned file.  (A resource may mention one again all the same: after  *)
(* RemoveFails an older page may retain the image, which is still found on *)
(* disk, and CommitUpdate adds no row for what is retained.)               *)
LeaksAccounted ==
    /\ disk \subseteq Registered \cup abandoned \cup UNION {Held(q) : q \in Requests}
    /\ abandoned \cap Registered = {}

(* A name that is listed for removal after a commit is registered nowhere. *)
(* (Names of an aborted attempt to delete are still registered, and are    *)
(* only removed when the deletion commits.)                                *)
RemovingUnregistered ==
    \A q \in Requests :
        request[q].phase = "removing" => ToRemove(q) \cap Registered = {}

(* The files of a resource that is deleted, and those an update drops, are *)
(* removed in the end, or one of the known steps has abandoned them.       *)
DroppedFilesGo ==
    \A n \in Name :
        n \in disk \ Registered ~> n \notin disk \ (Registered \cup abandoned)

-----------------------------------------------------------------------------
(* What the repository says and the code does not do. *)

(* validateMediaFileName: "This results in a file name being submitted     *)
(* whose existence we verify."                                             *)
ShownImagesExist ==
    \A r \in Resources : \A i \in shown[r] : <<i, "image">> \in disk

=============================================================================
