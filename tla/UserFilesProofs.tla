-------------------------- MODULE UserFilesProofs --------------------------
(***************************************************************************)
(* Proof that every registered file is on disk, for any number of          *)
(* resources, requests, images and attempts.  The idea: what is fresh      *)
(* (written by a request and not registered) belongs to that request       *)
(* alone, and what a request lists for removal is nobody's fresh image and, *)
(* once its transaction has committed, nobody's row.                       *)
(***************************************************************************)
EXTENDS UserFiles, TLAPS

Written(q) == request[q].written
Half(q) == request[q].half
Fresh(q) == Written(q) \cup Half(q)
Phase(q) == request[q].phase
Res(q) == request[q].res

WrittenOnDisk ==
    \A q \in Requests :
        NamesOf(Written(q)) \subseteq disk /\ Half(q) \X {"image"} \subseteq disk

FreshUnregistered ==
    \A q \in Requests : \A r \in Resources : NamesOf(Fresh(q)) \cap file[r] = {}

FreshApart ==
    \A p, q \in Requests : p # q => Fresh(p) \cap Fresh(q) = {}

ListedNotFresh ==
    \A p, q \in Requests : ToRemove(q) \cap NamesOf(Fresh(p)) = {}

(* What an aborted attempt to delete has listed is of that resource. *)
ListedOfOne ==
    \A q \in Requests : Phase(q) = "validating" =>
        \A r \in Resources : r # Res(q) => ToRemove(q) \cap file[r] = {}

ListedAfterCommit ==
    \A q \in Requests : Phase(q) # "validating" =>
        \A r \in Resources : ToRemove(q) \cap file[r] = {}

RowsApart ==
    \A r, s \in Resources : r # s => file[r] \cap file[s] = {}

RowsOnDisk == \A r \in Resources : file[r] \subseteq disk

(* Images not drawn yet are nowhere. *)
ImagesUsed ==
    /\ \A q \in Requests : \A i \in Fresh(q) : i <= lastImage
    /\ \A q \in Requests : \A n \in ToRemove(q) : n[1] <= lastImage
    /\ \A r \in Resources : \A n \in file[r] : n[1] <= lastImage

FilesOK ==
    /\ WrittenOnDisk /\ FreshUnregistered /\ FreshApart /\ ListedNotFresh
    /\ ListedOfOne /\ ListedAfterCommit /\ RowsApart /\ RowsOnDisk /\ ImagesUsed

-----------------------------------------------------------------------------
(* Types. *)

LEMMA IdleType == Idle \in Request
  BY BoundsAssumption DEF Idle, Request, Attempt, Name

LEMMA BecomesType ==
    ASSUME request \in [Requests -> Request], NEW q \in Requests, NEW new \in Request, Becomes(q, new)
    PROVE  request' \in [Requests -> Request]
  BY DEF Becomes

LEMMA RemovingType ==
    ASSUME request \in [Requests -> Request], NEW q \in Requests,
           NEW batches \in [Attempt -> SUBSET Name], StartRemoving(q, batches)
    PROVE  request' \in [Requests -> Request]
  <1>1. [Idle EXCEPT !.phase = "removing", !.removing = batches] \in Request
    BY IdleType DEF Request
  <1> QED BY <1>1, IdleType, BecomesType DEF StartRemoving

LEMMA BatchTypes ==
    /\ Nothing \in [Attempt -> SUBSET Name]
    /\ \A names \in SUBSET Name : OneBatch(names) \in [Attempt -> SUBSET Name]
    /\ \A images \in SUBSET Image : NamesOf(images) \in SUBSET Name
  BY DEF Nothing, OneBatch, NamesOf, Name

LEMMA RequestFields ==
    ASSUME TypeOK, NEW q \in Requests
    PROVE  /\ request[q] \in Request
           /\ Res(q) \in Resources
           /\ request[q].retain \in SUBSET Image
           /\ request[q].uploads \in 0..MaxUploads
           /\ Written(q) \in SUBSET Image /\ Half(q) \in SUBSET Image
           /\ request[q].removing \in [Attempt -> SUBSET Name]
           /\ request[q].attempt \in Attempt
  BY DEF TypeOK, Request, Res, Written, Half

LEMMA RemovingOneType ==
    ASSUME TypeOK, NEW q \in Requests, NEW names \in SUBSET Name, StartRemoving(q, OneBatch(names))
    PROVE  request' \in [Requests -> Request]
  BY RemovingType, BatchTypes DEF TypeOK

LEMMA RemovingNothingType ==
    ASSUME TypeOK, NEW q \in Requests, StartRemoving(q, Nothing)
    PROVE  request' \in [Requests -> Request]
  BY RemovingType, BatchTypes DEF TypeOK

LEMMA StepType ==
    ASSUME TypeOK, NEW q \in Requests, Step(q)
    PROVE  TypeOK'
  <1> USE RequestFields
  <1>1. ASSUME NEW i \in request[q].unchecked, CheckRetained(q, i) PROVE TypeOK'
    <2>1. [request[q] EXCEPT !.unchecked = @ \ {i}] \in Request
      BY DEF Request
    <2>2. request' \in [Requests -> Request]
      BY <1>1, <2>1, BecomesType, RemovingOneType, BatchTypes DEF CheckRetained, TypeOK, Written
    <2> QED BY <1>1, <2>2 DEF CheckRetained, TypeOK
  <1>2. CASE WriteImage(q)
    <2>1. lastImage + 1 \in Image /\ lastImage + 1 \in 0..Images
      BY <1>2, BoundsAssumption DEF WriteImage, TypeOK, Image
    <2>2. request[q].uploads - 1 \in 0..MaxUploads
      BY <1>2, BoundsAssumption DEF WriteImage
    <2>3. [request[q] EXCEPT !.uploads = @ - 1, !.half = {lastImage + 1}] \in Request
      BY <2>1, <2>2 DEF Request
    <2>4. request' \in [Requests -> Request]
      BY <1>2, <2>3, BecomesType DEF WriteImage, TypeOK
    <2>5. <<lastImage + 1, "image">> \in Name
      BY <2>1 DEF Name
    <2> QED BY <1>2, <2>1, <2>4, <2>5 DEF WriteImage, TypeOK
  <1>3. CASE WriteThumb(q)
    <2>1. [request[q] EXCEPT !.half = {}, !.written = @ \cup request[q].half] \in Request
      BY DEF Request, Half
    <2>2. request' \in [Requests -> Request]
      BY <1>3, <2>1, BecomesType DEF WriteThumb, TypeOK
    <2>3. request[q].half \X {"thumb"} \subseteq Name
      BY DEF Half, Name
    <2> QED BY <1>3, <2>2, <2>3 DEF WriteThumb, TypeOK
  <1>4. CASE WriteFails(q)
    <2>1. [request[q] EXCEPT !.half = {}] \in Request
      BY DEF Request
    <2>2. request' \in [Requests -> Request]
      BY <1>4, <2>1, BecomesType, RemovingOneType, BatchTypes DEF WriteFails, TypeOK, Written
    <2>3. request[q].half \X {"thumb"} \subseteq Name
      BY DEF Half, Name
    <2> QED BY <1>4, <2>2, <2>3 DEF WriteFails, TypeOK
  <1>5. CASE Rejected(q)
    <2>1. request' \in [Requests -> Request]
      BY <1>5, RemovingOneType, BatchTypes DEF Rejected, Written
    <2> QED BY <1>5, <2>1 DEF Rejected, TypeOK
  <1>6. CASE CommitCreate(q)
    <2>1. request' \in [Requests -> Request]
      BY <1>6, RemovingNothingType DEF CommitCreate
    <2> QED BY <1>6, <2>1, BatchTypes DEF CommitCreate, TypeOK, Written, Res
  <1>7. CASE CommitUpdate(q)
    <2>1. NotRetained(q) \in SUBSET Name
      BY DEF NotRetained, Res, TypeOK
    <2>2. request' \in [Requests -> Request]
      BY <1>7, <2>1, RemovingOneType DEF CommitUpdate
    <2> QED BY <1>7, <2>1, <2>2, BatchTypes DEF CommitUpdate, TypeOK, Written, Res
  <1>8. WithFilesOf(q, Res(q)) \in [Attempt -> SUBSET Name]
    BY DEF WithFilesOf, TypeOK
  <1>9. CASE AbortDelete(q)
    <2>1. request[q].attempt + 1 \in Attempt
      BY <1>9, BoundsAssumption DEF AbortDelete, Attempt
    <2>2. [request[q] EXCEPT !.attempt = @ + 1, !.removing = WithFilesOf(q, Res(q))] \in Request
      BY <1>8, <2>1 DEF Request
    <2>3. request' \in [Requests -> Request]
      BY <1>9, <2>2, BecomesType DEF AbortDelete, TypeOK, Res
    <2> QED BY <1>9, <2>3 DEF AbortDelete, TypeOK
  <1>10. CASE CommitDelete(q)
    <2>1. request' \in [Requests -> Request]
      BY <1>8, <1>10, RemovingType DEF CommitDelete, TypeOK, Res
    <2> QED BY <1>10, <2>1 DEF CommitDelete, TypeOK, Res
  <1>11. CASE AnswerFeedback(q)
    <2>1. request' \in [Requests -> Request]
      BY <1>11, RemovingNothingType DEF AnswerFeedback
    <2> QED BY <1>11, <2>1, BatchTypes DEF AnswerFeedback, TypeOK, Written
  <1>12. CASE Remove(q)
    <2>1. PICK t \in Attempt, n \in disk :
              /\ disk' = disk \ {n}
              /\ StartRemoving(q, [request[q].removing EXCEPT ![t] = @ \ {n}])
      BY <1>12 DEF Remove
    <2>2. [request[q].removing EXCEPT ![t] = @ \ {n}] \in [Attempt -> SUBSET Name]
      OBVIOUS
    <2>3. request' \in [Requests -> Request]
      BY <2>1, <2>2, RemovingType DEF TypeOK
    <2> QED BY <1>12, <2>1, <2>3 DEF Remove, TypeOK
  <1>13. CASE RemoveFails(q)
    <2>1. request' \in [Requests -> Request]
      BY <1>13, RemovingNothingType DEF RemoveFails
    <2> QED BY <1>13, <2>1 DEF RemoveFails, TypeOK, ToRemove
  <1> QED
    BY <1>1, <1>2, <1>3, <1>4, <1>5, <1>6, <1>7, <1>9, <1>10, <1>11, <1>12, <1>13
    DEF Step

Submitted ==
    \E q \in Requests, op \in {"create", "update", "delete"}, r \in Resources, n \in 0..MaxUploads :
        \E retain \in SUBSET pages[r] : Submit(q, op, r, retain, n)

LEMMA SubmitType ==
    ASSUME TypeOK, Submitted
    PROVE  TypeOK'
  <1>0. PICK q \in Requests, op \in {"create", "update", "delete"}, r \in Resources,
             n \in 0..MaxUploads : \E retain \in SUBSET pages[r] : Submit(q, op, r, retain, n)
    BY DEF Submitted
  <1>1. PICK retain \in SUBSET pages[r] : Submit(q, op, r, retain, n)
    BY <1>0
  <1>2. retain \in SUBSET Image
    BY DEF TypeOK
  <1>3. [Idle EXCEPT !.phase = "validating", !.op = op, !.res = r, !.retain = retain,
                     !.unchecked = retain, !.uploads = n] \in Request
    BY <1>2, IdleType DEF Request
  <1>4. request' \in [Requests -> Request]
    BY <1>1, <1>3, BecomesType DEF Submit, TypeOK
  <1> QED BY <1>1, <1>4 DEF Submit, TypeOK

LEMMA CrashType ==
    ASSUME TypeOK, Crash
    PROVE  TypeOK'
  BY IdleType DEF Crash, TypeOK

LEMMA TypeStep == TypeOK /\ [Next]_vars => TypeOK'
  <1> SUFFICES ASSUME TypeOK, [Next]_vars PROVE TypeOK'
    OBVIOUS
  <1>1. CASE UNCHANGED vars
    BY <1>1 DEF vars, TypeOK
  <1>2. CASE \E q \in Requests : Step(q)
    BY <1>2, StepType
  <1>3. CASE Submitted
    BY <1>3, SubmitType
  <1>4. CASE Crash
    BY <1>4, CrashType
  <1> QED BY <1>1, <1>2, <1>3, <1>4 DEF Next, Submitted

LEMMA TypeInit == Init => TypeOK
  BY IdleType, BoundsAssumption DEF Init, TypeOK, Name

-----------------------------------------------------------------------------
(* Files. *)

LEMMA InName == \A images : \A n : n \in NamesOf(images) <=>
                    \E i \in images : n = <<i, "image">> \/ n = <<i, "thumb">>
  BY DEF NamesOf

LEMMA FilesInit == Init => FilesOK
  <1> SUFFICES ASSUME Init PROVE FilesOK
    OBVIOUS
  <1>1. \A q \in Requests : /\ Written(q) = {} /\ Half(q) = {} /\ Fresh(q) = {}
                            /\ ToRemove(q) = {}
    BY BoundsAssumption DEF Init, Idle, Written, Half, Fresh, ToRemove
  <1>2. \A r \in Resources : file[r] = {}
    BY DEF Init
  <1> QED BY <1>1, <1>2 DEF FilesOK, WrittenOnDisk, FreshUnregistered, FreshApart, ListedNotFresh,
            ListedOfOne, ListedAfterCommit, RowsApart, RowsOnDisk, ImagesUsed, NamesOf

(* Steps that register nothing and remove nothing: fresh images are kept   *)
(* or given up, and what is given up may be listed for removal.            *)
LEMMA Quiet ==
    ASSUME FilesOK, file' = file, lastImage' = lastImage, disk \subseteq disk',
           \A p \in Requests :
               /\ Written(p)' \subseteq Written(p) /\ Half(p)' \subseteq Half(p)
               /\ \/ ToRemove(p)' = {}
                  \/ ToRemove(p)' = ToRemove(p) /\ Phase(p)' = Phase(p) /\ Res(p)' = Res(p)
                  \/ ToRemove(p)' \subseteq NamesOf(Fresh(p)) /\ Fresh(p)' = {}
    PROVE  FilesOK'
  <1>1. \A p \in Requests : Fresh(p)' \subseteq Fresh(p)
    BY DEF Fresh
  <1>2. \A p \in Requests : NamesOf(Fresh(p)') \subseteq NamesOf(Fresh(p))
    BY <1>1 DEF NamesOf
  <1>3. WrittenOnDisk'
    BY DEF FilesOK, WrittenOnDisk, NamesOf
  <1>4. FreshUnregistered'
    BY <1>2 DEF FilesOK, FreshUnregistered
  <1>5. FreshApart'
    BY <1>1 DEF FilesOK, FreshApart
  <1>6. ListedNotFresh'
    <2> SUFFICES ASSUME NEW p \in Requests, NEW q \in Requests
                 PROVE  ToRemove(q)' \cap NamesOf(Fresh(p)') = {}
      BY DEF ListedNotFresh
    <2>1. CASE ToRemove(q)' \subseteq ToRemove(q)
      BY <2>1, <1>2 DEF FilesOK, ListedNotFresh
    <2>2. CASE ToRemove(q)' \subseteq NamesOf(Fresh(q)) /\ Fresh(q)' = {}
      BY <2>2, <1>2 DEF FilesOK, FreshApart, NamesOf
    <2> QED BY <2>1, <2>2
  <1>7. ListedOfOne' /\ ListedAfterCommit'
    BY DEF FilesOK, ListedOfOne, ListedAfterCommit, FreshUnregistered
  <1>8. RowsApart' /\ RowsOnDisk'
    BY DEF FilesOK, RowsApart, RowsOnDisk
  <1>9. ImagesUsed'
    <2>1. \A p \in Requests : \A n \in NamesOf(Fresh(p)) : n[1] <= lastImage
      BY DEF FilesOK, ImagesUsed, NamesOf
    <2> QED BY <1>1, <2>1 DEF FilesOK, ImagesUsed
  <1> QED BY <1>3, <1>4, <1>5, <1>6, <1>7, <1>8, <1>9 DEF FilesOK

(* What the two ways to change a request do to it and to the others. *)
LEMMA BecomesFields ==
    ASSUME TypeOK, NEW q \in Requests, NEW new, Becomes(q, new)
    PROVE  /\ request'[q] = new
           /\ \A p \in Requests : p # q => request'[p] = request[p]
  BY DEF Becomes, TypeOK

LEMMA Others ==
    ASSUME NEW p \in Requests, request'[p] = request[p]
    PROVE  /\ Written(p)' = Written(p) /\ Half(p)' = Half(p) /\ Fresh(p)' = Fresh(p)
           /\ ToRemove(p)' = ToRemove(p) /\ Phase(p)' = Phase(p) /\ Res(p)' = Res(p)
  BY DEF Written, Half, Fresh, ToRemove, Phase, Res

LEMMA RemovingFields ==
    ASSUME TypeOK, NEW q \in Requests, NEW batches, StartRemoving(q, batches)
    PROVE  /\ Written(q)' = {} /\ Half(q)' = {} /\ Fresh(q)' = {}
           /\ ToRemove(q)' = UNION {batches[t] : t \in Attempt}
           /\ Phase(q)' # "validating"
           /\ \A p \in Requests : p # q => request'[p] = request[p]
  <1>1. CASE \A t \in Attempt : batches[t] = {}
    <2>1. request'[q] = Idle /\ \A p \in Requests : p # q => request'[p] = request[p]
      BY <1>1, BecomesFields DEF StartRemoving
    <2> QED BY <1>1, <2>1 DEF Idle, Written, Half, Fresh, ToRemove, Phase
  <1>2. CASE ~ \A t \in Attempt : batches[t] = {}
    <2>1. /\ request'[q] = [Idle EXCEPT !.phase = "removing", !.removing = batches]
          /\ \A p \in Requests : p # q => request'[p] = request[p]
      BY <1>2, BecomesFields DEF StartRemoving
    <2> QED BY <2>1 DEF Idle, Written, Half, Fresh, ToRemove, Phase
  <1> QED BY <1>1, <1>2

LEMMA Batches ==
    /\ UNION {Nothing[t] : t \in Attempt} = {}
    /\ \A names : UNION {OneBatch(names)[t] : t \in Attempt} = names
  <1>1. 1 \in Attempt
    BY BoundsAssumption DEF Attempt
  <1>2. \A names : /\ OneBatch(names)[1] = names
                  /\ \A t \in Attempt : t # 1 => OneBatch(names)[t] = {}
    BY <1>1 DEF Nothing, OneBatch
  <1>3. ASSUME NEW names PROVE UNION {OneBatch(names)[t] : t \in Attempt} = names
    <2> SUFFICES ASSUME NEW x
                 PROVE  x \in UNION {OneBatch(names)[t] : t \in Attempt} <=> x \in names
      OBVIOUS
    <2> QED BY <1>1, <1>2
  <1>4. UNION {Nothing[t] : t \in Attempt} = {}
    BY DEF Nothing
  <1> QED BY <1>3, <1>4

LEMMA RemovingNames ==
    ASSUME TypeOK, NEW q \in Requests, NEW names, StartRemoving(q, OneBatch(names))
    PROVE  ToRemove(q)' = names
  <1>1. ToRemove(q)' = UNION {OneBatch(names)[t] : t \in Attempt}
    BY RemovingFields
  <1> QED BY <1>1, Batches

LEMMA RemovingNothing ==
    ASSUME TypeOK, NEW q \in Requests, StartRemoving(q, Nothing)
    PROVE  ToRemove(q)' = {}
  <1>1. ToRemove(q)' = UNION {Nothing[t] : t \in Attempt}
    BY RemovingFields
  <1> QED BY <1>1, Batches

LEMMA GivenUp ==
    ASSUME TypeOK, FilesOK, NEW q \in Requests, file' = file, lastImage' = lastImage, disk \subseteq disk',
           \/ StartRemoving(q, Nothing)
           \/ StartRemoving(q, OneBatch(NamesOf(request[q].written)))
    PROVE  FilesOK'
  <1>1. /\ Written(q)' = {} /\ Half(q)' = {} /\ Fresh(q)' = {}
        /\ \A p \in Requests : p # q => request'[p] = request[p]
    BY RemovingFields
  <1>2. ToRemove(q)' \subseteq NamesOf(Fresh(q))
    <2>1. CASE StartRemoving(q, Nothing)
      BY <2>1, RemovingNothing
    <2>2. CASE StartRemoving(q, OneBatch(NamesOf(request[q].written)))
      <3>1. ToRemove(q)' = NamesOf(Written(q))
        BY <2>2, RemovingNames DEF Written
      <3> QED BY <3>1 DEF Fresh, NamesOf
    <2> QED BY <2>1, <2>2
  <1> QED BY <1>1, <1>2, Others, Quiet

LEMMA StepsQuietly ==
    ASSUME TypeOK, FilesOK, NEW q \in Requests,
           \/ \E i \in request[q].unchecked : CheckRetained(q, i)
           \/ WriteFails(q) \/ Rejected(q) \/ AnswerFeedback(q) \/ RemoveFails(q)
    PROVE  FilesOK'
  <1>1. ASSUME NEW i \in request[q].unchecked, CheckRetained(q, i) PROVE FilesOK'
    <2>1. file' = file /\ lastImage' = lastImage /\ disk \subseteq disk'
      BY <1>1 DEF CheckRetained
    <2>2. CASE <<i, "image">> \in disk
      <3>1. /\ request'[q] = [request[q] EXCEPT !.unchecked = @ \ {i}]
            /\ \A p \in Requests : p # q => request'[p] = request[p]
        BY <1>1, <2>2, BecomesFields DEF CheckRetained
      <3>2. /\ Written(q)' = Written(q) /\ Half(q)' = Half(q)
            /\ ToRemove(q)' = ToRemove(q) /\ Phase(q)' = Phase(q) /\ Res(q)' = Res(q)
        BY <3>1, RequestFields DEF Written, Half, ToRemove, Phase, Res, Request
      <3> QED BY <2>1, <3>1, <3>2, Others, Quiet
    <2> QED BY <1>1, <2>1, <2>2, GivenUp DEF CheckRetained
  <1>2. CASE WriteFails(q)
    <2>1. file' = file /\ lastImage' = lastImage /\ disk \subseteq disk'
      BY <1>2 DEF WriteFails
    <2>2. CASE Becomes(q, [request[q] EXCEPT !.half = {}])
      <3>1. /\ request'[q] = [request[q] EXCEPT !.half = {}]
            /\ \A p \in Requests : p # q => request'[p] = request[p]
        BY <2>2, BecomesFields
      <3>2. /\ Written(q)' = Written(q) /\ Half(q)' = {}
            /\ ToRemove(q)' = ToRemove(q) /\ Phase(q)' = Phase(q) /\ Res(q)' = Res(q)
        BY <3>1, RequestFields DEF Written, Half, ToRemove, Phase, Res, Request
      <3> QED BY <2>1, <3>1, <3>2, Others, Quiet
    <2> QED BY <1>2, <2>1, <2>2, GivenUp DEF WriteFails
  <1>3. CASE Rejected(q)
    BY <1>3, GivenUp DEF Rejected
  <1>4. CASE AnswerFeedback(q)
    BY <1>4, GivenUp DEF AnswerFeedback
  <1>5. CASE RemoveFails(q)
    BY <1>5, GivenUp DEF RemoveFails
  <1> QED BY <1>1, <1>2, <1>3, <1>4, <1>5

LEMMA SubmitKeeps ==
    ASSUME TypeOK, FilesOK, Submitted
    PROVE  FilesOK'
  <1>0. PICK q \in Requests, op \in {"create", "update", "delete"}, r \in Resources,
             n \in 0..MaxUploads : \E retain \in SUBSET pages[r] : Submit(q, op, r, retain, n)
    BY DEF Submitted
  <1>1. PICK retain \in SUBSET pages[r] : Submit(q, op, r, retain, n)
    BY <1>0
  <1>2. /\ request'[q] = [Idle EXCEPT !.phase = "validating", !.op = op, !.res = r, !.retain = retain,
                                      !.unchecked = retain, !.uploads = n]
        /\ \A p \in Requests : p # q => request'[p] = request[p]
    BY <1>1, BecomesFields DEF Submit
  <1>3. Written(q)' = {} /\ Half(q)' = {} /\ ToRemove(q)' = {}
    BY <1>2 DEF Idle, Written, Half, ToRemove
  <1> QED BY <1>1, <1>2, <1>3, Others, Quiet DEF Submit

LEMMA CrashKeeps ==
    ASSUME FilesOK, Crash
    PROVE  FilesOK'
  <1>1. \A p \in Requests : Written(p)' = {} /\ Half(p)' = {} /\ ToRemove(p)' = {}
    BY DEF Crash, Idle, Written, Half, ToRemove
  <1> QED BY <1>1, Quiet DEF Crash

LEMMA WriteImageKeeps ==
    ASSUME TypeOK, FilesOK, NEW q \in Requests, WriteImage(q)
    PROVE  FilesOK'
  <1> DEFINE new == lastImage + 1
  <1>1. /\ lastImage \in Nat /\ new \in Nat /\ lastImage' = new
        /\ \A p \in Requests : \A i \in Fresh(p) : i \in Nat
        /\ \A i \in Nat : i <= lastImage => i <= new /\ i # new
    BY RequestFields, BoundsAssumption DEF WriteImage, TypeOK, Fresh, Image
  <1>2. /\ request'[q] = [request[q] EXCEPT !.uploads = @ - 1, !.half = {new}]
        /\ \A p \in Requests : p # q => request'[p] = request[p]
    BY BecomesFields DEF WriteImage
  <1>3. /\ Written(q)' = Written(q) /\ Half(q)' = {new} /\ Half(q) = {}
        /\ ToRemove(q)' = ToRemove(q) /\ Phase(q)' = Phase(q) /\ Res(q)' = Res(q)
    BY <1>2, RequestFields DEF WriteImage, Validating, Written, Half, ToRemove, Phase, Res, Request
  <1>4. /\ Fresh(q)' = Fresh(q) \cup {new}
        /\ \A p \in Requests : p # q => Fresh(p)' = Fresh(p)
    BY <1>2, <1>3, Others DEF Fresh
  <1>5. /\ \A p \in Requests : ToRemove(p)' = ToRemove(p) /\ Phase(p)' = Phase(p) /\ Res(p)' = Res(p)
        /\ file' = file /\ disk' = disk \cup {<<new, "image">>}
    BY <1>2, <1>3, Others DEF WriteImage
  <1>6. /\ \A p \in Requests : new \notin Fresh(p)
        /\ \A r \in Resources : NamesOf({new}) \cap file[r] = {}
        /\ \A p \in Requests : NamesOf({new}) \cap ToRemove(p) = {}
    BY <1>1 DEF FilesOK, ImagesUsed, NamesOf
  <1>7. \A images, more : NamesOf(images \cup more) = NamesOf(images) \cup NamesOf(more)
    BY DEF NamesOf
  <1>8. WrittenOnDisk'
    BY <1>2, <1>3, <1>5, Others DEF FilesOK, WrittenOnDisk
  <1>9. FreshUnregistered'
    BY <1>4, <1>5, <1>6, <1>7 DEF FilesOK, FreshUnregistered
  <1>10. FreshApart'
    BY <1>4, <1>6 DEF FilesOK, FreshApart
  <1>11. ListedNotFresh'
    BY <1>4, <1>5, <1>6, <1>7 DEF FilesOK, ListedNotFresh
  <1>12. ListedOfOne' /\ ListedAfterCommit'
    BY <1>5 DEF FilesOK, ListedOfOne, ListedAfterCommit
  <1>13. RowsApart' /\ RowsOnDisk'
    BY <1>5 DEF FilesOK, RowsApart, RowsOnDisk
  <1>14. ImagesUsed'
    <2>1. \A n \in Name : n[1] \in Nat
      BY DEF Name, Image
    <2>2. \A r \in Resources : \A n \in file[r] : n \in Name
      BY DEF TypeOK
    <2>3. \A p \in Requests : \A n \in ToRemove(p) : n \in Name
      BY RequestFields DEF ToRemove
    <2> QED BY <1>1, <1>4, <1>5, <2>1, <2>2, <2>3 DEF FilesOK, ImagesUsed
  <1> QED BY <1>8, <1>9, <1>10, <1>11, <1>12, <1>13, <1>14 DEF FilesOK

LEMMA WriteThumbKeeps ==
    ASSUME TypeOK, FilesOK, NEW q \in Requests, WriteThumb(q)
    PROVE  FilesOK'
  <1>1. /\ request'[q] = [request[q] EXCEPT !.half = {}, !.written = @ \cup request[q].half]
        /\ \A p \in Requests : p # q => request'[p] = request[p]
    BY BecomesFields DEF WriteThumb
  <1>2. /\ Written(q)' = Written(q) \cup Half(q) /\ Half(q)' = {}
        /\ ToRemove(q)' = ToRemove(q) /\ Phase(q)' = Phase(q) /\ Res(q)' = Res(q)
    BY <1>1, RequestFields DEF Written, Half, ToRemove, Phase, Res, Request
  <1>3. \A p \in Requests : /\ Fresh(p)' = Fresh(p) /\ ToRemove(p)' = ToRemove(p)
                            /\ Phase(p)' = Phase(p) /\ Res(p)' = Res(p)
    BY <1>1, <1>2, Others DEF Fresh
  <1>4. file' = file /\ lastImage' = lastImage /\ disk' = disk \cup (Half(q) \X {"thumb"})
    BY DEF WriteThumb, Half
  <1>5. WrittenOnDisk'
    <2>1. NamesOf(Written(q) \cup Half(q))
              = NamesOf(Written(q)) \cup (Half(q) \X {"image"}) \cup (Half(q) \X {"thumb"})
      BY DEF NamesOf
    <2>2. NamesOf(Written(q)') \subseteq disk'
      BY <1>2, <1>4, <2>1 DEF FilesOK, WrittenOnDisk
    <2> QED BY <1>1, <1>2, <1>4, <2>2, Others DEF FilesOK, WrittenOnDisk
  <1>6. FreshUnregistered' /\ FreshApart' /\ ListedNotFresh' /\ ImagesUsed'
    BY <1>3, <1>4 DEF FilesOK, FreshUnregistered, FreshApart, ListedNotFresh, ImagesUsed
  <1>7. ListedOfOne' /\ ListedAfterCommit' /\ RowsApart' /\ RowsOnDisk'
    BY <1>3, <1>4 DEF FilesOK, ListedOfOne, ListedAfterCommit, RowsApart, RowsOnDisk
  <1> QED BY <1>5, <1>6, <1>7 DEF FilesOK

(* A transaction that changes rows: rows are kept, or are the fresh images *)
(* of the request, which then no longer are; rows that go may be listed.   *)
LEMMA Committed ==
    ASSUME TypeOK, FilesOK, NEW q \in Requests,
           file'[Res(q)] \subseteq file[Res(q)] \cup NamesOf(Written(q)),
           \A r \in Resources : r # Res(q) => file'[r] = file[r],
           lastImage' = lastImage, disk' = disk,
           Fresh(q)' = {}, Written(q)' = {}, Half(q)' = {}, Phase(q)' # "validating",
           ToRemove(q)' \subseteq ToRemove(q) \cup file[Res(q)],
           ToRemove(q)' \cap file'[Res(q)] = {},
           \A r \in Resources : r # Res(q) => ToRemove(q)' \cap file[r] = {},
           \A p \in Requests : p # q => request'[p] = request[p]
    PROVE  FilesOK'
  <1>1. Res(q) \in Resources
    BY RequestFields
  <1>2. NamesOf(Written(q)) \subseteq NamesOf(Fresh(q))
    BY DEF NamesOf, Fresh
  <1>3. \A p \in Requests : p # q =>
            /\ Written(p)' = Written(p) /\ Half(p)' = Half(p) /\ Fresh(p)' = Fresh(p)
            /\ ToRemove(p)' = ToRemove(p) /\ Phase(p)' = Phase(p) /\ Res(p)' = Res(p)
    BY Others
  <1>4. \A p \in Requests : p # q => NamesOf(Fresh(p)) \cap NamesOf(Written(q)) = {}
    BY <1>2 DEF FilesOK, FreshApart, NamesOf
  <1>5. NamesOf({}) = {}
    BY DEF NamesOf
  <1>6. WrittenOnDisk'
    BY <1>3, <1>5 DEF FilesOK, WrittenOnDisk
  <1>7. FreshUnregistered'
    BY <1>1, <1>3, <1>4, <1>5 DEF FilesOK, FreshUnregistered
  <1>8. FreshApart'
    BY <1>3 DEF FilesOK, FreshApart
  <1>9. ListedNotFresh'
    <2> SUFFICES ASSUME NEW p \in Requests, NEW s \in Requests
                 PROVE  ToRemove(s)' \cap NamesOf(Fresh(p)') = {}
      BY DEF ListedNotFresh
    <2>1. CASE p = q
      BY <2>1, <1>5
    <2>2. CASE p # q /\ s # q
      BY <2>2, <1>3 DEF FilesOK, ListedNotFresh
    <2>3. CASE p # q /\ s = q
      BY <2>3, <1>1, <1>3 DEF FilesOK, ListedNotFresh, FreshUnregistered
    <2> QED BY <2>1, <2>2, <2>3
  <1>10. \A p \in Requests : ToRemove(p) \cap NamesOf(Written(q)) = {}
    BY <1>2 DEF FilesOK, ListedNotFresh
  <1>11. ListedOfOne'
    BY <1>1, <1>3, <1>10 DEF FilesOK, ListedOfOne
  <1>12. ListedAfterCommit'
    <2> SUFFICES ASSUME NEW p \in Requests, Phase(p)' # "validating", NEW r \in Resources
                 PROVE  ToRemove(p)' \cap file[r]' = {}
      BY DEF ListedAfterCommit
    <2>1. CASE p # q
      BY <2>1, <1>1, <1>3, <1>10 DEF FilesOK, ListedAfterCommit
    <2>2. CASE p = q
      BY <2>2, <1>1
    <2> QED BY <2>1, <2>2
  <1>13. RowsApart'
    BY <1>1, <1>2 DEF FilesOK, RowsApart, FreshUnregistered
  <1>14. RowsOnDisk'
    BY <1>1 DEF FilesOK, RowsOnDisk, WrittenOnDisk
  <1>15. ImagesUsed'
    <2>1. \A n \in NamesOf(Written(q)) : n[1] <= lastImage
      BY DEF FilesOK, ImagesUsed, NamesOf, Fresh
    <2>2. \A n \in ToRemove(q)' : n[1] <= lastImage
      BY <1>1 DEF FilesOK, ImagesUsed
    <2> QED BY <1>1, <1>3, <2>1, <2>2 DEF FilesOK, ImagesUsed
  <1> QED BY <1>6, <1>7, <1>8, <1>9, <1>11, <1>12, <1>13, <1>14, <1>15 DEF FilesOK

LEMMA CommitCreateKeeps ==
    ASSUME TypeOK, FilesOK, NEW q \in Requests, CommitCreate(q)
    PROVE  FilesOK'
  <1>1. StartRemoving(q, Nothing) /\ lastImage' = lastImage /\ disk' = disk
    BY DEF CommitCreate
  <1>2. /\ file'[Res(q)] = NamesOf(Written(q))
        /\ \A r \in Resources : r # Res(q) => file'[r] = file[r]
    BY RequestFields DEF CommitCreate, Res, Written, TypeOK
  <1>3. ToRemove(q)' = {}
    BY <1>1, RemovingNothing
  <1>4. /\ Written(q)' = {} /\ Half(q)' = {} /\ Fresh(q)' = {} /\ Phase(q)' # "validating"
        /\ \A p \in Requests : p # q => request'[p] = request[p]
    BY <1>1, RemovingFields
  <1> QED BY <1>1, <1>2, <1>3, <1>4, Committed

LEMMA CommitUpdateKeeps ==
    ASSUME TypeOK, FilesOK, NEW q \in Requests, CommitUpdate(q)
    PROVE  FilesOK'
  <1>1. /\ Res(q) \in Resources
        /\ StartRemoving(q, OneBatch(NotRetained(q))) /\ lastImage' = lastImage /\ disk' = disk
    BY RequestFields DEF CommitUpdate
  <1>2. /\ file'[Res(q)] = (file[Res(q)] \ NotRetained(q)) \cup NamesOf(Written(q))
        /\ \A r \in Resources : r # Res(q) => file'[r] = file[r]
    BY <1>1 DEF CommitUpdate, Res, Written, TypeOK
  <1>3. ToRemove(q)' = NotRetained(q)
    BY <1>1, RemovingNames
  <1>4. /\ NotRetained(q) \subseteq file[Res(q)]
        /\ \A r \in Resources : r # Res(q) => NotRetained(q) \cap file[r] = {}
    BY <1>1 DEF NotRetained, Res, FilesOK, RowsApart
  <1>5. NotRetained(q) \cap NamesOf(Written(q)) = {}
    BY <1>1, <1>4 DEF FilesOK, FreshUnregistered, NamesOf, Fresh
  <1>6. /\ Written(q)' = {} /\ Half(q)' = {} /\ Fresh(q)' = {} /\ Phase(q)' # "validating"
        /\ \A p \in Requests : p # q => request'[p] = request[p]
    BY <1>1, RemovingFields
  <1> QED BY <1>1, <1>2, <1>3, <1>4, <1>5, <1>6, Committed

(* What an attempt at a deletion lists. *)
LEMMA Listed ==
    ASSUME TypeOK, FilesOK, NEW q \in Requests, Phase(q) = "validating",
           NEW listed, listed = UNION {WithFilesOf(q, Res(q))[t] : t \in Attempt}
    PROVE  /\ listed \subseteq ToRemove(q) \cup file[Res(q)]
           /\ \A r \in Resources : r # Res(q) => listed \cap file[r] = {}
  <1>1. \A t \in Attempt : WithFilesOf(q, Res(q))[t] \subseteq request[q].removing[t] \cup file[Res(q)]
    BY RequestFields DEF WithFilesOf
  <1>2. listed \subseteq ToRemove(q) \cup file[Res(q)]
    BY <1>1 DEF ToRemove
  <1>3. ASSUME NEW r \in Resources, r # Res(q) PROVE listed \cap file[r] = {}
    <2>1. ToRemove(q) \cap file[r] = {} /\ file[Res(q)] \cap file[r] = {}
      BY <1>3, RequestFields DEF FilesOK, ListedOfOne, RowsApart
    <2> QED BY <1>2, <2>1
  <1> QED BY <1>2, <1>3

LEMMA CommitDeleteKeeps ==
    ASSUME TypeOK, FilesOK, NEW q \in Requests, CommitDelete(q)
    PROVE  FilesOK'
  <1>1. /\ StartRemoving(q, WithFilesOf(q, Res(q))) /\ lastImage' = lastImage /\ disk' = disk
        /\ Phase(q) = "validating"
    BY DEF CommitDelete, Ready, Validating, Res, Phase
  <1>2. /\ file'[Res(q)] = {}
        /\ \A r \in Resources : r # Res(q) => file'[r] = file[r]
    BY RequestFields DEF CommitDelete, Res, TypeOK
  <1>3. ToRemove(q)' = UNION {WithFilesOf(q, Res(q))[t] : t \in Attempt}
    BY <1>1, RemovingFields
  <1>4. /\ ToRemove(q)' \subseteq ToRemove(q) \cup file[Res(q)]
        /\ \A r \in Resources : r # Res(q) => ToRemove(q)' \cap file[r] = {}
    BY <1>1, <1>3, Listed
  <1>5. /\ Written(q)' = {} /\ Half(q)' = {} /\ Fresh(q)' = {} /\ Phase(q)' # "validating"
        /\ \A p \in Requests : p # q => request'[p] = request[p]
    BY <1>1, RemovingFields
  <1> QED BY <1>1, <1>2, <1>4, <1>5, Committed

LEMMA AbortDeleteKeeps ==
    ASSUME TypeOK, FilesOK, NEW q \in Requests, AbortDelete(q)
    PROVE  FilesOK'
  <1>1. /\ Phase(q) = "validating" /\ Res(q) \in Resources
        /\ file' = file /\ disk' = disk /\ lastImage' = lastImage
        /\ request'[q] = [request[q] EXCEPT !.attempt = @ + 1, !.removing = WithFilesOf(q, Res(q))]
        /\ \A p \in Requests : p # q => request'[p] = request[p]
    BY BecomesFields, RequestFields DEF AbortDelete, Ready, Validating, Res, Phase
  <1>2. /\ Written(q)' = Written(q) /\ Half(q)' = Half(q)
        /\ Phase(q)' = Phase(q) /\ Res(q)' = Res(q)
        /\ ToRemove(q)' = UNION {WithFilesOf(q, Res(q))[t] : t \in Attempt}
    BY <1>1, RequestFields DEF Written, Half, Phase, Res, ToRemove, Request
  <1>3. \A p \in Requests :
            /\ Written(p)' = Written(p) /\ Half(p)' = Half(p) /\ Fresh(p)' = Fresh(p)
            /\ Phase(p)' = Phase(p) /\ Res(p)' = Res(p)
            /\ p # q => ToRemove(p)' = ToRemove(p)
    BY <1>1, <1>2, Others DEF Fresh
  <1>4. /\ ToRemove(q)' \subseteq ToRemove(q) \cup file[Res(q)]
        /\ \A r \in Resources : r # Res(q) => ToRemove(q)' \cap file[r] = {}
    BY <1>1, <1>2, Listed
  <1>5. WrittenOnDisk' /\ FreshUnregistered' /\ FreshApart' /\ RowsApart' /\ RowsOnDisk'
    BY <1>1, <1>3 DEF FilesOK, WrittenOnDisk, FreshUnregistered, FreshApart, RowsApart, RowsOnDisk
  <1>6. ListedNotFresh'
    BY <1>1, <1>3, <1>4 DEF FilesOK, ListedNotFresh, FreshUnregistered
  <1>7. ListedOfOne' /\ ListedAfterCommit'
    BY <1>1, <1>3, <1>4 DEF FilesOK, ListedOfOne, ListedAfterCommit
  <1>8. ImagesUsed'
    BY <1>1, <1>3, <1>4 DEF FilesOK, ImagesUsed
  <1> QED BY <1>5, <1>6, <1>7, <1>8 DEF FilesOK

LEMMA RemoveKeeps ==
    ASSUME TypeOK, FilesOK, NEW q \in Requests, Remove(q)
    PROVE  FilesOK'
  <1>1. PICK t \in Attempt, n \in disk :
            /\ n \in request[q].removing[t]
            /\ disk' = disk \ {n}
            /\ StartRemoving(q, [request[q].removing EXCEPT ![t] = @ \ {n}])
    BY DEF Remove
  <1>2. /\ n \in ToRemove(q) /\ Phase(q) # "validating"
        /\ file' = file /\ lastImage' = lastImage
    BY <1>1 DEF Remove, ToRemove, Phase
  <1>3. /\ ToRemove(q)' \subseteq ToRemove(q)
        /\ Written(q)' = {} /\ Half(q)' = {} /\ Fresh(q)' = {} /\ Phase(q)' # "validating"
        /\ \A p \in Requests : p # q => request'[p] = request[p]
    <2>1. \A s \in Attempt :
              [request[q].removing EXCEPT ![t] = @ \ {n}][s] \subseteq request[q].removing[s]
      BY RequestFields
    <2>2. ToRemove(q)' = UNION {[request[q].removing EXCEPT ![t] = @ \ {n}][s] : s \in Attempt}
      BY <1>1, RemovingFields
    <2> QED BY <1>1, <2>1, <2>2, RemovingFields DEF ToRemove
  <1>4. \A p \in Requests :
            /\ Written(p)' \subseteq Written(p) /\ Half(p)' \subseteq Half(p)
            /\ Fresh(p)' \subseteq Fresh(p) /\ ToRemove(p)' \subseteq ToRemove(p)
            /\ Phase(p)' = "validating" => Phase(p) = "validating" /\ Res(p)' = Res(p)
            /\ Phase(p)' # "validating" => Phase(p) # "validating"
    BY <1>2, <1>3, Others
  <1>5. \A p \in Requests : NamesOf(Fresh(p)') \subseteq NamesOf(Fresh(p))
    BY <1>4 DEF NamesOf
  <1>6. WrittenOnDisk'
    <2>1. \A p \in Requests : n \notin NamesOf(Fresh(p))
      BY <1>2 DEF FilesOK, ListedNotFresh
    <2>2. \A p \in Requests : n \notin NamesOf(Written(p)) /\ n \notin Half(p) \X {"image"}
      BY <2>1 DEF NamesOf, Fresh
    <2> QED BY <1>1, <1>4, <2>2 DEF FilesOK, WrittenOnDisk, NamesOf
  <1>7. FreshUnregistered' /\ FreshApart' /\ ListedNotFresh'
    BY <1>2, <1>4, <1>5 DEF FilesOK, FreshUnregistered, FreshApart, ListedNotFresh
  <1>8. ListedOfOne' /\ ListedAfterCommit' /\ RowsApart'
    BY <1>2, <1>4 DEF FilesOK, ListedOfOne, ListedAfterCommit, RowsApart
  <1>9. RowsOnDisk'
    BY <1>1, <1>2 DEF FilesOK, RowsOnDisk, ListedAfterCommit
  <1>10. ImagesUsed'
    BY <1>2, <1>4 DEF FilesOK, ImagesUsed
  <1> QED BY <1>6, <1>7, <1>8, <1>9, <1>10 DEF FilesOK

LEMMA FilesStep == TypeOK /\ FilesOK /\ [Next]_vars => FilesOK'
  <1> SUFFICES ASSUME TypeOK, FilesOK, [Next]_vars PROVE FilesOK'
    OBVIOUS
  <1>1. CASE UNCHANGED vars
    BY <1>1, Quiet DEF vars, Written, Half, ToRemove, Phase, Res
  <1>2. ASSUME NEW q \in Requests, Step(q) PROVE FilesOK'
    BY <1>2, StepsQuietly, WriteImageKeeps, WriteThumbKeeps, CommitCreateKeeps, CommitUpdateKeeps,
       AbortDeleteKeeps, CommitDeleteKeeps, RemoveKeeps DEF Step
  <1>3. CASE Submitted
    BY <1>3, SubmitKeeps
  <1>4. CASE Crash
    BY <1>4, CrashKeeps
  <1> QED BY <1>1, <1>2, <1>3, <1>4 DEF Next, Submitted

LEMMA Invariant == Spec => [](TypeOK /\ FilesOK)
  <1>1. Init => TypeOK /\ FilesOK
    BY TypeInit, FilesInit
  <1>2. TypeOK /\ FilesOK /\ [Next]_vars => (TypeOK /\ FilesOK)'
    BY TypeStep, FilesStep
  <1> QED BY <1>1, <1>2, PTL DEF Spec

-----------------------------------------------------------------------------
(* The table and the disk of user files have the shape updateFiles,        *)
(* addFiles and the removal of files rely on, for any number of requests.  *)
THEOREM FilesTyped == Spec => []TypeOK
  BY Invariant, PTL

(* Every registered file is on disk: no interleaving of creates, updates   *)
(* and deletes, failed transactions or crashes removes a file that a row   *)
(* still names (removeFiles, RemoveNewFiles), or registers a file that was *)
(* not written (addFiles).                                                 *)
THEOREM FilesKept == Spec => []RowsHaveFiles
  <1>1. FilesOK => RowsHaveFiles
    BY DEF FilesOK, RowsOnDisk, RowsHaveFiles, Registered
  <1> QED BY <1>1, Invariant, PTL

(* What a handler removes after its commit is registered nowhere, even if  *)
(* an earlier attempt at the transaction listed it (removeFiles).          *)
THEOREM RemovedUnregistered == Spec => []RemovingUnregistered
  <1>1. FilesOK => RemovingUnregistered
    BY DEF FilesOK, ListedAfterCommit, RemovingUnregistered, Registered, Phase
  <1> QED BY <1>1, Invariant, PTL

LEMMA PairsStep == TypeOK /\ PairsTogether /\ [Next]_vars => PairsTogether'
  <1> SUFFICES ASSUME TypeOK, PairsTogether, [Next]_vars PROVE PairsTogether'
    OBVIOUS
  <1>1. CASE file' = file
    BY <1>1 DEF PairsTogether
  <1>2. ASSUME NEW q \in Requests, CommitCreate(q) PROVE PairsTogether'
    BY <1>2, RequestFields DEF CommitCreate, PairsTogether, NamesOf, TypeOK, Res
  <1>3. ASSUME NEW q \in Requests, CommitUpdate(q) PROVE PairsTogether'
    BY <1>3, RequestFields DEF CommitUpdate, NotRetained, PairsTogether, NamesOf, TypeOK, Res
  <1>4. ASSUME NEW q \in Requests, CommitDelete(q) PROVE PairsTogether'
    BY <1>4, RequestFields DEF CommitDelete, PairsTogether, TypeOK, Res
  <1>5. ASSUME NEW q \in Requests, Step(q), ~ CommitCreate(q), ~ CommitUpdate(q), ~ CommitDelete(q)
        PROVE  file' = file
    BY <1>5 DEF Step, CheckRetained, WriteImage, WriteThumb, WriteFails, Rejected, AbortDelete,
                AnswerFeedback, Remove, RemoveFails
  <1>6. CASE Submitted
    BY <1>1, <1>6 DEF Submitted, Submit
  <1> QED BY <1>1, <1>2, <1>3, <1>4, <1>5, <1>6 DEF Next, Submitted, Crash, vars

(* An image and its thumbnail are registered together and dropped together *)
(* by every create, update and delete, in any interleaving.                *)
THEOREM PairsKept == Spec => []PairsTogether
  <1>1. Init => PairsTogether
    BY DEF Init, PairsTogether
  <1>2. (TypeOK /\ TypeOK') /\ PairsTogether /\ [Next]_vars => PairsTogether'
    BY PairsStep
  <1> QED BY <1>1, <1>2, FilesTyped, PTL DEF Spec

-----------------------------------------------------------------------------
(* Every file on disk is accounted for. *)

(* Only a request that validates its form has fresh images, one that       *)
(* deletes a resource has none, and an image is written once.              *)
RequestsSound ==
    \A q \in Requests :
        /\ Phase(q) # "validating" => Fresh(q) = {}
        /\ request[q].op = "delete" => Fresh(q) = {} /\ request[q].uploads = 0
        /\ Half(q) \cap Written(q) = {}

GoneHaveNoFiles == \A r \in Resources \ live : file[r] = {}

(* Nothing that was abandoned is registered, now or later. *)
AbandonedLost ==
    /\ \A r \in Resources : abandoned \cap file[r] = {}
    /\ \A q \in Requests : abandoned \cap NamesOf(Fresh(q)) = {}
    /\ \A n \in abandoned : n[1] <= lastImage

DiskAccounted ==
    \A n \in disk :
        \/ \E r \in Resources : n \in file[r]
        \/ n \in abandoned
        \/ \E q \in Requests : n \in Held(q)

LeaksOK == RequestsSound /\ GoneHaveNoFiles /\ AbandonedLost /\ DiskAccounted

AllOK == TypeOK /\ FilesOK /\ LeaksOK

LEMMA HeldBy ==
    ASSUME RequestsSound, NEW q \in Requests
    PROVE  /\ Phase(q) # "removing" => Held(q) = NamesOf(Fresh(q))
           /\ Phase(q) = "removing" => Held(q) = ToRemove(q)
           /\ Phase(q) \notin {"removing", "validating"} => Held(q) = {}
           /\ Half(q) # {} => Phase(q) = "validating"
  BY DEF RequestsSound, Held, NamesOf, Phase, Fresh, Written, Half

LEMMA HeldOthers ==
    ASSUME NEW p \in Requests, request'[p] = request[p]
    PROVE  Held(p)' = Held(p)
  BY DEF Held, ToRemove

(* After a step that starts to remove batches, these are what is held. *)
LEMMA RemovingHeld ==
    ASSUME TypeOK, NEW q \in Requests, NEW batches, StartRemoving(q, batches)
    PROVE  /\ Held(q)' = UNION {batches[t] : t \in Attempt}
           /\ request'[q].op # "delete"
           /\ Fresh(q)' = {}
           /\ \A p \in Requests : p # q => request'[p] = request[p]
  <1>1. CASE \A t \in Attempt : batches[t] = {}
    <2>1. request'[q] = Idle /\ \A p \in Requests : p # q => request'[p] = request[p]
      BY <1>1, BecomesFields DEF StartRemoving
    <2> QED BY <1>1, <2>1 DEF Idle, Held, NamesOf, Fresh, Written, Half
  <1>2. CASE ~ \A t \in Attempt : batches[t] = {}
    <2>1. /\ request'[q] = [Idle EXCEPT !.phase = "removing", !.removing = batches]
          /\ \A p \in Requests : p # q => request'[p] = request[p]
      BY <1>2, BecomesFields DEF StartRemoving
    <2> QED BY <2>1 DEF Idle, Held, ToRemove, Fresh, Written, Half
  <1> QED BY <1>1, <1>2

LEMMA RemovingHeldNames ==
    ASSUME TypeOK, NEW q \in Requests
    PROVE  /\ \A names : StartRemoving(q, OneBatch(names)) => Held(q)' = names
           /\ StartRemoving(q, Nothing) => Held(q)' = {}
  <1>1. ASSUME NEW names, StartRemoving(q, OneBatch(names)) PROVE Held(q)' = names
    <2>1. Held(q)' = UNION {OneBatch(names)[t] : t \in Attempt}
      BY <1>1, RemovingHeld
    <2> QED BY <2>1, Batches
  <1>2. ASSUME StartRemoving(q, Nothing) PROVE Held(q)' = {}
    <2>1. Held(q)' = UNION {Nothing[t] : t \in Attempt}
      BY <1>2, RemovingHeld
    <2> QED BY <2>1, Batches
  <1> QED BY <1>1, <1>2

(* A step of one request that shows in the rest of the state as follows    *)
(* keeps the account: what it no longer holds or has registered is gone,   *)
(* registered or abandoned, and it abandons only what was its own.         *)
LEMMA Accounted ==
    ASSUME AllOK, NEW q \in Requests,
           \A p \in Requests : p # q => request'[p] = request[p],
           Fresh(q)' = {} \/ Fresh(q)' \subseteq Fresh(q),
           Fresh(q)' # {} => Phase(q)' = "validating" /\ request'[q].op = request[q].op
                             /\ request[q].op # "delete",
           request'[q].op = "delete" => request'[q].uploads = 0,
           Half(q)' \cap Written(q)' = {},
           \A r \in Resources : file'[r] \subseteq file[r] \cup NamesOf(Fresh(q)),
           \A r \in Resources \ live' : file'[r] = {},
           lastImage' = lastImage,
           abandoned' \subseteq abandoned \cup NamesOf(Fresh(q)) \cup
                                (IF Phase(q) = "removing" THEN ToRemove(q) ELSE {}),
           \A r \in Resources : abandoned' \cap file'[r] = {},
           abandoned' \cap NamesOf(Fresh(q)') = {},
           \A n \in disk' : n \in disk \/ n \in Held(q)' \/ n \in abandoned',
           \A n \in disk' :
               n \in Held(q) \/ n \in abandoned \/ (\E r \in Resources : n \in file[r]) =>
                   n \in Held(q)' \/ n \in abandoned' \/ \E r \in Resources : n \in file'[r]
    PROVE  LeaksOK'
  <1>1. \A p \in Requests : p # q => /\ Fresh(p)' = Fresh(p) /\ Phase(p)' = Phase(p) /\ Held(p)' = Held(p)
                                     /\ request'[p].op = request[p].op
                                     /\ request'[p].uploads = request[p].uploads
                                     /\ Half(p)' = Half(p) /\ Written(p)' = Written(p)
    BY Others, HeldOthers
  <1>2. RequestsSound'
    BY <1>1 DEF AllOK, LeaksOK, RequestsSound
  <1>3. GoneHaveNoFiles'
    BY DEF GoneHaveNoFiles
  <1>4. AbandonedLost'
    <2>1. ASSUME NEW p \in Requests, p # q PROVE abandoned' \cap NamesOf(Fresh(p)') = {}
      <3>1. Fresh(p) \cap Fresh(q) = {} /\ ToRemove(q) \cap NamesOf(Fresh(p)) = {}
        BY <2>1 DEF AllOK, FilesOK, FreshApart, ListedNotFresh
      <3>2. NamesOf(Fresh(q)) \cap NamesOf(Fresh(p)) = {}
        BY <3>1 DEF NamesOf
      <3> QED BY <1>1, <2>1, <3>1, <3>2 DEF AllOK, LeaksOK, AbandonedLost
    <2>2. \A n \in abandoned' : n[1] <= lastImage
      BY DEF AllOK, LeaksOK, AbandonedLost, FilesOK, ImagesUsed, NamesOf
    <2> QED BY <2>1, <2>2 DEF AbandonedLost
  <1>5. DiskAccounted'
    BY <1>1 DEF AllOK, LeaksOK, DiskAccounted
  <1> QED BY <1>2, <1>3, <1>4, <1>5 DEF LeaksOK

(* A request that ends its validation or its removals without a commit. *)
LEMMA EndsAccounted ==
    ASSUME AllOK, NEW q \in Requests, NEW names,
           file' = file, live' = live, lastImage' = lastImage,
           \/ StartRemoving(q, OneBatch(names))
           \/ StartRemoving(q, Nothing) /\ names = {},
           abandoned' \subseteq abandoned \cup NamesOf(Fresh(q)) \cup
                                (IF Phase(q) = "removing" THEN ToRemove(q) ELSE {}),
           abandoned \subseteq abandoned',
           disk' \subseteq disk \cup abandoned',
           Held(q) \cap disk' \subseteq names \cup abandoned'
    PROVE  LeaksOK'
  <1>1. /\ Held(q)' = names
        /\ request'[q].op # "delete" /\ Fresh(q)' = {}
        /\ \A p \in Requests : p # q => request'[p] = request[p]
    BY RemovingHeld, RemovingHeldNames DEF AllOK
  <1>2. Half(q)' \cap Written(q)' = {} /\ NamesOf(Fresh(q)') = {}
    BY <1>1 DEF Fresh, NamesOf
  <1>3. \A r \in Resources : abandoned' \cap file[r] = {}
    BY DEF AllOK, LeaksOK, AbandonedLost, FilesOK, FreshUnregistered, ListedAfterCommit
  <1>4. \A r \in Resources \ live : file[r] = {}
    BY DEF AllOK, LeaksOK, GoneHaveNoFiles
  <1> QED BY <1>1, <1>2, <1>3, <1>4, Accounted

LEMMA CheckRetainedAccounted ==
    ASSUME AllOK, NEW q \in Requests, NEW i, CheckRetained(q, i)
    PROVE  LeaksOK'
  <1>1. /\ file' = file /\ live' = live /\ lastImage' = lastImage
        /\ disk' = disk /\ abandoned' = abandoned
        /\ Half(q) = {} /\ Phase(q) = "validating"
    BY DEF CheckRetained, Validating, Half, Phase
  <1>2. CASE <<i, "image">> \in disk
    <2>1. /\ request'[q] = [request[q] EXCEPT !.unchecked = @ \ {i}]
          /\ \A p \in Requests : p # q => request'[p] = request[p]
      BY <1>2, BecomesFields DEF CheckRetained, AllOK
    <2>2. /\ Written(q)' = Written(q) /\ Half(q)' = Half(q) /\ Fresh(q)' = Fresh(q)
          /\ Phase(q)' = Phase(q) /\ Held(q)' = Held(q)
          /\ request'[q].op = request[q].op /\ request'[q].uploads = request[q].uploads
      BY <2>1, RequestFields DEF AllOK, Written, Half, Fresh, Phase, Held, ToRemove, Request
    <2>3. /\ \A r \in Resources : abandoned \cap file[r] = {}
          /\ abandoned \cap NamesOf(Fresh(q)) = {}
          /\ \A r \in Resources \ live : file[r] = {}
          /\ request[q].op = "delete" => Fresh(q) = {} /\ request[q].uploads = 0
          /\ Half(q) \cap Written(q) = {}
      BY DEF AllOK, LeaksOK, AbandonedLost, GoneHaveNoFiles, RequestsSound
    <2> QED BY <1>1, <2>1, <2>2, <2>3, Accounted
  <1>3. CASE <<i, "image">> \notin disk
    <2>1. StartRemoving(q, OneBatch(NamesOf(Written(q))))
      BY <1>3 DEF CheckRetained, Written
    <2>2. Held(q) = NamesOf(Written(q))
      BY <1>1, HeldBy DEF AllOK, LeaksOK, Fresh
    <2> QED BY <1>1, <2>1, <2>2, EndsAccounted
  <1> QED BY <1>2, <1>3

LEMMA RejectedAccounted ==
    ASSUME AllOK, NEW q \in Requests, Rejected(q)
    PROVE  LeaksOK'
  <1>1. /\ file' = file /\ live' = live /\ lastImage' = lastImage
        /\ disk' = disk /\ abandoned' = abandoned
        /\ Half(q) = {} /\ Phase(q) = "validating"
        /\ StartRemoving(q, OneBatch(NamesOf(Written(q))))
    BY DEF Rejected, Validating, Half, Phase, Written
  <1>2. Held(q) = NamesOf(Written(q))
    BY <1>1, HeldBy DEF AllOK, LeaksOK, Fresh
  <1> QED BY <1>1, <1>2, EndsAccounted

LEMMA AnswerFeedbackAccounted ==
    ASSUME AllOK, NEW q \in Requests, AnswerFeedback(q)
    PROVE  LeaksOK'
  <1>1. /\ file' = file /\ live' = live /\ lastImage' = lastImage /\ disk' = disk
        /\ abandoned' = abandoned \cup NamesOf(Written(q))
        /\ Half(q) = {} /\ Phase(q) = "validating"
        /\ StartRemoving(q, Nothing)
    BY DEF AnswerFeedback, Ready, Validating, Half, Phase, Written
  <1>2. Held(q) = NamesOf(Written(q)) /\ Fresh(q) = Written(q)
    BY <1>1, HeldBy DEF AllOK, LeaksOK, Fresh
  <1> QED BY <1>1, <1>2, EndsAccounted

LEMMA RemoveFailsAccounted ==
    ASSUME AllOK, NEW q \in Requests, RemoveFails(q)
    PROVE  LeaksOK'
  <1>1. /\ file' = file /\ live' = live /\ lastImage' = lastImage /\ disk' = disk
        /\ abandoned' = abandoned \cup (ToRemove(q) \cap disk)
        /\ Phase(q) = "removing"
        /\ StartRemoving(q, Nothing)
    BY DEF RemoveFails, Phase
  <1>2. Held(q) = ToRemove(q)
    BY <1>1 DEF Held, Phase
  <1> QED BY <1>1, <1>2, EndsAccounted

LEMMA WriteFailsAccounted ==
    ASSUME AllOK, NEW q \in Requests, WriteFails(q)
    PROVE  LeaksOK'
  <1>1. /\ file' = file /\ live' = live /\ lastImage' = lastImage
        /\ disk \subseteq disk' /\ disk' \subseteq disk \cup NamesOf(Half(q))
        /\ abandoned' = abandoned \cup (disk' \cap NamesOf(Half(q)))
        /\ Half(q) # {}
    BY DEF WriteFails, Half, NamesOf
  <1>2. /\ Phase(q) = "validating" /\ request[q].op # "delete"
        /\ Half(q) \cap Written(q) = {}
    BY <1>1, HeldBy DEF AllOK, LeaksOK, RequestsSound, Fresh
  <1>3. /\ Held(q) = NamesOf(Written(q)) \cup NamesOf(Half(q))
        /\ NamesOf(Fresh(q)) = NamesOf(Written(q)) \cup NamesOf(Half(q))
        /\ NamesOf(Written(q)) \cap NamesOf(Half(q)) = {}
    BY <1>2, HeldBy DEF AllOK, LeaksOK, Fresh, NamesOf
  <1>4. CASE Becomes(q, [request[q] EXCEPT !.half = {}])
    <2>1. /\ request'[q] = [request[q] EXCEPT !.half = {}]
          /\ \A p \in Requests : p # q => request'[p] = request[p]
      BY <1>4, BecomesFields DEF AllOK
    <2>2. /\ Written(q)' = Written(q) /\ Half(q)' = {} /\ Fresh(q)' = Written(q)
          /\ Phase(q)' = Phase(q) /\ request'[q].op = request[q].op
      BY <2>1, RequestFields DEF AllOK, Written, Half, Fresh, Phase, Request
    <2>3. Held(q)' = NamesOf(Written(q))
      BY <1>2, <2>2 DEF Held, Phase, Written, Half
    <2>4. /\ \A r \in Resources : abandoned' \cap file[r] = {}
          /\ abandoned' \cap NamesOf(Written(q)) = {}
          /\ \A r \in Resources \ live : file[r] = {}
      BY <1>1, <1>3 DEF AllOK, LeaksOK, AbandonedLost, GoneHaveNoFiles, FilesOK, FreshUnregistered
    <2>5. Fresh(q)' \subseteq Fresh(q)
      BY <2>2 DEF Fresh
    <2> QED BY <1>1, <1>2, <1>3, <2>1, <2>2, <2>3, <2>4, <2>5, Accounted
  <1>5. CASE StartRemoving(q, OneBatch(NamesOf(request[q].written)))
    <2>1. StartRemoving(q, OneBatch(NamesOf(Written(q))))
      BY <1>5 DEF Written
    <2> QED BY <1>1, <1>3, <2>1, EndsAccounted
  <1> QED BY <1>4, <1>5 DEF WriteFails

LEMMA WriteThumbAccounted ==
    ASSUME AllOK, NEW q \in Requests, WriteThumb(q)
    PROVE  LeaksOK'
  <1>1. /\ file' = file /\ live' = live /\ lastImage' = lastImage /\ abandoned' = abandoned
        /\ disk' \subseteq disk \cup NamesOf(Half(q))
        /\ Half(q) # {}
    BY DEF WriteThumb, Half, NamesOf
  <1>2. Phase(q) = "validating" /\ request[q].op # "delete"
    BY <1>1, HeldBy DEF AllOK, LeaksOK, RequestsSound, Fresh
  <1>3. /\ request'[q] = [request[q] EXCEPT !.half = {}, !.written = @ \cup request[q].half]
        /\ \A p \in Requests : p # q => request'[p] = request[p]
    BY BecomesFields DEF WriteThumb, AllOK
  <1>4. /\ Written(q)' = Fresh(q) /\ Half(q)' = {} /\ Fresh(q)' = Fresh(q)
        /\ Phase(q)' = Phase(q) /\ request'[q].op = request[q].op
    BY <1>3, RequestFields DEF AllOK, Written, Half, Fresh, Phase, Request
  <1>5. Held(q)' = Held(q) /\ NamesOf(Half(q)) \subseteq Held(q)
    BY <1>2, <1>4 DEF Held, Phase, Written, Half, Fresh, NamesOf
  <1>6. /\ \A r \in Resources : abandoned \cap file[r] = {}
        /\ abandoned \cap NamesOf(Fresh(q)) = {}
        /\ \A r \in Resources \ live : file[r] = {}
    BY DEF AllOK, LeaksOK, AbandonedLost, GoneHaveNoFiles
  <1>7. Half(q)' \cap Written(q)' = {} /\ abandoned' \cap NamesOf(Fresh(q)') = {}
    BY <1>1, <1>4, <1>6
  <1>8. \A n \in disk' : n \in disk \/ n \in Held(q)'
    BY <1>1, <1>5
  <1> QED BY <1>1, <1>2, <1>3, <1>4, <1>5, <1>6, <1>7, <1>8, Accounted

LEMMA AbortDeleteAccounted ==
    ASSUME AllOK, NEW q \in Requests, AbortDelete(q)
    PROVE  LeaksOK'
  <1>1. /\ Phase(q) = "validating" /\ request[q].op = "delete"
        /\ file' = file /\ disk' = disk /\ lastImage' = lastImage
        /\ live' = live /\ abandoned' = abandoned
        /\ request'[q] = [request[q] EXCEPT !.attempt = @ + 1, !.removing = WithFilesOf(q, Res(q))]
        /\ \A p \in Requests : p # q => request'[p] = request[p]
    BY BecomesFields, RequestFields DEF AbortDelete, Ready, Validating, Res, Phase, AllOK
  <1>2. Fresh(q) = {} /\ request[q].uploads = 0
    BY <1>1 DEF AllOK, LeaksOK, RequestsSound
  <1>3. /\ Fresh(q)' = {} /\ Half(q)' = {} /\ Phase(q)' = Phase(q)
        /\ request'[q].uploads = request[q].uploads
    BY <1>1, <1>2, RequestFields DEF AllOK, Written, Half, Fresh, Phase, Request
  <1>4. Held(q)' = {} /\ Held(q) = {} /\ NamesOf(Fresh(q)') = {}
    BY <1>1, <1>2, <1>3 DEF Held, Phase, Written, Half, Fresh, NamesOf
  <1>5. /\ \A r \in Resources : abandoned \cap file[r] = {}
        /\ \A r \in Resources \ live : file[r] = {}
    BY DEF AllOK, LeaksOK, AbandonedLost, GoneHaveNoFiles
  <1> QED BY <1>1, <1>2, <1>3, <1>4, <1>5, Accounted

LEMMA RemoveAccounted ==
    ASSUME AllOK, NEW q \in Requests, Remove(q)
    PROVE  LeaksOK'
  <1>1. PICK t \in Attempt, n \in disk :
            /\ n \in request[q].removing[t]
            /\ disk' = disk \ {n}
            /\ StartRemoving(q, [request[q].removing EXCEPT ![t] = @ \ {n}])
    BY DEF Remove
  <1>2. /\ file' = file /\ lastImage' = lastImage /\ live' = live /\ abandoned' = abandoned
        /\ Phase(q) = "removing" /\ Held(q) = ToRemove(q)
    BY DEF Remove, Held, Phase
  <1> DEFINE batches == [request[q].removing EXCEPT ![t] = @ \ {n}]
  <1>3. /\ Held(q)' = UNION {batches[s] : s \in Attempt}
        /\ request'[q].op # "delete" /\ Fresh(q)' = {}
        /\ \A p \in Requests : p # q => request'[p] = request[p]
    BY <1>1, RemovingHeld DEF AllOK
  <1>4. ToRemove(q) \subseteq Held(q)' \cup {n}
    <2>1. \A s \in Attempt : request[q].removing[s] \subseteq batches[s] \cup {n}
      BY RequestFields DEF AllOK
    <2> QED BY <1>3, <2>1 DEF ToRemove
  <1>5. Half(q)' \cap Written(q)' = {} /\ NamesOf(Fresh(q)') = {}
    BY <1>3 DEF Fresh, NamesOf
  <1>6. /\ \A r \in Resources : abandoned \cap file[r] = {}
        /\ \A r \in Resources \ live : file[r] = {}
    BY DEF AllOK, LeaksOK, AbandonedLost, GoneHaveNoFiles
  <1> QED BY <1>1, <1>2, <1>3, <1>4, <1>5, <1>6, Accounted

(* A commit: the fresh images of the request become rows, and what no row  *)
(* names any more is on the list of what to remove.                        *)
LEMMA CommitAccounted ==
    ASSUME AllOK, NEW q \in Requests, NEW batches, StartRemoving(q, batches),
           Phase(q) = "validating", Half(q) = {},
           NEW names, names = UNION {batches[t] : t \in Attempt},
           \A r \in Resources : file'[r] \subseteq file[r] \cup NamesOf(Written(q)),
           \A r \in Resources : file[r] \subseteq file'[r] \cup names,
           Written(q) # {} => NamesOf(Written(q)) \subseteq file'[Res(q)],
           \A r \in Resources \ live' : file'[r] = {},
           lastImage' = lastImage, disk' = disk, abandoned' = abandoned
    PROVE  LeaksOK'
  <1>1. /\ Held(q)' = names
        /\ request'[q].op # "delete" /\ Fresh(q)' = {}
        /\ \A p \in Requests : p # q => request'[p] = request[p]
    BY RemovingHeld DEF AllOK
  <1>2. Half(q)' \cap Written(q)' = {} /\ NamesOf(Fresh(q)') = {}
    BY <1>1 DEF Fresh, NamesOf
  <1>3. Fresh(q) = Written(q) /\ Held(q) = NamesOf(Written(q))
    BY HeldBy DEF AllOK, LeaksOK, Fresh
  <1>4. \A r \in Resources : abandoned \cap file'[r] = {}
    BY <1>3 DEF AllOK, LeaksOK, AbandonedLost
  <1>5. Res(q) \in Resources /\ NamesOf({}) = {}
    BY RequestFields DEF AllOK, NamesOf
  <1>6. \A n \in Held(q) : \E r \in Resources : n \in file'[r]
    BY <1>3, <1>5
  <1> QED BY <1>1, <1>2, <1>3, <1>4, <1>6, Accounted

LEMMA CommitCreateAccounted ==
    ASSUME AllOK, NEW q \in Requests, CommitCreate(q)
    PROVE  LeaksOK'
  <1>1. /\ StartRemoving(q, Nothing)
        /\ lastImage' = lastImage /\ disk' = disk /\ abandoned' = abandoned
        /\ Phase(q) = "validating" /\ Half(q) = {}
        /\ Res(q) \in Resources /\ Res(q) \notin live /\ live' = live \cup {Res(q)}
    BY RequestFields DEF CommitCreate, Ready, Validating, Half, Phase, Res, AllOK
  <1>2. /\ file'[Res(q)] = NamesOf(Written(q))
        /\ \A r \in Resources : r # Res(q) => file'[r] = file[r]
    BY <1>1 DEF CommitCreate, Res, Written, TypeOK, AllOK
  <1>3. \A r \in Resources \ live : file[r] = {}
    BY DEF AllOK, LeaksOK, GoneHaveNoFiles
  <1>4. UNION {Nothing[t] : t \in Attempt} = {}
    BY Batches
  <1> QED BY <1>1, <1>2, <1>3, <1>4, CommitAccounted

LEMMA CommitUpdateAccounted ==
    ASSUME AllOK, NEW q \in Requests, CommitUpdate(q)
    PROVE  LeaksOK'
  <1>1. /\ StartRemoving(q, OneBatch(NotRetained(q)))
        /\ lastImage' = lastImage /\ disk' = disk /\ abandoned' = abandoned
        /\ Phase(q) = "validating" /\ Half(q) = {}
        /\ Res(q) \in Resources /\ Res(q) \in live /\ live' = live
    BY RequestFields DEF CommitUpdate, Ready, Validating, Half, Phase, Res, AllOK
  <1>2. /\ file'[Res(q)] = (file[Res(q)] \ NotRetained(q)) \cup NamesOf(Written(q))
        /\ \A r \in Resources : r # Res(q) => file'[r] = file[r]
    BY <1>1 DEF CommitUpdate, Res, Written, TypeOK, AllOK
  <1>3. \A r \in Resources \ live : file[r] = {}
    BY DEF AllOK, LeaksOK, GoneHaveNoFiles
  <1>4. UNION {OneBatch(NotRetained(q))[t] : t \in Attempt} = NotRetained(q)
    BY Batches
  <1> QED BY <1>1, <1>2, <1>3, <1>4, CommitAccounted

LEMMA CommitDeleteAccounted ==
    ASSUME AllOK, NEW q \in Requests, CommitDelete(q)
    PROVE  LeaksOK'
  <1>1. /\ StartRemoving(q, WithFilesOf(q, Res(q)))
        /\ lastImage' = lastImage /\ disk' = disk /\ abandoned' = abandoned
        /\ Phase(q) = "validating" /\ Half(q) = {} /\ request[q].op = "delete"
        /\ Res(q) \in Resources /\ live' = live \ {Res(q)}
    BY RequestFields DEF CommitDelete, Ready, Validating, Half, Phase, Res, AllOK
  <1>2. /\ file'[Res(q)] = {}
        /\ \A r \in Resources : r # Res(q) => file'[r] = file[r]
    BY <1>1 DEF CommitDelete, Res, TypeOK, AllOK
  <1>3. Written(q) = {}
    BY <1>1 DEF AllOK, LeaksOK, RequestsSound, Fresh
  <1>4. \A r \in Resources \ live : file[r] = {}
    BY DEF AllOK, LeaksOK, GoneHaveNoFiles
  <1> DEFINE batches == WithFilesOf(q, Res(q))
             names == UNION {batches[t] : t \in Attempt}
  <1>5. file[Res(q)] \subseteq names
    <2>1. request[q].attempt \in Attempt /\ batches[request[q].attempt] = file[Res(q)]
      BY RequestFields DEF AllOK, WithFilesOf
    <2> QED BY <2>1
  <1> HIDE DEF batches, names
  <1>6. names = UNION {batches[t] : t \in Attempt}
    BY DEF names
  <1>7. StartRemoving(q, batches)
    BY <1>1 DEF batches
  <1> QED BY <1>1, <1>2, <1>3, <1>4, <1>5, <1>6, <1>7, CommitAccounted

LEMMA WriteImageAccounted ==
    ASSUME AllOK, NEW q \in Requests, WriteImage(q)
    PROVE  LeaksOK'
  <1> DEFINE new == lastImage + 1
  <1>1. /\ lastImage \in Nat /\ lastImage' = new /\ new \in Nat
        /\ \A i \in Nat : i <= lastImage => i <= new /\ i # new
    BY BoundsAssumption DEF WriteImage, AllOK, TypeOK
  <1>2. /\ file' = file /\ live' = live /\ abandoned' = abandoned
        /\ disk' = disk \cup {<<new, "image">>}
        /\ Half(q) = {} /\ Phase(q) = "validating" /\ request[q].uploads > 0
    BY DEF WriteImage, Validating, Half, Phase
  <1>3. /\ request'[q] = [request[q] EXCEPT !.uploads = @ - 1, !.half = {new}]
        /\ \A p \in Requests : p # q => request'[p] = request[p]
    BY BecomesFields DEF WriteImage, AllOK
  <1>4. /\ Written(q)' = Written(q) /\ Half(q)' = {new} /\ Fresh(q)' = Fresh(q) \cup {new}
        /\ Phase(q)' = "validating" /\ request'[q].op = request[q].op
    BY <1>2, <1>3, RequestFields DEF AllOK, Written, Half, Fresh, Phase, Request
  <1>5. request[q].op # "delete"
    BY <1>2, RequestFields DEF AllOK, LeaksOK, RequestsSound
  <1>6. new \notin Written(q)
    BY <1>1 DEF AllOK, FilesOK, ImagesUsed, Fresh
  <1>7. /\ Held(q) = NamesOf(Fresh(q)) /\ Held(q)' = NamesOf(Fresh(q)')
        /\ NamesOf(Fresh(q)') = NamesOf(Fresh(q)) \cup NamesOf({new})
    BY <1>2, <1>4 DEF Held, Phase, Written, Half, Fresh, NamesOf
  <1>8. \A p \in Requests : p # q => /\ Fresh(p)' = Fresh(p) /\ Phase(p)' = Phase(p) /\ Held(p)' = Held(p)
                                     /\ Half(p)' = Half(p) /\ Written(p)' = Written(p)
                                     /\ request'[p].op = request[p].op
                                     /\ request'[p].uploads = request[p].uploads
    BY <1>3, Others, HeldOthers
  <1>9. RequestsSound'
    BY <1>4, <1>5, <1>6, <1>8 DEF AllOK, LeaksOK, RequestsSound
  <1>10. GoneHaveNoFiles'
    BY <1>2 DEF AllOK, LeaksOK, GoneHaveNoFiles
  <1>11. AbandonedLost'
    <2>1. \A n \in abandoned : n[1] \in Nat
      BY DEF AllOK, TypeOK, Name, Image
    <2>2. \A n \in abandoned : n[1] <= new /\ n[1] # new
      BY <1>1, <2>1 DEF AllOK, LeaksOK, AbandonedLost
    <2>3. abandoned \cap NamesOf({new}) = {}
      BY <2>2 DEF NamesOf
    <2>4. \A p \in Requests : abandoned \cap NamesOf(Fresh(p)') = {}
      BY <1>7, <1>8, <2>3 DEF AllOK, LeaksOK, AbandonedLost
    <2> QED BY <1>1, <1>2, <2>2, <2>4 DEF AllOK, LeaksOK, AbandonedLost
  <1>12. DiskAccounted'
    <2>1. <<new, "image">> \in Held(q)'
      BY <1>7 DEF NamesOf
    <2>2. \A p \in Requests : Held(p) \subseteq Held(p)'
      BY <1>7, <1>8
    <2> QED BY <1>2, <2>1, <2>2 DEF AllOK, LeaksOK, DiskAccounted
  <1> QED BY <1>9, <1>10, <1>11, <1>12 DEF LeaksOK

LEMMA SubmitAccounted ==
    ASSUME AllOK, Submitted
    PROVE  LeaksOK'
  <1>0. PICK q \in Requests, op \in {"create", "update", "delete"}, r \in Resources,
             n \in 0..MaxUploads : \E retain \in SUBSET pages[r] : Submit(q, op, r, retain, n)
    BY DEF Submitted
  <1>1. PICK retain \in SUBSET pages[r] : Submit(q, op, r, retain, n)
    BY <1>0
  <1>2. /\ request'[q] = [Idle EXCEPT !.phase = "validating", !.op = op, !.res = r, !.retain = retain,
                                      !.unchecked = retain, !.uploads = n]
        /\ \A p \in Requests : p # q => request'[p] = request[p]
    BY <1>1, BecomesFields DEF Submit, AllOK
  <1>3. /\ Fresh(q)' = {} /\ Half(q)' = {} /\ NamesOf(Fresh(q)') = {}
        /\ request'[q].op = "delete" => request'[q].uploads = 0
    BY <1>1, <1>2 DEF Submit, Idle, Written, Half, Fresh, NamesOf
  <1>4. /\ file' = file /\ live' = live /\ lastImage' = lastImage
        /\ disk' = disk /\ abandoned' = abandoned /\ Phase(q) = "idle"
    BY <1>1 DEF Submit, Phase
  <1>5. Held(q) = {}
    BY <1>4, HeldBy DEF AllOK, LeaksOK
  <1>6. /\ \A s \in Resources : abandoned \cap file[s] = {}
        /\ \A s \in Resources \ live : file[s] = {}
    BY DEF AllOK, LeaksOK, AbandonedLost, GoneHaveNoFiles
  <1> QED BY <1>2, <1>3, <1>4, <1>5, <1>6, Accounted

LEMMA CrashAccounted ==
    ASSUME AllOK, Crash
    PROVE  LeaksOK'
  <1>1. /\ file' = file /\ live' = live /\ lastImage' = lastImage /\ disk' = disk
        /\ abandoned' = abandoned \cup
               ((disk \ Registered) \cap UNION {Held(q) : q \in Requests})
    BY DEF Crash
  <1>2. \A q \in Requests : /\ Fresh(q)' = {} /\ Half(q)' = {} /\ Written(q)' = {}
                            /\ request'[q].op # "delete"
    BY DEF Crash, Idle, Fresh, Written, Half
  <1>3. RequestsSound'
    BY <1>2 DEF RequestsSound
  <1>4. GoneHaveNoFiles'
    BY <1>1 DEF AllOK, LeaksOK, GoneHaveNoFiles
  <1>5. AbandonedLost'
    <2>1. \A r \in Resources : abandoned' \cap file[r] = {}
      BY <1>1 DEF AllOK, LeaksOK, AbandonedLost, Registered
    <2>2. \A q \in Requests : abandoned' \cap NamesOf(Fresh(q)') = {}
      BY <1>2 DEF NamesOf
    <2>3. ASSUME NEW q \in Requests PROVE \A n \in Held(q) : n[1] <= lastImage
      <3>1. \A n \in NamesOf(Fresh(q)) : n[1] <= lastImage
        BY DEF AllOK, FilesOK, ImagesUsed, NamesOf
      <3> QED BY <3>1 DEF AllOK, FilesOK, ImagesUsed, Held, Fresh, Written, Half
    <2> QED BY <1>1, <2>1, <2>2, <2>3 DEF AllOK, LeaksOK, AbandonedLost
  <1>6. DiskAccounted'
    BY <1>1 DEF AllOK, LeaksOK, DiskAccounted, Registered
  <1> QED BY <1>3, <1>4, <1>5, <1>6 DEF LeaksOK

LEMMA LeaksStep == AllOK /\ [Next]_vars => LeaksOK'
  <1> SUFFICES ASSUME AllOK, [Next]_vars PROVE LeaksOK'
    OBVIOUS
  <1>1. CASE UNCHANGED vars
    <2>1. \A q \in Requests : /\ Fresh(q)' = Fresh(q) /\ Phase(q)' = Phase(q) /\ Held(q)' = Held(q)
                              /\ Half(q)' = Half(q) /\ Written(q)' = Written(q)
      BY <1>1, Others, HeldOthers DEF vars
    <2> QED BY <1>1, <2>1 DEF vars, AllOK, LeaksOK, RequestsSound, GoneHaveNoFiles, AbandonedLost,
                DiskAccounted
  <1>2. ASSUME NEW q \in Requests, Step(q) PROVE LeaksOK'
    BY <1>2, CheckRetainedAccounted, WriteImageAccounted, WriteThumbAccounted, WriteFailsAccounted,
       RejectedAccounted, CommitCreateAccounted, CommitUpdateAccounted, AbortDeleteAccounted,
       CommitDeleteAccounted, AnswerFeedbackAccounted, RemoveAccounted, RemoveFailsAccounted
    DEF Step
  <1>3. CASE Submitted
    BY <1>3, SubmitAccounted
  <1>4. CASE Crash
    BY <1>4, CrashAccounted
  <1> QED BY <1>1, <1>2, <1>3, <1>4 DEF Next, Submitted

LEMMA LeaksInit == Init => LeaksOK
  <1> SUFFICES ASSUME Init PROVE LeaksOK
    OBVIOUS
  <1>1. \A q \in Requests : /\ Fresh(q) = {} /\ Half(q) = {} /\ Written(q) = {}
                            /\ request[q].op # "delete"
    BY DEF Init, Idle, Fresh, Written, Half
  <1> QED BY <1>1 DEF Init, LeaksOK, RequestsSound, GoneHaveNoFiles, AbandonedLost, DiskAccounted

(* Nothing is left on disk that the code does not know of, except by the   *)
(* steps that are named: a failed write, a failed removal, feedback of the *)
(* service, and a crash; and what they leave is never registered later     *)
(* (validateFile, removeFiles, RemoveNewFiles, create.go and update.go).   *)
THEOREM LeaksKnown == Spec => []LeaksAccounted
  <1>1. Init => AllOK
    BY TypeInit, FilesInit, LeaksInit DEF AllOK
  <1>2. AllOK /\ [Next]_vars => AllOK'
    BY TypeStep, FilesStep, LeaksStep DEF AllOK
  <1>3. AllOK => LeaksAccounted
    <2> SUFFICES ASSUME AllOK PROVE LeaksAccounted
      OBVIOUS
    <2>1. disk \subseteq Registered \cup abandoned \cup UNION {Held(q) : q \in Requests}
      BY DEF AllOK, LeaksOK, DiskAccounted, Registered
    <2>2. abandoned \cap Registered = {}
      BY DEF AllOK, LeaksOK, AbandonedLost, Registered
    <2> QED BY <2>1, <2>2 DEF LeaksAccounted
  <1> QED BY <1>1, <1>2, <1>3, PTL DEF Spec

=============================================================================
