--------------------------- MODULE ThreadsProofs ---------------------------
(***************************************************************************)
(* Proofs about module Threads, for any personas, posts, requests, lengths *)
(* of the log and numbers of attempts: the numbers of posts, the trees of  *)
(* further attempts, what locks and edits leave of the rows, that a request*)
(* comes nearer to its answer, and that module Forum is implemented.       *)
(***************************************************************************)
EXTENDS Threads, FiniteSetTheorems, TLAPS

-----------------------------------------------------------------------------
(* Sequences and trees. *)

LEMMA Listing ==
    ASSUME NEW S, NEW n \in Nat, NEW f \in [1..n -> S]
    PROVE  f \in Seq(S) /\ Len(f) = n /\ DOMAIN f = 1..n
  OBVIOUS

LEMMA Appended ==
    ASSUME NEW S, NEW s \in Seq(S), NEW e \in S
    PROVE  /\ Append(s, e) \in Seq(S)
           /\ Len(s) \in Nat /\ Len(Append(s, e)) = Len(s) + 1
           /\ DOMAIN s = 1..Len(s) /\ DOMAIN Append(s, e) = DOMAIN s \cup {Len(s) + 1}
           /\ Len(s) + 1 \notin DOMAIN s
           /\ Append(s, e)[Len(s) + 1] = e
           /\ \A i \in DOMAIN s : Append(s, e)[i] = s[i]
  OBVIOUS

HasColumn(tree, c) == \E i \in DOMAIN tree.columns : tree.columns[i] = c
Has(tree, c, v) == \E i \in DOMAIN tree.columns : tree.columns[i] = c /\ tree.values[i] = v

(* No column stands twice, and none is without a value. *)
TreeFits(tree) ==
    /\ tree \in Tree
    /\ Len(tree.columns) <= Len(tree.values)
    /\ \A i, j \in DOMAIN tree.columns : tree.columns[i] = tree.columns[j] => i = j

Even(tree) == Len(tree.columns) = Len(tree.values)

LEMMA TreeFields ==
    ASSUME NEW tree \in Tree
    PROVE  /\ tree.columns \in Seq(Columns) /\ tree.values \in Seq(Nat)
           /\ DOMAIN tree.columns = 1..Len(tree.columns) /\ Len(tree.columns) \in Nat
           /\ DOMAIN tree.values = 1..Len(tree.values) /\ Len(tree.values) \in Nat
           /\ \A i \in DOMAIN tree.columns : tree.columns[i] \in Columns
           /\ \A i \in DOMAIN tree.values : tree.values[i] \in Nat
  BY DEF Tree

LEMMA AssignHas ==
    ASSUME NEW tree, TreeFits(tree), NEW row, NEW c \in Columns, NEW v, Has(tree, c, v)
    PROVE  Assign(row, tree)[c] = v
  <1>1. PICK i \in DOMAIN tree.columns : tree.columns[i] = c /\ tree.values[i] = v
    BY DEF Has
  <1>2. (CHOOSE k \in DOMAIN tree.columns : tree.columns[k] = c) = i
    BY <1>1 DEF TreeFits
  <1>3. Contains(tree.columns, c)
    BY <1>1, TreeFields DEF Contains, TreeFits
  <1> QED BY <1>1, <1>2, <1>3 DEF Assign

LEMMA AssignNot ==
    ASSUME NEW tree, TreeFits(tree), NEW row, NEW c \in Columns, ~ HasColumn(tree, c)
    PROVE  Assign(row, tree)[c] = row[c]
  <1>1. ~ Contains(tree.columns, c)
    BY TreeFields DEF Contains, TreeFits, HasColumn
  <1> QED BY <1>1 DEF Assign

LEMMA SafeAddFits ==
    ASSUME NEW tree, TreeFits(tree), NEW c \in Columns, NEW v \in Nat
    PROVE  /\ TreeFits(SafeAdd(tree, c, v))
           /\ Even(tree) => Even(SafeAdd(tree, c, v)) /\ Has(SafeAdd(tree, c, v), c, v)
           /\ \A d : d # c => /\ \A w : Has(tree, d, w) => Has(SafeAdd(tree, c, v), d, w)
                              /\ HasColumn(SafeAdd(tree, c, v), d) <=> HasColumn(tree, d)
  <1> DEFINE new == SafeAdd(tree, c, v)
  <1>0. tree \in Tree
    BY DEF TreeFits
  <1>1. CASE Contains(tree.columns, c)
    <2>1. PICK k \in DOMAIN tree.columns : tree.columns[k] = c
      BY <1>1, <1>0, TreeFields DEF Contains
    <2>2. /\ new.columns = tree.columns
          /\ new.values = [i \in DOMAIN tree.values |->
                              IF i \in DOMAIN tree.columns /\ tree.columns[i] = c THEN v
                              ELSE tree.values[i]]
      BY <1>0, <1>1 DEF SafeAdd, Tree
    <2>3. new.values \in Seq(Nat) /\ Len(new.values) = Len(tree.values)
      <3>1. new.values \in [1..Len(tree.values) -> Nat]
        BY <1>0, <2>2, TreeFields
      <3>2. Len(tree.values) \in Nat
        BY <1>0, TreeFields
      <3> HIDE DEF new
      <3> QED BY <3>1, <3>2, Listing
    <2>4. new \in Tree
      BY <1>0, <1>1, <2>3, <2>2 DEF SafeAdd, Tree
    <2>5. k \in DOMAIN tree.values
      BY <1>0, TreeFields DEF TreeFits
    <2>6. DOMAIN tree.columns \subseteq DOMAIN tree.values
      BY <1>0, TreeFields DEF TreeFits
    <2>7. \A i \in DOMAIN tree.columns : i # k => tree.columns[i] # c
      BY <2>1 DEF TreeFits
    <2> HIDE DEF new
    <2>8. new.values[k] = v /\ \A i \in DOMAIN tree.columns : i # k => new.values[i] = tree.values[i]
      BY <2>1, <2>2, <2>6, <2>7
    <2>9. /\ TreeFits(new)
          /\ Even(tree) => Even(new) /\ Has(new, c, v)
          /\ \A d : d # c => /\ \A w : Has(tree, d, w) => Has(new, d, w)
                             /\ HasColumn(new, d) <=> HasColumn(tree, d)
      BY <2>1, <2>2, <2>3, <2>4, <2>8 DEF TreeFits, Even, Has, HasColumn
    <2> QED BY <2>9 DEF new
  <1>2. CASE ~ Contains(tree.columns, c)
    <2>1. ~ HasColumn(tree, c)
      BY <1>0, <1>2, TreeFields DEF Contains, HasColumn
    <2>2. new = [columns |-> Append(tree.columns, c), values |-> Append(tree.values, v)]
      BY <1>2 DEF SafeAdd
    <2>3. /\ new.columns = Append(tree.columns, c) /\ new.values = Append(tree.values, v)
          /\ new \in Tree
      BY <1>0, <2>2, TreeFields DEF Tree
    <2>4. /\ Len(new.columns) = Len(tree.columns) + 1 /\ Len(new.values) = Len(tree.values) + 1
          /\ DOMAIN new.columns = DOMAIN tree.columns \cup {Len(tree.columns) + 1}
          /\ new.columns[Len(tree.columns) + 1] = c
          /\ new.values[Len(tree.values) + 1] = v
          /\ \A i \in DOMAIN tree.columns : new.columns[i] = tree.columns[i]
          /\ \A i \in DOMAIN tree.values : new.values[i] = tree.values[i]
      <3>1. tree.columns \in Seq(Columns) /\ tree.values \in Seq(Nat)
        BY <1>0, TreeFields
      <3> HIDE DEF new
      <3> QED BY <2>3, <3>1, Appended, SMTT(30)
    <2>5. DOMAIN tree.columns \subseteq DOMAIN tree.values
      BY <1>0, TreeFields DEF TreeFits
    <2>6. Len(tree.columns) + 1 \notin DOMAIN tree.columns
      BY <1>0, TreeFields
    <2> HIDE DEF new
    <2>7. TreeFits(new)
      <3>1. Len(new.columns) <= Len(new.values)
        BY <1>0, <2>4, TreeFields DEF TreeFits
      <3>2. \A i, j \in DOMAIN new.columns : new.columns[i] = new.columns[j] => i = j
        BY <2>1, <2>4, <2>6 DEF TreeFits, HasColumn
      <3> QED BY <2>3, <3>1, <3>2 DEF TreeFits
    <2>8. Even(tree) => Even(new) /\ Has(new, c, v)
      BY <1>0, <2>4, <2>6, TreeFields DEF Even, Has
    <2>9. ASSUME NEW d, d # c
          PROVE  /\ \A w : Has(tree, d, w) => Has(new, d, w)
                 /\ HasColumn(new, d) <=> HasColumn(tree, d)
      BY <2>4, <2>5, <2>6, <2>9 DEF Has, HasColumn
    <2> QED BY <2>7, <2>8, <2>9 DEF new
  <1> QED BY <1>1, <1>2

(* The k-th member of a finite set of numbers is well defined. *)
LEMMA Placed ==
    ASSUME NEW keep, IsFiniteSet(keep), keep \subseteq Nat
    PROVE  /\ Cardinality(keep) \in Nat
           /\ \A k \in 1..Cardinality(keep) : Place(keep, k) \in keep
           /\ \A k, l \in 1..Cardinality(keep) : Place(keep, k) = Place(keep, l) => k = l
           /\ \A i \in keep : \E k \in 1..Cardinality(keep) : Place(keep, k) = i
  <1> DEFINE UpTo(i) == {j \in keep : j <= i}
             count == [i \in keep |-> Cardinality(UpTo(i))]
             n == Cardinality(keep)
  <1>0. n \in Nat
    BY FS_CardinalityType
  <1>1. ASSUME NEW i \in keep
        PROVE  IsFiniteSet(UpTo(i)) /\ Cardinality(UpTo(i)) \in 1..n
    <2>1. UpTo(i) \in SUBSET keep
      OBVIOUS
    <2>2. IsFiniteSet(UpTo(i)) /\ Cardinality(UpTo(i)) <= n
      BY <2>1, FS_Subset
    <2>3. i \in UpTo(i)
      OBVIOUS
    <2>4. Cardinality(UpTo(i)) \in Nat /\ Cardinality(UpTo(i)) # 0
      BY <2>2, <2>3, FS_CardinalityType, FS_EmptySet
    <2> QED BY <1>0, <2>2, <2>4
  <1>2. ASSUME NEW i \in keep, NEW j \in keep, i < j
        PROVE  Cardinality(UpTo(i)) # Cardinality(UpTo(j))
    <2>1. \A k \in keep : k \in Nat
      OBVIOUS
    <2>2. UpTo(i) \in SUBSET UpTo(j)
      <3>1. \A k \in keep : k <= i => k <= j
        BY <1>2, <2>1
      <3> QED BY <3>1
    <2>3. j \in UpTo(j) /\ j \notin UpTo(i)
      BY <1>2, <2>1
    <2> QED BY <1>1, <2>2, <2>3, FS_Subset
  <1>3. count \in Injection(keep, 1..n)
    <2>1. count \in [keep -> 1..n]
      BY <1>1
    <2>2. ASSUME NEW i \in keep, NEW j \in keep, count[i] = count[j] PROVE i = j
      <3>1. i \in Nat /\ j \in Nat
        OBVIOUS
      <3>2. ~ i < j /\ ~ j < i
        BY <1>2, <2>2
      <3> QED BY <3>1, <3>2
    <2> QED BY <2>1, <2>2 DEF Injection, IsInjective
  <1>4. IsFiniteSet(1..n) /\ Cardinality(1..n) = n
    BY <1>0, FS_Interval
  <1>5. count \in Surjection(keep, 1..n)
    BY <1>3, <1>4, FS_Injection
  <1>6. \A k \in 1..n : \E i \in keep : Cardinality(UpTo(i)) = k
    BY <1>5 DEF Surjection
  <1>7. ASSUME NEW k \in 1..n
        PROVE  Place(keep, k) \in keep /\ Cardinality(UpTo(Place(keep, k))) = k
    BY <1>6 DEF Place
  <1>8. ASSUME NEW i \in keep PROVE \E k \in 1..n : Place(keep, k) = i
    <2>1. Cardinality(UpTo(i)) \in 1..n
      BY <1>1
    <2>2. /\ Place(keep, Cardinality(UpTo(i))) \in keep
          /\ Cardinality(UpTo(Place(keep, Cardinality(UpTo(i))))) = Cardinality(UpTo(i))
      BY <1>7, <2>1
    <2>3. Place(keep, Cardinality(UpTo(i))) = i
      BY <1>3, <2>2 DEF Injection, IsInjective
    <2> QED BY <2>1, <2>3
  <1> QED BY <1>0, <1>7, <1>8

(* What an update keeps of a tree fits, and says the same. *)
LEMMA KeptFits ==
    ASSUME NEW tree, TreeFits(tree)
    PROVE  /\ TreeFits(Kept(tree)) /\ Even(Kept(tree))
           /\ \A c : HasColumn(Kept(tree), c) => HasColumn(tree, c) /\ c \notin Omit
           /\ \A c, v : Has(tree, c, v) /\ c \notin Omit => Has(Kept(tree), c, v)
  <1> DEFINE keep == Keep(tree)
             n == Cardinality(keep)
  <1>0. tree \in Tree
    BY DEF TreeFits
  <1>1. /\ keep \subseteq DOMAIN tree.columns /\ keep \subseteq Nat /\ IsFiniteSet(keep)
        /\ DOMAIN tree.columns \subseteq DOMAIN tree.values
    <2>1. DOMAIN tree.columns = 1..Len(tree.columns) /\ Len(tree.columns) \in Nat
      BY <1>0, TreeFields
    <2>2. keep \in SUBSET (1..Len(tree.columns))
      BY <2>1 DEF Keep
    <2>3. IsFiniteSet(keep)
      <3>1. IsFiniteSet(1..Len(tree.columns))
        BY <2>1, FS_Interval
      <3> HIDE DEF keep
      <3> QED BY <2>2, <3>1, FS_Subset
    <2> QED BY <1>0, <2>1, <2>2, <2>3, TreeFields DEF TreeFits
  <1>2. /\ n \in Nat
        /\ \A k \in 1..n : Place(keep, k) \in keep
        /\ \A k, l \in 1..n : Place(keep, k) = Place(keep, l) => k = l
        /\ \A i \in keep : \E k \in 1..n : Place(keep, k) = i
    BY <1>1, Placed
  <1>3. /\ Kept(tree).columns = [k \in 1..n |-> tree.columns[Place(keep, k)]]
        /\ Kept(tree).values = [k \in 1..n |-> tree.values[Place(keep, k)]]
    BY DEF Kept
  <1>4. \A i \in keep : tree.columns[i] \in Columns /\ tree.values[i] \in Nat /\ tree.columns[i] \notin Omit
    BY <1>0, <1>1, TreeFields DEF Keep
  <1>5. Kept(tree).columns \in [1..n -> Columns] /\ Kept(tree).values \in [1..n -> Nat]
    BY <1>2, <1>3, <1>4
  <1>6. \A i \in DOMAIN tree.columns : tree.columns[i] \notin Omit => i \in keep
    BY DEF Keep
  <1> HIDE DEF keep, n
  <1>7. /\ Kept(tree).columns \in Seq(Columns) /\ Len(Kept(tree).columns) = n
        /\ Kept(tree).values \in Seq(Nat) /\ Len(Kept(tree).values) = n
        /\ DOMAIN Kept(tree).columns = 1..n
    BY <1>2, <1>5, Listing
  <1>8. Even(Kept(tree)) /\ Len(Kept(tree).columns) <= Len(Kept(tree).values)
    BY <1>2, <1>7 DEF Even
  <1>9. \A k, l \in 1..n : Kept(tree).columns[k] = Kept(tree).columns[l] => k = l
    BY <1>1, <1>2, <1>3 DEF TreeFits
  <1>10. \A c : HasColumn(Kept(tree), c) => HasColumn(tree, c) /\ c \notin Omit
    BY <1>1, <1>2, <1>3, <1>4, <1>7 DEF HasColumn
  <1>11. ASSUME NEW c, NEW v, Has(tree, c, v), c \notin Omit PROVE Has(Kept(tree), c, v)
    <2>1. PICK i \in keep : tree.columns[i] = c /\ tree.values[i] = v
      BY <1>6, <1>11 DEF Has
    <2>2. PICK k \in 1..n : Place(keep, k) = i
      BY <1>2
    <2> QED BY <1>3, <1>7, <2>1, <2>2 DEF Has
  <1>12. Kept(tree) \in Tree
    <2>1. PICK columns \in Seq(Columns), values \in Seq(Nat) :
              Kept(tree) = [columns |-> columns, values |-> values]
      BY <1>7 DEF Kept
    <2> QED BY <2>1 DEF Tree
  <1> QED BY <1>7, <1>8, <1>9, <1>10, <1>11, <1>12 DEF TreeFits

-----------------------------------------------------------------------------
(* The rows of table post. *)

RowOK(rows, p) ==
    /\ Root(rows, p) \in DOMAIN rows /\ IsRoot(rows, Root(rows, p))
    /\ rows[p].ref_id \in Personas
    /\ rows[p].locked \in 0..1 /\ rows[p].name \in 0..1 /\ rows[p].deleted \in 0..1
    /\ ~ IsRoot(rows, p) => rows[p].locked = 0

(* The posts of a thread are numbered one to one. *)
Numbered(rows, t) ==
    /\ rows[t].idx = 1
    /\ \A p \in InThread(rows, t) : rows[p].idx \in 1..Cardinality(InThread(rows, t))
    /\ \A i \in 1..Cardinality(InThread(rows, t)) : \E p \in InThread(rows, t) : rows[p].idx = i
    /\ \A p, o \in InThread(rows, t) : rows[p].idx = rows[o].idx => p = o

RowsOK(rows) ==
    /\ rows \in Seq(Post)
    /\ \A p \in DOMAIN rows : RowOK(rows, p)
    /\ \A t \in DOMAIN rows : IsRoot(rows, t) => Numbered(rows, t)

LEMMA ColumnsOf ==
    ASSUME NEW row \in Post
    PROVE  /\ row.ref_id \in Nat /\ row.thread \in Nat /\ row.idx \in Nat /\ row.slug \in Nat
           /\ row.created \in Nat /\ row.locked \in Nat /\ row.name \in Nat /\ row.deleted \in Nat
           /\ DOMAIN row = Columns
           /\ \A c \in Columns : row[c] \in Nat
  BY DEF Post, Columns

LEMMA PostIs ==
    ASSUME NEW row, NEW other, row \in Post, other \in Post,
           \A c \in Columns : row[c] = other[c]
    PROVE  row = other
  BY DEF Post

LEMMA ThreadFinite ==
    ASSUME NEW rows \in Seq(Post), NEW t
    PROVE  /\ InThread(rows, t) \subseteq DOMAIN rows /\ DOMAIN rows = 1..Len(rows) /\ Len(rows) \in Nat
           /\ IsFiniteSet(InThread(rows, t)) /\ Cardinality(InThread(rows, t)) \in Nat
  <1>1. DOMAIN rows = 1..Len(rows) /\ Len(rows) \in Nat
    OBVIOUS
  <1>2. InThread(rows, t) \in SUBSET (1..Len(rows))
    BY <1>1 DEF InThread
  <1>3. IsFiniteSet(1..Len(rows))
    BY <1>1, FS_Interval
  <1> QED BY <1>1, <1>2, <1>3, FS_Subset, FS_CardinalityType

LEMMA NumberedSame ==
    ASSUME NEW rows, NEW new, NEW t, Numbered(rows, t), InThread(new, t) = InThread(rows, t),
           new[t].idx = rows[t].idx, \A o \in InThread(rows, t) : new[o].idx = rows[o].idx
    PROVE  Numbered(new, t)
  <1> DEFINE posts == InThread(rows, t)
  <1>1. new[t].idx = 1
    BY DEF Numbered
  <1>2. \A p \in posts : new[p].idx \in 1..Cardinality(posts)
    BY DEF Numbered
  <1>3. \A i \in 1..Cardinality(posts) : \E p \in posts : new[p].idx = i
    BY DEF Numbered
  <1>4. \A p, o \in posts : new[p].idx = new[o].idx => p = o
    BY DEF Numbered
  <1> QED BY <1>1, <1>2, <1>3, <1>4 DEF Numbered

(* A change of a row that leaves its author, thread and number alone. *)
LEMMA RowChanges ==
    ASSUME NEW rows, RowsOK(rows), NEW p \in DOMAIN rows, NEW row \in Post,
           row.thread = rows[p].thread, row.idx = rows[p].idx, row.ref_id = rows[p].ref_id,
           row.locked \in 0..1, row.name \in 0..1, row.deleted \in 0..1,
           ~ IsRoot(rows, p) => row.locked = 0,
           NEW new, new \in Seq(Post), DOMAIN new = DOMAIN rows,
           new[p] = row, \A o \in DOMAIN rows : o # p => new[o] = rows[o]
    PROVE  /\ RowsOK(new)
           /\ \A t : InThread(new, t) = InThread(rows, t)
           /\ \A o \in DOMAIN rows : IsRoot(new, o) <=> IsRoot(rows, o)
  <1>1. /\ new \in Seq(Post) /\ DOMAIN new = DOMAIN rows
        /\ new[p] = row /\ \A o \in DOMAIN rows : o # p => new[o] = rows[o]
    OBVIOUS
  <1>2. \A o \in DOMAIN rows : new[o].thread = rows[o].thread /\ new[o].idx = rows[o].idx
                              /\ new[o].ref_id = rows[o].ref_id
    BY <1>1
  <1> HIDE DEF RowsOK
  <1>3. \A t : InThread(new, t) = InThread(rows, t)
    BY <1>1, <1>2 DEF InThread
  <1>4. \A o \in DOMAIN rows : IsRoot(new, o) <=> IsRoot(rows, o)
    BY <1>1, <1>2 DEF IsRoot
  <1>5. ASSUME NEW o \in DOMAIN rows PROVE RowOK(new, o)
    <2>1. /\ RowOK(rows, o) /\ Root(new, o) = Root(rows, o) /\ Root(rows, o) \in DOMAIN rows
          /\ new[o].ref_id = rows[o].ref_id
      BY <1>2 DEF RowsOK, RowOK, Root
    <2>2. IsRoot(new, Root(new, o)) /\ (IsRoot(new, o) <=> IsRoot(rows, o))
      BY <1>4, <2>1 DEF RowOK
    <2>3. CASE o = p
      BY <1>1, <2>1, <2>2, <2>3 DEF RowOK
    <2>4. CASE o # p
      BY <1>1, <2>1, <2>2, <2>4 DEF RowOK
    <2> QED BY <2>3, <2>4
  <1>6. ASSUME NEW t \in DOMAIN rows, IsRoot(new, t) PROVE Numbered(new, t)
    <2>1. Numbered(rows, t) /\ InThread(new, t) = InThread(rows, t)
      BY <1>3, <1>4, <1>6 DEF RowsOK
    <2>2. new[t].idx = rows[t].idx /\ \A o \in InThread(rows, t) : new[o].idx = rows[o].idx
      BY <1>2 DEF InThread
    <2> QED BY <2>1, <2>2, NumberedSame
  <1> QED BY <1>1, <1>3, <1>4, <1>5, <1>6 DEF RowsOK

LEMMA NumberedNext ==
    ASSUME NEW rows \in Seq(Post), NEW new, NEW t, NEW n, Numbered(rows, t), t \in InThread(rows, t),
           n \notin InThread(rows, t), InThread(new, t) = InThread(rows, t) \cup {n},
           \A o \in InThread(rows, t) : new[o].idx = rows[o].idx,
           new[n].idx = Cardinality(InThread(rows, t)) + 1
    PROVE  Numbered(new, t)
  <1> DEFINE posts == InThread(rows, t)
             last == Cardinality(posts)
  <1>1. last \in Nat /\ Cardinality(posts \cup {n}) = last + 1
    BY ThreadFinite, FS_AddElement
  <1>2. /\ rows[t].idx = 1
        /\ \A p \in posts : rows[p].idx \in 1..last
        /\ \A i \in 1..last : \E p \in posts : rows[p].idx = i
        /\ \A p, o \in posts : rows[p].idx = rows[o].idx => p = o
    BY DEF Numbered
  <1> HIDE DEF posts, last
  <1>3. InThread(rows, t) = posts /\ new[n].idx = last + 1
    BY DEF posts, last
  <1>4. \A p \in posts : new[p].idx \in 1..last
    BY <1>2, <1>3
  <1>5. \A i \in 1..(last + 1) : \E p \in posts \cup {n} : new[p].idx = i
    <2> TAKE i \in 1..(last + 1)
    <2>1. CASE i = last + 1
      BY <1>3, <2>1
    <2>2. CASE i # last + 1
      BY <1>1, <1>2, <1>3, <2>2
    <2> QED BY <2>1, <2>2
  <1>6. \A p, o \in posts \cup {n} : new[p].idx = new[o].idx => p = o
    <2> TAKE p, o \in posts \cup {n}
    <2> HAVE new[p].idx = new[o].idx
    <2>1. CASE p = n \/ o = n
      BY <1>1, <1>3, <1>4, <2>1
    <2>2. CASE p # n /\ o # n
      BY <1>2, <1>3, <2>2
    <2> QED BY <2>1, <2>2
  <1>7. \A p \in posts \cup {n} : new[p].idx \in 1..(last + 1)
    BY <1>1, <1>3, <1>4
  <1>8. new[t].idx = 1
    BY <1>2, <1>3
  <1> QED BY <1>1, <1>3, <1>5, <1>6, <1>7, <1>8 DEF Numbered

LEMMA NumberedFirst ==
    ASSUME NEW rows, NEW t, InThread(rows, t) = {t}, Cardinality({t}) = 1, rows[t].idx = 1
    PROVE  Numbered(rows, t)
  BY DEF Numbered

(* A new row: it starts a thread, or comes after all posts of one. *)
LEMMA RowAdded ==
    ASSUME NEW rows, RowsOK(rows), NEW row \in Post, NEW n, NEW new,
           new \in Seq(Post), n \notin DOMAIN rows, DOMAIN new = DOMAIN rows \cup {n},
           new[n] = row, \A o \in DOMAIN rows : new[o] = rows[o],
           row.ref_id \in Personas, row.locked = 0, row.name \in 0..1, row.deleted \in 0..1,
           \/ row.thread = n /\ row.idx = 1
           \/ /\ row.thread \in DOMAIN rows /\ IsRoot(rows, row.thread)
              /\ row.idx = Cardinality(InThread(rows, row.thread)) + 1
    PROVE  /\ RowsOK(new)
           /\ \A t \in DOMAIN rows : t # row.thread => InThread(new, t) = InThread(rows, t)
           /\ InThread(new, row.thread) = InThread(rows, row.thread) \cup {n}
           /\ \A o \in DOMAIN rows : IsRoot(new, o) <=> IsRoot(rows, o)
  <1>0. rows \in Seq(Post)
    BY DEF RowsOK
  <1>2. \A t : t # row.thread => InThread(new, t) = InThread(rows, t)
    BY DEF InThread
  <1>3. InThread(new, row.thread) = InThread(rows, row.thread) \cup {n}
    BY DEF InThread
  <1>4. \A o \in DOMAIN rows : IsRoot(new, o) <=> IsRoot(rows, o)
    BY DEF IsRoot
  <1>5. \A o \in DOMAIN rows : RowOK(rows, o)
    BY DEF RowsOK
  <1>6. ASSUME NEW o \in DOMAIN rows PROVE RowOK(new, o)
    BY <1>4, <1>5 DEF RowOK, Root
  <1>7. RowOK(new, n)
    <2>1. CASE row.thread = n
      BY <2>1 DEF RowOK, Root, IsRoot
    <2>2. CASE row.thread \in DOMAIN rows /\ IsRoot(rows, row.thread)
      BY <1>4, <2>2 DEF RowOK, Root
    <2> QED BY <2>1, <2>2
  <1>8. ASSUME NEW t \in DOMAIN new, IsRoot(new, t) PROVE Numbered(new, t)
    <2>1. CASE t # row.thread
      <3>1. t \in DOMAIN rows
        BY <1>8, <2>1 DEF IsRoot
      <3>2. Numbered(rows, t)
        BY <1>4, <1>8, <3>1 DEF RowsOK
      <3>3. /\ InThread(new, t) = InThread(rows, t) /\ new[t].idx = rows[t].idx
            /\ \A o \in InThread(rows, t) : new[o].idx = rows[o].idx
        BY <1>2, <2>1, <3>1 DEF InThread
      <3> QED BY <3>2, <3>3, NumberedSame
    <2>2. CASE t = row.thread /\ t \in DOMAIN rows /\ row.idx = Cardinality(InThread(rows, t)) + 1
      <3>1. Numbered(rows, t) /\ t \in InThread(rows, t)
        BY <1>4, <1>8, <2>2 DEF RowsOK, InThread, IsRoot
      <3>2. /\ n \notin InThread(rows, t) /\ \A o \in InThread(rows, t) : new[o].idx = rows[o].idx
            /\ new[n].idx = Cardinality(InThread(rows, t)) + 1
            /\ InThread(new, t) = InThread(rows, t) \cup {n}
        BY <1>3, <2>2 DEF InThread
      <3> QED BY <1>0, <3>1, <3>2, NumberedNext
    <2>3. CASE t = row.thread /\ t = n /\ row.idx = 1
      <3>1. InThread(rows, t) = {}
        BY <1>5, <2>3 DEF RowOK, Root, InThread
      <3>2. InThread(new, t) = {n} /\ Cardinality({n}) = 1
        BY <1>3, <2>3, <3>1, FS_Singleton
      <3>3. new[n].idx = 1
        BY <2>3
      <3> QED BY <2>3, <3>2, <3>3, NumberedFirst
    <2> QED BY <2>1, <2>2, <2>3
  <1> QED BY <1>2, <1>3, <1>4, <1>6, <1>7, <1>8 DEF RowsOK

LEMMA RowAppended ==
    ASSUME NEW rows, RowsOK(rows), NEW row \in Post
    PROVE  LET n == Len(rows) + 1
               new == Append(rows, row)
           IN  /\ new \in Seq(Post) /\ n \notin DOMAIN rows /\ DOMAIN new = DOMAIN rows \cup {n}
               /\ new[n] = row /\ \A o \in DOMAIN rows : new[o] = rows[o]
               /\ n = Len(new)
  BY Appended DEF RowsOK

(* The last number in a thread is the number of its posts. *)
LEMMA LastOf ==
    ASSUME NEW rows, RowsOK(rows), NEW t \in DOMAIN rows, IsRoot(rows, t)
    PROVE  LastIdx(rows, t) = Cardinality(InThread(rows, t)) /\ LastIdx(rows, t) \in Nat
  <1> DEFINE posts == InThread(rows, t)
             last == Cardinality(posts)
  <1>1. last \in Nat
    BY ThreadFinite DEF RowsOK
  <1>2. Numbered(rows, t) /\ t \in posts
    BY DEF RowsOK, InThread, IsRoot
  <1>3. last \in 1..last
    BY <1>1, <1>2 DEF Numbered
  <1>4. PICK p \in posts : rows[p].idx = last
    BY <1>2, <1>3 DEF Numbered
  <1>5. \A o \in posts : rows[o].idx \in 1..last
    BY <1>2 DEF Numbered
  <1>6. \A o \in posts : rows[o].idx <= rows[p].idx
    BY <1>1, <1>4, <1>5
  <1> DEFINE top == CHOOSE q \in posts : \A o \in posts : rows[o].idx <= rows[q].idx
  <1>7. top \in posts /\ \A o \in posts : rows[o].idx <= rows[top].idx
    BY <1>6
  <1>8. LastIdx(rows, t) = rows[top].idx
    BY DEF LastIdx
  <1> HIDE DEF top, posts, last
  <1>9. rows[top].idx = last
    BY <1>1, <1>4, <1>5, <1>7
  <1> QED BY <1>1, <1>8, <1>9 DEF last, posts

-----------------------------------------------------------------------------
(* The inductive invariant, of values rather than of the state, so that    *)
(* the lemmas below can speak of the state before and after a step.        *)

Items == {"row", "thread"} \X Nat
Entries == [since : Nat, reads : SUBSET Items, writes : SUBSET Items]

LogOK(lg) == lg \in Seq(Entries) /\ \A j \in DOMAIN lg : lg[j].since < j

(* The tree of a new post, before and after it is inserted. *)
NewTree(tree) ==
    /\ TreeFits(tree) /\ Even(tree) /\ ~ HasColumn(tree, "deleted")
    /\ Has(tree, "created", 1) /\ Has(tree, "locked", 0) /\ Has(tree, "name", 0)

(* The tree of an edit. *)
EditTree(tree, locked, name) ==
    /\ TreeFits(tree) /\ Has(tree, "locked", locked) /\ Has(tree, "name", name)
    /\ \A c \in {"thread", "idx", "deleted"} : ~ HasColumn(tree, c)

(* What a request would write is what its form says, at every attempt.     *)
TreeOK(r) ==
    /\ TreeFits(r.tree)
    /\ r.op \in {"thread", "reply"} =>
           /\ NewTree(r.tree)
           /\ r.op = "thread" => Has(r.tree, "idx", 1)
           /\ r.phase = "open" => Has(r.tree, "slug", 1)
    /\ r.op = "edit" => EditTree(r.tree, r.form.locked, r.form.name)

RequestOK(r, rows) ==
    /\ r \in Request
    /\ r.phase # "idle" =>
           /\ r.op = "thread" \/ r.target \in DOMAIN rows
           /\ r.form.locked + r.form.name =
                  IF r.op = "edit" /\ IsRoot(rows, r.target) THEN 1 ELSE 0
           /\ TreeOK(r)

(* Rows new come from rows old by what the log says committed after i and  *)
(* up to k.                                                                *)
Between(lg, old, i, new, k) ==
    /\ DOMAIN old \subseteq DOMAIN new
    /\ \A p \in DOMAIN old : /\ new[p].thread = old[p].thread
                             /\ new[p].idx = old[p].idx /\ new[p].ref_id = old[p].ref_id
    /\ \A p \in DOMAIN old :
           new[p].locked # old[p].locked =>
               \E j \in DOMAIN lg : i < j /\ j <= k /\ <<"row", p>> \in lg[j].writes
    /\ \A p \in DOMAIN new \ DOMAIN old :
           \E j \in DOMAIN lg :
               /\ i < j /\ j <= k
               /\ new[p].thread # p =>
                      /\ <<"thread", new[p].thread>> \in lg[j].reads
                      /\ <<"thread", new[p].thread>> \in lg[j].writes

ViewOK(r, rows, lg) ==
    /\ RowsOK(r.view) /\ r.since <= Len(lg)
    /\ r.op = "thread" \/ r.target \in DOMAIN r.view
    /\ Between(lg, r.view, r.since, rows, Len(lg))

(* A transaction that began before a thread was locked follows in every    *)
(* serial order the one that locked it, and precedes one that has read the *)
(* lock.                                                                   *)
Guarded(r, lg, seen) ==
    /\ r.op \in {"reply", "edit", "delete"}
    /\ Root(r.view, r.target) \in seen /\ ~ IsLocked(r.view, r.target)
    => LET t == Root(r.view, r.target)
       IN  \E j, k \in DOMAIN lg :
               /\ r.since < j /\ j <= lg[k].since /\ <<"row", t>> \in lg[j].writes
               /\ {<<"row", t>>, <<"thread", t>>, <<"row", r.target>>} \subseteq lg[k].reads

Good(rows, lg, reqs, seen) ==
    /\ RowsOK(rows) /\ Len(rows) <= MaxPosts
    /\ LogOK(lg)
    /\ reqs \in [Requests -> Request] /\ \A q \in Requests : RequestOK(reqs[q], rows)
    /\ \A q \in Requests : reqs[q].phase = "open" =>
           ViewOK(reqs[q], rows, lg) /\ Guarded(reqs[q], lg, seen)
    /\ \A q, o \in Requests :
           reqs[q].phase = "open" /\ reqs[o].phase = "open" /\ reqs[q].since <= reqs[o].since =>
               Between(lg, reqs[q].view, reqs[q].since, reqs[o].view, reqs[o].since)
    /\ seen \subseteq {t \in DOMAIN rows : rows[t].locked = 1}

Counts ==
    /\ arrived \in 0..MaxRequests /\ actor \in {0} \cup Personas
    /\ lost \in Nat /\ InUse <= Connections

IInv == Good(post, log, request, seenLocked) /\ Counts

-----------------------------------------------------------------------------
(* How the log and the rows relate. *)

LEMMA LogAppended ==
    ASSUME NEW lg, LogOK(lg), NEW e \in Entries, e.since <= Len(lg)
    PROVE  LET n == Len(lg) + 1
           IN  /\ LogOK(Append(lg, e)) /\ Len(Append(lg, e)) = n /\ Len(lg) \in Nat
               /\ DOMAIN lg = 1..Len(lg) /\ DOMAIN Append(lg, e) = DOMAIN lg \cup {n}
               /\ Append(lg, e)[n] = e /\ \A j \in DOMAIN lg : Append(lg, e)[j] = lg[j]
  <1> DEFINE n == Len(lg) + 1
             new == Append(lg, e)
  <1>0. lg \in Seq(Entries) /\ \A j \in DOMAIN lg : lg[j].since < j
    BY DEF LogOK
  <1>1. /\ new \in Seq(Entries) /\ Len(lg) \in Nat /\ Len(new) = n
        /\ DOMAIN lg = 1..Len(lg) /\ DOMAIN new = DOMAIN lg \cup {n}
        /\ new[n] = e /\ \A j \in DOMAIN lg : new[j] = lg[j]
    BY <1>0, Appended
  <1>2. e.since \in Nat
    BY DEF Entries
  <1> HIDE DEF new
  <1>3. \A j \in DOMAIN new : new[j].since < j
    BY <1>0, <1>1, <1>2
  <1> QED BY <1>1, <1>3 DEF LogOK, new

LEMMA BetweenSame ==
    ASSUME NEW lg, NEW rows, NEW i
    PROVE  Between(lg, rows, i, rows, i)
  BY DEF Between

LEMMA BetweenGrows ==
    ASSUME NEW lg, NEW lg2, DOMAIN lg \subseteq DOMAIN lg2, \A j \in DOMAIN lg : lg2[j] = lg[j],
           NEW old, NEW new, NEW i, NEW k, Between(lg, old, i, new, k)
    PROVE  Between(lg2, old, i, new, k)
  BY DEF Between

LEMMA BetweenJoins ==
    ASSUME NEW lg, DOMAIN lg \subseteq Nat, NEW a, NEW b, NEW c, NEW i \in Nat, NEW k \in Nat, NEW m \in Nat,
           i <= k, k <= m, Between(lg, a, i, b, k), Between(lg, b, k, c, m)
    PROVE  Between(lg, a, i, c, m)
  <1>1. \A j \in DOMAIN lg : (j <= k => j <= m) /\ (k < j => i < j)
    <2>1. \A j \in DOMAIN lg : j \in Nat
      OBVIOUS
    <2> QED BY <2>1
  <1>2. /\ DOMAIN a \subseteq DOMAIN c
        /\ \A p \in DOMAIN a : /\ c[p].thread = a[p].thread
                               /\ c[p].idx = a[p].idx /\ c[p].ref_id = a[p].ref_id
    BY DEF Between
  <1>3. ASSUME NEW p \in DOMAIN a, c[p].locked # a[p].locked
        PROVE  \E j \in DOMAIN lg : i < j /\ j <= m /\ <<"row", p>> \in lg[j].writes
    <2>1. CASE b[p].locked # a[p].locked
      BY <1>1, <2>1 DEF Between
    <2>2. CASE c[p].locked # b[p].locked
      <3>1. p \in DOMAIN b
        BY DEF Between
      <3> QED BY <1>1, <2>2, <3>1 DEF Between
    <2> QED BY <1>3, <2>1, <2>2
  <1>4. ASSUME NEW p \in DOMAIN c \ DOMAIN a
        PROVE  \E j \in DOMAIN lg :
                   /\ i < j /\ j <= m
                   /\ c[p].thread # p =>
                          /\ <<"thread", c[p].thread>> \in lg[j].reads
                          /\ <<"thread", c[p].thread>> \in lg[j].writes
    <2>1. CASE p \in DOMAIN b
      <3>1. c[p].thread = b[p].thread
        BY <2>1 DEF Between
      <3> QED BY <1>1, <2>1, <3>1 DEF Between
    <2>2. CASE p \notin DOMAIN b
      BY <1>1, <2>2 DEF Between
    <2> QED BY <2>1, <2>2
  <1> QED BY <1>2, <1>3, <1>4 DEF Between

(* Nothing committed: the rows differ in nothing that counts. *)
LEMMA BetweenNone ==
    ASSUME NEW lg, DOMAIN lg \subseteq Nat, NEW i \in Nat, NEW old, NEW new, Between(lg, old, i, new, i)
    PROVE  Between(lg, new, i, old, i)
  <1>1. \A j \in DOMAIN lg : ~ (i < j /\ j <= i)
    <2>1. \A j \in DOMAIN lg : j \in Nat
      OBVIOUS
    <2> QED BY <2>1
  <1>2. DOMAIN new = DOMAIN old
    BY <1>1 DEF Between
  <1> QED BY <1>1, <1>2 DEF Between

-----------------------------------------------------------------------------
(* What a step makes of a good state. *)

LEMMA RequestStays ==
    ASSUME NEW r, NEW rows, NEW rows2, RequestOK(r, rows), DOMAIN rows \subseteq DOMAIN rows2,
           \A o \in DOMAIN rows : IsRoot(rows2, o) <=> IsRoot(rows, o)
    PROVE  RequestOK(r, rows2)
  BY DEF RequestOK

LEMMA GuardedGrows ==
    ASSUME NEW r, NEW lg, NEW lg2, DOMAIN lg \subseteq DOMAIN lg2, \A j \in DOMAIN lg : lg2[j] = lg[j],
           NEW seen, NEW seen2, seen2 \subseteq seen, Guarded(r, lg, seen)
    PROVE  Guarded(r, lg2, seen2)
  BY DEF Guarded

LEMMA RequestFields ==
    ASSUME NEW r \in Request
    PROVE  /\ r.phase \in {"idle", "trying", "open"} /\ r.op \in Ops /\ r.who \in Personas
           /\ r.target \in 0..MaxPosts /\ r.target \in Nat
           /\ r.form.locked \in 0..1 /\ r.form.name \in 0..1
           /\ r.tree \in Tree /\ r.attempt \in 1..TxTries
           /\ r.since \in 0..(MaxLog + 1) /\ r.since \in Nat /\ r.view \in Seq(Post)
  <1>1. MaxPosts \in Nat /\ MaxLog \in Nat /\ TxTries \in Nat
    BY ThreadsAssumption
  <1> QED BY <1>1 DEF Request

LEMMA ViewGrows ==
    ASSUME NEW r \in Request, NEW rows, NEW rows2, NEW lg, LogOK(lg), NEW e \in Entries, e.since <= Len(lg),
           ViewOK(r, rows, lg), Between(Append(lg, e), rows, Len(lg), rows2, Len(lg) + 1)
    PROVE  ViewOK(r, rows2, Append(lg, e))
  <1> DEFINE lg2 == Append(lg, e)
  <1>1. /\ Len(lg2) = Len(lg) + 1 /\ Len(lg) \in Nat
        /\ DOMAIN lg \subseteq DOMAIN lg2 /\ DOMAIN lg2 \subseteq Nat
        /\ \A j \in DOMAIN lg : lg2[j] = lg[j]
    BY LogAppended
  <1>2. r.since \in Nat /\ r.since <= Len(lg) /\ Between(lg, r.view, r.since, rows, Len(lg))
    BY RequestFields DEF ViewOK
  <1>3. Between(lg2, rows, Len(lg), rows2, Len(lg) + 1)
    OBVIOUS
  <1> HIDE DEF lg2
  <1>4. Between(lg2, r.view, r.since, rows, Len(lg))
    BY <1>1, <1>2, BetweenGrows
  <1>5. Between(lg2, r.view, r.since, rows2, Len(lg) + 1)
    BY <1>1, <1>2, <1>3, <1>4, BetweenJoins
  <1>6. ViewOK(r, rows2, lg2)
    BY <1>1, <1>2, <1>5 DEF ViewOK
  <1> QED BY <1>6 DEF lg2

(* A request that is not open any more, or not yet, and nothing else new. *)
LEMMA GoodEnds ==
    ASSUME NEW rows, NEW lg, NEW reqs, NEW seen, Good(rows, lg, reqs, seen),
           NEW q \in Requests, NEW r, RequestOK(r, rows), r.phase # "open",
           NEW lg2, lg2 = lg \/ (lg2 = <<>> /\ \A o \in Requests \ {q} : reqs[o].phase # "open"),
           NEW reqs2, reqs2 = [reqs EXCEPT ![q] = r]
    PROVE  Good(rows, lg2, reqs2, seen)
  <1>1. /\ reqs2 \in [Requests -> Request]
        /\ reqs2[q] = r /\ \A o \in Requests : o # q => reqs2[o] = reqs[o]
    BY DEF Good, RequestOK
  <1>2. \A o \in Requests : reqs2[o].phase = "open" => o # q /\ reqs[o].phase = "open" /\ lg2 = lg
    BY <1>1
  <1>3. LogOK(lg2)
    <2>1. LogOK(<<>>)
      BY DEF LogOK
    <2> QED BY <2>1 DEF Good
  <1>4. \A o \in Requests : RequestOK(reqs2[o], rows)
    BY <1>1 DEF Good
  <1>5. \A o \in Requests : reqs2[o].phase = "open" =>
            ViewOK(reqs2[o], rows, lg2) /\ Guarded(reqs2[o], lg2, seen)
    BY <1>1, <1>2 DEF Good
  <1>6. \A o, p \in Requests :
            reqs2[o].phase = "open" /\ reqs2[p].phase = "open" /\ reqs2[o].since <= reqs2[p].since =>
                Between(lg2, reqs2[o].view, reqs2[o].since, reqs2[p].view, reqs2[p].since)
    BY <1>1, <1>2 DEF Good
  <1> QED BY <1>1, <1>3, <1>4, <1>5, <1>6 DEF Good

(* A transaction has committed. *)
LEMMA GoodCommits ==
    ASSUME NEW rows, NEW lg, NEW reqs, NEW seen, Good(rows, lg, reqs, seen),
           NEW q \in Requests,
           NEW rows2, RowsOK(rows2), Len(rows2) <= MaxPosts,
           DOMAIN rows \subseteq DOMAIN rows2, \A o \in DOMAIN rows : IsRoot(rows2, o) <=> IsRoot(rows, o),
           NEW e \in Entries, e.since <= Len(lg),
           Between(Append(lg, e), rows, Len(lg), rows2, Len(lg) + 1),
           NEW r, RequestOK(r, rows2), r.phase # "open",
           NEW lg2, \/ lg2 = Append(lg, e)
                    \/ lg2 = <<>> /\ \A o \in Requests \ {q} : reqs[o].phase # "open",
           NEW reqs2, reqs2 = [reqs EXCEPT ![q] = r],
           NEW seen2, seen2 \subseteq seen, seen2 \subseteq {t \in DOMAIN rows2 : rows2[t].locked = 1}
    PROVE  Good(rows2, lg2, reqs2, seen2)
  <1>1. /\ reqs2 \in [Requests -> Request]
        /\ reqs2[q] = r /\ \A o \in Requests : o # q => reqs2[o] = reqs[o]
    BY DEF Good, RequestOK
  <1>2. \A o \in Requests : reqs2[o].phase = "open" => o # q /\ reqs[o].phase = "open" /\ lg2 = Append(lg, e)
    BY <1>1
  <1>0. LogOK(lg) /\ \A o \in Requests : RequestOK(reqs[o], rows)
    BY DEF Good
  <1>l. /\ LogOK(Append(lg, e)) /\ DOMAIN lg \subseteq DOMAIN Append(lg, e)
        /\ \A j \in DOMAIN lg : Append(lg, e)[j] = lg[j]
    BY <1>0, LogAppended
  <1>3. LogOK(lg2)
    <2>1. LogOK(<<>>)
      BY DEF LogOK
    <2> QED BY <2>1, <1>l
  <1>4. \A o \in Requests : RequestOK(reqs2[o], rows2)
    BY <1>0, <1>1, RequestStays
  <1>5. ASSUME NEW o \in Requests, reqs2[o].phase = "open"
        PROVE  ViewOK(reqs2[o], rows2, lg2) /\ Guarded(reqs2[o], lg2, seen2)
    <2>1. reqs2[o] = reqs[o] /\ lg2 = Append(lg, e) /\ reqs[o] \in Request
      BY <1>0, <1>1, <1>2, <1>5 DEF RequestOK
    <2>2. ViewOK(reqs[o], rows, lg) /\ Guarded(reqs[o], lg, seen)
      BY <1>2, <1>5 DEF Good
    <2>3. ViewOK(reqs[o], rows2, Append(lg, e))
      BY <1>0, <2>1, <2>2, ViewGrows
    <2>4. Guarded(reqs[o], Append(lg, e), seen2)
      BY <1>l, <2>2, GuardedGrows
    <2> QED BY <2>1, <2>3, <2>4
  <1>6. ASSUME NEW o \in Requests, NEW p \in Requests, reqs2[o].phase = "open", reqs2[p].phase = "open",
               reqs2[o].since <= reqs2[p].since
        PROVE  Between(lg2, reqs2[o].view, reqs2[o].since, reqs2[p].view, reqs2[p].since)
    <2>1. reqs2[o] = reqs[o] /\ reqs2[p] = reqs[p] /\ lg2 = Append(lg, e)
      BY <1>1, <1>2, <1>6
    <2>2. Between(lg, reqs[o].view, reqs[o].since, reqs[p].view, reqs[p].since)
      BY <1>6, <2>1 DEF Good
    <2> QED BY <1>l, <2>1, <2>2, BetweenGrows
  <1> QED BY <1>1, <1>3, <1>4, <1>5, <1>6 DEF Good

(* A transaction begins. *)
LEMMA GoodBegins ==
    ASSUME NEW rows, NEW lg, NEW reqs, NEW seen, Good(rows, lg, reqs, seen),
           NEW q \in Requests, reqs[q].phase # "open",
           NEW r, RequestOK(r, rows), r.since = Len(lg), r.view = rows,
           r.op = "thread" \/ r.target \in DOMAIN rows,
           NEW reqs2, reqs2 = [reqs EXCEPT ![q] = r]
    PROVE  Good(rows, lg, reqs2, seen)
  <1>1. /\ reqs2 \in [Requests -> Request]
        /\ reqs2[q] = r /\ \A o \in Requests : o # q => reqs2[o] = reqs[o]
    BY DEF Good, RequestOK
  <1>2. RowsOK(rows) /\ LogOK(lg) /\ \A o \in Requests : RequestOK(reqs2[o], rows)
    BY <1>1 DEF Good
  <1>3. Len(lg) \in Nat /\ DOMAIN lg \subseteq Nat
    BY <1>2 DEF LogOK
  <1>4. ViewOK(r, rows, lg)
    BY <1>2, <1>3, BetweenSame DEF ViewOK
  <1>5. Guarded(r, lg, seen)
    <2>1. ASSUME r.op \in {"reply", "edit", "delete"}, Root(rows, r.target) \in seen
          PROVE  IsLocked(rows, r.target)
      BY <2>1 DEF Good, IsLocked
    <2> QED BY <2>1 DEF Guarded
  <1>6. \A o \in Requests : reqs2[o].phase = "open" => ViewOK(reqs2[o], rows, lg) /\ Guarded(reqs2[o], lg, seen)
    BY <1>1, <1>4, <1>5 DEF Good
  <1>7. ASSUME NEW o \in Requests, NEW p \in Requests, reqs2[o].phase = "open", reqs2[p].phase = "open",
               reqs2[o].since <= reqs2[p].since
        PROVE  Between(lg, reqs2[o].view, reqs2[o].since, reqs2[p].view, reqs2[p].since)
    <2>0. reqs2[o].since \in Nat /\ reqs2[p].since \in Nat
      BY <1>2, RequestFields DEF RequestOK
    <2>1. CASE o # q /\ p # q
      BY <1>1, <1>7, <2>1 DEF Good
    <2>2. CASE o = q /\ p = q
      BY <1>1, <2>2, BetweenSame
    <2>3. CASE o # q /\ p = q
      BY <1>1, <1>6, <1>7, <2>3 DEF ViewOK
    <2>4. CASE o = q /\ p # q
      <3>1. ViewOK(reqs2[p], rows, lg) /\ reqs2[p].since = Len(lg)
        BY <1>1, <1>3, <1>6, <1>7, <2>0, <2>4 DEF ViewOK
      <3>2. Between(lg, reqs2[p].view, Len(lg), rows, Len(lg))
        BY <3>1 DEF ViewOK
      <3>3. Between(lg, rows, Len(lg), reqs2[p].view, Len(lg))
        BY <1>3, <3>2, BetweenNone
      <3> QED BY <1>1, <2>4, <3>1, <3>3
    <2> QED BY <2>1, <2>2, <2>3, <2>4
  <1> QED BY <1>1, <1>2, <1>6, <1>7 DEF Good

-----------------------------------------------------------------------------
(* What a tree assigns, whichever attempt it is. *)

LEMMA AssignPost ==
    ASSUME NEW tree, TreeFits(tree), NEW row \in Post
    PROVE  Assign(row, tree) \in Post
  <1>1. ASSUME NEW c \in Columns PROVE Assign(row, tree)[c] \in Nat
    <2>1. CASE HasColumn(tree, c)
      <3>1. PICK i \in DOMAIN tree.columns : tree.columns[i] = c
        BY <2>1 DEF HasColumn
      <3>2. i \in DOMAIN tree.values
        BY TreeFields DEF TreeFits
      <3>3. tree.values[i] \in Nat
        BY <3>2, TreeFields DEF TreeFits
      <3>4. Has(tree, c, tree.values[i])
        BY <3>1 DEF Has
      <3> QED BY <3>3, <3>4, AssignHas
    <2>2. CASE ~ HasColumn(tree, c)
      <3>1. Assign(row, tree)[c] = row[c]
        BY <2>2, AssignNot
      <3> QED BY <3>1, ColumnsOf
    <2> QED BY <2>1, <2>2
  <1>2. Assign(row, tree) = [c \in Columns |-> Assign(row, tree)[c]]
    BY DEF Assign
  <1> QED BY <1>1, <1>2 DEF Post

LEMMA BlankIs ==
    Blank \in Post /\ \A c \in Columns : Blank[c] = 0
  BY DEF Blank, Post

LEMMA ColumnNames ==
    /\ {"ref_id", "thread", "idx", "slug", "created", "locked", "name", "deleted"} \subseteq Columns
    /\ Omit \cap Columns = {"ref_id", "slug", "created"}
  BY DEF Columns, Omit

LEMMA NewTreeAdds ==
    ASSUME NEW tree, NewTree(tree), NEW c \in {"slug", "idx", "thread", "ref_id"}, NEW v \in Nat
    PROVE  /\ NewTree(SafeAdd(tree, c, v)) /\ Has(SafeAdd(tree, c, v), c, v)
           /\ \A d, w : d # c /\ Has(tree, d, w) => Has(SafeAdd(tree, c, v), d, w)
  <1>1. c \in Columns
    BY ColumnNames
  <1> QED BY <1>1, SafeAddFits DEF NewTree

LEMMA NewTreeInserted ==
    ASSUME NEW tree, NewTree(tree), NEW who \in Nat
    PROVE  /\ NewTree(ForInsert(tree, who)) /\ Has(ForInsert(tree, who), "ref_id", who)
           /\ \A d, w : d # "ref_id" /\ Has(tree, d, w) => Has(ForInsert(tree, who), d, w)
  BY NewTreeAdds DEF ForInsert

LEMMA NewTreeAssigns ==
    ASSUME NEW tree, NewTree(tree)
    PROVE  /\ Assign(Blank, tree) \in Post
           /\ Assign(Blank, tree).created = 1 /\ Assign(Blank, tree).locked = 0
           /\ Assign(Blank, tree).name = 0 /\ Assign(Blank, tree).deleted = 0
           /\ \A c \in Columns : \A v : Has(tree, c, v) => Assign(Blank, tree)[c] = v
  <1>1. Assign(Blank, tree) \in Post
    BY AssignPost, BlankIs DEF NewTree
  <1>2. \A c \in Columns : \A v : Has(tree, c, v) => Assign(Blank, tree)[c] = v
    BY AssignHas DEF NewTree
  <1>3. Assign(Blank, tree)["deleted"] = 0
    BY AssignNot, BlankIs, ColumnNames DEF NewTree
  <1> QED BY <1>1, <1>2, <1>3, ColumnNames DEF NewTree

LEMMA EditTreeUpdates ==
    ASSUME NEW tree, NEW locked, NEW name, EditTree(tree, locked, name), NEW who \in Nat
    PROVE  /\ EditTree(ForUpdate(tree, who), locked, name)
           /\ Len(ForUpdate(tree, who).values) = Len(ForUpdate(tree, who).columns) + 1
           /\ \A c \in Columns : HasColumn(ForUpdate(tree, who), c) => c \in {"locked", "name"}
  <1> DEFINE inserted == ForInsert(tree, who)
             kept == Kept(inserted)
             new == ForUpdate(tree, who)
  <1>1. EditTree(inserted, locked, name)
    BY SafeAddFits, ColumnNames DEF ForInsert, EditTree
  <1>2. "locked" \notin Omit /\ "name" \notin Omit
    BY DEF Omit
  <1>3. new = [kept EXCEPT !.values = Append(@, 1)]
    BY DEF ForUpdate
  <1> HIDE DEF inserted, new
  <1>4. EditTree(kept, locked, name) /\ Even(kept) /\ \A c \in Omit : ~ HasColumn(kept, c)
    BY <1>1, <1>2, KeptFits DEF EditTree
  <1> HIDE DEF kept
  <1>5. kept \in Tree
    BY <1>4 DEF EditTree, TreeFits
  <1>6. new.columns = kept.columns /\ new.values = Append(kept.values, 1) /\ new \in Tree
    <2>1. PICK columns \in Seq(Columns), values \in Seq(Nat) :
              kept = [columns |-> columns, values |-> values]
      BY <1>5 DEF Tree
    <2>2. new = [columns |-> columns, values |-> Append(values, 1)]
      BY <1>3, <2>1
    <2> QED BY <2>1, <2>2 DEF Tree
  <1>7. /\ Len(new.values) = Len(kept.values) + 1 /\ Len(new.columns) = Len(kept.columns)
        /\ DOMAIN new.columns = DOMAIN kept.columns
        /\ \A i \in DOMAIN kept.values : new.values[i] = kept.values[i]
    BY <1>5, <1>6, TreeFields, Appended, SMTT(30)
  <1>8. DOMAIN kept.columns \subseteq DOMAIN kept.values
    BY <1>4, <1>5, TreeFields DEF EditTree, TreeFits
  <1>9. \A c : HasColumn(new, c) <=> HasColumn(kept, c)
    BY <1>6 DEF HasColumn
  <1>10. \A c, v : Has(kept, c, v) => Has(new, c, v)
    BY <1>6, <1>7, <1>8 DEF Has
  <1>11. TreeFits(new)
    BY <1>4, <1>5, <1>6, <1>7, TreeFields DEF EditTree, TreeFits
  <1>12. EditTree(new, locked, name)
    BY <1>4, <1>9, <1>10, <1>11 DEF EditTree
  <1>13. Len(new.values) = Len(new.columns) + 1
    BY <1>4, <1>7 DEF Even
  <1>14. \A c \in Columns : HasColumn(new, c) => c \in {"locked", "name"}
    BY <1>4, <1>9 DEF EditTree, Columns, Omit
  <1> QED BY <1>12, <1>13, <1>14 DEF new

LEMMA EditTreeAssigns ==
    ASSUME NEW tree, NEW locked, NEW name, EditTree(tree, locked, name), NEW who \in Nat, NEW row
    PROVE  /\ Assign(row, ForUpdate(tree, who)).locked = locked
           /\ Assign(row, ForUpdate(tree, who)).name = name
           /\ \A c \in Columns \ {"locked", "name"} : Assign(row, ForUpdate(tree, who))[c] = row[c]
           /\ row \in Post => Assign(row, ForUpdate(tree, who)) \in Post
  <1> DEFINE new == ForUpdate(tree, who)
  <1>1. /\ EditTree(new, locked, name)
        /\ \A c \in Columns : HasColumn(new, c) => c \in {"locked", "name"}
    BY EditTreeUpdates
  <1> HIDE DEF new
  <1>2. TreeFits(new) /\ Has(new, "locked", locked) /\ Has(new, "name", name)
    BY <1>1 DEF EditTree
  <1>3. Assign(row, new)["locked"] = locked /\ Assign(row, new)["name"] = name
    BY <1>2, AssignHas, ColumnNames
  <1>4. ASSUME NEW c \in Columns \ {"locked", "name"} PROVE Assign(row, new)[c] = row[c]
    BY <1>1, <1>2, AssignNot
  <1>5. row \in Post => Assign(row, new) \in Post
    BY <1>2, AssignPost
  <1> QED BY <1>3, <1>4, <1>5 DEF new

-----------------------------------------------------------------------------
(* The requests that steps make of requests. *)

LEMMA FormTreeFits ==
    ASSUME NEW created \in 0..1, NEW locked \in 0..1, NEW name \in 0..1
    PROVE  LET tree == FormTree(created, locked, name)
           IN  /\ TreeFits(tree) /\ Even(tree)
               /\ Has(tree, "created", created) /\ Has(tree, "locked", locked) /\ Has(tree, "name", name)
               /\ \A c \in {"thread", "idx", "deleted"} : ~ HasColumn(tree, c)
  <1> DEFINE tree == FormTree(created, locked, name)
  <1>1. tree.columns = <<"slug", "created", "locked", "name">> /\ tree.values = <<0, created, locked, name>>
    BY DEF FormTree
  <1>2. tree.columns \in Seq(Columns) /\ tree.values \in Seq(Nat) /\ tree \in Tree
    BY ColumnNames DEF FormTree, Tree
  <1>3. /\ Len(tree.columns) = 4 /\ Len(tree.values) = 4 /\ DOMAIN tree.columns = 1..4
        /\ tree.columns[1] = "slug" /\ tree.columns[2] = "created"
        /\ tree.columns[3] = "locked" /\ tree.columns[4] = "name"
        /\ tree.values[2] = created /\ tree.values[3] = locked /\ tree.values[4] = name
    BY <1>1
  <1> HIDE DEF tree
  <1>4. DOMAIN tree.columns = {1, 2, 3, 4}
    BY <1>3
  <1>5. TreeFits(tree)
    BY <1>2, <1>3, <1>4 DEF TreeFits
  <1>6. Even(tree) /\ Has(tree, "created", created) /\ Has(tree, "locked", locked) /\ Has(tree, "name", name)
    BY <1>3, <1>4 DEF Even, Has
  <1>7. \A c \in {"thread", "idx", "deleted"} : ~ HasColumn(tree, c)
    BY <1>3, <1>4 DEF HasColumn
  <1> QED BY <1>5, <1>6, <1>7 DEF tree

LEMMA NumbersAssumed ==
    /\ {MaxPosts, MaxRequests, InProgress, MaxLog, TxTries, Connections} \subseteq Nat \ {0}
    /\ Personas \subseteq Nat \ {0} /\ Admins \subseteq Personas /\ Personas # {}
  BY ThreadsAssumption

LEMMA IdleOK ==
    /\ Idle \in Request /\ Idle.phase = "idle" /\ Idle.form.locked = 0 /\ Idle.form.name = 0
    /\ Idle.tree = FormTree(0, 0, 0) /\ Idle.attempt = 1 /\ Idle.view = <<>> /\ Idle.since = 0
    /\ Idle.who \in Personas
    /\ \A rows : RequestOK(Idle, rows)
  <1>1. Idle.who \in Personas
    BY NumbersAssumed DEF Idle
  <1>2. Idle.tree \in Tree
    BY FormTreeFits DEF Idle, TreeFits
  <1>3. Idle \in Request
    BY <1>1, <1>2, NumbersAssumed DEF Idle, Request, Ops
  <1>4. Idle.phase = "idle" /\ Idle.form.locked = 0 /\ Idle.form.name = 0
        /\ Idle.tree = FormTree(0, 0, 0) /\ Idle.attempt = 1 /\ Idle.view = <<>> /\ Idle.since = 0
    BY DEF Idle
  <1> QED BY <1>1, <1>3, <1>4 DEF RequestOK

LEMMA ReadOK ==
    ASSUME NEW rows, Len(rows) \in Nat, Len(rows) <= MaxPosts, DOMAIN rows = 1..Len(rows),
           NEW t \in DOMAIN rows
    PROVE  LET r == [Idle EXCEPT !.phase = "trying", !.op = "read", !.target = t]
           IN  RequestOK(r, rows) /\ r.phase = "trying"
  <1> DEFINE r == [Idle EXCEPT !.phase = "trying", !.op = "read", !.target = t]
  <1>1. t \in 0..MaxPosts
    BY NumbersAssumed
  <1>2. r \in Request
    BY <1>1, IdleOK DEF Request, Ops
  <1>3. r.phase = "trying" /\ r.op = "read" /\ r.target = t /\ r.form = Idle.form /\ r.tree = Idle.tree
    BY IdleOK DEF Request
  <1>4. TreeFits(Idle.tree)
    BY IdleOK, FormTreeFits
  <1> HIDE DEF r
  <1>5. TreeOK(r)
    BY <1>3, <1>4 DEF TreeOK
  <1>6. RequestOK(r, rows)
    BY <1>2, <1>3, <1>5, IdleOK DEF RequestOK
  <1> QED BY <1>3, <1>6 DEF r

(* What a form may be, when a request arrives. *)
FormOK(rows, op, who, target, locked, name) ==
    /\ op \in Ops /\ who \in Personas /\ target \in {0} \cup DOMAIN rows
    /\ op = "thread" <=> target = 0
    /\ locked \in 0..1 /\ name \in 0..1
    /\ locked + name = IF op = "edit" /\ IsRoot(rows, target) THEN 1 ELSE 0

LEMMA ArriveOK ==
    ASSUME NEW rows, Len(rows) \in Nat, Len(rows) <= MaxPosts, DOMAIN rows = 1..Len(rows),
           NEW op, NEW who, NEW target, NEW locked, NEW name, FormOK(rows, op, who, target, locked, name)
    PROVE  LET tree == FormTree(IF op \in {"thread", "reply"} THEN 1 ELSE 0, locked, name)
               r == [Idle EXCEPT !.phase = "trying", !.op = op, !.who = who, !.target = target,
                         !.form = [locked |-> locked, name |-> name],
                         !.tree = IF op = "thread" THEN SafeAdd(tree, "idx", 1) ELSE tree]
           IN  RequestOK(r, rows) /\ r.phase # "open"
  <1> DEFINE created == IF op \in {"thread", "reply"} THEN 1 ELSE 0
             tree == FormTree(created, locked, name)
             all == IF op = "thread" THEN SafeAdd(tree, "idx", 1) ELSE tree
             form == [locked |-> locked, name |-> name]
             r == [Idle EXCEPT !.phase = "trying", !.op = op, !.who = who, !.target = target,
                       !.form = form, !.tree = all]
  <1>1. /\ target \in 0..MaxPosts /\ op \in Ops /\ who \in Personas
        /\ form \in [locked : 0..1, name : 0..1] /\ form.locked = locked /\ form.name = name
    BY NumbersAssumed DEF FormOK
  <1>2. /\ TreeFits(tree) /\ Even(tree)
        /\ Has(tree, "created", created) /\ Has(tree, "locked", locked) /\ Has(tree, "name", name)
        /\ \A c \in {"thread", "idx", "deleted"} : ~ HasColumn(tree, c)
    <2>1. created \in 0..1 /\ locked \in 0..1 /\ name \in 0..1
      BY DEF FormOK
    <2> HIDE DEF created
    <2> QED BY <2>1, FormTreeFits
  <1>3. op \in {"thread", "reply"} => locked = 0 /\ name = 0 /\ created = 1
    BY DEF FormOK
  <1> HIDE DEF tree, created
  <1>4. op \in {"thread", "reply"} => NewTree(tree)
    BY <1>2, <1>3 DEF NewTree
  <1>5. TreeFits(all) /\ (op \in {"thread", "reply"} => NewTree(all)) /\ (op = "thread" => Has(all, "idx", 1))
    <2>1. CASE op = "thread"
      BY <1>4, <2>1, NewTreeAdds DEF NewTree
    <2>2. CASE op # "thread"
      BY <1>2, <1>4, <2>2
    <2> QED BY <2>1, <2>2
  <1>6. op = "edit" => EditTree(all, locked, name)
    BY <1>2 DEF EditTree
  <1> HIDE DEF all, form
  <1>7. r \in Request
    <2>1. all \in Tree
      BY <1>5 DEF TreeFits
    <2> QED BY <1>1, <2>1, IdleOK DEF Request
  <1>8. /\ r.phase = "trying" /\ r.op = op /\ r.who = who /\ r.target = target
        /\ r.form = form /\ r.tree = all
    BY IdleOK DEF Request
  <1> HIDE DEF r
  <1>9. TreeOK(r)
    BY <1>1, <1>5, <1>6, <1>8 DEF TreeOK
  <1>10. RequestOK(r, rows) /\ r.phase # "open"
    BY <1>1, <1>7, <1>8, <1>9 DEF RequestOK, FormOK
  <1> QED BY <1>10 DEF r, all, tree, created, form

LEMMA BeginOK ==
    ASSUME NEW r, NEW rows \in Seq(Post), RequestOK(r, rows), r.phase = "trying", NEW i \in 0..MaxLog
    PROVE  LET new == [r EXCEPT !.phase = "open", !.since = i, !.view = rows,
                           !.tree = IF r.op \in {"thread", "reply"} THEN AddSlug(@) ELSE @]
           IN  /\ RequestOK(new, rows)
               /\ new.since = i /\ new.view = rows /\ new.phase = "open"
               /\ new.op = "thread" \/ new.target \in DOMAIN rows
  <1> DEFINE tree == IF r.op \in {"thread", "reply"} THEN AddSlug(r.tree) ELSE r.tree
             new == [r EXCEPT !.phase = "open", !.since = i, !.view = rows, !.tree = tree]
  <1>1. r \in Request /\ TreeOK(r) /\ i \in 0..(MaxLog + 1)
    BY NumbersAssumed DEF RequestOK
  <1>2. /\ TreeFits(tree)
        /\ r.op \in {"thread", "reply"} => NewTree(tree) /\ Has(tree, "slug", 1)
        /\ r.op = "thread" => Has(tree, "idx", 1)
        /\ r.op = "edit" => EditTree(tree, r.form.locked, r.form.name)
    <2>1. CASE r.op \in {"thread", "reply"}
      BY <1>1, <2>1, NewTreeAdds DEF TreeOK, AddSlug, NewTree
    <2>2. CASE r.op \notin {"thread", "reply"}
      BY <1>1, <2>2 DEF TreeOK
    <2> QED BY <2>1, <2>2
  <1> HIDE DEF tree
  <1>3. new \in Request
    <2>1. tree \in Tree
      BY <1>2 DEF TreeFits
    <2> QED BY <1>1, <2>1 DEF Request
  <1>4. /\ new.phase = "open" /\ new.op = r.op /\ new.who = r.who /\ new.target = r.target
        /\ new.form = r.form /\ new.tree = tree /\ new.since = i /\ new.view = rows
    BY <1>1 DEF Request
  <1> HIDE DEF new
  <1>5. TreeOK(new)
    BY <1>2, <1>4 DEF TreeOK
  <1>6. RequestOK(new, rows) /\ (new.op = "thread" \/ new.target \in DOMAIN rows)
    BY <1>3, <1>4, <1>5 DEF RequestOK
  <1> QED BY <1>4, <1>6 DEF new, tree

LEMMA RetryOK ==
    ASSUME NEW r, NEW rows, RequestOK(r, rows), r.phase = "open", r.attempt < TxTries, NEW tree,
           TreeFits(tree), r.op \in {"thread", "reply"} => NewTree(tree),
           r.op = "thread" => Has(tree, "idx", 1),
           r.op = "edit" => EditTree(tree, r.form.locked, r.form.name)
    PROVE  LET new == [r EXCEPT !.phase = "trying", !.attempt = @ + 1, !.tree = tree,
                           !.since = 0, !.view = <<>>]
           IN  RequestOK(new, rows) /\ new.phase # "open"
  <1> DEFINE new == [r EXCEPT !.phase = "trying", !.attempt = @ + 1, !.tree = tree,
                         !.since = 0, !.view = <<>>]
  <1>1. r \in Request /\ tree \in Tree /\ r.attempt + 1 \in 1..TxTries /\ 0 \in 0..(MaxLog + 1)
    BY NumbersAssumed, RequestFields DEF RequestOK, TreeFits
  <1>2. new \in Request
    <2>1. <<>> \in Seq(Post)
      OBVIOUS
    <2>2. PICK n \in 1..TxTries, none \in Seq(Post) : n = r.attempt + 1 /\ none = <<>>
      BY <1>1, <2>1
    <2>3. new = [r EXCEPT !.phase = "trying", !.attempt = n, !.tree = tree, !.since = 0, !.view = none]
      BY <2>2
    <2> HIDE DEF new
    <2> QED BY <1>1, <2>3 DEF Request
  <1>3. /\ new.phase = "trying" /\ new.op = r.op /\ new.who = r.who /\ new.target = r.target
        /\ new.form = r.form /\ new.tree = tree
    BY <1>1 DEF Request
  <1> HIDE DEF new
  <1>4. TreeOK(new)
    BY <1>3 DEF TreeOK
  <1>5. RequestOK(new, rows) /\ new.phase # "open"
    BY <1>2, <1>3, <1>4 DEF RequestOK
  <1> QED BY <1>5 DEF new

-----------------------------------------------------------------------------
(* What an open transaction knows of the rows as they are now. *)

LEMMA RowFacts ==
    ASSUME NEW rows, RowsOK(rows)
    PROVE  /\ rows \in Seq(Post) /\ Len(rows) \in Nat /\ DOMAIN rows = 1..Len(rows)
           /\ \A p \in DOMAIN rows : /\ rows[p] \in Post /\ p \in Nat /\ RowOK(rows, p)
                                     /\ Root(rows, p) \in DOMAIN rows /\ Root(rows, p) = rows[p].thread
           /\ \A t : InThread(rows, t) \subseteq DOMAIN rows
  BY ThreadFinite DEF RowsOK, RowOK, Root

LEMMA OpenFacts ==
    ASSUME Good(post, log, request, seenLocked), NEW q \in Requests, request[q].phase = "open"
    PROVE  /\ request[q] \in Request /\ RequestOK(request[q], post) /\ TreeOK(request[q])
           /\ RowsOK(post) /\ RowsOK(Seen(q)) /\ Len(post) <= MaxPosts
           /\ LogOK(log) /\ Len(log) \in Nat /\ DOMAIN log = 1..Len(log)
           /\ request[q].since \in Nat /\ request[q].since <= Len(log)
           /\ Between(log, Seen(q), request[q].since, post, Len(log))
           /\ Guarded(request[q], log, seenLocked)
           /\ DOMAIN Seen(q) \subseteq DOMAIN post
           /\ request[q].op # "thread" => request[q].target \in DOMAIN Seen(q)
           /\ \A p \in DOMAIN Seen(q) : /\ post[p].thread = Seen(q)[p].thread
                                        /\ Root(post, p) = Root(Seen(q), p)
                                        /\ IsRoot(post, p) <=> IsRoot(Seen(q), p)
                                        /\ post[p].ref_id = Seen(q)[p].ref_id
  <1>1. /\ RequestOK(request[q], post) /\ ViewOK(request[q], post, log)
        /\ Guarded(request[q], log, seenLocked)
        /\ RowsOK(post) /\ Len(post) <= MaxPosts /\ LogOK(log)
    BY DEF Good
  <1>2. request[q] \in Request /\ TreeOK(request[q])
    BY <1>1 DEF RequestOK
  <1>3. Len(log) \in Nat /\ DOMAIN log = 1..Len(log)
    BY <1>1 DEF LogOK
  <1>4. request[q].since \in Nat
    BY <1>2, RequestFields
  <1>5. /\ RowsOK(Seen(q)) /\ request[q].since <= Len(log)
        /\ Between(log, Seen(q), request[q].since, post, Len(log))
        /\ request[q].op # "thread" => request[q].target \in DOMAIN Seen(q)
    BY <1>1 DEF ViewOK, Seen
  <1>6. /\ DOMAIN Seen(q) \subseteq DOMAIN post
        /\ \A p \in DOMAIN Seen(q) : post[p].thread = Seen(q)[p].thread /\ post[p].ref_id = Seen(q)[p].ref_id
    BY <1>5 DEF Between
  <1>7. \A p \in DOMAIN Seen(q) : Root(post, p) = Root(Seen(q), p) /\ (IsRoot(post, p) <=> IsRoot(Seen(q), p))
    BY <1>6 DEF Root, IsRoot
  <1> QED BY <1>1, <1>2, <1>3, <1>4, <1>5, <1>6, <1>7

LEMMA MeOK ==
    ASSUME Good(post, log, request, seenLocked), NEW q \in Requests, request[q].phase = "open"
    PROVE  /\ Me(q) \in Entries /\ Me(q).since = request[q].since /\ Me(q).since <= Len(log)
           /\ Me(q).reads = Reads(q) /\ Me(q).writes = Writes(q)
           /\ LET lg == Append(log, Me(q))
                  n == Len(log) + 1
              IN  /\ LogOK(lg) /\ Len(lg) = n /\ DOMAIN lg = DOMAIN log \cup {n} /\ lg[n] = Me(q)
                  /\ n \notin DOMAIN log /\ \A j \in DOMAIN log : lg[j] = log[j]
  <1>1. /\ RowsOK(post) /\ RowsOK(Seen(q)) /\ LogOK(log) /\ Len(log) \in Nat /\ DOMAIN log = 1..Len(log)
        /\ request[q].since \in Nat /\ request[q].since <= Len(log)
        /\ request[q].target \in Nat
        /\ request[q].op # "thread" => request[q].target \in DOMAIN Seen(q)
    BY OpenFacts, RequestFields
  <1>2. New \in Nat
    BY <1>1, RowFacts DEF New
  <1>3. Reads(q) \in SUBSET Items
    <2>1. CASE request[q].op = "thread"
      BY <2>1 DEF Reads
    <2>2. CASE request[q].op # "thread"
      <3>1. /\ Root(Seen(q), request[q].target) \in Nat
            /\ InThread(Seen(q), request[q].target) \subseteq Nat
        BY <1>1, <2>2, RowFacts
      <3> QED BY <1>1, <2>2, <3>1 DEF Reads, Items
    <2> QED BY <2>1, <2>2
  <1>4. Writes(q) \in SUBSET Items
    BY <1>1, <1>2 DEF Writes, Items
  <1>5. /\ Me(q) \in Entries /\ Me(q).since = request[q].since
        /\ Me(q).reads = Reads(q) /\ Me(q).writes = Writes(q)
    BY <1>1, <1>3, <1>4 DEF Me, Entry, Entries
  <1>6. Len(log) + 1 \notin DOMAIN log
    BY <1>1
  <1> QED BY <1>1, <1>5, <1>6, LogAppended

LEMMA LogSince ==
    ASSUME NEW lg, LogOK(lg), NEW j \in DOMAIN lg
    PROVE  lg[j].since \in Nat /\ lg[j].since < j /\ j \in Nat /\ j <= Len(lg)
  <1>1. lg[j] \in Entries
    BY DEF LogOK
  <1>2. lg[j].since \in Nat
    BY <1>1 DEF Entries
  <1> QED BY <1>2 DEF LogOK

LEMMA Cycle ==
    ASSUME NEW lg, NEW S \in SUBSET DOMAIN lg, S # {},
           \A i \in S : \E j \in S : Precedes(lg, j, i)
    PROVE  ~ IsSerializable(lg)
  BY DEF IsSerializable

(* A reply that commits has seen all posts of its thread: one that had     *)
(* come since would precede it and follow it.                              *)
LEMMA ReplySeesAll ==
    ASSUME Good(post, log, request, seenLocked), NEW q \in Requests, MayReply(q), MayCommit(q)
    PROVE  InThread(Seen(q), request[q].target) = InThread(post, request[q].target)
  <1> DEFINE t == request[q].target
             n == Len(log) + 1
             lg == Append(log, Me(q))
  <1>0. request[q].phase = "open" /\ request[q].op = "reply" /\ IsRoot(Seen(q), t)
    BY DEF MayReply, Open
  <1>1. /\ RowsOK(post) /\ RowsOK(Seen(q)) /\ t \in DOMAIN Seen(q) /\ DOMAIN Seen(q) \subseteq DOMAIN post
        /\ Between(log, Seen(q), request[q].since, post, Len(log))
        /\ LogOK(log) /\ Len(log) \in Nat /\ DOMAIN log = 1..Len(log) /\ request[q].since \in Nat
        /\ \A p \in DOMAIN Seen(q) : post[p].thread = Seen(q)[p].thread
    BY <1>0, OpenFacts
  <1>2. /\ DOMAIN lg = DOMAIN log \cup {n} /\ lg[n] = Me(q) /\ n \notin DOMAIN log
        /\ \A j \in DOMAIN log : lg[j] = log[j]
        /\ Me(q).since = request[q].since /\ Me(q).reads = Reads(q) /\ Me(q).writes = Writes(q)
    BY <1>0, MeOK
  <1>3. <<"thread", t>> \in Reads(q) /\ <<"thread", t>> \in Writes(q)
    BY <1>0 DEF Reads, Writes
  <1>4. IsSerializable(lg)
    BY DEF MayCommit
  <1> HIDE DEF lg
  <1>5. ASSUME NEW p \in InThread(post, t), p \notin DOMAIN Seen(q) PROVE FALSE
    <2>1. p \in DOMAIN post /\ post[p].thread = t /\ t # p
      BY <1>1, <1>5 DEF InThread
    <2>2. PICK j \in DOMAIN log : /\ request[q].since < j /\ j <= Len(log)
                                  /\ <<"thread", t>> \in log[j].reads
                                  /\ <<"thread", t>> \in log[j].writes
      BY <1>1, <1>5, <2>1 DEF Between
    <2>3. Overtakes(lg, n, j)
      BY <1>2, <1>3, <2>2 DEF Overtakes, Overlap
    <2>4. log[j].since < n
      <3>1. log[j].since < j /\ log[j].since \in Nat /\ j \in Nat
        BY <1>1, LogSince
      <3> QED BY <1>1, <2>2, <3>1
    <2>5. Overtakes(lg, j, n)
      BY <1>2, <1>3, <2>2, <2>4 DEF Overtakes, Overlap
    <2>6. Precedes(lg, n, j) /\ Precedes(lg, j, n)
      BY <1>2, <2>3, <2>5 DEF Precedes
    <2>7. {j, n} \in SUBSET DOMAIN lg /\ {j, n} # {}
      BY <1>2
    <2> QED BY <1>4, <2>6, <2>7, Cycle
  <1> QED BY <1>1, <1>5 DEF InThread

(* What commits and changes a thread whose lock somebody has read has seen *)
(* the lock.                                                               *)
LEMMA LockSeen ==
    ASSUME Good(post, log, request, seenLocked), NEW q \in Requests, request[q].phase = "open", MayCommit(q),
           \/ request[q].op = "reply" /\ IsRoot(Seen(q), request[q].target)
           \/ request[q].op \in {"edit", "delete"},
           Root(Seen(q), request[q].target) \in seenLocked
    PROVE  Locked(q)
  <1> DEFINE p == request[q].target
             t == Root(Seen(q), p)
             n == Len(log) + 1
             lg == Append(log, Me(q))
  <1> SUFFICES ASSUME ~ Locked(q) PROVE FALSE
    OBVIOUS
  <1>1. /\ RowsOK(Seen(q)) /\ p \in DOMAIN Seen(q)
        /\ LogOK(log) /\ Len(log) \in Nat /\ DOMAIN log = 1..Len(log) /\ request[q].since \in Nat
        /\ Guarded(request[q], log, seenLocked)
    BY OpenFacts
  <1>2. /\ DOMAIN lg = DOMAIN log \cup {n} /\ lg[n] = Me(q) /\ n \notin DOMAIN log
        /\ \A j \in DOMAIN log : lg[j] = log[j]
        /\ Me(q).since = request[q].since /\ Me(q).reads = Reads(q) /\ Me(q).writes = Writes(q)
    BY MeOK
  <1>3. IsSerializable(lg)
    BY DEF MayCommit
  <1>4. PICK j, k \in DOMAIN log :
            /\ request[q].since < j /\ j <= log[k].since /\ <<"row", t>> \in log[j].writes
            /\ {<<"row", t>>, <<"thread", t>>, <<"row", p>>} \subseteq log[k].reads
    BY <1>1 DEF Guarded, Locked, Seen
  <1>5. /\ <<"row", t>> \in Reads(q)
        /\ \E item \in {<<"thread", t>>, <<"row", p>>} : item \in Writes(q)
    <2>1. CASE request[q].op = "reply" /\ IsRoot(Seen(q), p)
      <3>1. t = p /\ p \in InThread(Seen(q), p)
        BY <1>1, <2>1 DEF IsRoot, Root, InThread
      <3> QED BY <2>1, <3>1 DEF Reads, Writes
    <2>2. CASE request[q].op \in {"edit", "delete"}
      BY <2>2 DEF Reads, Writes
    <2> QED BY <2>1, <2>2
  <1> HIDE DEF lg, t
  <1>6. /\ log[k].since < k /\ log[k].since < n /\ j # k /\ j # n /\ k # n
    <2>1. log[k].since < k /\ log[k].since \in Nat /\ j \in Nat /\ k \in Nat /\ k <= Len(log)
      BY <1>1, LogSince
    <2> QED BY <1>1, <1>2, <1>4, <2>1
  <1>7. Overtakes(lg, n, j)
    BY <1>2, <1>4, <1>5 DEF Overtakes, Overlap
  <1>8. Follows(lg, j, k)
    BY <1>2, <1>4 DEF Follows, Overlap
  <1>9. Overtakes(lg, k, n)
    BY <1>2, <1>4, <1>5, <1>6 DEF Overtakes, Overlap
  <1>10. Precedes(lg, n, j) /\ Precedes(lg, j, k) /\ Precedes(lg, k, n)
    BY <1>6, <1>7, <1>8, <1>9 DEF Precedes
  <1>11. {j, k, n} \in SUBSET DOMAIN lg /\ {j, k, n} # {}
    BY <1>2
  <1>12. \A i \in {j, k, n} : \E o \in {j, k, n} : Precedes(lg, o, i)
    BY <1>10
  <1> QED BY <1>3, <1>11, <1>12, Cycle

-----------------------------------------------------------------------------
(* What the transactions that commit do to the rows. *)

IsNewPost(row, who, t, i) ==
    /\ row \in Post /\ row.ref_id = who /\ row.thread = t /\ row.idx = i
    /\ row.locked = 0 /\ row.name = 0 /\ row.deleted = 0

(* A change of row p, by somebody who may make it. *)
IsChange(p, row, who) ==
    /\ p \in DOMAIN post
    /\ row \in Post
    /\ row.thread = post[p].thread /\ row.idx = post[p].idx /\ row.ref_id = post[p].ref_id
    /\ row.locked \in 0..1 /\ row.name \in 0..1 /\ row.deleted \in 0..1
    /\ post[p].deleted = 1 => row.deleted = 1
    /\ ~ IsRoot(post, p) => row.locked = 0
    /\ who = post[p].ref_id \/ who \in Admins
    /\ post[p].locked = 1 /\ row.locked = 0 => who \in Admins
    /\ Root(post, p) \in seenLocked => who \in Admins

LEMMA ThreadStarts ==
    ASSUME Good(post, log, request, seenLocked), NEW q \in Requests, CommitThread(q)
    PROVE  \E row : post' = Append(post, row) /\ IsNewPost(row, request[q].who, New, 1)
  <1> DEFINE tree == ForInsert(request[q].tree, request[q].who)
             assigned == Assign(Blank, tree)
             row == [assigned EXCEPT !.thread = New]
  <1>1. request[q].phase = "open" /\ request[q].op = "thread" /\ post' = Append(post, row)
    BY DEF CommitThread, Open
  <1>2. /\ request[q].who \in Personas /\ request[q].who \in Nat
        /\ NewTree(request[q].tree) /\ Has(request[q].tree, "idx", 1)
    BY <1>1, OpenFacts, RequestFields, NumbersAssumed DEF TreeOK
  <1>3. NewTree(tree) /\ Has(tree, "ref_id", request[q].who) /\ Has(tree, "idx", 1)
    BY <1>2, NewTreeInserted
  <1> HIDE DEF tree
  <1>4. /\ assigned \in Post /\ assigned["ref_id"] = request[q].who /\ assigned["idx"] = 1
        /\ assigned.locked = 0 /\ assigned.name = 0 /\ assigned.deleted = 0
    BY <1>3, NewTreeAssigns, ColumnNames
  <1> HIDE DEF assigned
  <1>5. New \in Nat
    BY <1>1, OpenFacts, RowFacts DEF New
  <1>6. IsNewPost(row, request[q].who, New, 1)
    BY <1>4, <1>5 DEF IsNewPost, Post, Columns
  <1> QED BY <1>1, <1>6

(* The tree of a reply, once it has its thread and number. *)
LEMMA ReplyTreeIs ==
    ASSUME Good(post, log, request, seenLocked), NEW q \in Requests, MayReply(q)
    PROVE  LET t == request[q].target
               tree == ForInsert(ReplyTree(q), request[q].who)
           IN  /\ NewTree(tree)
               /\ Has(tree, "ref_id", request[q].who) /\ Has(tree, "thread", t)
               /\ Has(tree, "idx", LastIdx(Seen(q), t) + 1) /\ Has(tree, "slug", 1)
               /\ LastIdx(Seen(q), t) = Cardinality(InThread(Seen(q), t)) /\ LastIdx(Seen(q), t) \in Nat
  <1> DEFINE t == request[q].target
             who == request[q].who
             i == LastIdx(Seen(q), t) + 1
             first == SafeAdd(request[q].tree, "thread", t)
             tree == SafeAdd(first, "idx", i)
  <1>1. request[q].phase = "open" /\ request[q].op = "reply" /\ IsRoot(Seen(q), t)
    BY DEF MayReply, Open
  <1>2. /\ who \in Nat /\ t \in Nat /\ t \in DOMAIN Seen(q) /\ RowsOK(Seen(q))
        /\ NewTree(request[q].tree) /\ Has(request[q].tree, "slug", 1)
    BY <1>1, OpenFacts, RequestFields, NumbersAssumed DEF TreeOK
  <1>3. LastIdx(Seen(q), t) = Cardinality(InThread(Seen(q), t)) /\ LastIdx(Seen(q), t) \in Nat
    BY <1>1, <1>2, LastOf
  <1>4. i \in Nat
    BY <1>3
  <1>5. NewTree(first) /\ Has(first, "thread", t) /\ Has(first, "slug", 1)
    BY <1>2, NewTreeAdds
  <1> HIDE DEF first, i
  <1>6. NewTree(tree) /\ Has(tree, "idx", i) /\ Has(tree, "thread", t) /\ Has(tree, "slug", 1)
    BY <1>4, <1>5, NewTreeAdds
  <1>7. tree = ReplyTree(q)
    BY DEF ReplyTree, first, i
  <1> HIDE DEF tree
  <1>8. /\ NewTree(ForInsert(tree, who)) /\ Has(ForInsert(tree, who), "ref_id", who)
        /\ Has(ForInsert(tree, who), "idx", i) /\ Has(ForInsert(tree, who), "thread", t)
        /\ Has(ForInsert(tree, who), "slug", 1)
    BY <1>2, <1>6, NewTreeInserted
  <1> QED BY <1>3, <1>7, <1>8 DEF i

LEMMA ReplyComes ==
    ASSUME Good(post, log, request, seenLocked), NEW q \in Requests, CommitReply(q)
    PROVE  LET t == request[q].target
           IN  /\ t \in DOMAIN post /\ IsRoot(post, t)
               /\ t \in seenLocked => request[q].who \in Admins
               /\ \E row : /\ post' = Append(post, row)
                           /\ IsNewPost(row, request[q].who, t, Cardinality(InThread(post, t)) + 1)
  <1> DEFINE t == request[q].target
             tree == ForInsert(ReplyTree(q), request[q].who)
             row == Assign(Blank, tree)
  <1>1. /\ MayReply(q) /\ MayCommit(q) /\ post' = Append(post, row)
        /\ request[q].phase = "open" /\ request[q].op = "reply" /\ IsRoot(Seen(q), t)
        /\ ~ Locked(q) \/ IsAdmin(q)
    BY DEF CommitReply, MayReply, Open
  <1>2. t \in DOMAIN post /\ IsRoot(post, t)
    BY <1>1, OpenFacts
  <1>3. t \in seenLocked => request[q].who \in Admins
    <2>1. Root(Seen(q), t) = t
      BY <1>1 DEF IsRoot, Root
    <2> QED BY <1>1, <2>1, LockSeen DEF IsAdmin
  <1>4. InThread(Seen(q), t) = InThread(post, t)
    BY <1>1, ReplySeesAll
  <1>5. /\ NewTree(tree) /\ Has(tree, "ref_id", request[q].who) /\ Has(tree, "thread", t)
        /\ Has(tree, "idx", Cardinality(InThread(post, t)) + 1)
    BY <1>1, <1>4, ReplyTreeIs
  <1> HIDE DEF tree
  <1>6. /\ row \in Post /\ row["ref_id"] = request[q].who /\ row["thread"] = t
        /\ row["idx"] = Cardinality(InThread(post, t)) + 1
        /\ row.locked = 0 /\ row.name = 0 /\ row.deleted = 0
    BY <1>5, NewTreeAssigns, ColumnNames
  <1> HIDE DEF row
  <1>7. IsNewPost(row, request[q].who, t, Cardinality(InThread(post, t)) + 1)
    BY <1>6 DEF IsNewPost
  <1> QED BY <1>1, <1>2, <1>3, <1>7

(* A row that nobody has changed since the transaction began is locked if  *)
(* and only if the transaction has seen it locked.                         *)
LEMMA LockUnchanged ==
    ASSUME Good(post, log, request, seenLocked), NEW q \in Requests, request[q].phase = "open",
           NEW p \in DOMAIN Seen(q), ~ ChangedSince(log, request[q].since, {<<"row", p>>})
    PROVE  post[p].locked = Seen(q)[p].locked
  <1>1. /\ Between(log, Seen(q), request[q].since, post, Len(log))
        /\ DOMAIN log = 1..Len(log) /\ Len(log) \in Nat /\ request[q].since \in Nat
    BY OpenFacts
  <1>2. ASSUME NEW j \in DOMAIN log, request[q].since < j, <<"row", p>> \in log[j].writes
        PROVE  FALSE
    <2>1. j \in (request[q].since + 1)..Len(log)
      BY <1>1, <1>2
    <2>2. Overlap(log[j].writes, {<<"row", p>>})
      BY <1>2 DEF Overlap
    <2> QED BY <2>1, <2>2 DEF ChangedSince
  <1> QED BY <1>1, <1>2 DEF Between

LEMMA EditChanges ==
    ASSUME Good(post, log, request, seenLocked), NEW q \in Requests, CommitEdit(q)
    PROVE  \E row : /\ post' = [post EXCEPT ![request[q].target] = row]
                    /\ IsChange(request[q].target, row, request[q].who)
  <1> DEFINE p == request[q].target
             who == request[q].who
             form == request[q].form
             tree == ForUpdate(request[q].tree, who)
             row == Assign(post[p], tree)
  <1>1. /\ request[q].phase = "open" /\ request[q].op = "edit" /\ MayCommit(q)
        /\ Owns(q) /\ (~ Locked(q) \/ IsAdmin(q))
        /\ ~ ChangedSince(log, request[q].since, {<<"row", p>>})
        /\ post' = [post EXCEPT ![p] = row]
    BY DEF CommitEdit, MayChange, Open, ConcurrentUpdate
  <1>2. /\ RequestOK(request[q], post) /\ TreeOK(request[q]) /\ request[q] \in Request
        /\ RowsOK(post) /\ p \in DOMAIN Seen(q) /\ p \in DOMAIN post
        /\ Root(post, p) = Root(Seen(q), p) /\ (IsRoot(post, p) <=> IsRoot(Seen(q), p))
        /\ post[p].ref_id = Seen(q)[p].ref_id
    BY <1>1, OpenFacts
  <1>3. /\ who \in Nat /\ form.locked \in 0..1 /\ form.name \in 0..1
    BY <1>2, RequestFields, NumbersAssumed
  <1>4. form.locked + form.name = IF IsRoot(post, p) THEN 1 ELSE 0
    BY <1>1, <1>2 DEF RequestOK
  <1>5. post[p] \in Post /\ RowOK(post, p)
    BY <1>2, RowFacts
  <1>6. EditTree(request[q].tree, form.locked, form.name)
    BY <1>1, <1>2 DEF TreeOK
  <1>7. /\ row.locked = form.locked /\ row.name = form.name
        /\ \A c \in Columns \ {"locked", "name"} : row[c] = post[p][c]
        /\ row \in Post
    BY <1>3, <1>5, <1>6, EditTreeAssigns
  <1> HIDE DEF tree, row
  <1>8. /\ row["thread"] = post[p]["thread"] /\ row["idx"] = post[p]["idx"]
        /\ row["ref_id"] = post[p]["ref_id"] /\ row["deleted"] = post[p]["deleted"]
    BY <1>7, ColumnNames
  <1>9. who = post[p].ref_id \/ who \in Admins
    BY <1>1, <1>2 DEF Owns, IsAdmin
  <1>10. ~ IsRoot(post, p) => row.locked = 0
    BY <1>3, <1>4, <1>7
  <1>11. ASSUME post[p].locked = 1, row.locked = 0 PROVE who \in Admins
    <2>1. IsRoot(Seen(q), p)
      BY <1>2, <1>5, <1>11 DEF RowOK
    <2>2. Seen(q)[p].locked = 1
      BY <1>1, <1>2, <1>11, LockUnchanged
    <2>3. Locked(q)
      BY <2>1, <2>2 DEF Locked, IsLocked, Root, IsRoot
    <2> QED BY <1>1, <2>3 DEF IsAdmin
  <1>12. Root(post, p) \in seenLocked => who \in Admins
    BY <1>1, <1>2, LockSeen DEF IsAdmin
  <1>13. IsChange(p, row, who)
    BY <1>2, <1>3, <1>5, <1>7, <1>8, <1>9, <1>10, <1>11, <1>12 DEF IsChange, RowOK
  <1> QED BY <1>1, <1>13

LEMMA DeleteChanges ==
    ASSUME Good(post, log, request, seenLocked), NEW q \in Requests, CommitDelete(q)
    PROVE  \E row : /\ post' = [post EXCEPT ![request[q].target] = row]
                    /\ IsChange(request[q].target, row, request[q].who)
                    /\ row.locked = post[request[q].target].locked
  <1> DEFINE p == request[q].target
             who == request[q].who
             row == [post[p] EXCEPT !.deleted = 1]
  <1>1. /\ request[q].phase = "open" /\ request[q].op = "delete" /\ MayCommit(q)
        /\ Owns(q) /\ (~ Locked(q) \/ IsAdmin(q))
        /\ post' = [post EXCEPT ![p] = row]
    BY DEF CommitDelete, MayChange, Open
  <1>2. /\ RowsOK(post) /\ p \in DOMAIN Seen(q) /\ p \in DOMAIN post
        /\ Root(post, p) = Root(Seen(q), p)
        /\ post[p].ref_id = Seen(q)[p].ref_id
    BY <1>1, OpenFacts
  <1>3. post[p] \in Post /\ RowOK(post, p)
    BY <1>2, RowFacts
  <1>4. /\ row \in Post /\ row.thread = post[p].thread /\ row.idx = post[p].idx
        /\ row.ref_id = post[p].ref_id /\ row.locked = post[p].locked /\ row.name = post[p].name
        /\ row.deleted = 1
    BY <1>3 DEF Post, Columns
  <1> HIDE DEF row
  <1>5. who = post[p].ref_id \/ who \in Admins
    BY <1>1, <1>2 DEF Owns, IsAdmin
  <1>6. Root(post, p) \in seenLocked => who \in Admins
    BY <1>1, <1>2, LockSeen DEF IsAdmin
  <1>7. IsChange(p, row, who)
    BY <1>2, <1>3, <1>4, <1>5, <1>6 DEF IsChange, RowOK
  <1> QED BY <1>1, <1>4, <1>7

-----------------------------------------------------------------------------
(* The rows after a commit. *)

LEMMA AddKeeps ==
    ASSUME RowsOK(post), Len(post) < MaxPosts, LogOK(log), NEW e \in Entries, e.since <= Len(log),
           NEW row, NEW who \in Personas, NEW t, NEW i, IsNewPost(row, who, t, i),
           \/ t = New /\ i = 1
           \/ /\ t \in DOMAIN post /\ IsRoot(post, t) /\ i = Cardinality(InThread(post, t)) + 1
              /\ <<"thread", t>> \in e.reads /\ <<"thread", t>> \in e.writes,
           NEW new, new \in Seq(Post), Len(new) = New, New \notin DOMAIN post,
           DOMAIN new = DOMAIN post \cup {New}, new[New] = row, \A o \in DOMAIN post : new[o] = post[o]
    PROVE  /\ RowsOK(new) /\ Len(new) <= MaxPosts
           /\ DOMAIN new = DOMAIN post \cup {New} /\ New \notin DOMAIN post
           /\ new[New] = row /\ \A o \in DOMAIN post : new[o] = post[o]
           /\ \A o \in DOMAIN post : IsRoot(new, o) <=> IsRoot(post, o)
           /\ \A o \in DOMAIN post : o # t => InThread(new, o) = InThread(post, o)
           /\ InThread(new, t) = InThread(post, t) \cup {New}
           /\ Between(Append(log, e), post, Len(log), new, Len(log) + 1)
  <1>1. /\ row \in Post /\ row.ref_id = who /\ row.thread = t /\ row.idx = i
        /\ row.locked = 0 /\ row.name = 0 /\ row.deleted = 0
    BY DEF IsNewPost
  <1>2. /\ new \in Seq(Post) /\ New \notin DOMAIN post /\ DOMAIN new = DOMAIN post \cup {New}
        /\ new[New] = row /\ \A o \in DOMAIN post : new[o] = post[o] /\ New = Len(new)
    OBVIOUS
  <1>3. /\ LogOK(Append(log, e)) /\ DOMAIN Append(log, e) = DOMAIN log \cup {Len(log) + 1}
        /\ Append(log, e)[Len(log) + 1] = e /\ Len(log) \in Nat
    BY LogAppended
  <1>4. Len(post) \in Nat
    BY RowFacts
  <1> DEFINE lg == Append(log, e)
  <1> HIDE DEF lg
  <1>s. \/ row.thread = New /\ row.idx = 1
        \/ /\ row.thread \in DOMAIN post /\ IsRoot(post, row.thread)
           /\ row.idx = Cardinality(InThread(post, row.thread)) + 1
    BY <1>1
  <1>u. /\ row \in Post /\ row.ref_id \in Personas
        /\ row.locked = 0 /\ row.name \in 0..1 /\ row.deleted \in 0..1
    BY <1>1
  <1>6. RowsOK(new)
    BY <1>2, <1>s, <1>u, RowAdded
  <1>i. \A o \in DOMAIN post : o # row.thread => InThread(new, o) = InThread(post, o)
    BY <1>2 DEF InThread
  <1>j. InThread(new, row.thread) = InThread(post, row.thread) \cup {New}
    BY <1>2 DEF InThread
  <1>k. \A o \in DOMAIN post : IsRoot(new, o) <=> IsRoot(post, o)
    BY <1>2 DEF IsRoot
  <1>7. Len(new) <= MaxPosts
    BY <1>2, <1>4, NumbersAssumed DEF New
  <1>8. Between(lg, post, Len(log), new, Len(log) + 1)
    <2>1. Len(log) < Len(log) + 1 /\ Len(log) + 1 <= Len(log) + 1 /\ Len(log) + 1 \in DOMAIN lg
          /\ lg[Len(log) + 1] = e
      BY <1>3 DEF lg
    <2>2. t # New => <<"thread", t>> \in e.reads /\ <<"thread", t>> \in e.writes
      OBVIOUS
    <2> QED BY <1>1, <1>2, <2>1, <2>2 DEF Between
  <1> QED BY <1>1, <1>2, <1>6, <1>i, <1>j, <1>k, <1>7, <1>8 DEF lg

LEMMA ChangeKeeps ==
    ASSUME RowsOK(post), LogOK(log), NEW e \in Entries, e.since <= Len(log),
           NEW p, NEW row, NEW who \in Personas, IsChange(p, row, who), <<"row", p>> \in e.writes,
           NEW new, new \in Seq(Post), DOMAIN new = DOMAIN post,
           new[p] = row, \A o \in DOMAIN post : o # p => new[o] = post[o]
    PROVE  /\ RowsOK(new) /\ Len(new) = Len(post)
           /\ DOMAIN new = DOMAIN post /\ new[p] = row
           /\ \A o \in DOMAIN post : o # p => new[o] = post[o]
           /\ \A o \in DOMAIN post : IsRoot(new, o) <=> IsRoot(post, o)
           /\ \A t : InThread(new, t) = InThread(post, t)
           /\ Between(Append(log, e), post, Len(log), new, Len(log) + 1)
  <1>1. /\ p \in DOMAIN post /\ row \in Post
        /\ row.thread = post[p].thread /\ row.idx = post[p].idx /\ row.ref_id = post[p].ref_id
        /\ row.locked \in 0..1 /\ row.name \in 0..1 /\ row.deleted \in 0..1
        /\ ~ IsRoot(post, p) => row.locked = 0
    BY DEF IsChange
  <1>2. RowsOK(new)
    BY <1>1, RowChanges
  <1>3. \A t : InThread(new, t) = InThread(post, t)
    BY <1>1 DEF InThread
  <1>i. \A o \in DOMAIN post : IsRoot(new, o) <=> IsRoot(post, o)
    BY <1>1 DEF IsRoot
  <1>4. Len(new) = Len(post)
    BY <1>2, RowFacts
  <1>5. /\ DOMAIN Append(log, e) = DOMAIN log \cup {Len(log) + 1}
        /\ Append(log, e)[Len(log) + 1] = e /\ Len(log) \in Nat
    BY LogAppended
  <1> DEFINE lg == Append(log, e)
  <1> HIDE DEF lg
  <1>6. Between(lg, post, Len(log), new, Len(log) + 1)
    <2>1. Len(log) < Len(log) + 1 /\ Len(log) + 1 <= Len(log) + 1 /\ Len(log) + 1 \in DOMAIN lg
          /\ <<"row", p>> \in lg[Len(log) + 1].writes
      BY <1>5 DEF lg
    <2>2. \A o \in DOMAIN post : /\ new[o].thread = post[o].thread
                                 /\ new[o].idx = post[o].idx /\ new[o].ref_id = post[o].ref_id
      BY <1>1
    <2>3. \A o \in DOMAIN post : new[o].locked # post[o].locked => o = p
      OBVIOUS
    <2> QED BY <1>1, <2>1, <2>2, <2>3 DEF Between
  <1> QED BY <1>2, <1>3, <1>i, <1>4, <1>6 DEF lg

-----------------------------------------------------------------------------
(* Every step leads from a good state to a good one. *)

LEMMA LogAfter ==
    ASSUME NEW q \in Requests, Logged(q) \/ Unlogged(q)
    PROVE  /\ Logged(q) => \/ log' = Append(log, Me(q))
                           \/ log' = <<>> /\ \A o \in Requests \ {q} : request[o].phase # "open"
           /\ Unlogged(q) => \/ log' = log
                             \/ log' = <<>> /\ \A o \in Requests \ {q} : request[o].phase # "open"
  BY DEF Logged, Unlogged, OthersOpen

LEMMA ArriveGood ==
    ASSUME Good(post, log, request, seenLocked), NEW q \in Requests,
           NEW op \in Ops, NEW who \in Personas, NEW target \in {0} \cup DOMAIN post,
           NEW locked \in 0..1, NEW name \in 0..1, Arrive(q, op, who, target, locked, name)
    PROVE  Good(post, log, request', seenLocked) /\ request'[q].phase # "open"
  <1> DEFINE tree == FormTree(IF op \in {"thread", "reply"} THEN 1 ELSE 0, locked, name)
             r == [Idle EXCEPT !.phase = "trying", !.op = op, !.who = who, !.target = target,
                       !.form = [locked |-> locked, name |-> name],
                       !.tree = IF op = "thread" THEN SafeAdd(tree, "idx", 1) ELSE tree]
  <1>1. request' = [request EXCEPT ![q] = r]
    BY DEF Arrive, Becomes
  <1>2. Len(post) \in Nat /\ Len(post) <= MaxPosts /\ DOMAIN post = 1..Len(post)
    BY RowFacts DEF Good
  <1>3. FormOK(post, op, who, target, locked, name)
    BY DEF Arrive, FormOK
  <1>4. RequestOK(r, post) /\ r.phase # "open"
    BY <1>2, <1>3, ArriveOK
  <1> HIDE DEF r
  <1>5. request'[q].phase # "open"
    BY <1>1, <1>4 DEF Good
  <1> QED BY <1>1, <1>4, <1>5, GoodEnds

LEMMA BeginGood ==
    ASSUME Good(post, log, request, seenLocked), NEW q \in Requests, Begin(q)
    PROVE  Good(post, log, request', seenLocked)
  <1> DEFINE r == [request[q] EXCEPT !.phase = "open", !.since = Len(log), !.view = post,
                       !.tree = IF request[q].op \in {"thread", "reply"} THEN AddSlug(@) ELSE @]
  <1>1. request' = [request EXCEPT ![q] = r] /\ request[q].phase = "trying" /\ Len(log) < MaxLog
    BY DEF Begin, Becomes
  <1>2. RequestOK(request[q], post) /\ post \in Seq(Post) /\ Len(log) \in Nat
    BY RowFacts DEF Good, LogOK
  <1>3. Len(log) \in 0..MaxLog
    BY <1>1, <1>2, NumbersAssumed
  <1>4. /\ RequestOK(r, post)
        /\ r.since = Len(log) /\ r.view = post /\ r.phase = "open"
        /\ r.op = "thread" \/ r.target \in DOMAIN post
    <2>1. request[q].phase = "trying" /\ RequestOK(request[q], post) /\ post \in Seq(Post)
      BY <1>1, <1>2
    <2> QED BY <1>3, <2>1, BeginOK
  <1> HIDE DEF r
  <1> QED BY <1>1, <1>4, GoodBegins

LEMMA BeginFailsGood ==
    ASSUME Good(post, log, request, seenLocked), NEW q \in Requests, BeginFails(q)
    PROVE  Good(post, log, request', seenLocked)
  <1>1. request' = [request EXCEPT ![q] = Idle]
    BY DEF BeginFails, Answer, Becomes
  <1>2. RequestOK(Idle, post) /\ Idle.phase # "open"
    BY IdleOK
  <1> QED BY <1>1, <1>2, GoodEnds

LEMMA RolledBackGood ==
    ASSUME Good(post, log, request, seenLocked), NEW q \in Requests, RolledBack(q)
    PROVE  Good(post', log', request', seenLocked')
  <1>1. request' = [request EXCEPT ![q] = Idle] /\ post' = post /\ seenLocked' = seenLocked
    BY DEF RolledBack, Answer, Becomes
  <1>2. \/ log' = log
        \/ log' = <<>> /\ \A o \in Requests \ {q} : request[o].phase # "open"
    BY LogAfter DEF RolledBack
  <1>3. RequestOK(Idle, post) /\ Idle.phase # "open"
    BY IdleOK
  <1>4. Good(post, log', request', seenLocked)
    BY <1>1, <1>2, <1>3, GoodEnds
  <1> QED BY <1>1, <1>4

LEMMA AbortedGood ==
    ASSUME Good(post, log, request, seenLocked), NEW q \in Requests, request[q].phase = "open",
           NEW tree, tree \in Trees(q), Aborted(q, tree)
    PROVE  Good(post', log', request', seenLocked')
  <1> DEFINE again == [request[q] EXCEPT !.phase = "trying", !.attempt = @ + 1, !.tree = tree,
                           !.since = 0, !.view = <<>>]
             r == IF request[q].attempt < TxTries THEN again ELSE Idle
  <1>1. request' = [request EXCEPT ![q] = r] /\ post' = post /\ seenLocked' = seenLocked
    BY DEF Aborted, Answer, Becomes
  <1>2. \/ log' = log
        \/ log' = <<>> /\ \A o \in Requests \ {q} : request[o].phase # "open"
    BY LogAfter DEF Aborted
  <1>3. /\ RequestOK(request[q], post) /\ TreeOK(request[q])
        /\ request[q].who \in Nat
    BY OpenFacts, RequestFields, NumbersAssumed
  <1>4. /\ TreeFits(tree)
        /\ request[q].op \in {"thread", "reply"} => NewTree(tree)
        /\ request[q].op = "thread" => Has(tree, "idx", 1)
        /\ request[q].op = "edit" => EditTree(tree, request[q].form.locked, request[q].form.name)
    <2>1. CASE tree = request[q].tree
      BY <1>3, <2>1 DEF TreeOK
    <2>2. CASE request[q].op = "thread" /\ tree = ForInsert(request[q].tree, request[q].who)
      <3>1. NewTree(request[q].tree) /\ Has(request[q].tree, "idx", 1)
        BY <1>3, <2>2 DEF TreeOK
      <3>2. NewTree(tree) /\ Has(tree, "idx", 1)
        BY <1>3, <2>2, <3>1, NewTreeInserted
      <3> QED BY <2>2, <3>2 DEF NewTree
    <2>3. CASE MayReply(q) /\ tree = ForInsert(ReplyTree(q), request[q].who)
      <3>1. NewTree(tree)
        BY <2>3, ReplyTreeIs
      <3>2. request[q].op = "reply"
        BY <2>3 DEF MayReply, Open
      <3> QED BY <3>1, <3>2 DEF NewTree
    <2>4. CASE MayChange(q, "edit") /\ tree = ForUpdate(request[q].tree, request[q].who)
      <3>1. request[q].op = "edit"
        BY <2>4 DEF MayChange, Open
      <3>2. EditTree(request[q].tree, request[q].form.locked, request[q].form.name)
        BY <1>3, <3>1 DEF TreeOK
      <3>3. EditTree(tree, request[q].form.locked, request[q].form.name)
        BY <1>3, <2>4, <3>2, EditTreeUpdates
      <3> QED BY <3>1, <3>3 DEF EditTree
    <2>5. \/ tree = request[q].tree
          \/ request[q].op = "thread" /\ tree = ForInsert(request[q].tree, request[q].who)
          \/ MayReply(q) /\ tree = ForInsert(ReplyTree(q), request[q].who)
          \/ MayChange(q, "edit") /\ tree = ForUpdate(request[q].tree, request[q].who)
      BY DEF Trees
    <2> QED BY <2>1, <2>2, <2>3, <2>4, <2>5
  <1>5. RequestOK(r, post) /\ r.phase # "open"
    <2>1. CASE request[q].attempt < TxTries
      BY <1>3, <1>4, <2>1, RetryOK
    <2>2. CASE ~ request[q].attempt < TxTries
      BY <2>2, IdleOK
    <2> QED BY <2>1, <2>2
  <1> HIDE DEF r
  <1>6. Good(post, log', request', seenLocked)
    BY <1>1, <1>2, <1>5, GoodEnds
  <1> QED BY <1>1, <1>6

LEMMA CommitThreadGood ==
    ASSUME Good(post, log, request, seenLocked), NEW q \in Requests, CommitThread(q)
    PROVE  Good(post', log', request', seenLocked')
  <1>1. /\ request[q].phase = "open" /\ Len(post) < MaxPosts
        /\ request' = [request EXCEPT ![q] = Idle] /\ Logged(q) /\ seenLocked' = seenLocked
    BY DEF CommitThread, Open, Answer, Becomes
  <1>2. PICK row : post' = Append(post, row) /\ IsNewPost(row, request[q].who, New, 1)
    BY ThreadStarts
  <1>3. /\ RowsOK(post) /\ LogOK(log) /\ request[q].who \in Personas
        /\ seenLocked \subseteq {t \in DOMAIN post : post[t].locked = 1}
    BY <1>1, OpenFacts, RequestFields DEF Good
  <1>4. Me(q) \in Entries /\ Me(q).since <= Len(log)
    BY <1>1, MeOK
  <1>5. /\ post' \in Seq(Post) /\ Len(post') = New /\ New \notin DOMAIN post
        /\ DOMAIN post' = DOMAIN post \cup {New} /\ post'[New] = row
        /\ \A o \in DOMAIN post : post'[o] = post[o]
    BY <1>2, <1>3, RowAppended DEF New, IsNewPost
  <1>6. /\ RowsOK(post') /\ Len(post') <= MaxPosts
        /\ \A o \in DOMAIN post : IsRoot(post', o) <=> IsRoot(post, o)
        /\ Between(Append(log, Me(q)), post, Len(log), post', Len(log) + 1)
    BY <1>1, <1>2, <1>3, <1>4, <1>5, AddKeeps
  <1>7. RequestOK(Idle, post') /\ Idle.phase # "open"
    BY IdleOK
  <1>8. seenLocked' \subseteq {t \in DOMAIN post' : post'[t].locked = 1} /\ seenLocked' \subseteq seenLocked
    BY <1>1, <1>3, <1>5
  <1>9. /\ request' = [request EXCEPT ![q] = Idle] /\ DOMAIN post \subseteq DOMAIN post'
        /\ \/ log' = Append(log, Me(q))
           \/ log' = <<>> /\ \A o \in Requests \ {q} : request[o].phase # "open"
    BY <1>1, <1>5, LogAfter
  <1> QED BY <1>4, <1>6, <1>7, <1>8, <1>9, GoodCommits

LEMMA CommitReplyGood ==
    ASSUME Good(post, log, request, seenLocked), NEW q \in Requests, CommitReply(q)
    PROVE  Good(post', log', request', seenLocked')
  <1> DEFINE t == request[q].target
             r == [Idle EXCEPT !.phase = "trying", !.op = "read", !.target = t]
  <1>1. /\ request[q].phase = "open" /\ request[q].op = "reply" /\ Len(post) < MaxPosts
        /\ request' = [request EXCEPT ![q] = r] /\ Logged(q) /\ seenLocked' = seenLocked
    BY DEF CommitReply, MayReply, Open, ThenRead, Becomes
  <1>2. t \in DOMAIN post /\ IsRoot(post, t)
    BY ReplyComes
  <1>3. PICK row : /\ post' = Append(post, row)
                   /\ IsNewPost(row, request[q].who, t, Cardinality(InThread(post, t)) + 1)
    BY ReplyComes
  <1>4. /\ RowsOK(post) /\ LogOK(log) /\ request[q].who \in Personas
        /\ seenLocked \subseteq {o \in DOMAIN post : post[o].locked = 1}
    BY <1>1, OpenFacts, RequestFields DEF Good
  <1>5. Me(q) \in Entries /\ Me(q).since <= Len(log) /\ Me(q).reads = Reads(q) /\ Me(q).writes = Writes(q)
    BY <1>1, MeOK
  <1>6. <<"thread", t>> \in Me(q).reads /\ <<"thread", t>> \in Me(q).writes
    <2>1. IsRoot(Seen(q), t)
      BY DEF CommitReply, MayReply
    <2> QED BY <1>1, <1>5, <2>1 DEF Reads, Writes
  <1>7. /\ post' \in Seq(Post) /\ Len(post') = New /\ New \notin DOMAIN post
        /\ DOMAIN post' = DOMAIN post \cup {New} /\ post'[New] = row
        /\ \A o \in DOMAIN post : post'[o] = post[o]
    BY <1>3, <1>4, RowAppended DEF New, IsNewPost
  <1>8. /\ RowsOK(post') /\ Len(post') <= MaxPosts
        /\ \A o \in DOMAIN post : IsRoot(post', o) <=> IsRoot(post, o)
        /\ Between(Append(log, Me(q)), post, Len(log), post', Len(log) + 1)
    <2> DEFINE e == Me(q)
               i == Cardinality(InThread(post, t)) + 1
               new == post'
               who == request[q].who
    <2>1. IsNewPost(row, who, t, i) /\ Len(post) < MaxPosts
      BY <1>1, <1>3
    <2>2. t \in DOMAIN post /\ IsRoot(post, t) /\ i = Cardinality(InThread(post, t)) + 1
      BY <1>2
    <2>3. e \in Entries /\ e.since <= Len(log) /\ <<"thread", t>> \in e.reads /\ <<"thread", t>> \in e.writes
      BY <1>5, <1>6
    <2>4. /\ new \in Seq(Post) /\ Len(new) = New /\ New \notin DOMAIN post
          /\ DOMAIN new = DOMAIN post \cup {New} /\ new[New] = row
          /\ \A o \in DOMAIN post : new[o] = post[o]
      BY <1>7
    <2>5. RowsOK(post) /\ LogOK(log) /\ who \in Personas
      BY <1>4
    <2> HIDE DEF e, i, new, who, t
    <2>6. /\ RowsOK(new) /\ Len(new) <= MaxPosts
          /\ \A o \in DOMAIN post : IsRoot(new, o) <=> IsRoot(post, o)
          /\ Between(Append(log, e), post, Len(log), new, Len(log) + 1)
      BY <2>1, <2>2, <2>3, <2>4, <2>5, AddKeeps, ZenonT(60)
    <2> QED BY <2>6 DEF e, new
  <1>9. RequestOK(r, post') /\ r.phase # "open"
    <2>1. Len(post') \in Nat /\ DOMAIN post' = 1..Len(post') /\ t \in DOMAIN post'
      BY <1>2, <1>7, <1>8, RowFacts
    <2> QED BY <1>8, <2>1, ReadOK
  <1>10. seenLocked' \subseteq {o \in DOMAIN post' : post'[o].locked = 1} /\ seenLocked' \subseteq seenLocked
    BY <1>1, <1>4, <1>7
  <1> HIDE DEF r
  <1>11. /\ request' = [request EXCEPT ![q] = r] /\ DOMAIN post \subseteq DOMAIN post'
         /\ \/ log' = Append(log, Me(q))
            \/ log' = <<>> /\ \A o \in Requests \ {q} : request[o].phase # "open"
    BY <1>1, <1>7, LogAfter
  <1> QED BY <1>5, <1>8, <1>9, <1>10, <1>11, GoodCommits

LEMMA CommitEditGood ==
    ASSUME Good(post, log, request, seenLocked), NEW q \in Requests, CommitEdit(q)
    PROVE  Good(post', log', request', seenLocked')
  <1> DEFINE p == request[q].target
             t == Root(post, p)
             r == [Idle EXCEPT !.phase = "trying", !.op = "read", !.target = t]
  <1>1. /\ request[q].phase = "open" /\ request[q].op = "edit"
        /\ request' = [request EXCEPT ![q] = r] /\ Logged(q)
        /\ seenLocked' = IF post'[p].locked = 1 THEN seenLocked ELSE seenLocked \ {p}
    BY DEF CommitEdit, MayChange, Open, ThenRead, Becomes
  <1>2. PICK row : post' = [post EXCEPT ![p] = row] /\ IsChange(p, row, request[q].who)
    BY EditChanges
  <1>3. /\ RowsOK(post) /\ LogOK(log) /\ request[q].who \in Personas /\ Len(post) <= MaxPosts
        /\ seenLocked \subseteq {o \in DOMAIN post : post[o].locked = 1}
    BY <1>1, OpenFacts, RequestFields DEF Good
  <1>4. Me(q) \in Entries /\ Me(q).since <= Len(log) /\ <<"row", p>> \in Me(q).writes
    <2>1. <<"row", p>> \in Writes(q)
      BY <1>1 DEF Writes
    <2> QED BY <1>1, <2>1, MeOK
  <1>5. /\ RowsOK(post') /\ Len(post') = Len(post)
        /\ DOMAIN post' = DOMAIN post /\ post'[p] = row
        /\ \A o \in DOMAIN post : o # p => post'[o] = post[o]
        /\ \A o \in DOMAIN post : IsRoot(post', o) <=> IsRoot(post, o)
        /\ Between(Append(log, Me(q)), post, Len(log), post', Len(log) + 1)
    <2>1. /\ IsChange(p, row, request[q].who) /\ post' \in Seq(Post) /\ DOMAIN post' = DOMAIN post
          /\ post'[p] = row /\ \A o \in DOMAIN post : o # p => post'[o] = post[o]
      BY <1>2, <1>3 DEF IsChange, RowsOK
    <2> QED BY <1>3, <1>4, <2>1, ChangeKeeps
  <1>6. RequestOK(r, post') /\ r.phase # "open"
    <2>1. p \in DOMAIN post
      BY <1>2 DEF IsChange
    <2>2. Len(post') \in Nat /\ DOMAIN post' = 1..Len(post') /\ t \in DOMAIN post'
      BY <1>3, <1>5, <2>1, RowFacts
    <2> QED BY <1>3, <1>5, <2>2, ReadOK
  <1>7. seenLocked' \subseteq {o \in DOMAIN post' : post'[o].locked = 1} /\ seenLocked' \subseteq seenLocked
    BY <1>1, <1>3, <1>5
  <1> HIDE DEF r
  <1>8. /\ request' = [request EXCEPT ![q] = r] /\ DOMAIN post \subseteq DOMAIN post'
        /\ \/ log' = Append(log, Me(q))
           \/ log' = <<>> /\ \A o \in Requests \ {q} : request[o].phase # "open"
        /\ Len(post') <= MaxPosts
    BY <1>1, <1>3, <1>5, LogAfter
  <1> QED BY <1>4, <1>5, <1>6, <1>7, <1>8, GoodCommits

LEMMA CommitDeleteGood ==
    ASSUME Good(post, log, request, seenLocked), NEW q \in Requests, CommitDelete(q)
    PROVE  Good(post', log', request', seenLocked')
  <1> DEFINE p == request[q].target
  <1>1. /\ request[q].phase = "open" /\ request[q].op = "delete"
        /\ request' = [request EXCEPT ![q] = Idle] /\ Logged(q)
        /\ seenLocked' = seenLocked
    BY DEF CommitDelete, MayChange, Open, Answer, Becomes
  <1>2. PICK row : /\ post' = [post EXCEPT ![p] = row] /\ IsChange(p, row, request[q].who)
                   /\ row.locked = post[p].locked
    BY DeleteChanges
  <1>3. /\ RowsOK(post) /\ LogOK(log) /\ request[q].who \in Personas /\ Len(post) <= MaxPosts
        /\ seenLocked \subseteq {o \in DOMAIN post : post[o].locked = 1}
    BY <1>1, OpenFacts, RequestFields DEF Good
  <1>4. Me(q) \in Entries /\ Me(q).since <= Len(log) /\ <<"row", p>> \in Me(q).writes
    <2>1. <<"row", p>> \in Writes(q)
      BY <1>1 DEF Writes
    <2> QED BY <1>1, <2>1, MeOK
  <1>5. /\ RowsOK(post') /\ Len(post') = Len(post)
        /\ DOMAIN post' = DOMAIN post /\ post'[p] = row
        /\ \A o \in DOMAIN post : o # p => post'[o] = post[o]
        /\ \A o \in DOMAIN post : IsRoot(post', o) <=> IsRoot(post, o)
        /\ Between(Append(log, Me(q)), post, Len(log), post', Len(log) + 1)
    <2>1. /\ IsChange(p, row, request[q].who) /\ post' \in Seq(Post) /\ DOMAIN post' = DOMAIN post
          /\ post'[p] = row /\ \A o \in DOMAIN post : o # p => post'[o] = post[o]
      BY <1>2, <1>3 DEF IsChange, RowsOK
    <2> QED BY <1>3, <1>4, <2>1, ChangeKeeps
  <1>6. RequestOK(Idle, post') /\ Idle.phase # "open"
    BY IdleOK
  <1>7. seenLocked' \subseteq {o \in DOMAIN post' : post'[o].locked = 1} /\ seenLocked' \subseteq seenLocked
    BY <1>1, <1>2, <1>3, <1>5
  <1>8. /\ request' = [request EXCEPT ![q] = Idle] /\ DOMAIN post \subseteq DOMAIN post'
        /\ \/ log' = Append(log, Me(q))
           \/ log' = <<>> /\ \A o \in Requests \ {q} : request[o].phase # "open"
        /\ Len(post') <= MaxPosts
    BY <1>1, <1>3, <1>5, LogAfter
  <1> QED BY <1>4, <1>5, <1>6, <1>7, <1>8, GoodCommits

(* A transaction that has read a whole thread, and that it is locked: one  *)
(* still open that has not seen the lock began before it.                  *)
LEMMA ReaderGuards ==
    ASSUME Good(post, log, request, seenLocked), NEW q \in Requests, CommitRead(q),
           IsRoot(Seen(q), request[q].target), Locked(q),
           ~ ChangedSince(log, request[q].since, {<<"row", request[q].target>>}),
           NEW o \in Requests, o # q, request[o].phase = "open",
           NEW lg, lg = Append(log, Me(q))
    PROVE  Guarded(request[o], lg, seenLocked \cup {request[q].target})
  <1> DEFINE t == request[q].target
             p == request[o].target
             n == Len(log) + 1
             early == request[o].view
             late == Seen(q)
  <1>1. /\ request[q].phase = "open" /\ request[q].op = "read"
    BY DEF CommitRead, Open
  <1>2. /\ t \in DOMAIN late /\ RowsOK(late) /\ LogOK(log) /\ Len(log) \in Nat /\ DOMAIN log = 1..Len(log)
        /\ request[q].since \in Nat
    BY <1>1, OpenFacts
  <1>3. /\ DOMAIN lg = DOMAIN log \cup {n} /\ lg[n] = Me(q) /\ \A j \in DOMAIN log : lg[j] = log[j]
        /\ Me(q).since = request[q].since /\ Me(q).reads = Reads(q)
    BY <1>1, MeOK
  <1>4. Reads(q) = {<<"thread", t>>} \cup ({"row"} \X InThread(late, t))
    BY <1>1 DEF Reads
  <1>5. late[t].locked = 1 /\ late[t].thread = t
    BY DEF Locked, IsLocked, Root, IsRoot
  <1>6. /\ Guarded(request[o], log, seenLocked) /\ request[o].since \in Nat /\ RowsOK(early)
        /\ request[o].op # "thread" => p \in DOMAIN early
    BY OpenFacts DEF Seen
  <1> SUFFICES ASSUME request[o].op \in {"reply", "edit", "delete"},
                      Root(early, p) \in seenLocked \cup {t}, ~ IsLocked(early, p)
               PROVE  \E j, k \in DOMAIN lg :
                          /\ request[o].since < j /\ j <= lg[k].since
                          /\ <<"row", Root(early, p)>> \in lg[j].writes
                          /\ {<<"row", Root(early, p)>>, <<"thread", Root(early, p)>>, <<"row", p>>}
                                 \subseteq lg[k].reads
    BY DEF Guarded
  <1>7. CASE Root(early, p) \in seenLocked
    <2>1. PICK j, k \in DOMAIN log :
              /\ request[o].since < j /\ j <= log[k].since
              /\ <<"row", Root(early, p)>> \in log[j].writes
              /\ {<<"row", Root(early, p)>>, <<"thread", Root(early, p)>>, <<"row", p>>}
                     \subseteq log[k].reads
      BY <1>6, <1>7 DEF Guarded
    <2> QED BY <1>3, <2>1
  <1>8. CASE Root(early, p) = t
    <2>1. p \in DOMAIN early /\ early[p].thread = t /\ t \in DOMAIN early /\ early[t].locked # 1
      BY <1>6, <1>8, RowFacts DEF Root, IsLocked
    <2>2. CASE request[o].since <= request[q].since
      <3>1. Between(log, early, request[o].since, late, request[q].since)
        BY <1>1, <2>2 DEF Good, Seen
      <3>2. PICK j \in DOMAIN log : /\ request[o].since < j /\ j <= request[q].since
                                    /\ <<"row", t>> \in log[j].writes
        BY <1>5, <2>1, <3>1 DEF Between
      <3>3. p \in InThread(late, t) /\ t \in InThread(late, t)
        BY <1>2, <1>5, <2>1, <3>1 DEF Between, InThread
      <3>4. {<<"row", t>>, <<"thread", t>>, <<"row", p>>} \subseteq Reads(q)
        BY <1>4, <3>3
      <3> QED BY <1>3, <1>8, <3>2, <3>4
    <2>3. CASE ~ request[o].since <= request[q].since
      <3>1. request[q].since <= request[o].since
        BY <1>2, <1>6, <2>3
      <3>2. Between(log, late, request[q].since, early, request[o].since)
        BY <1>1, <3>1 DEF Good, Seen
      <3>3. post[t].locked = late[t].locked /\ \A j \in DOMAIN log :
                ~ (request[q].since < j /\ <<"row", t>> \in log[j].writes)
        <4>1. ASSUME NEW j \in DOMAIN log, request[q].since < j, <<"row", t>> \in log[j].writes
              PROVE  FALSE
          <5>1. j \in (request[q].since + 1)..Len(log)
            BY <1>2, <4>1
          <5>2. Overlap(log[j].writes, {<<"row", t>>})
            BY <4>1 DEF Overlap
          <5> QED BY <5>1, <5>2 DEF ChangedSince
        <4> QED BY <1>1, <1>2, <4>1, LockUnchanged
      <3> QED BY <1>2, <1>5, <2>1, <3>2, <3>3 DEF Between
    <2> QED BY <2>2, <2>3
  <1> QED BY <1>7, <1>8

LEMMA GoodSees ==
    ASSUME NEW rows, NEW lg, NEW reqs, NEW seen, Good(rows, lg, reqs, seen),
           NEW seen2, seen2 \subseteq {t \in DOMAIN rows : rows[t].locked = 1},
           \A o \in Requests : reqs[o].phase = "open" => Guarded(reqs[o], lg, seen2)
    PROVE  Good(rows, lg, reqs, seen2)
  BY DEF Good

LEMMA CommitReadGood ==
    ASSUME Good(post, log, request, seenLocked), NEW q \in Requests, CommitRead(q)
    PROVE  Good(post', log', request', seenLocked')
  <1> DEFINE p == request[q].target
             sees == /\ IsRoot(Seen(q), p) /\ Locked(q)
                     /\ ~ ChangedSince(log, request[q].since, {<<"row", Root(Seen(q), p)>>})
  <1>1. /\ request[q].phase = "open" /\ request[q].op = "read"
        /\ request' = [request EXCEPT ![q] = Idle] /\ Logged(q) /\ post' = post
        /\ seenLocked' = IF sees THEN seenLocked \cup {Root(Seen(q), p)} ELSE seenLocked
    BY DEF CommitRead, Open, Answer, Becomes
  <1>2. /\ RowsOK(post) /\ LogOK(log) /\ Len(post) <= MaxPosts /\ Len(log) \in Nat
        /\ p \in DOMAIN Seen(q) /\ p \in DOMAIN post
        /\ seenLocked \subseteq {o \in DOMAIN post : post[o].locked = 1}
    BY <1>1, OpenFacts DEF Good
  <1>3. Me(q) \in Entries /\ Me(q).since <= Len(log)
    BY <1>1, MeOK
  <1>4. Between(Append(log, Me(q)), post, Len(log), post, Len(log) + 1)
    BY DEF Between
  <1>5. RequestOK(Idle, post) /\ Idle.phase # "open"
    BY IdleOK
  <1>6. \/ log' = Append(log, Me(q))
        \/ log' = <<>> /\ \A o \in Requests \ {q} : request[o].phase # "open"
    BY <1>1, LogAfter
  <1> HIDE DEF sees
  <1>7. Good(post, log', request', seenLocked)
    BY <1>1, <1>2, <1>3, <1>4, <1>5, <1>6, GoodCommits
  <1>8. CASE ~ sees
    BY <1>1, <1>7, <1>8
  <1>9. CASE sees
    <2>1. /\ IsRoot(Seen(q), p) /\ Locked(q) /\ Root(Seen(q), p) = p
          /\ ~ ChangedSince(log, request[q].since, {<<"row", p>>})
      BY <1>9 DEF sees, IsRoot, Root
    <2>2. seenLocked' = seenLocked \cup {p}
      BY <1>1, <1>9, <2>1
    <2>3. post[p].locked = 1
      <3>1. Seen(q)[p].locked = 1
        BY <2>1 DEF Locked, IsLocked
      <3> QED BY <1>1, <1>2, <2>1, <3>1, LockUnchanged
    <2>4. seenLocked' \subseteq {o \in DOMAIN post : post[o].locked = 1}
      BY <1>2, <2>2, <2>3
    <2>5. ASSUME NEW o \in Requests, request'[o].phase = "open"
          PROVE  Guarded(request'[o], log', seenLocked')
      <3>1. request'[q] = Idle /\ \A r \in Requests : r # q => request'[r] = request[r]
        BY <1>1 DEF Good
      <3>2. o # q /\ request'[o] = request[o] /\ request[o].phase = "open"
        BY <1>5, <2>5, <3>1
      <3>3. log' = Append(log, Me(q))
        BY <1>6, <3>2
      <3>4. Guarded(request[o], log', seenLocked \cup {p})
        BY <2>1, <3>2, <3>3, ReaderGuards
      <3> QED BY <2>2, <3>2, <3>4
    <2>6. Good(post, log', request', seenLocked')
      BY <1>7, <2>4, <2>5, GoodSees
    <2> QED BY <1>1, <2>6
  <1> QED BY <1>8, <1>9

LEMMA StepGood ==
    ASSUME Good(post, log, request, seenLocked), NEW q \in Requests, Step(q)
    PROVE  Good(post', log', request', seenLocked')
  <1>1. CASE Begin(q)
    <2>1. post' = post /\ log' = log /\ seenLocked' = seenLocked
      BY <1>1 DEF Begin
    <2> QED BY <1>1, <2>1, BeginGood
  <1>2. CASE BeginFails(q)
    <2>1. post' = post /\ log' = log /\ seenLocked' = seenLocked
      BY <1>2 DEF BeginFails
    <2> QED BY <1>2, <2>1, BeginFailsGood
  <1>3. CASE CommitThread(q) \/ CommitReply(q) \/ CommitEdit(q) \/ CommitDelete(q)
    BY <1>3, CommitThreadGood, CommitReplyGood, CommitEditGood, CommitDeleteGood
  <1>4. CASE ReplyToReply(q) \/ ChangeFails(q) \/ Refuse(q)
    <2>1. RolledBack(q)
      BY <1>4 DEF ReplyToReply, ChangeFails, Refuse
    <2> QED BY <2>1, RolledBackGood
  <1>5. CASE CommitRead(q)
    BY <1>5, CommitReadGood
  <1>6. CASE Abort(q)
    BY <1>6, AbortedGood DEF Abort
  <1>7. CASE AbortUnrolled(q)
    <2>1. request[q].phase = "open" /\ Aborted(q, request[q].tree) /\ request[q].tree \in Trees(q)
      BY <1>7 DEF AbortUnrolled, Open, Trees
    <2> QED BY <2>1, AbortedGood
  <1> QED BY <1>1, <1>2, <1>3, <1>4, <1>5, <1>6, <1>7 DEF Step

-----------------------------------------------------------------------------
(* The connections. *)

OpenOnes(reqs) == {q \in Requests : reqs[q].phase = "open"}

LEMMA OpenFinite ==
    ASSUME NEW reqs
    PROVE  IsFiniteSet(OpenOnes(reqs)) /\ Cardinality(OpenOnes(reqs)) \in Nat
  <1>1. OpenOnes(reqs) \in SUBSET (1..InProgress)
    BY DEF OpenOnes, Requests
  <1>2. IsFiniteSet(1..InProgress)
    BY NumbersAssumed, FS_Interval
  <1> QED BY <1>1, <1>2, FS_Subset, FS_CardinalityType

LEMMA OneMore ==
    ASSUME NEW S, IsFiniteSet(S), Cardinality(S) \in Nat, NEW q
    PROVE  /\ Cardinality(S \cup {q}) \in Nat /\ Cardinality(S \cup {q}) <= Cardinality(S) + 1
           /\ Cardinality(S \ {q}) \in Nat /\ Cardinality(S \ {q}) <= Cardinality(S)
           /\ q \in S => Cardinality(S \ {q}) + 1 = Cardinality(S)
  <1>1. CASE q \in S
    <2>1. S \cup {q} = S
      BY <1>1
    <2>2. Cardinality(S \ {q}) = Cardinality(S) - 1
      BY <1>1, FS_RemoveElement
    <2>3. Cardinality(S) # 0
      BY <1>1, FS_EmptySet
    <2> QED BY <1>1, <2>1, <2>2, <2>3
  <1>2. CASE q \notin S
    <2>1. S \ {q} = S
      BY <1>2
    <2>2. Cardinality(S \cup {q}) = Cardinality(S) + 1
      BY <1>2, FS_AddElement
    <2> QED BY <1>2, <2>1, <2>2
  <1> QED BY <1>1, <1>2

LEMMA OpensOne ==
    ASSUME NEW reqs, NEW reqs2, NEW q \in Requests, \A o \in Requests : o # q => reqs2[o] = reqs[o]
    PROVE  /\ Cardinality(OpenOnes(reqs2)) \in Nat
           /\ Cardinality(OpenOnes(reqs2)) <= Cardinality(OpenOnes(reqs)) + 1
           /\ reqs2[q].phase # "open" => Cardinality(OpenOnes(reqs2)) <= Cardinality(OpenOnes(reqs))
           /\ reqs2[q].phase # "open" /\ reqs[q].phase = "open" =>
                  Cardinality(OpenOnes(reqs2)) + 1 = Cardinality(OpenOnes(reqs))
  <1>1. /\ IsFiniteSet(OpenOnes(reqs)) /\ Cardinality(OpenOnes(reqs)) \in Nat
        /\ q \in OpenOnes(reqs) <=> reqs[q].phase = "open"
    BY OpenFinite DEF OpenOnes
  <1>2. CASE reqs2[q].phase = "open"
    <2>1. OpenOnes(reqs2) = OpenOnes(reqs) \cup {q}
      BY <1>2 DEF OpenOnes
    <2> QED BY <1>1, <1>2, <2>1, OneMore
  <1>3. CASE reqs2[q].phase # "open"
    <2>1. OpenOnes(reqs2) = OpenOnes(reqs) \ {q}
      BY <1>3 DEF OpenOnes
    <2>2. /\ Cardinality(OpenOnes(reqs) \ {q}) \in Nat
          /\ Cardinality(OpenOnes(reqs) \ {q}) <= Cardinality(OpenOnes(reqs))
          /\ q \in OpenOnes(reqs) => Cardinality(OpenOnes(reqs) \ {q}) + 1 = Cardinality(OpenOnes(reqs))
      BY <1>1, OneMore
    <2> QED BY <1>1, <1>3, <2>1, <2>2
  <1> QED BY <1>2, <1>3

LEMMA UseIs == InUse = lost + Cardinality(OpenOnes(request))
  BY DEF InUse, OpenOnes

(* What a step does to the connections: at most one more is used, and only *)
(* by one that begins.                                                     *)
LEMMA StepUses ==
    ASSUME Good(post, log, request, seenLocked), NEW q \in Requests, Step(q)
    PROVE  /\ \A o \in Requests : o # q => request'[o] = request[o]
           /\ \/ InUse < Connections /\ lost' = lost
              \/ request'[q].phase # "open" /\ lost' = lost
              \/ request'[q].phase # "open" /\ request[q].phase = "open" /\ lost' = lost + 1
  <1>0. request \in [Requests -> Request] /\ Idle.phase # "open"
    BY IdleOK DEF Good
  <1>1. \A r : Becomes(q, r) => request'[q] = r /\ \A o \in Requests : o # q => request'[o] = request[o]
    BY <1>0 DEF Becomes
  <1>2. Answer(q) => request'[q].phase # "open" /\ \A o \in Requests : o # q => request'[o] = request[o]
    BY <1>0, <1>1 DEF Answer
  <1>3. ASSUME NEW t, ThenRead(q, t)
        PROVE  request'[q].phase # "open" /\ \A o \in Requests : o # q => request'[o] = request[o]
    <2> DEFINE r == [Idle EXCEPT !.phase = "trying", !.op = "read", !.target = t]
    <2>1. Becomes(q, r)
      BY <1>3 DEF ThenRead
    <2>2. r.phase = "trying"
      BY IdleOK DEF Request
    <2> HIDE DEF r
    <2> QED BY <1>1, <2>1, <2>2
  <1>4. ASSUME request[q].phase = "open", NEW tree, Aborted(q, tree)
        PROVE  request'[q].phase # "open" /\ \A o \in Requests : o # q => request'[o] = request[o]
    <2> DEFINE again == [request[q] EXCEPT !.phase = "trying", !.attempt = @ + 1, !.tree = tree,
                             !.since = 0, !.view = <<>>]
    <2>1. Becomes(q, again) \/ Answer(q)
      BY <1>4 DEF Aborted
    <2>2. again.phase = "trying"
      <3>1. request[q] \in Request
        BY <1>4, OpenFacts
      <3> QED BY <3>1 DEF Request
    <2> HIDE DEF again
    <2> QED BY <1>1, <1>2, <2>1, <2>2
  <1>5. CASE Begin(q)
    BY <1>1, <1>5 DEF Begin
  <1>6. CASE BeginFails(q)
    BY <1>2, <1>6 DEF BeginFails
  <1>7. CASE CommitThread(q) \/ CommitDelete(q) \/ CommitRead(q)
    BY <1>2, <1>7 DEF CommitThread, CommitDelete, CommitRead
  <1>8. CASE CommitReply(q) \/ CommitEdit(q)
    BY <1>3, <1>8 DEF CommitReply, CommitEdit
  <1>9. CASE ChangeFails(q) \/ Refuse(q)
    BY <1>2, <1>9 DEF ChangeFails, Refuse, RolledBack
  <1>10. CASE ReplyToReply(q)
    BY <1>2, <1>10 DEF ReplyToReply, RolledBack, Open
  <1>11. CASE Abort(q)
    BY <1>4, <1>11 DEF Abort
  <1>12. CASE AbortUnrolled(q)
    BY <1>4, <1>12 DEF AbortUnrolled, Open
  <1> QED BY <1>5, <1>6, <1>7, <1>8, <1>9, <1>10, <1>11, <1>12 DEF Step

LEMMA NextCases ==
    ASSUME Next
    PROVE  \/ \E q \in Requests : Step(q)
           \/ \E q \in Requests, op \in Ops, who \in Personas, target \in {0} \cup DOMAIN post :
                  \E locked, name \in 0..1 : Arrive(q, op, who, target, locked, name)
  BY DEF Next

LEMMA CountsKept ==
    ASSUME IInv, Next
    PROVE  Counts'
  <1> DEFINE n == Cardinality(OpenOnes(request))
             m == Cardinality(OpenOnes(request'))
  <1>1. /\ Good(post, log, request, seenLocked)
        /\ arrived \in 0..MaxRequests /\ actor \in {0} \cup Personas
        /\ lost \in Nat /\ lost + n <= Connections
        /\ n \in Nat /\ m \in Nat /\ Connections \in Nat /\ MaxRequests \in Nat
    BY UseIs, OpenFinite, NumbersAssumed DEF IInv, Counts
  <1>2. InUse' = lost' + m /\ InUse = lost + n
    BY UseIs DEF InUse, OpenOnes
  <1>3. CASE \E q \in Requests : Step(q)
    <2>1. PICK q \in Requests : Step(q)
      BY <1>3
    <2>2. /\ m <= n + 1
          /\ request'[q].phase # "open" => m <= n
          /\ request'[q].phase # "open" /\ request[q].phase = "open" => m + 1 = n
      BY <1>1, <2>1, StepUses, OpensOne
    <2>3. \/ InUse < Connections /\ lost' = lost
          \/ request'[q].phase # "open" /\ lost' = lost
          \/ request'[q].phase # "open" /\ request[q].phase = "open" /\ lost' = lost + 1
      BY <1>1, <2>1, StepUses
    <2>4. arrived' = arrived
      BY <2>1 DEF Step, Begin, BeginFails
    <2>5. actor' \in {0} \cup Personas
      <3>1. request[q].who \in Personas
        BY <1>1, RequestFields DEF Good, RequestOK
      <3> QED BY <2>1, <3>1 DEF Step, Begin, BeginFails
    <2> HIDE DEF n, m
    <2>6. lost' \in Nat /\ lost' + m <= Connections
      BY <1>1, <1>2, <2>2, <2>3
    <2> QED BY <1>1, <1>2, <2>4, <2>5, <2>6 DEF Counts
  <1>4. CASE \E q \in Requests, op \in Ops, who \in Personas, target \in {0} \cup DOMAIN post :
                 \E locked, name \in 0..1 : Arrive(q, op, who, target, locked, name)
    <2>1. PICK q \in Requests, op \in Ops, who \in Personas, target \in {0} \cup DOMAIN post,
               locked \in 0..1, name \in 0..1 : Arrive(q, op, who, target, locked, name)
      BY <1>4
    <2>2. /\ arrived' = arrived + 1 /\ arrived < MaxRequests /\ actor' = 0 /\ lost' = lost
          /\ \E r : Becomes(q, r)
      BY <2>1 DEF Arrive
    <2>3. \A o \in Requests : o # q => request'[o] = request[o]
      BY <1>1, <2>2 DEF Becomes, Good
    <2>4. request'[q].phase # "open"
      BY <1>1, <2>1, ArriveGood
    <2>5. m <= n
      BY <2>3, <2>4, OpensOne
    <2> HIDE DEF n, m
    <2>6. lost' \in Nat /\ lost' + m <= Connections
      BY <1>1, <2>2, <2>5
    <2>7. arrived' \in 0..MaxRequests
      BY <1>1, <2>2
    <2> QED BY <1>2, <2>2, <2>6, <2>7 DEF Counts
  <1> QED BY <1>3, <1>4, NextCases

LEMMA GoodKept ==
    ASSUME IInv, Next
    PROVE  Good(post', log', request', seenLocked')
  <1>1. Good(post, log, request, seenLocked)
    BY DEF IInv
  <1>2. CASE \E q \in Requests : Step(q)
    BY <1>1, <1>2, StepGood
  <1>3. CASE \E q \in Requests, op \in Ops, who \in Personas, target \in {0} \cup DOMAIN post :
                 \E locked, name \in 0..1 : Arrive(q, op, who, target, locked, name)
    <2>1. PICK q \in Requests, op \in Ops, who \in Personas, target \in {0} \cup DOMAIN post,
               locked \in 0..1, name \in 0..1 : Arrive(q, op, who, target, locked, name)
      BY <1>3
    <2>2. post' = post /\ log' = log /\ seenLocked' = seenLocked
      BY <2>1 DEF Arrive
    <2>3. Good(post, log, request', seenLocked)
      BY <1>1, <2>1, ArriveGood
    <2> QED BY <2>2, <2>3
  <1> QED BY <1>2, <1>3, NextCases

LEMMA FirstRows ==
    ASSUME NEW w \in Personas, NEW rows, rows = <<FirstPost(w)>>
    PROVE  /\ RowsOK(rows) /\ Len(rows) = 1 /\ DOMAIN rows = {1}
           /\ rows[1].thread = 1 /\ rows[1].idx = 1 /\ rows[1].ref_id = w
           /\ rows[1].locked = 0 /\ rows[1].name = 0 /\ rows[1].deleted = 0
           /\ InThread(rows, 1) = {1} /\ IsRoot(rows, 1)
  <1> DEFINE row == FirstPost(w)
  <1>1. w \in Nat
    BY NumbersAssumed
  <1>2. /\ row \in Post /\ row.thread = 1 /\ row.idx = 1 /\ row.ref_id = w
        /\ row.locked = 0 /\ row.name = 0 /\ row.deleted = 0
    BY <1>1 DEF FirstPost, Blank, Post, Columns
  <1> HIDE DEF row
  <1>3. rows = <<row>>
    BY DEF row
  <1>4. rows \in Seq(Post) /\ Len(rows) = 1 /\ DOMAIN rows = {1} /\ rows[1] = row
    BY <1>2, <1>3
  <1>5. InThread(rows, 1) = {1} /\ IsRoot(rows, 1)
    BY <1>2, <1>4 DEF InThread, IsRoot
  <1>6. RowOK(rows, 1)
    BY <1>2, <1>4, <1>5 DEF RowOK, Root
  <1>7. Numbered(rows, 1)
    BY <1>2, <1>4, <1>5, FS_Singleton, NumberedFirst
  <1> QED BY <1>2, <1>4, <1>5, <1>6, <1>7 DEF RowsOK

LEMMA Starts ==
    ASSUME Init
    PROVE  IInv
  <1>1. PICK w \in Personas \ Admins : post = <<FirstPost(w)>>
    BY DEF Init
  <1>2. RowsOK(post) /\ Len(post) = 1
    BY <1>1, FirstRows
  <1>3. Len(post) <= MaxPosts
    BY <1>2, NumbersAssumed
  <1>4. /\ log = <<>> /\ seenLocked = {} /\ arrived = 0 /\ lost = 0 /\ actor = 0
        /\ request \in [Requests -> Request] /\ \A q \in Requests : request[q] = Idle
    BY IdleOK DEF Init
  <1>5. LogOK(log)
    BY <1>4 DEF LogOK
  <1>6. \A q \in Requests : RequestOK(request[q], post) /\ request[q].phase # "open"
    BY <1>4, IdleOK
  <1>7. Good(post, log, request, seenLocked)
    BY <1>2, <1>3, <1>4, <1>5, <1>6 DEF Good
  <1>8. OpenOnes(request) = {}
    BY <1>6 DEF OpenOnes
  <1>9. InUse <= Connections
    BY <1>4, <1>8, UseIs, FS_EmptySet, NumbersAssumed
  <1>10. Counts
    BY <1>4, <1>9, NumbersAssumed DEF Counts
  <1> QED BY <1>7, <1>10 DEF IInv

LEMMA Inductive == Spec => []IInv
  <1>1. Init => IInv
    BY Starts
  <1>2. IInv /\ [Next]_vars => IInv'
    <2> SUFFICES ASSUME IInv, [Next]_vars PROVE IInv'
      OBVIOUS
    <2>1. CASE Next
      BY <2>1, GoodKept, CountsKept DEF IInv
    <2>2. CASE UNCHANGED vars
      <3>1. /\ post' = post /\ log' = log /\ request' = request /\ arrived' = arrived
            /\ lost' = lost /\ seenLocked' = seenLocked /\ actor' = actor
        BY <2>2 DEF vars
      <3>2. InUse' = InUse
        BY <3>1 DEF InUse
      <3> QED BY <3>1, <3>2 DEF IInv, Counts
    <2> QED BY <2>1, <2>2
  <1> QED BY <1>1, <1>2, PTL DEF Spec

-----------------------------------------------------------------------------
(* The invariants. *)

(* The rows, the requests and the counters have their types, there are     *)
(* never more connections lost than there are, and the threads somebody    *)
(* has read locked are locked.                                             *)
THEOREM TypesKept == Spec => []TypeOK
  <1>1. ASSUME IInv PROVE TypeOK
    <2>1. /\ RowsOK(post) /\ Len(post) <= MaxPosts /\ request \in [Requests -> Request]
          /\ seenLocked \subseteq {t \in DOMAIN post : post[t].locked = 1}
          /\ arrived \in 0..MaxRequests /\ actor \in {0} \cup Personas
          /\ lost \in Nat /\ InUse <= Connections
      BY <1>1 DEF IInv, Good, Counts
    <2>2. post \in Seq(Post) /\ \A p \in DOMAIN post : Root(post, p) \in DOMAIN post /\ post[p].ref_id \in Personas
      BY <2>1 DEF RowsOK, RowOK
    <2>3. lost \in 0..Connections
      BY <2>1, UseIs, OpenFinite, NumbersAssumed
    <2> QED BY <2>1, <2>2, <2>3 DEF TypeOK
  <1> QED BY <1>1, Inductive, PTL

(* createReply counts on from what its transaction has read: the posts of  *)
(* a thread are numbered from one without gaps, whatever other requests do *)
(* meanwhile and however often an attempt is aborted.                      *)
THEOREM PostsNumbered == Spec => []NumberedWithoutGaps
  <1>1. ASSUME IInv PROVE NumberedWithoutGaps
    <2>1. RowsOK(post)
      BY <1>1 DEF IInv, Good
    <2>2. ASSUME NEW t \in DOMAIN post, IsRoot(post, t)
          PROVE  /\ {post[p].idx : p \in InThread(post, t)} = 1..Cardinality(InThread(post, t))
                 /\ post[t].idx = 1
      <3>1. Numbered(post, t)
        BY <2>1, <2>2, SMTT(30) DEF RowsOK
      <3> QED BY <3>1 DEF Numbered
    <2> QED BY <2>2 DEF NumberedWithoutGaps
  <1> QED BY <1>1, Inductive, PTL

(* insertTables changes the tree of an attempt and the next one starts     *)
(* from what it left: every attempt still writes what the form says, and   *)
(* an edit has one value more than columns, for its WHERE clause.          *)
THEOREM AttemptsKeepForm == Spec => []AttemptsAgree
  <1>1. ASSUME IInv PROVE AttemptsAgree
    <2>0. Good(post, log, request, seenLocked)
      BY <1>1 DEF IInv
    <2>1. ASSUME NEW q \in Requests, MayReply(q)
          PROVE  Assign(Blank, ForInsert(ReplyTree(q), request[q].who)) =
                     [Blank EXCEPT !.ref_id = request[q].who, !.thread = request[q].target,
                          !.idx = LastIdx(Seen(q), request[q].target) + 1,
                          !.slug = 1, !.created = 1]
      <3> DEFINE tree == ForInsert(ReplyTree(q), request[q].who)
                 new == Assign(Blank, tree)
                 i == LastIdx(Seen(q), request[q].target) + 1
                 row == [Blank EXCEPT !.ref_id = request[q].who, !.thread = request[q].target,
                             !.idx = i, !.slug = 1, !.created = 1]
      <3>1. /\ NewTree(tree)
            /\ Has(tree, "ref_id", request[q].who) /\ Has(tree, "thread", request[q].target)
            /\ Has(tree, "idx", i) /\ Has(tree, "slug", 1) /\ i \in Nat
        BY <2>0, <2>1, ReplyTreeIs
      <3>2. request[q].who \in Nat /\ request[q].target \in Nat
        BY <2>0, RequestFields, NumbersAssumed DEF Good
      <3> HIDE DEF tree, i
      <3>3. /\ new \in Post /\ new["created"] = 1 /\ new["locked"] = 0 /\ new["name"] = 0
            /\ new["deleted"] = 0 /\ new["ref_id"] = request[q].who
            /\ new["thread"] = request[q].target /\ new["idx"] = i /\ new["slug"] = 1
        BY <3>1, NewTreeAssigns, ColumnNames
      <3>4. /\ row \in Post /\ row["created"] = 1 /\ row["locked"] = 0 /\ row["name"] = 0
            /\ row["deleted"] = 0 /\ row["ref_id"] = request[q].who
            /\ row["thread"] = request[q].target /\ row["idx"] = i /\ row["slug"] = 1
        BY <3>1, <3>2, BlankIs DEF Post, Columns
      <3> HIDE DEF new, row
      <3>5. \A c \in Columns : new[c] = row[c]
        BY <3>3, <3>4 DEF Columns
      <3>6. new = row
        BY <3>3, <3>4, <3>5, PostIs
      <3> QED BY <3>6 DEF new, row, tree, i
    <2>2. ASSUME NEW q \in Requests, MayChange(q, "edit")
          PROVE  LET tree == ForUpdate(request[q].tree, request[q].who)
                 IN  /\ Len(tree.values) = Len(tree.columns) + 1
                     /\ Assign(Blank, tree) =
                            [Blank EXCEPT !.locked = request[q].form.locked, !.name = request[q].form.name]
      <3> DEFINE tree == ForUpdate(request[q].tree, request[q].who)
                 form == request[q].form
                 new == Assign(Blank, tree)
                 row == [Blank EXCEPT !.locked = form.locked, !.name = form.name]
      <3>1. request[q].phase = "open" /\ request[q].op = "edit"
        BY <2>2 DEF MayChange, Open
      <3>2. /\ request[q].who \in Nat /\ form.locked \in Nat /\ form.name \in Nat
            /\ EditTree(request[q].tree, form.locked, form.name)
        <4>1. request[q] \in Request /\ TreeOK(request[q])
          BY <2>0, <3>1, OpenFacts
        <4>2. request[q].who \in Nat /\ form.locked \in 0..1 /\ form.name \in 0..1
          BY <4>1, RequestFields, NumbersAssumed
        <4>3. EditTree(request[q].tree, form.locked, form.name)
          BY <3>1, <4>1 DEF TreeOK
        <4> QED BY <4>2, <4>3
      <3>3. Len(tree.values) = Len(tree.columns) + 1
        BY <3>2, EditTreeUpdates
      <3>4. /\ new.locked = form.locked /\ new.name = form.name /\ new \in Post
            /\ \A c \in Columns \ {"locked", "name"} : new[c] = Blank[c]
        BY <3>2, EditTreeAssigns, BlankIs
      <3>5. /\ row.locked = form.locked /\ row.name = form.name /\ row \in Post
            /\ \A c \in Columns \ {"locked", "name"} : row[c] = Blank[c]
        BY <3>2, BlankIs DEF Post, Columns
      <3> HIDE DEF tree, new, row
      <3>6. \A c \in Columns : new[c] = row[c]
        BY <3>4, <3>5
      <3>7. new = row
        BY <3>4, <3>5, <3>6, PostIs
      <3> QED BY <3>3, <3>7 DEF tree, new, row
    <2> QED BY <2>1, <2>2 DEF AttemptsAgree
  <1> QED BY <1>1, Inductive, PTL

-----------------------------------------------------------------------------
(* Module Forum is implemented.  What the rows say of a thread, an author, *)
(* a text and a lock, of any rows:                                         *)

List(rows, t) ==
    [i \in 1..Cardinality(InThread(rows, t)) |-> CHOOSE p \in InThread(rows, t) : rows[p].idx = i]
ListsIn(rows) == [t \in {p \in DOMAIN rows : IsRoot(rows, p)} |-> List(rows, t)]
AuthorsIn(rows) == [p \in DOMAIN rows |-> rows[p].ref_id]
TextIn(row) == [name |-> row.name, deleted |-> row.deleted]
ContentIn(rows) == [p \in DOMAIN rows |-> TextIn(rows[p])]
LockedIn(rows) == {t \in DOMAIN rows : rows[t].locked = 1}

LEMMA Abstract ==
    /\ Lists = ListsIn(post) /\ AuthorsOf = AuthorsIn(post)
    /\ ContentOf = ContentIn(post) /\ LockedOnes = LockedIn(post)
  BY DEF Lists, ListsIn, ListOf, List, AuthorsOf, AuthorsIn, ContentOf, ContentIn, TextIn, LockedOnes, LockedIn

LEMMA AbstractNext ==
    /\ Lists' = ListsIn(post') /\ AuthorsOf' = AuthorsIn(post')
    /\ ContentOf' = ContentIn(post') /\ LockedOnes' = LockedIn(post')
  BY DEF Lists, ListsIn, ListOf, List, InThread, IsRoot, AuthorsOf, AuthorsIn, ContentOf, ContentIn, TextIn,
         LockedOnes, LockedIn

LEMMA IsList ==
    ASSUME NEW S, NEW n \in Nat, NEW f, DOMAIN f = 1..n, f = [i \in 1..n |-> f[i]], \A i \in 1..n : f[i] \in S
    PROVE  f \in Seq(S) /\ Len(f) = n
  <1>1. f \in [1..n -> S]
    OBVIOUS
  <1> QED BY <1>1, Listing

LEMMA IsFunction ==
    ASSUME NEW S, NEW s \in Seq(S)
    PROVE  s = [i \in 1..Len(s) |-> s[i]]
  OBVIOUS

LEMMA IsAppended ==
    ASSUME NEW S, NEW s \in Seq(S), NEW e \in S, NEW f \in Seq(S), Len(f) = Len(s) + 1,
           f[Len(s) + 1] = e, \A i \in 1..Len(s) : f[i] = s[i]
    PROVE  f = Append(s, e)
  <1> DEFINE n == Len(s) + 1
             g == Append(s, e)
  <1>1. /\ g \in Seq(S) /\ Len(s) \in Nat /\ Len(g) = n
        /\ g[n] = e /\ \A i \in 1..Len(s) : g[i] = s[i]
    BY Appended
  <1> HIDE DEF g
  <1>2. g = [i \in 1..n |-> g[i]] /\ f = [i \in 1..n |-> f[i]]
    BY <1>1, IsFunction
  <1>3. \A i \in 1..n : i = n \/ i \in 1..Len(s)
    BY <1>1
  <1>4. \A i \in 1..n : f[i] = g[i]
    BY <1>1, <1>3
  <1>5. f = g
    BY <1>2, <1>4
  <1> QED BY <1>5 DEF g

LEMMA At ==
    ASSUME NEW rows, NEW t, Numbered(rows, t), NEW p \in InThread(rows, t)
    PROVE  /\ rows[p].idx \in DOMAIN List(rows, t) /\ List(rows, t)[rows[p].idx] = p
           /\ (CHOOSE o \in InThread(rows, t) : rows[o].idx = rows[p].idx) = p
  <1>1. \A o \in InThread(rows, t) : rows[o].idx = rows[p].idx => o = p
    BY DEF Numbered
  <1>2. (CHOOSE o \in InThread(rows, t) : rows[o].idx = rows[p].idx) = p
    BY <1>1
  <1>3. rows[p].idx \in 1..Cardinality(InThread(rows, t))
    BY DEF Numbered
  <1> QED BY <1>2, <1>3 DEF List

LEMMA ListHas ==
    ASSUME NEW rows, RowsOK(rows), NEW t, Numbered(rows, t)
    PROVE  /\ Cardinality(InThread(rows, t)) \in Nat
           /\ List(rows, t) = [i \in 1..Cardinality(InThread(rows, t)) |-> List(rows, t)[i]]
           /\ List(rows, t) \in Seq(Nat) /\ Len(List(rows, t)) = Cardinality(InThread(rows, t))
  <1> DEFINE n == Cardinality(InThread(rows, t))
  <1>1. n \in Nat /\ InThread(rows, t) \subseteq Nat
    BY RowFacts, ThreadFinite
  <1>2. List(rows, t) = [i \in 1..n |-> List(rows, t)[i]] /\ DOMAIN List(rows, t) = 1..n
    BY DEF List
  <1>3. ASSUME NEW i \in 1..n PROVE List(rows, t)[i] \in Nat
    <2>1. PICK p \in InThread(rows, t) : rows[p].idx = i
      BY DEF Numbered
    <2> QED BY <1>1, <2>1, At
  <1> HIDE DEF n
  <1>4. List(rows, t) \in Seq(Nat) /\ Len(List(rows, t)) = n
    BY <1>1, <1>2, <1>3, IsList
  <1> QED BY <1>1, <1>2, <1>4 DEF n

LEMMA ListSame ==
    ASSUME NEW rows, NEW new, RowsOK(rows), RowsOK(new), NEW t, Numbered(rows, t), Numbered(new, t),
           InThread(new, t) = InThread(rows, t), \A p \in InThread(rows, t) : new[p].idx = rows[p].idx
    PROVE  List(new, t) = List(rows, t)
  <1> DEFINE n == Cardinality(InThread(rows, t))
  <1>1. ASSUME NEW i \in 1..n PROVE List(new, t)[i] = List(rows, t)[i]
    <2>1. PICK p \in InThread(rows, t) : rows[p].idx = i
      BY DEF Numbered
    <2>2. List(rows, t)[i] = p
      BY <2>1, At
    <2>3. p \in InThread(new, t) /\ new[p].idx = i
      BY <2>1
    <2>4. List(new, t)[i] = p
      BY <2>3, At
    <2> QED BY <2>2, <2>4
  <1>2. List(new, t) = [i \in 1..n |-> List(new, t)[i]] /\ List(rows, t) = [i \in 1..n |-> List(rows, t)[i]]
    BY ListHas
  <1> QED BY <1>1, <1>2

LEMMA ListNext ==
    ASSUME NEW rows, NEW new, RowsOK(rows), RowsOK(new), NEW t, Numbered(rows, t), Numbered(new, t),
           NEW o \in Nat, o \notin InThread(rows, t), InThread(new, t) = InThread(rows, t) \cup {o},
           \A p \in InThread(rows, t) : new[p].idx = rows[p].idx,
           new[o].idx = Cardinality(InThread(rows, t)) + 1
    PROVE  List(new, t) = Append(List(rows, t), o)
  <1> DEFINE n == Cardinality(InThread(rows, t))
  <1>1. n \in Nat /\ Cardinality(InThread(new, t)) = n + 1
    BY RowFacts, ThreadFinite, FS_AddElement
  <1>2. ASSUME NEW i \in 1..n PROVE List(new, t)[i] = List(rows, t)[i]
    <2>1. PICK p \in InThread(rows, t) : rows[p].idx = i
      BY DEF Numbered
    <2>2. List(rows, t)[i] = p
      BY <2>1, At
    <2>3. p \in InThread(new, t) /\ new[p].idx = i
      BY <2>1
    <2>4. List(new, t)[i] = p
      BY <2>3, At
    <2> QED BY <2>2, <2>4
  <1>3. List(new, t)[n + 1] = o
    <2>1. o \in InThread(new, t) /\ new[o].idx = n + 1
      OBVIOUS
    <2> QED BY <2>1, At
  <1>4. List(rows, t) \in Seq(Nat) /\ Len(List(rows, t)) = n
    BY ListHas
  <1>5. List(new, t) \in Seq(Nat) /\ Len(List(new, t)) = n + 1
    BY <1>1, ListHas
  <1> DEFINE f == List(new, t)
             s == List(rows, t)
  <1>6. /\ s \in Seq(Nat) /\ f \in Seq(Nat) /\ Len(f) = Len(s) + 1 /\ f[Len(s) + 1] = o
        /\ \A i \in 1..Len(s) : f[i] = s[i]
    BY <1>2, <1>3, <1>4, <1>5
  <1> HIDE DEF n, f, s
  <1>7. f = Append(s, o)
    BY <1>6, IsAppended
  <1> QED BY <1>7 DEF f, s

LEMMA ListFirst ==
    ASSUME NEW new, RowsOK(new), NEW o \in Nat, Numbered(new, o), InThread(new, o) = {o}
    PROVE  List(new, o) = <<o>>
  <1>1. Cardinality(InThread(new, o)) = 1
    BY FS_Singleton
  <1>2. List(new, o) = [i \in 1..1 |-> List(new, o)[i]]
    BY <1>1, ListHas
  <1>3. new[o].idx = 1
    BY DEF Numbered
  <1>4. List(new, o)[1] = o
    BY <1>3, At
  <1> QED BY <1>2, <1>4

Texts == [name : 0..1, deleted : 0..1]

LEMMA PromiseContent == Promise!Content = Texts
  BY DEF Promise!Content, Texts

LEMMA TextsAre ==
    ASSUME NEW rows, RowsOK(rows)
    PROVE  /\ AuthorsIn(rows) \in Seq(Personas) /\ Len(AuthorsIn(rows)) = Len(rows)
           /\ ContentIn(rows) \in Seq(Texts) /\ Len(ContentIn(rows)) = Len(rows)
           /\ Len(rows) \in Nat /\ DOMAIN rows = 1..Len(rows)
           /\ \A p \in DOMAIN rows : /\ AuthorsIn(rows)[p] = rows[p].ref_id
                                     /\ ContentIn(rows)[p] = TextIn(rows[p])
                                     /\ rows[p].ref_id \in Personas /\ TextIn(rows[p]) \in Texts
  <1>1. Len(rows) \in Nat /\ DOMAIN rows = 1..Len(rows)
    BY RowFacts
  <1>2. \A p \in DOMAIN rows : rows[p].ref_id \in Personas /\ rows[p].name \in 0..1 /\ rows[p].deleted \in 0..1
    BY DEF RowsOK, RowOK
  <1>3. \A p \in DOMAIN rows : TextIn(rows[p]) \in Texts
    BY <1>2 DEF TextIn, Texts
  <1>4. \A p \in DOMAIN rows : AuthorsIn(rows)[p] = rows[p].ref_id /\ ContentIn(rows)[p] = TextIn(rows[p])
    BY DEF AuthorsIn, ContentIn
  <1>5. AuthorsIn(rows) \in [1..Len(rows) -> Personas]
    BY <1>1, <1>2 DEF AuthorsIn
  <1>6. ContentIn(rows) \in [1..Len(rows) -> Texts]
    BY <1>1, <1>3 DEF ContentIn
  <1> QED BY <1>1, <1>2, <1>3, <1>4, <1>5, <1>6, Listing

LEMMA TextsAppended ==
    ASSUME NEW rows, NEW new, RowsOK(rows), RowsOK(new), NEW n, n = Len(rows) + 1, Len(new) = n,
           \A o \in DOMAIN rows : new[o] = rows[o], new[n].locked = 0, n \notin DOMAIN rows,
           DOMAIN new = DOMAIN rows \cup {n}
    PROVE  /\ AuthorsIn(new) = Append(AuthorsIn(rows), new[n].ref_id)
           /\ ContentIn(new) = Append(ContentIn(rows), TextIn(new[n]))
           /\ LockedIn(new) = LockedIn(rows)
  <1>1. n \in DOMAIN new
    OBVIOUS
  <1> DEFINE a == AuthorsIn(rows)
             b == AuthorsIn(new)
             c == ContentIn(rows)
             d == ContentIn(new)
             text == TextIn(new[n])
  <1>2. /\ a \in Seq(Personas) /\ b \in Seq(Personas) /\ Len(b) = Len(a) + 1
        /\ b[Len(a) + 1] = new[n].ref_id /\ new[n].ref_id \in Personas
        /\ \A i \in 1..Len(a) : b[i] = a[i]
    <2>1. /\ a \in Seq(Personas) /\ Len(a) = Len(rows) /\ DOMAIN rows = 1..Len(rows)
          /\ \A p \in DOMAIN rows : a[p] = rows[p].ref_id
      BY TextsAre
    <2>2. /\ b \in Seq(Personas) /\ Len(b) = Len(new)
          /\ \A p \in DOMAIN new : b[p] = new[p].ref_id /\ new[p].ref_id \in Personas
      BY TextsAre
    <2> HIDE DEF a, b
    <2> QED BY <1>1, <2>1, <2>2
  <1>3. /\ c \in Seq(Texts) /\ d \in Seq(Texts) /\ Len(d) = Len(c) + 1
        /\ d[Len(c) + 1] = text /\ text \in Texts
        /\ \A i \in 1..Len(c) : d[i] = c[i]
    BY <1>1, TextsAre, SMTT(30)
  <1>4. LockedIn(new) = LockedIn(rows)
    BY DEF LockedIn
  <1> HIDE DEF a, b, c, d, text
  <1>5. b = Append(a, new[n].ref_id)
    BY <1>2, IsAppended
  <1>6. d = Append(c, text)
    BY <1>3, IsAppended
  <1> QED BY <1>4, <1>5, <1>6 DEF a, b, c, d, text

(* The lists of threads in which no post was added. *)
LEMMA OtherLists ==
    ASSUME NEW rows, NEW new, RowsOK(rows), RowsOK(new), NEW t \in DOMAIN rows, IsRoot(rows, t),
           IsRoot(new, t), t \in DOMAIN new,
           InThread(new, t) = InThread(rows, t), \A o \in DOMAIN rows : new[o].idx = rows[o].idx
    PROVE  List(new, t) = List(rows, t)
  <1>1. Numbered(rows, t) /\ Numbered(new, t)
    BY DEF RowsOK
  <1>2. \A o \in InThread(rows, t) : new[o].idx = rows[o].idx
    BY DEF InThread
  <1> QED BY <1>1, <1>2, ListSame

LEMMA StartsList ==
    ASSUME NEW rows, NEW new, RowsOK(rows), RowsOK(new), NEW n \in Nat, n \notin DOMAIN rows,
           DOMAIN new = DOMAIN rows \cup {n}, \A o \in DOMAIN rows : new[o] = rows[o],
           IsRoot(new, n)
    PROVE  /\ DOMAIN ListsIn(new) = DOMAIN ListsIn(rows) \cup {n} /\ n \notin DOMAIN ListsIn(rows)
           /\ ListsIn(new)[n] = <<n>> /\ \A t \in DOMAIN ListsIn(rows) : ListsIn(new)[t] = ListsIn(rows)[t]
  <1> DEFINE roots == {p \in DOMAIN rows : IsRoot(rows, p)}
  <1>1. {p \in DOMAIN new : IsRoot(new, p)} = roots \cup {n}
    BY DEF IsRoot
  <1>2. \A p \in DOMAIN rows : rows[p].thread \in DOMAIN rows
    BY DEF RowsOK, RowOK, Root
  <1>3. List(new, n) = <<n>>
    <2>1. InThread(new, n) = {n}
      BY <1>2 DEF InThread, IsRoot
    <2>2. Numbered(new, n)
      BY DEF RowsOK
    <2> QED BY <2>1, <2>2, ListFirst
  <1>4. ASSUME NEW t \in roots PROVE List(new, t) = List(rows, t)
    <2>1. InThread(new, t) = InThread(rows, t)
      BY DEF InThread, IsRoot
    <2>2. IsRoot(new, t)
      BY <1>1
    <2> QED BY <2>1, <2>2, OtherLists
  <1> QED BY <1>1, <1>3, <1>4 DEF ListsIn

LEMMA RepliesToList ==
    ASSUME NEW rows, NEW new, RowsOK(rows), RowsOK(new), NEW n \in Nat, n \notin DOMAIN rows,
           DOMAIN new = DOMAIN rows \cup {n}, \A o \in DOMAIN rows : new[o] = rows[o],
           NEW t \in DOMAIN rows, IsRoot(rows, t), new[n].thread = t,
           new[n].idx = Cardinality(InThread(rows, t)) + 1
    PROVE  ListsIn(new) = [ListsIn(rows) EXCEPT ![t] = Append(@, n)]
  <1> DEFINE roots == {p \in DOMAIN rows : IsRoot(rows, p)}
  <1>1. {p \in DOMAIN new : IsRoot(new, p)} = roots
    BY DEF IsRoot
  <1>2. List(new, t) = Append(List(rows, t), n)
    <2>1. InThread(new, t) = InThread(rows, t) \cup {n} /\ n \notin InThread(rows, t)
      BY DEF InThread
    <2>2. Numbered(new, t) /\ Numbered(rows, t)
      BY <1>1 DEF RowsOK
    <2>3. \A p \in InThread(rows, t) : new[p].idx = rows[p].idx
      BY DEF InThread
    <2> QED BY <2>1, <2>2, <2>3, ListNext
  <1>3. ASSUME NEW o \in roots, o # t PROVE List(new, o) = List(rows, o)
    <2>1. InThread(new, o) = InThread(rows, o)
      BY <1>3 DEF InThread
    <2>2. IsRoot(new, o)
      BY <1>1
    <2> QED BY <2>1, <2>2, OtherLists
  <1> QED BY <1>1, <1>2, <1>3 DEF ListsIn

LEMMA KeepsLists ==
    ASSUME NEW rows, NEW new, RowsOK(rows), RowsOK(new), DOMAIN new = DOMAIN rows,
           \A o \in DOMAIN rows : new[o].thread = rows[o].thread /\ new[o].idx = rows[o].idx
    PROVE  ListsIn(new) = ListsIn(rows)
  <1>1. {p \in DOMAIN new : IsRoot(new, p)} = {p \in DOMAIN rows : IsRoot(rows, p)}
    BY DEF IsRoot
  <1>2. ASSUME NEW t \in DOMAIN rows, IsRoot(rows, t) PROVE List(new, t) = List(rows, t)
    <2>1. InThread(new, t) = InThread(rows, t)
      BY DEF InThread
    <2>2. IsRoot(new, t)
      BY <1>1, <1>2
    <2> QED BY <1>2, <2>1, <2>2, OtherLists
  <1> QED BY <1>1, <1>2 DEF ListsIn

LEMMA ThreadMaps ==
    ASSUME Good(post, log, request, seenLocked), NEW q \in Requests, CommitThread(q), actor' = request[q].who
    PROVE  Promise!Next
  <1> DEFINE who == request[q].who
  <1>1. PICK row : post' = Append(post, row) /\ IsNewPost(row, who, New, 1)
    BY ThreadStarts
  <1>2. /\ Len(post) < MaxPosts /\ seenLocked' = seenLocked /\ RowsOK(post) /\ RowsOK(post') /\ who \in Personas
    <2>1. Good(post', log', request', seenLocked')
      BY CommitThreadGood
    <2> QED BY <2>1, RequestFields DEF CommitThread, Good
  <1>3. /\ New = Len(post) + 1 /\ Len(post') = New /\ New \notin DOMAIN post
        /\ DOMAIN post' = DOMAIN post \cup {New} /\ post'[New] = row
        /\ \A o \in DOMAIN post : post'[o] = post[o]
    BY <1>1, <1>2, RowAppended DEF New, IsNewPost
  <1>4. /\ row.ref_id = who /\ row.thread = New /\ row.locked = 0 /\ New \in Nat /\ New \in DOMAIN post'
    BY <1>1, <1>2, <1>3, RowFacts DEF IsNewPost
  <1> DEFINE c == TextIn(row)
  <1>5. /\ AuthorsIn(post') = Append(AuthorsIn(post), who)
        /\ ContentIn(post') = Append(ContentIn(post), c)
        /\ LockedIn(post') = LockedIn(post)
    BY <1>2, <1>3, <1>4, TextsAppended
  <1>6. IsRoot(post', New)
    BY <1>3, <1>4 DEF IsRoot
  <1>7. ListsIn(post') = [t \in DOMAIN ListsIn(post) \cup {New} |-> IF t = New THEN <<New>> ELSE ListsIn(post)[t]]
    <2>1. /\ DOMAIN ListsIn(post') = DOMAIN ListsIn(post) \cup {New} /\ New \notin DOMAIN ListsIn(post)
          /\ ListsIn(post')[New] = <<New>>
          /\ \A t \in DOMAIN ListsIn(post) : ListsIn(post')[t] = ListsIn(post)[t]
      BY <1>2, <1>3, <1>4, <1>6, StartsList
    <2>2. ListsIn(post') = [t \in DOMAIN ListsIn(post') |-> ListsIn(post')[t]]
      BY DEF ListsIn
    <2> QED BY <2>1, <2>2
  <1>8. c \in Promise!Content /\ Len(AuthorsIn(post)) = Len(post)
    BY <1>2, <1>3, <1>4, TextsAre, PromiseContent
  <1>9. Promise!New = New
    BY <1>3, <1>8, Abstract DEF Promise!New
  <1> HIDE DEF c
  <1>10. Promise!Start(who, c)
    BY <1>2, <1>5, <1>7, <1>8, <1>9, Abstract, AbstractNext DEF Promise!Start
  <1> QED BY <1>2, <1>8, <1>10 DEF Promise!Next

LEMMA ReplyMaps ==
    ASSUME Good(post, log, request, seenLocked), NEW q \in Requests, CommitReply(q), actor' = request[q].who
    PROVE  Promise!Next
  <1> DEFINE who == request[q].who
             t == request[q].target
  <1>1. t \in DOMAIN post /\ IsRoot(post, t) /\ (t \in seenLocked => who \in Admins)
    BY ReplyComes
  <1>2. PICK row : /\ post' = Append(post, row)
                   /\ IsNewPost(row, who, t, Cardinality(InThread(post, t)) + 1)
    BY ReplyComes
  <1>3. /\ Len(post) < MaxPosts /\ seenLocked' = seenLocked /\ RowsOK(post) /\ RowsOK(post') /\ who \in Personas
    <2>1. Good(post', log', request', seenLocked')
      BY CommitReplyGood
    <2> QED BY <2>1, RequestFields DEF CommitReply, Good
  <1>4. /\ New = Len(post) + 1 /\ Len(post') = New /\ New \notin DOMAIN post
        /\ DOMAIN post' = DOMAIN post \cup {New} /\ post'[New] = row
        /\ \A o \in DOMAIN post : post'[o] = post[o]
    BY <1>2, <1>3, RowAppended DEF New, IsNewPost
  <1>5. /\ row.ref_id = who /\ row.thread = t /\ row.idx = Cardinality(InThread(post, t)) + 1
        /\ row.locked = 0 /\ New \in Nat /\ New \in DOMAIN post'
    BY <1>2, <1>3, <1>4, RowFacts DEF IsNewPost
  <1> DEFINE c == TextIn(row)
  <1>6. /\ AuthorsIn(post') = Append(AuthorsIn(post), who)
        /\ ContentIn(post') = Append(ContentIn(post), c)
        /\ LockedIn(post') = LockedIn(post)
    BY <1>3, <1>4, <1>5, TextsAppended
  <1>7. ListsIn(post') = [ListsIn(post) EXCEPT ![t] = Append(@, New)]
    <2>1. post'[New].thread = t /\ post'[New].idx = Cardinality(InThread(post, t)) + 1
      BY <1>4, <1>5
    <2> QED BY <1>1, <1>3, <1>4, <1>5, <2>1, RepliesToList, SMTT(30)
  <1>8. c \in Promise!Content /\ Len(AuthorsIn(post)) = Len(post)
    BY <1>3, <1>4, <1>5, TextsAre, PromiseContent
  <1>9. Promise!New = New
    BY <1>4, <1>8, Abstract DEF Promise!New
  <1>10. t \in DOMAIN ListsIn(post)
    BY <1>1 DEF ListsIn
  <1> HIDE DEF c
  <1>11. Promise!Reply(t, who, c)
    BY <1>1, <1>3, <1>6, <1>7, <1>8, <1>9, Abstract, AbstractNext DEF Promise!Reply, Promise!MayChange
  <1> QED BY <1>3, <1>8, <1>10, <1>11, Abstract DEF Promise!Next

(* An edit or a deletion. *)
LEMMA ChangeMaps ==
    ASSUME Good(post, log, request, seenLocked), RowsOK(post'), NEW p, NEW row, NEW who \in Personas,
           IsChange(p, row, who), post' = [post EXCEPT ![p] = row], actor' = who,
           seenLocked' = IF row.locked = 1 THEN seenLocked ELSE seenLocked \ {p}
    PROVE  Promise!Next
  <1> DEFINE t == Root(post, p)
             i == post[p].idx
             c == TextIn(row)
  <1>1. /\ RowsOK(post) /\ seenLocked \subseteq LockedIn(post)
    BY DEF Good, LockedIn
  <1>2. /\ p \in DOMAIN post /\ row \in Post
        /\ row.thread = post[p].thread /\ row.idx = post[p].idx /\ row.ref_id = post[p].ref_id
        /\ row.locked \in 0..1 /\ row.name \in 0..1 /\ row.deleted \in 0..1
        /\ who = post[p].ref_id \/ who \in Admins
        /\ post[p].locked = 1 /\ row.locked = 0 => who \in Admins
        /\ t \in seenLocked => who \in Admins
    BY DEF IsChange
  <1>3. DOMAIN post' = DOMAIN post /\ post'[p] = row /\ \A o \in DOMAIN post : o # p => post'[o] = post[o]
    BY <1>2
  <1>4. ListsIn(post') = ListsIn(post)
    BY <1>1, <1>2, <1>3, KeepsLists
  <1>5. AuthorsIn(post') = AuthorsIn(post)
    BY <1>2, <1>3 DEF AuthorsIn
  <1>6. ContentIn(post') = [ContentIn(post) EXCEPT ![p] = c]
    BY <1>2, <1>3 DEF ContentIn
  <1>7. c \in Promise!Content
    BY <1>2, PromiseContent DEF TextIn, Texts
  <1>8. t \in DOMAIN ListsIn(post) /\ i \in DOMAIN ListsIn(post)[t] /\ ListsIn(post)[t][i] = p
    <2>1. t \in DOMAIN post /\ IsRoot(post, t)
      BY <1>1, <1>2 DEF RowsOK, RowOK
    <2>2. Numbered(post, t) /\ p \in InThread(post, t)
      BY <1>1, <1>2, <2>1 DEF RowsOK, InThread, Root
    <2>3. ListsIn(post)[t] = List(post, t)
      BY <2>1 DEF ListsIn
    <2>4. t \in DOMAIN ListsIn(post)
      BY <2>1 DEF ListsIn
    <2> QED BY <2>2, <2>3, <2>4, At
  <1>9. \/ LockedIn(post') \in {LockedIn(post), LockedIn(post) \cup {p}}
        \/ who \in Admins /\ LockedIn(post') = LockedIn(post) \ {p}
    <2>1. CASE row.locked = post[p].locked
      <3>1. LockedIn(post') = LockedIn(post)
        BY <1>3, <2>1 DEF LockedIn
      <3> QED BY <3>1
    <2>2. CASE row.locked = 1
      <3>1. LockedIn(post') = LockedIn(post) \cup {p}
        BY <1>2, <1>3, <2>2 DEF LockedIn
      <3> QED BY <3>1
    <2>3. CASE row.locked # post[p].locked /\ row.locked # 1
      <3>0. RowOK(post, p)
        BY <1>1, <1>2, RowFacts
      <3>1. post[p].locked = 1 /\ row.locked = 0
        BY <1>2, <2>3, <3>0 DEF RowOK
      <3>2. LockedIn(post') = LockedIn(post) \ {p}
        BY <1>3, <3>1 DEF LockedIn
      <3> QED BY <1>2, <3>1, <3>2
    <2> QED BY <2>1, <2>2, <2>3
  <1>10. seenLocked' = seenLocked \cap LockedIn(post')
    <2>1. \A o \in DOMAIN post : o # p => (o \in LockedIn(post') <=> o \in LockedIn(post))
      BY <1>3 DEF LockedIn
    <2>2. p \in LockedIn(post') <=> row.locked = 1
      BY <1>2, <1>3 DEF LockedIn
    <2>3. LockedIn(post) \subseteq DOMAIN post
      BY DEF LockedIn
    <2> QED BY <1>1, <2>1, <2>2, <2>3
  <1>11. AuthorsIn(post)[p] = post[p].ref_id
    BY <1>2 DEF AuthorsIn
  <1> HIDE DEF c, t, i
  <1>12. Promise!Change(t, p, who, c)
    BY <1>2, <1>4, <1>5, <1>6, <1>9, <1>10, <1>11, Abstract, AbstractNext DEF Promise!Change, Promise!MayChange
  <1> QED BY <1>7, <1>8, <1>12, Abstract DEF Promise!Next

LEMMA RestMaps ==
    ASSUME post' = post, seenLocked' = seenLocked, actor' = 0
    PROVE  Promise!Next
  <1>1. Lists' = Lists /\ AuthorsOf' = AuthorsOf /\ ContentOf' = ContentOf /\ LockedOnes' = LockedOnes
    BY Abstract, AbstractNext
  <1> QED BY <1>1 DEF Promise!Next, Promise!Rest

LEMMA ReadMaps ==
    ASSUME Good(post, log, request, seenLocked), NEW q \in Requests, CommitRead(q), actor' = 0
    PROVE  Promise!Next
  <1> DEFINE p == request[q].target
             t == Root(Seen(q), p)
             sees == /\ IsRoot(Seen(q), p) /\ Locked(q)
                     /\ ~ ChangedSince(log, request[q].since, {<<"row", t>>})
  <1>1. /\ request[q].phase = "open" /\ request[q].op = "read" /\ post' = post
        /\ seenLocked' = IF sees THEN seenLocked \cup {t} ELSE seenLocked
    BY DEF CommitRead, Open
  <1>2. CASE ~ sees
    BY <1>1, <1>2, RestMaps
  <1>3. CASE sees
    <2>1. /\ IsRoot(Seen(q), p) /\ Locked(q) /\ t = p /\ seenLocked' = seenLocked \cup {p}
          /\ ~ ChangedSince(log, request[q].since, {<<"row", p>>})
      BY <1>1, <1>3 DEF IsRoot, Root
    <2>2. p \in DOMAIN Seen(q) /\ p \in DOMAIN post /\ IsRoot(post, p)
      BY <1>1, <2>1, OpenFacts
    <2>3. Seen(q)[p].locked = 1
      BY <2>1 DEF Locked, IsLocked
    <2>4. post[p].locked = 1
      BY <1>1, <2>1, <2>2, <2>3, LockUnchanged
    <2>5. p \in LockedOnes /\ p \in DOMAIN Lists
      BY <2>2, <2>4 DEF LockedOnes, Lists
    <2>6. Lists' = Lists /\ AuthorsOf' = AuthorsOf /\ ContentOf' = ContentOf /\ LockedOnes' = LockedOnes
      BY <1>1, Abstract, AbstractNext
    <2>7. Promise!See(p)
      BY <2>1, <2>5, <2>6 DEF Promise!See
    <2> QED BY <2>5, <2>7 DEF Promise!Next
  <1> QED BY <1>2, <1>3

LEMMA StepMaps ==
    ASSUME Good(post, log, request, seenLocked), NEW q \in Requests, Step(q)
    PROVE  Promise!Next
  <1>0. request[q].who \in Personas
    BY RequestFields DEF Good
  <1>1. CASE Begin(q) \/ BeginFails(q)
    BY <1>1, RestMaps DEF Begin, BeginFails
  <1>2. CASE actor' = request[q].who /\ CommitThread(q)
    BY <1>2, ThreadMaps
  <1>3. CASE actor' = request[q].who /\ CommitReply(q)
    BY <1>3, ReplyMaps
  <1>4. CASE actor' = request[q].who /\ CommitEdit(q)
    <2>1. PICK row : /\ post' = [post EXCEPT ![request[q].target] = row]
                     /\ IsChange(request[q].target, row, request[q].who)
      BY <1>4, EditChanges
    <2>2. RowsOK(post')
      BY <1>4, CommitEditGood DEF Good
    <2>3. post'[request[q].target] = row
      BY <2>1 DEF IsChange
    <2>4. seenLocked' = IF row.locked = 1 THEN seenLocked ELSE seenLocked \ {request[q].target}
      BY <1>4, <2>3 DEF CommitEdit
    <2> QED BY <1>0, <1>4, <2>1, <2>2, <2>4, ChangeMaps
  <1>5. CASE actor' = request[q].who /\ CommitDelete(q)
    <2>1. PICK row : /\ post' = [post EXCEPT ![request[q].target] = row]
                     /\ IsChange(request[q].target, row, request[q].who)
                     /\ row.locked = post[request[q].target].locked
      BY <1>5, DeleteChanges
    <2>2. RowsOK(post')
      BY <1>5, CommitDeleteGood DEF Good
    <2>3. seenLocked' = seenLocked /\ seenLocked \subseteq {t \in DOMAIN post : post[t].locked = 1}
      BY <1>5 DEF CommitDelete, Good
    <2>4. seenLocked' = IF row.locked = 1 THEN seenLocked ELSE seenLocked \ {request[q].target}
      BY <2>1, <2>3
    <2> QED BY <1>0, <1>5, <2>1, <2>2, <2>4, ChangeMaps
  <1>6. CASE actor' = 0 /\ (ReplyToReply(q) \/ ChangeFails(q) \/ Refuse(q))
    BY <1>6, RestMaps DEF ReplyToReply, ChangeFails, Refuse, RolledBack
  <1>7. CASE actor' = 0 /\ CommitRead(q)
    BY <1>7, ReadMaps
  <1>8. CASE actor' = 0 /\ (Abort(q) \/ AbortUnrolled(q))
    BY <1>8, RestMaps DEF Abort, AbortUnrolled, Aborted
  <1> QED BY <1>1, <1>2, <1>3, <1>4, <1>5, <1>6, <1>7, <1>8 DEF Step

(* Threads keep what module Forum promises: the list of a thread only      *)
(* grows at its end, authors and numbers never change, and once a          *)
(* committed transaction has read a thread that is locked, nobody but an   *)
(* administrator changes it, not even in a transaction that began before   *)
(* the lock and has not seen it.                                           *)
THEOREM ForumImplemented == Spec => ImplementsForum
  <1>1. Init => Promise!Init
    <2> SUFFICES ASSUME Init PROVE Promise!Init
      OBVIOUS
    <2>1. PICK w \in Personas : post = <<FirstPost(w)>>
      BY DEF Init
    <2>2. /\ RowsOK(post) /\ DOMAIN post = {1} /\ post[1].ref_id = w
          /\ post[1].locked = 0 /\ post[1].name = 0 /\ post[1].deleted = 0
          /\ InThread(post, 1) = {1} /\ IsRoot(post, 1)
      BY <2>1, FirstRows
    <2>3. List(post, 1) = <<1>>
      <3>1. Numbered(post, 1)
        BY <2>2 DEF RowsOK
      <3> QED BY <2>2, <3>1, ListFirst
    <2>4. ListsIn(post) = [t \in {1} |-> <<1>>]
      <3>1. {p \in DOMAIN post : IsRoot(post, p)} = {1}
        BY <2>2
      <3> QED BY <2>3, <3>1 DEF ListsIn
    <2>5. AuthorsIn(post) \in [{1} -> Personas]
      BY <2>2 DEF AuthorsIn
    <2>6. ContentIn(post) = [p \in {1} |-> [name |-> 0, deleted |-> 0]]
      BY <2>2 DEF ContentIn, TextIn
    <2>7. LockedIn(post) = {}
      BY <2>2 DEF LockedIn
    <2>8. seenLocked = {} /\ actor = 0
      BY DEF Init
    <2> QED BY <2>4, <2>5, <2>6, <2>7, <2>8, Abstract DEF Promise!Init
  <1>2. IInv /\ [Next]_vars => [Promise!Next]_(Promise!vars)
    <2> SUFFICES ASSUME IInv, [Next]_vars PROVE [Promise!Next]_(Promise!vars)
      OBVIOUS
    <2>1. Good(post, log, request, seenLocked)
      BY DEF IInv
    <2>2. CASE \E q \in Requests : Step(q)
      BY <2>1, <2>2, StepMaps
    <2>3. CASE \E q \in Requests, op \in Ops, who \in Personas, target \in {0} \cup DOMAIN post :
                   \E locked, name \in 0..1 : Arrive(q, op, who, target, locked, name)
      BY <2>3, RestMaps DEF Arrive
    <2>4. CASE UNCHANGED vars
      <3>1. post' = post /\ seenLocked' = seenLocked /\ actor' = actor
        BY <2>4 DEF vars
      <3>2. Lists' = Lists /\ AuthorsOf' = AuthorsOf /\ ContentOf' = ContentOf /\ LockedOnes' = LockedOnes
        BY <3>1, Abstract, AbstractNext
      <3> QED BY <3>1, <3>2 DEF Promise!vars
    <2> QED BY <2>2, <2>3, <2>4, NextCases
  <1> QED BY <1>1, <1>2, Inductive, PTL DEF Spec, ImplementsForum, Promise!Spec

-----------------------------------------------------------------------------
(* The rows of the posts, from one step to the next. *)

(* A post keeps its author, its thread and its number, and stays deleted   *)
(* once it is.  Only its author and administrators change it, and only     *)
(* administrators unlock its thread, whoever locked it.  A new post is by  *)
(* whoever made it.  Of a thread that somebody has read locked, only       *)
(* administrators add to or change anything.                               *)
KeepsPosts(by) ==
    /\ \A p \in DOMAIN post :
           /\ p \in DOMAIN post'
           /\ post'[p].ref_id = post[p].ref_id /\ post'[p].thread = post[p].thread
           /\ post'[p].idx = post[p].idx
           /\ post[p].deleted = 1 => post'[p].deleted = 1
           /\ post'[p] # post[p] => by \in Admins \/ by = post[p].ref_id
           /\ post[p].locked = 1 /\ post'[p].locked = 0 => by \in Admins
           /\ Root(post, p) \in seenLocked /\ post'[p] # post[p] => by \in Admins
    /\ \A p \in DOMAIN post' \ DOMAIN post :
           /\ post'[p].ref_id = by
           /\ Root(post', p) \in seenLocked => by \in Admins

PostsKept == KeepsPosts(actor')

LEMMA AddedKeeps ==
    ASSUME Good(post, log, request, seenLocked), NEW row, NEW who, NEW t, NEW i,
           post' = Append(post, row), IsNewPost(row, who, t, i),
           t \in seenLocked => who \in Admins
    PROVE  KeepsPosts(who)
  <1>1. RowsOK(post) /\ row \in Post
    BY DEF Good, IsNewPost
  <1> DEFINE n == Len(post) + 1
  <1>2. /\ n \notin DOMAIN post /\ DOMAIN post' = DOMAIN post \cup {n} /\ post'[n] = row
        /\ \A o \in DOMAIN post : post'[o] = post[o]
    BY <1>1, RowAppended
  <1> HIDE DEF n
  <1>3. row.ref_id = who /\ row.thread = t
    BY DEF IsNewPost
  <1> QED BY <1>2, <1>3 DEF KeepsPosts, Root

LEMMA ChangedKeeps ==
    ASSUME NEW p, NEW row, NEW who,
           post' = [post EXCEPT ![p] = row], IsChange(p, row, who)
    PROVE  KeepsPosts(who)
  <1>1. /\ p \in DOMAIN post /\ DOMAIN post' = DOMAIN post /\ post'[p] = row
        /\ \A o \in DOMAIN post : o # p => post'[o] = post[o]
    BY DEF IsChange
  <1>2. /\ row.thread = post[p].thread /\ row.idx = post[p].idx /\ row.ref_id = post[p].ref_id
        /\ post[p].deleted = 1 => row.deleted = 1
        /\ who = post[p].ref_id \/ who \in Admins
        /\ post[p].locked = 1 /\ row.locked = 0 => who \in Admins
        /\ Root(post, p) \in seenLocked => who \in Admins
    BY DEF IsChange
  <1> QED BY <1>1, <1>2 DEF KeepsPosts

LEMMA StepKeepsPosts ==
    ASSUME Good(post, log, request, seenLocked), NEW q \in Requests, Step(q)
    PROVE  PostsKept
  <1>1. CASE post' = post
    BY <1>1 DEF PostsKept, KeepsPosts
  <1>2. CASE actor' = request[q].who /\ CommitThread(q)
    <2>1. PICK row : post' = Append(post, row) /\ IsNewPost(row, request[q].who, New, 1)
      BY <1>2, ThreadStarts
    <2>2. New \notin seenLocked
      <3>1. seenLocked \subseteq DOMAIN post /\ RowsOK(post)
        BY DEF Good
      <3> QED BY <3>1, RowFacts DEF New
    <2> QED BY <1>2, <2>1, <2>2, AddedKeeps DEF PostsKept
  <1>3. CASE actor' = request[q].who /\ CommitReply(q)
    BY <1>3, ReplyComes, AddedKeeps DEF PostsKept
  <1>4. CASE actor' = request[q].who /\ (CommitEdit(q) \/ CommitDelete(q))
    BY <1>4, EditChanges, DeleteChanges, ChangedKeeps DEF PostsKept
  <1>5. CASE Begin(q) \/ BeginFails(q)
    BY <1>1, <1>5 DEF Begin, BeginFails
  <1>6. CASE ReplyToReply(q) \/ ChangeFails(q) \/ Refuse(q)
    BY <1>1, <1>6 DEF ReplyToReply, ChangeFails, Refuse, RolledBack
  <1>7. CASE CommitRead(q)
    BY <1>1, <1>7 DEF CommitRead
  <1>8. CASE Abort(q) \/ AbortUnrolled(q)
    BY <1>1, <1>8 DEF Abort, AbortUnrolled, Aborted
  <1> QED BY <1>2, <1>3, <1>4, <1>5, <1>6, <1>7, <1>8 DEF Step

(* What transactions at once, attempts that are aborted and connections    *)
(* that are lost leave of the rows of table thread: a post keeps its       *)
(* place, its author and its deletion, updateReply and deleteReply change  *)
(* it for nobody but its author and administrators, only administrators    *)
(* unlock a thread, whoever has locked it, and a lock holds for everybody  *)
(* else once it was read.                                                  *)
THEOREM RowsKept == Spec => [][PostsKept]_vars
  <1>1. IInv /\ [Next]_vars => [PostsKept]_vars
    <2> SUFFICES ASSUME IInv, Next PROVE PostsKept
      OBVIOUS
    <2>1. Good(post, log, request, seenLocked)
      BY DEF IInv
    <2>2. CASE \E q \in Requests : Step(q)
      BY <2>1, <2>2, StepKeepsPosts
    <2>3. CASE \E q \in Requests, op \in Ops, who \in Personas, target \in {0} \cup DOMAIN post :
                   \E locked, name \in 0..1 : Arrive(q, op, who, target, locked, name)
      BY <2>3 DEF Arrive, PostsKept, KeepsPosts
    <2> QED BY <2>2, <2>3, NextCases
  <1> QED BY <1>1, Inductive, PTL DEF Spec

-----------------------------------------------------------------------------
(* A request comes nearer to its answer. *)

(* The transactions a request may still begin or end: TxTries attempts, of *)
(* its own and, unless it reads, of the reading after it.                  *)
StepsLeft(r) ==
    IF r.phase = "idle" THEN 0
    ELSE (IF r.op = "read" THEN 0 ELSE 2 * TxTries)
             + 2 * (TxTries - r.attempt) + (IF r.phase = "open" THEN 1 ELSE 2)

Nearer(q) == StepsLeft(request'[q]) < StepsLeft(request[q])

(* A step of a request takes it nearer to its answer, and nothing else     *)
(* touches a request that is in progress.                                  *)
NearerByStep ==
    \A q \in Requests :
        /\ Step(q) => Nearer(q)
        /\ request'[q] = request[q] \/ request[q].phase = "idle" \/ Nearer(q)

StepsBounded ==
    /\ [](\A q \in Requests : StepsLeft(request[q]) \in 0..(4 * TxTries))
    /\ [][NearerByStep]_vars

LEMMA StepsIn ==
    ASSUME NEW r, r.attempt \in 1..TxTries
    PROVE  /\ StepsLeft(r) \in 0..(4 * TxTries)
           /\ r.phase = "trying" /\ r.op = "read" => StepsLeft(r) = 2 * (TxTries - r.attempt) + 2
           /\ r.phase = "trying" /\ r.op # "read" =>
                  StepsLeft(r) = 2 * TxTries + 2 * (TxTries - r.attempt) + 2
           /\ r.phase = "open" /\ r.op = "read" => StepsLeft(r) = 2 * (TxTries - r.attempt) + 1
           /\ r.phase = "open" /\ r.op # "read" =>
                  StepsLeft(r) = 2 * TxTries + 2 * (TxTries - r.attempt) + 1
           /\ r.phase = "idle" => StepsLeft(r) = 0
  BY NumbersAssumed DEF StepsLeft

(* What becomes of a request in progress. *)
ComesNext(r, new) ==
    /\ r.phase \in {"trying", "open"} /\ r.attempt \in 1..TxTries /\ new.attempt \in 1..TxTries
    /\ \/ new.phase = "idle"
       \/ r.phase = "trying" /\ new.phase = "open" /\ new.op = r.op /\ new.attempt = r.attempt
       \/ r.phase = "open" /\ new.phase = "trying" /\ new.op = r.op /\ new.attempt = r.attempt + 1
       \/ r.phase = "open" /\ new.phase = "trying" /\ r.op # "read" /\ new.op = "read"

LEMMA ComesNearer ==
    ASSUME NEW r, NEW new, ComesNext(r, new)
    PROVE  StepsLeft(new) < StepsLeft(r)
  <1>1. r.attempt \in 1..TxTries /\ new.attempt \in 1..TxTries /\ TxTries \in Nat
    BY NumbersAssumed DEF ComesNext
  <1>. QED
    BY <1>1, StepsIn DEF ComesNext

(* The transaction that ends may leave a read to do, or another attempt. *)
LEMMA AnswerNext ==
    ASSUME NEW r \in Request, r.phase \in {"trying", "open"}
    PROVE  ComesNext(r, Idle)
  BY RequestFields, IdleOK, NumbersAssumed DEF ComesNext

LEMMA ReadNext ==
    ASSUME NEW r \in Request, r.phase = "open", r.op # "read", NEW t,
           NEW new, new = [Idle EXCEPT !.phase = "trying", !.op = "read", !.target = t]
    PROVE  ComesNext(r, new)
  <1>1. new.phase = "trying" /\ new.op = "read" /\ new.attempt = 1
    BY IdleOK DEF Idle
  <1>. QED
    BY <1>1, RequestFields, NumbersAssumed DEF ComesNext

LEMMA AgainNext ==
    ASSUME NEW r \in Request, r.phase = "open", r.attempt < TxTries, NEW tree,
           NEW new, new = [r EXCEPT !.phase = "trying", !.attempt = @ + 1, !.tree = tree,
                                    !.since = 0, !.view = <<>>]
    PROVE  ComesNext(r, new)
  <1>1. new.phase = "trying" /\ new.op = r.op /\ new.attempt = r.attempt + 1
    BY DEF Request
  <1>2. r.attempt \in 1..TxTries /\ r.attempt + 1 \in 1..TxTries
    BY RequestFields, NumbersAssumed
  <1>. QED
    BY <1>1, <1>2 DEF ComesNext

LEMMA BegunNext ==
    ASSUME NEW r \in Request, r.phase = "trying", NEW rows, NEW since, NEW tree,
           NEW new, new = [r EXCEPT !.phase = "open", !.since = since, !.view = rows, !.tree = tree]
    PROVE  ComesNext(r, new)
  <1>1. new.phase = "open" /\ new.op = r.op /\ new.attempt = r.attempt
    BY DEF Request
  <1>. QED
    BY <1>1, RequestFields DEF ComesNext

LEMMA StepNearer ==
    ASSUME request \in [Requests -> Request], NEW q \in Requests, Step(q)
    PROVE  \E new : ComesNext(request[q], new) /\ Becomes(q, new)
  <1>. DEFINE Goal == \E new : ComesNext(request[q], new) /\ Becomes(q, new)
  <1>0. request[q] \in Request
    OBVIOUS
  <1>1. ASSUME Answer(q), request[q].phase \in {"trying", "open"} PROVE Goal
    BY <1>0, <1>1, AnswerNext DEF Answer
  <1>2. ASSUME NEW t, ThenRead(q, t), request[q].phase = "open", request[q].op # "read" PROVE Goal
    BY <1>0, <1>2, ReadNext DEF ThenRead
  <1>3. ASSUME NEW tree, Aborted(q, tree), request[q].phase = "open" PROVE Goal
    <2>1. CASE request[q].attempt < TxTries
      BY <1>0, <1>3, <2>1, AgainNext DEF Aborted
    <2>2. CASE ~(request[q].attempt < TxTries)
      BY <1>1, <1>3, <2>2 DEF Aborted
    <2>. QED
      BY <2>1, <2>2
  <1>4. CASE Begin(q)
    BY <1>0, <1>4, BegunNext DEF Begin
  <1>5. CASE BeginFails(q)
    BY <1>1, <1>5 DEF BeginFails
  <1>6. CASE CommitThread(q) \/ CommitDelete(q) \/ CommitRead(q)
    BY <1>1, <1>6 DEF CommitThread, CommitDelete, CommitRead, MayChange, Open
  <1>7. CASE CommitReply(q) \/ CommitEdit(q)
    BY <1>2, <1>7 DEF CommitReply, CommitEdit, MayReply, MayChange, Open
  <1>8. CASE ReplyToReply(q) \/ ChangeFails(q) \/ Refuse(q)
    BY <1>1, <1>8 DEF ReplyToReply, ChangeFails, Refuse, RolledBack, MayChange, Open
  <1>9. CASE Abort(q) \/ AbortUnrolled(q)
    BY <1>3, <1>9 DEF Abort, AbortUnrolled, Open
  <1>. QED
    BY <1>4, <1>5, <1>6, <1>7, <1>8, <1>9 DEF Step

(* However often its attempts are aborted and whatever others commit, a    *)
(* request takes at most 4 * TxTries further steps: Retry's bound on the   *)
(* attempts of each of its one or two transactions.  That it takes them is *)
(* the liveness property RequestsEnd.                                      *)
THEOREM RequestsAdvance == Spec => StepsBounded
  <1>1. IInv => \A q \in Requests : StepsLeft(request[q]) \in 0..(4 * TxTries)
    BY RequestFields, StepsIn DEF IInv, Good
  <1>2. IInv /\ [Next]_vars => [NearerByStep]_vars
    <2>. SUFFICES ASSUME IInv, Next PROVE NearerByStep
      OBVIOUS
    <2>1. request \in [Requests -> Request]
      BY DEF IInv, Good
    <2>2. ASSUME NEW o \in Requests, NEW new, Becomes(o, new)
          PROVE  request'[o] = new /\ \A q \in Requests : q # o => request'[q] = request[q]
      BY <2>1, <2>2 DEF Becomes
    <2>3. ASSUME NEW o \in Requests, Step(o)
          PROVE  Nearer(o) /\ \A q \in Requests : q # o => request'[q] = request[q]
      <3>1. PICK new : ComesNext(request[o], new) /\ Becomes(o, new)
        BY <2>1, <2>3, StepNearer
      <3>. QED
        BY <2>2, <3>1, ComesNearer DEF Nearer
    <2>4. ASSUME NEW o \in Requests, NEW op, NEW who, NEW target, NEW locked, NEW name,
                 Arrive(o, op, who, target, locked, name)
          PROVE  /\ request[o].phase = "idle"
                 /\ \A q \in Requests : q # o => request'[q] = request[q]
      BY <2>2, <2>4 DEF Arrive
    <2>5. ASSUME NEW q \in Requests, Step(q)
          PROVE  Nearer(q)
      BY <2>3, <2>5
    <2>6. ASSUME NEW q \in Requests
          PROVE  request'[q] = request[q] \/ request[q].phase = "idle" \/ Nearer(q)
      BY <2>3, <2>4, NextCases
    <2>. QED
      BY <2>5, <2>6 DEF NearerByStep
  <1>. QED
    BY <1>1, <1>2, Inductive, PTL DEF Spec, StepsBounded

=============================================================================
