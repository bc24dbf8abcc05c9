------------------------- MODULE ResourceStoreProofs -------------------------
(***************************************************************************)
(* Facts about the operators of ResourceStore, for every set of rows.      *)
(***************************************************************************)
EXTENDS ResourceStore, FiniteSetTheorems, TLAPS

(* A table that has rows has a last one.  A save keeps this fact, because  *)
(* the row it writes becomes the last; that is how NextRowid can be known  *)
(* to exist without an induction over the table.                           *)
HasLastRow(resources) ==
    resources = {} \/ \E r \in resources : \A q \in resources : q.rowid <= r.rowid

(* The rowid of a new row is above every rowid of the table.               *)
LEMMA NextRowidAbove ==
    ASSUME NEW resources \in SUBSET Row, HasLastRow(resources)
    PROVE  /\ NextRowid(resources) \in Nat
           /\ \A r \in resources : r.rowid < NextRowid(resources)
<1> DEFINE rowids == {0} \cup {r.rowid : r \in resources}
           IsLast(x) == x \in rowids /\ \A y \in rowids : x >= y
<1>1. rowids \subseteq Nat
  BY DEF Row
<1>2. \E x \in rowids : \A y \in rowids : x >= y
  <2>1. CASE resources = {}
    <3>1. rowids = {0}
      BY <2>1
    <3> QED  BY <3>1
  <2>2. CASE \E r \in resources : \A q \in resources : q.rowid <= r.rowid
    <3>1. PICK r \in resources : \A q \in resources : q.rowid <= r.rowid
      BY <2>2
    <3>2. r.rowid \in rowids /\ r.rowid \in Nat /\ \A y \in rowids : r.rowid >= y
      BY <1>1, <3>1 DEF Row
    <3> QED  BY <3>2
  <2> QED  BY <2>1, <2>2 DEF HasLastRow
<1>3. Max(rowids) \in rowids /\ \A y \in rowids : Max(rowids) >= y
  BY <1>2 DEF Max
<1>4. NextRowid(resources) = 1 + Max(rowids)
  BY DEF NextRowid
<1>5. Max(rowids) \in Nat
  BY <1>1, <1>3
<1>6. \A r \in resources : r.rowid \in rowids /\ r.rowid \in Nat
  BY <1>1
<1> QED  BY <1>3, <1>4, <1>5, <1>6

(* Saving the first row keeps the type of the table, its finiteness and    *)
(* its last row.                                                           *)
LEMMA InsertResourcesType ==
    ASSUME NEW resources \in SUBSET Row, HasLastRow(resources), IsFiniteSet(resources),
           NEW n \in Node, NEW path \in Seq(Ident)
    PROVE  /\ InsertResources(resources, n, path) \subseteq Row
           /\ IsFiniteSet(InsertResources(resources, n, path))
           /\ HasLastRow(InsertResources(resources, n, path))
<1> DEFINE kept == {r \in resources : n.ri = Null \/ r.ri # n.ri}
           new == [rowid |-> NextRowid(resources), ri |-> n.ri, rn |-> n.rn,
                   ty |-> n.ty, pi |-> n.pi, path |-> path]
<1>1. InsertResources(resources, n, path) = kept \cup {new}
  BY DEF InsertResources
<1>2. /\ NextRowid(resources) \in Nat
      /\ \A r \in resources : r.rowid < NextRowid(resources)
  BY NextRowidAbove
<1>3. new \in Row
  BY <1>2 DEF Row, Node, NodeOfType, ResourceType
<1>4. kept \subseteq resources
  OBVIOUS
<1>5. IsFiniteSet(kept \cup {new})
  BY <1>4, FS_Subset, FS_AddElement
<1>6. \A q \in kept \cup {new} : q.rowid <= new.rowid
  BY <1>2, <1>4 DEF Row
<1>7. HasLastRow(kept \cup {new})
  BY <1>6 DEF HasLastRow
<1> QED  BY <1>1, <1>3, <1>4, <1>5, <1>7

(* Saving the second row keeps the type of its table.                      *)
LEMMA InsertTypeRowType ==
    ASSUME NEW typeRows \in SUBSET TypeRow, NEW n \in Node
    PROVE  InsertTypeRow(typeRows, n) \subseteq TypeRow
  BY DEF InsertTypeRow, TypeRow, TypeRowOf, Node, NodeOfType

(* What a lookup hands out is a resource.                                  *)
LEMMA LoadType ==
    ASSUME NEW resources \in SUBSET Row, NEW typeRows \in SUBSET TypeRow, NEW target
    PROVE  LoadPrimitiveContentByTarget(resources, typeRows, target) \subseteq Node
<1> SUFFICES ASSUME NEW r \in resources, HasTypeRow(typeRows, r)
             PROVE  NodeOf(typeRows, r) \in Node
  BY DEF LoadPrimitiveContentByTarget, FirstMatch
<1> DEFINE d == CHOOSE d \in typeRows : d.ri = r.ri /\ d.ty = r.ty
<1>1. d \in typeRows /\ d.ri = r.ri /\ d.ty = r.ty
  BY DEF HasTypeRow
<1>2. NodeOf(typeRows, r) =
        [ri |-> r.ri, rn |-> r.rn, ty |-> r.ty, pi |-> r.pi, attr |-> d.attr]
  BY DEF NodeOf
<1>3. r \in Row /\ d \in TypeRow
  BY <1>1
<1> HIDE DEF d
<1> QED  BY <1>1, <1>2, <1>3 DEF Row, TypeRow, TypeRowOf, Node, NodeOfType

(* The path of a new row is a path.                                        *)
LEMMA PathsForType ==
    ASSUME NEW resources \in SUBSET Row, IsFiniteSet(resources), NEW pi, NEW rn \in Ident
    PROVE  PathsFor(resources, pi, rn) \subseteq Seq(Ident)
<1>1. GetFullPathByRI(resources, pi) \subseteq Seq(Ident)
  <2> DEFINE up == Ancestor(resources, pi)
  <2> SUFFICES ASSUME NEW k \in Depth(resources, pi)
               PROVE  [j \in 1 .. k + 1 |-> RowOf(resources, up[k + 1 - j]).rn] \in Seq(Ident)
    BY DEF GetFullPathByRI
  <2>1. Cardinality(resources) \in Nat
    BY FS_CardinalityType
  <2>2. k \in Nat /\ \A j \in 0 .. k : HasRow(resources, up[j])
    BY <2>1 DEF Depth
  <2>3. ASSUME NEW j \in 1 .. k + 1
        PROVE  RowOf(resources, up[k + 1 - j]).rn \in Ident
    <3>1. k + 1 - j \in 0 .. k
      BY <2>2
    <3>2. HasRow(resources, up[k + 1 - j])
      BY <2>2, <3>1
    <3>3. RowOf(resources, up[k + 1 - j]) \in resources
      BY <3>2 DEF HasRow, RowOf
    <3> QED  BY <3>3 DEF Row
  <2> QED  BY <2>2, <2>3
<1>2. \A p \in GetFullPathByRI(resources, pi) : Append(p, rn) \in Seq(Ident)
  BY <1>1
<1>3. CASE pi = Null
  <2>1. <<rn>> \in Seq(Ident)
    OBVIOUS
  <2> QED  BY <1>3, <2>1 DEF PathsFor
<1>4. CASE pi # Null
  <2>1. PathsFor(resources, pi, rn) = {Append(p, rn) : p \in GetFullPathByRI(resources, pi)}
    BY <1>4 DEF PathsFor
  <2> QED  BY <1>2, <2>1
<1> QED  BY <1>3, <1>4

(* The rows of a result in scan order are a sequence of these rows.        *)
LEMMA InRowOrderType ==
    ASSUME NEW rows, IsFiniteSet(rows)
    PROVE  InRowOrder(rows) \subseteq Seq(rows)
<1>1. Cardinality(rows) \in Nat
  BY FS_CardinalityType
<1> QED  BY <1>1 DEF InRowOrder

-----------------------------------------------------------------------------
(* What a save does to the resources the database holds completely.        *)

(* ri is the primary key of resources, ri and ty that of the type tables.  *)
RowKeys(resources) ==
    \A r, q \in resources : (r.ri = q.ri /\ r.ri # Null) => r = q

TypeKeys(typeRows) ==
    \A d, e \in typeRows : (d.ri = e.ri /\ d.ty = e.ty /\ d.ri # Null) => d = e

SameKey(r, d) == r.ri # Null /\ d.ri = r.ri /\ d.ty = r.ty

Joined(r, d) == [ri |-> r.ri, rn |-> r.rn, ty |-> r.ty, pi |-> r.pi, attr |-> d.attr]

(* No type row has the ID of the resource.                                 *)
Unused(typeRows, ri) == ri # Null => \A d \in typeRows : d.ri # ri

IsRowOf(r, n) == r.ri = n.ri /\ r.rn = n.rn /\ r.ty = n.ty /\ r.pi = n.pi

(* What is stored is the join of the tables.                               *)
LEMMA StoredIsJoin ==
    ASSUME NEW resources, NEW typeRows, TypeKeys(typeRows)
    PROVE  \A n : n \in Stored(resources, typeRows) <=>
                    \E r \in resources, d \in typeRows : SameKey(r, d) /\ n = Joined(r, d)
<1>1. ASSUME NEW r \in resources, NEW d \in typeRows, SameKey(r, d)
      PROVE  HasTypeRow(typeRows, r) /\ NodeOf(typeRows, r) = Joined(r, d)
  <2> DEFINE c == CHOOSE c \in typeRows : c.ri = r.ri /\ c.ty = r.ty
  <2>1. c \in typeRows /\ c.ri = r.ri /\ c.ty = r.ty
    BY <1>1 DEF SameKey
  <2>2. NodeOf(typeRows, r) =
          [ri |-> r.ri, rn |-> r.rn, ty |-> r.ty, pi |-> r.pi, attr |-> c.attr]
    BY DEF NodeOf
  <2> HIDE DEF c
  <2>3. c = d
    BY <1>1, <2>1 DEF TypeKeys, SameKey
  <2>4. HasTypeRow(typeRows, r)
    BY <1>1 DEF HasTypeRow, SameKey
  <2> QED  BY <2>2, <2>3, <2>4 DEF Joined
<1>2. ASSUME NEW r \in resources, HasTypeRow(typeRows, r)
      PROVE  \E d \in typeRows : SameKey(r, d)
  BY <1>2 DEF HasTypeRow, SameKey
<1>3. \A n : n \in Stored(resources, typeRows) <=>
                \E r \in resources : HasTypeRow(typeRows, r) /\ n = NodeOf(typeRows, r)
  BY DEF Stored
<1> QED  BY <1>1, <1>2, <1>3

(* The first row of a save, under an unused ID, changes nothing.           *)
LEMMA FirstRowSaved ==
    ASSUME NEW resources, NEW typeRows, TypeKeys(typeRows), NEW n, NEW path,
           Unused(typeRows, n.ri)
    PROVE  Stored(InsertResources(resources, n, path), typeRows) = Stored(resources, typeRows)
<1> DEFINE rows == InsertResources(resources, n, path)
           new == [rowid |-> NextRowid(resources), ri |-> n.ri, rn |-> n.rn,
                   ty |-> n.ty, pi |-> n.pi, path |-> path]
<1>1. \A r : r \in rows <=> (r \in resources /\ (n.ri = Null \/ r.ri # n.ri)) \/ r = new
  BY DEF InsertResources
<1>2. new.ri = n.ri
  OBVIOUS
<1> HIDE DEF rows, new
<1>3. ASSUME NEW r, NEW d \in typeRows, SameKey(r, d)
      PROVE  r \in rows <=> r \in resources
  BY <1>1, <1>2, <1>3 DEF SameKey, Unused
<1>4. \A m : m \in Stored(rows, typeRows) <=> m \in Stored(resources, typeRows)
  BY <1>3, StoredIsJoin
<1> QED  BY <1>4 DEF rows

(* The second row makes the resource stored, and no other one.             *)
LEMMA SecondRowSaved ==
    ASSUME NEW resources, RowKeys(resources), NEW typeRows, TypeKeys(typeRows),
           NEW n \in Node, Unused(typeRows, n.ri), NEW r \in resources, IsRowOf(r, n)
    PROVE  /\ TypeKeys(InsertTypeRow(typeRows, n))
           /\ n.ri = Null => Stored(resources, InsertTypeRow(typeRows, n))
                               = Stored(resources, typeRows)
           /\ n.ri # Null => /\ Stored(resources, InsertTypeRow(typeRows, n))
                                  = Stored(resources, typeRows) \cup {n}
                             /\ \A m \in Stored(resources, typeRows) : m.ri # n.ri
<1> DEFINE rows == InsertTypeRow(typeRows, n)
           new == [ri |-> n.ri, ty |-> n.ty, attr |-> n.attr]
<1>1. \A d : d \in rows <=> d \in typeRows \/ d = new
  BY DEF InsertTypeRow, Unused
<1>2. new.ri = n.ri /\ new.ty = n.ty /\ new.attr = n.attr
  OBVIOUS
<1> HIDE DEF rows, new
<1>3. TypeKeys(rows)
  BY <1>1, <1>2 DEF TypeKeys, Unused
<1>4. \A q \in resources : SameKey(q, new) => q = r
  BY <1>2 DEF SameKey, RowKeys, IsRowOf
<1>5. Joined(r, new) = n
  BY <1>2 DEF Joined, IsRowOf, Node, NodeOfType
<1>6. CASE n.ri = Null
  <2>1. \A q \in resources : ~ SameKey(q, new)
    BY <1>2, <1>6 DEF SameKey
  <2>2. \A m : m \in Stored(resources, rows) <=> m \in Stored(resources, typeRows)
    BY <1>1, <1>3, <2>1, StoredIsJoin
  <2>3. Stored(resources, rows) = Stored(resources, typeRows)
    BY <2>2
  <2> QED  BY <1>3, <1>6, <2>3 DEF rows
<1>7. CASE n.ri # Null
  <2>1. SameKey(r, new)
    BY <1>2, <1>7 DEF SameKey, IsRowOf
  <2>2. \A m : m \in Stored(resources, rows) <=> m \in Stored(resources, typeRows) \/ m = n
    BY <1>1, <1>3, <1>4, <1>5, <2>1, StoredIsJoin
  <2>3. Stored(resources, rows) = Stored(resources, typeRows) \cup {n}
    BY <2>2
  <2>4. \A m \in Stored(resources, typeRows) : m.ri # n.ri
    BY <1>7, StoredIsJoin DEF Unused, SameKey, Joined
  <2> QED  BY <1>3, <1>7, <2>3, <2>4 DEF rows
<1> QED  BY <1>6, <1>7

(* A row keeps the primary key of its table.                               *)
LEMMA InsertResourcesKeys ==
    ASSUME NEW resources, RowKeys(resources), NEW n, NEW path
    PROVE  RowKeys(InsertResources(resources, n, path))
  BY DEF InsertResources, RowKeys

-----------------------------------------------------------------------------
(* What a save does to lookups.                                            *)

(* What a lookup returns is stored.                                        *)
LEMMA LoadIsStored ==
    ASSUME NEW resources, NEW typeRows, NEW target
    PROVE  LoadPrimitiveContentByTarget(resources, typeRows, target)
             = Stored(FirstMatch(resources, target), typeRows)
  BY DEF LoadPrimitiveContentByTarget, Stored

(* The new row comes last in the scan and replaces no complete resource.   *)
LEMMA FirstRowKeepsLookups ==
    ASSUME NEW resources \in SUBSET Row, HasLastRow(resources),
           NEW typeRows, TypeKeys(typeRows), NEW n, NEW path, NEW target,
           Unused(typeRows, n.ri)
    PROVE  LoadPrimitiveContentByTarget(resources, typeRows, target) \subseteq
             LoadPrimitiveContentByTarget(InsertResources(resources, n, path),
                                          typeRows, target)
<1> DEFINE rows == InsertResources(resources, n, path)
           new == [rowid |-> NextRowid(resources), ri |-> n.ri, rn |-> n.rn,
                   ty |-> n.ty, pi |-> n.pi, path |-> path]
<1>1. \A r : r \in rows <=> (r \in resources /\ (n.ri = Null \/ r.ri # n.ri)) \/ r = new
  BY DEF InsertResources
<1>2. new.rowid = NextRowid(resources)
  OBVIOUS
<1> HIDE DEF rows, new
<1>3. ASSUME NEW r \in FirstMatch(resources, target), NEW d \in typeRows, SameKey(r, d)
      PROVE  r \in FirstMatch(rows, target)
  <2>1. r \in resources /\ r \in rows
    BY <1>1, <1>3 DEF FirstMatch, Unused, SameKey
  <2>2. r.rowid \in Nat /\ NextRowid(resources) \in Nat /\ r.rowid < NextRowid(resources)
    BY <2>1, NextRowidAbove DEF Row
  <2>3. \A q \in rows : Matches(q, target) => r.rowid <= q.rowid
    BY <1>1, <1>2, <2>2 DEF FirstMatch
  <2> QED  BY <2>1, <2>3 DEF FirstMatch
<1>4. \A m : m \in Stored(FirstMatch(resources, target), typeRows)
               => m \in Stored(FirstMatch(rows, target), typeRows)
  BY <1>3, StoredIsJoin
<1> QED  BY <1>4, LoadIsStored DEF rows

(* A second row does not change what is found.                             *)
LEMMA SecondRowKeepsLookups ==
    ASSUME NEW resources, NEW typeRows, TypeKeys(typeRows), NEW more, TypeKeys(more),
           typeRows \subseteq more, NEW target
    PROVE  LoadPrimitiveContentByTarget(resources, typeRows, target) \subseteq
             LoadPrimitiveContentByTarget(resources, more, target)
<1>1. \A m : m \in Stored(FirstMatch(resources, target), typeRows)
               => m \in Stored(FirstMatch(resources, target), more)
  BY StoredIsJoin
<1> QED  BY <1>1, LoadIsStored

-----------------------------------------------------------------------------
(* Induction, from the theorem of the library that the strict subsets of a *)
(* finite set are well-founded.                                            *)

(* Of finitely many candidates for a set there is a smallest one.          *)
LEMMA MinimalSubset ==
    ASSUME NEW S, IsFiniteSet(S), NEW T, T \subseteq SUBSET S, T # {}
    PROVE  \E x \in T : \A y \in T : y \subseteq x => y = x
<1>1. T \subseteq FiniteSubsetsOf(S)
  BY FS_Subset DEF FiniteSubsetsOf
<1>2. PICK x \in T : \A y \in T : ~ (<<y, x>> \in StrictSubsetOrdering(S))
  BY <1>1, FS_StrictSubsetOrderingWellFounded, WFMin
<1>3. ASSUME NEW y \in T, y \subseteq x PROVE y = x
  <2>1. y \in SUBSET S /\ x \in SUBSET S
    OBVIOUS
  <2> QED  BY <1>2, <1>3, <2>1 DEF StrictSubsetOrdering
<1> QED  BY <1>2, <1>3

(* A set of numbers that is not empty has a least one.                     *)
LEMMA LeastNumber ==
    ASSUME NEW T \in SUBSET Nat, T # {}
    PROVE  \E n \in T : \A m \in T : n <= m
<1>1. PICK k \in T : TRUE
  OBVIOUS
<1> DEFINE U == {1 .. n : n \in {m \in T : m <= k}}
<1>2. PICK S : IsFiniteSet(S) /\ U \subseteq SUBSET S /\ U # {}
  <2>1. 1 .. k \in U
    BY <1>1
  <2>2. U \subseteq SUBSET (1 .. k)
    OBVIOUS
  <2>3. IsFiniteSet(1 .. k)
    BY FS_Interval
  <2> HIDE DEF U
  <2> QED  BY <2>1, <2>2, <2>3
<1>3. PICK x \in U : \A y \in U : y \subseteq x => y = x
  <2> HIDE DEF U
  <2> QED  BY <1>2, MinimalSubset
<1>4. PICK n \in T : n <= k /\ x = 1 .. n
  BY <1>3
<1>5. ASSUME NEW m \in T, m < n
      PROVE  FALSE
  <2>1. 1 .. m \in U /\ 1 .. m \subseteq x
    BY <1>4, <1>5
  <2>2. 1 .. m = x
    BY <1>3, <2>1
  <2>3. n \in 1 .. n /\ n \notin 1 .. m
    BY <1>4, <1>5
  <2> QED  BY <1>4, <2>2, <2>3
<1> QED  BY <1>4, <1>5

(* Induction, on the set of the numbers that a fact holds of.              *)
LEMMA SetInduction ==
    ASSUME NEW T \in SUBSET Nat, 0 \in T, \A n \in T : n + 1 \in T
    PROVE  T = Nat
<1> SUFFICES ASSUME T # Nat PROVE FALSE
  OBVIOUS
<1>1. PICK n \in Nat \ T : \A m \in Nat \ T : n <= m
  BY LeastNumber
<1>2. n - 1 \in T
  BY <1>1
<1> QED  BY <1>1, <1>2

-----------------------------------------------------------------------------
(* The ancestors of a resource.                                            *)

(* The IDs that the recursive query climbs through in n generations.       *)
Climbs(f, n, resources, i) ==
    f = [k \in 0 .. n |->
           IF k = 0 THEN i
           ELSE IF HasRow(resources, f[k - 1]) THEN RowOf(resources, f[k - 1]).pi
           ELSE Null]

(* There is a function that climbs, because after each number of steps     *)
(* there is one that is right up to there.                                 *)
LEMMA ClimbExists ==
    ASSUME NEW resources, NEW i, NEW n \in Nat
    PROVE  \E f : Climbs(f, n, resources, i)
<1> DEFINE T == {m \in Nat : \E f : Climbs(f, m, resources, i)}
           Up(j) == IF HasRow(resources, j) THEN RowOf(resources, j).pi ELSE Null
<1>1. 0 \in T
  <2> DEFINE f == [k \in 0 .. 0 |-> i]
  <2>1. f = [k \in 0 .. 0 |-> IF k = 0 THEN i ELSE Up(f[k - 1])]
    OBVIOUS
  <2> QED  BY <2>1 DEF Climbs
<1>2. ASSUME NEW m \in T PROVE m + 1 \in T
  <2>1. PICK f : Climbs(f, m, resources, i)
    OBVIOUS
  <2> DEFINE g == [k \in 0 .. m + 1 |-> IF k = m + 1 THEN Up(f[m]) ELSE f[k]]
  <2>2. \A k \in 0 .. m : g[k] = f[k] /\ f[k] = IF k = 0 THEN i ELSE Up(f[k - 1])
    BY <2>1 DEF Climbs
  <2>3. \A k \in 0 .. m + 1 : g[k] = IF k = 0 THEN i ELSE Up(g[k - 1])
    <3>1. g[m + 1] = Up(f[m]) /\ g[m] = f[m]
      OBVIOUS
    <3> HIDE DEF g, Up
    <3>2. ASSUME NEW k \in 1 .. m PROVE g[k] = Up(g[k - 1])
      <4>1. k \in 0 .. m /\ k - 1 \in 0 .. m /\ k # 0
        OBVIOUS
      <4> QED  BY <2>2, <4>1
    <3>3. g[0] = i
      BY <2>2
    <3> QED  BY <3>1, <3>2, <3>3
  <2>4. Climbs(g, m + 1, resources, i)
    <3>1. g = [k \in 0 .. m + 1 |-> g[k]]
      OBVIOUS
    <3> HIDE DEF g
    <3>2. g = [k \in 0 .. m + 1 |-> IF k = 0 THEN i ELSE Up(g[k - 1])]
      BY <2>3, <3>1
    <3> QED  BY <3>2 DEF Climbs
  <2> HIDE DEF g
  <2> QED  BY <2>4
<1> HIDE DEF T
<1>3. T = Nat
  <2>1. T \in SUBSET Nat
    BY DEF T
  <2> QED  BY <1>1, <1>2, <2>1, SetInduction
<1> QED  BY <1>3 DEF T

(* Ancestor is such a function.                                            *)
LEMMA AncestorClimbs ==
    ASSUME NEW resources, IsFiniteSet(resources), NEW i
    PROVE  Climbs(Ancestor(resources, i), Cardinality(resources), resources, i)
<1>1. Ancestor(resources, i) = CHOOSE f : Climbs(f, Cardinality(resources), resources, i)
  BY DEF Ancestor, Climbs
<1>2. \E f : Climbs(f, Cardinality(resources), resources, i)
  BY ClimbExists, FS_CardinalityType
<1> QED  BY <1>1, <1>2

(* The first ancestor is the resource itself, the next one the parent of   *)
(* the one before.                                                         *)
LEMMA AncestorSteps ==
    ASSUME NEW resources, IsFiniteSet(resources), NEW i
    PROVE  LET up == Ancestor(resources, i) IN
           /\ DOMAIN up = 0 .. Cardinality(resources) /\ Cardinality(resources) \in Nat
           /\ up[0] = i
           /\ \A k \in 0 .. Cardinality(resources) - 1 :
                 up[k + 1] = IF HasRow(resources, up[k]) THEN RowOf(resources, up[k]).pi
                             ELSE Null
<1> DEFINE up == Ancestor(resources, i)
           n == Cardinality(resources)
<1>1. n \in Nat
  BY FS_CardinalityType
<1>2. up = [k \in 0 .. n |->
              IF k = 0 THEN i
              ELSE IF HasRow(resources, up[k - 1]) THEN RowOf(resources, up[k - 1]).pi
              ELSE Null]
  BY AncestorClimbs DEF Climbs
<1> HIDE DEF up, n
<1>3. DOMAIN up = 0 .. n /\ up[0] = i
  BY <1>1, <1>2
<1>4. ASSUME NEW k \in 0 .. n - 1
      PROVE  up[k + 1] = IF HasRow(resources, up[k]) THEN RowOf(resources, up[k]).pi
                         ELSE Null
  <2>1. k + 1 \in 0 .. n /\ k + 1 # 0 /\ (k + 1) - 1 = k
    BY <1>1
  <2> QED  BY <1>2, <2>1
<1> QED  BY <1>1, <1>3, <1>4 DEF up, n

(* The path of every row is the path of its parent's row and its own name. *)
SpelledByParent(rs, r) ==
    \/ r.pi = Null /\ r.path = <<r.rn>>
    \/ \E p \in rs : p.ri = r.pi /\ p.ri # Null /\ r.path = Append(p.path, r.rn)

PathsSpelled(rs) == \A r \in rs : SpelledByParent(rs, r)

(* One generation up, the path is shorter by the last name.                *)
LEMMA PathOfParent ==
    ASSUME NEW rs \in SUBSET Row, PathsSpelled(rs), NEW r \in rs
    PROVE  /\ Len(r.path) \in Nat /\ Len(r.path) > 0 /\ r.path[Len(r.path)] = r.rn
           /\ Len(r.path) = 1 <=> r.pi = Null
           /\ r.pi # Null =>
                \E p \in rs : /\ p.ri = r.pi /\ Len(p.path) = Len(r.path) - 1
                              /\ \A j \in 1 .. Len(p.path) : p.path[j] = r.path[j]
<1>1. r.path \in Seq(Ident) /\ r.rn \in Ident /\ \A p \in rs : p.path \in Seq(Ident)
  BY DEF Row
<1>2. SpelledByParent(rs, r)
  BY DEF PathsSpelled
<1>3. CASE r.pi = Null
  <2>1. r.path = <<r.rn>>
    BY <1>2, <1>3 DEF SpelledByParent
  <2> QED  BY <1>3, <2>1
<1>4. CASE r.pi # Null
  <2>1. PICK p \in rs : p.ri = r.pi /\ r.path = Append(p.path, r.rn)
    BY <1>2, <1>4 DEF SpelledByParent
  <2>2. Len(p.path) > 0
    <3>1. p.path = <<p.rn>> \/ \E q \in rs : p.path = Append(q.path, p.rn)
      BY DEF PathsSpelled, SpelledByParent
    <3>2. p.rn \in Ident
      BY DEF Row
    <3>3. ASSUME NEW q \in rs, p.path = Append(q.path, p.rn)
          PROVE  Len(p.path) > 0
      <4>1. q.path \in Seq(Ident)
        BY <1>1
      <4> QED  BY <3>2, <3>3, <4>1
    <3> QED  BY <3>1, <3>3
  <2>3. p.path \in Seq(Ident)
    BY <1>1
  <2>4. /\ Len(r.path) = Len(p.path) + 1 /\ r.path[Len(r.path)] = r.rn
        /\ \A j \in 1 .. Len(p.path) : p.path[j] = r.path[j]
    BY <1>1, <2>1, <2>3
  <2>5. Len(p.path) \in Nat
    BY <2>3
  <2> QED  BY <1>4, <2>1, <2>2, <2>4, <2>5
<1> QED  BY <1>3, <1>4

(* The row of an ID that has one.                                          *)
LEMMA RowOfKey ==
    ASSUME NEW rs, RowKeys(rs), NEW q \in rs, q.ri # Null
    PROVE  HasRow(rs, q.ri) /\ RowOf(rs, q.ri) = q
<1>1. \E r \in rs : r.ri = q.ri
  OBVIOUS
<1>2. RowOf(rs, q.ri) \in rs /\ RowOf(rs, q.ri).ri = q.ri
  BY <1>1 DEF RowOf
<1> QED  BY <1>1, <1>2 DEF HasRow, RowKeys

(* k generations up there is a row, whose path is shorter by k names.      *)
UpTo(rs, r, k) ==
    \E q \in rs : /\ q.ri = Ancestor(rs, r.ri)[k] /\ q.ri # Null
                  /\ Len(q.path) = Len(r.path) - k
                  /\ \A j \in 1 .. Len(q.path) : q.path[j] = r.path[j]

(* All the names are those up to the last.                                 *)
LEMMA UpToAll ==
    ASSUME NEW rs \in SUBSET Row, IsFiniteSet(rs), RowKeys(rs), PathsSpelled(rs),
           NEW r \in rs, r.ri # Null,
           NEW k \in 0 .. Cardinality(rs), k < Len(r.path)
    PROVE  UpTo(rs, r, k)
<1> DEFINE up == Ancestor(rs, r.ri)
           N == Cardinality(rs)
           T == {m \in Nat : m <= N /\ m < Len(r.path) => UpTo(rs, r, m)}
<1>1. N \in Nat /\ up[0] = r.ri
      /\ \A m \in 0 .. N - 1 :
            up[m + 1] = IF HasRow(rs, up[m]) THEN RowOf(rs, up[m]).pi ELSE Null
  BY AncestorSteps
<1>2. Len(r.path) \in Nat
  BY PathOfParent
<1> HIDE DEF N
<1>3. 0 \in T
  BY <1>1, <1>2 DEF UpTo
<1>4. ASSUME NEW m \in T PROVE m + 1 \in T
  <2> SUFFICES ASSUME m + 1 <= N, m + 1 < Len(r.path) PROVE UpTo(rs, r, m + 1)
    OBVIOUS
  <2>1. PICK q \in rs : /\ q.ri = up[m] /\ q.ri # Null
                        /\ Len(q.path) = Len(r.path) - m
                        /\ \A j \in 1 .. Len(q.path) : q.path[j] = r.path[j]
    BY <1>1, <1>2 DEF UpTo
  <2>2. q.pi # Null
    <3>1. Len(q.path) # 1
      BY <1>2, <2>1
    <3> QED  BY <3>1, PathOfParent
  <2>3. PICK p \in rs : /\ p.ri = q.pi /\ Len(p.path) = Len(q.path) - 1
                        /\ \A j \in 1 .. Len(p.path) : p.path[j] = q.path[j]
    BY <2>2, PathOfParent
  <2>4. up[m + 1] = q.pi
    <3>1. HasRow(rs, q.ri) /\ RowOf(rs, q.ri) = q
      BY <2>1, RowOfKey
    <3>2. m \in 0 .. N - 1
      BY <1>1
    <3> QED  BY <1>1, <2>1, <3>1, <3>2
  <2>5. \A j \in 1 .. Len(p.path) : p.path[j] = r.path[j]
    <3>1. \A j \in 1 .. Len(p.path) : j \in 1 .. Len(q.path)
      BY <1>2, <2>1, <2>3
    <3> QED  BY <2>1, <2>3, <3>1
  <2>6. Len(p.path) = Len(r.path) - (m + 1)
    BY <1>2, <2>1, <2>3
  <2> QED  BY <2>2, <2>3, <2>4, <2>5, <2>6 DEF UpTo
<1> HIDE DEF T
<1>5. T = Nat
  <2>1. T \in SUBSET Nat
    BY DEF T
  <2> QED  BY <1>3, <1>4, <2>1, SetInduction
<1>6. k \in T /\ k <= N
  BY <1>1, <1>5 DEF N
<1> QED  BY <1>6 DEF T

(* There are more rows than generations.                                   *)
LEMMA MoreRows ==
    ASSUME NEW rs \in SUBSET Row, IsFiniteSet(rs), RowKeys(rs), PathsSpelled(rs),
           NEW r \in rs, r.ri # Null
    PROVE  Len(r.path) <= Cardinality(rs)
<1> DEFINE N == Cardinality(rs)
           lens == {Len(q.path) : q \in rs}
           L == Len(r.path)
<1>1. N \in Nat /\ L \in Nat /\ L > 0
  BY FS_CardinalityType, PathOfParent
<1>2. IsFiniteSet(lens) /\ Cardinality(lens) <= N
  <2> DEFINE f == [q \in rs |-> Len(q.path)]
  <2>1. f \in Surjection(rs, lens)
    BY DEF Surjection
  <2> QED  BY <2>1, FS_Surjection DEF ExistsSurjection
<1> SUFFICES ASSUME N < L PROVE FALSE
  BY <1>1
<1>3. (L - N) .. L \subseteq lens
  <2> SUFFICES ASSUME NEW j \in (L - N) .. L PROVE j \in lens
    OBVIOUS
  <2>1. (L - j) \in 0 .. N /\ L - j < L
    BY <1>1
  <2>2. UpTo(rs, r, L - j)
    BY <2>1, UpToAll
  <2> QED  BY <1>1, <2>2 DEF UpTo
<1>4. Cardinality((L - N) .. L) = N + 1
  <2>1. L - N \in Int /\ L \in Int /\ ~ (L - N > L)
    BY <1>1
  <2>2. Cardinality((L - N) .. L) = L - (L - N) + 1
    BY <2>1, FS_Interval
  <2> QED  BY <1>1, <2>2
<1> HIDE DEF lens, N, L
<1>5. Cardinality((L - N) .. L) <= Cardinality(lens)
  BY <1>2, <1>3, FS_Subset
<1>6. Cardinality(lens) \in Nat
  BY <1>2, FS_CardinalityType
<1> QED  BY <1>1, <1>2, <1>4, <1>5, <1>6

(* The recursive query finds the path a row was stored with.               *)
LEMMA FullPath ==
    ASSUME NEW rs \in SUBSET Row, IsFiniteSet(rs), RowKeys(rs), PathsSpelled(rs),
           NEW r \in rs, r.ri # Null
    PROVE  /\ Depth(rs, r.ri) = {Len(r.path) - 1}
           /\ GetFullPathByRI(rs, r.ri) = {r.path}
<1> DEFINE up == Ancestor(rs, r.ri)
           d == Len(r.path) - 1
           N == Cardinality(rs)
<1>1. N \in Nat /\ d \in 0 .. N /\ Len(r.path) = d + 1 /\ d \in Nat
  BY FS_CardinalityType, PathOfParent, MoreRows
<1>2. ASSUME NEW k \in 0 .. d
      PROVE  /\ HasRow(rs, up[k])
             /\ RowOf(rs, up[k]).pi = Null <=> k = d
             /\ RowOf(rs, up[k]).rn = r.path[d + 1 - k]
  <2>1. k \in 0 .. N /\ k < Len(r.path)
    BY <1>1
  <2>2. PICK q \in rs : /\ q.ri = up[k] /\ q.ri # Null
                        /\ Len(q.path) = Len(r.path) - k
                        /\ \A j \in 1 .. Len(q.path) : q.path[j] = r.path[j]
    BY <2>1, UpToAll DEF UpTo
  <2>3. HasRow(rs, up[k]) /\ RowOf(rs, up[k]) = q
    BY <2>2, RowOfKey
  <2>4. q.pi = Null <=> k = d
    <3>1. Len(q.path) = 1 <=> q.pi = Null
      BY PathOfParent
    <3>2. Len(q.path) = d + 1 - k
      BY <1>1, <2>2
    <3> QED  BY <1>1, <3>1, <3>2
  <2>5. q.rn = r.path[d + 1 - k]
    <3>1. Len(q.path) = d + 1 - k /\ Len(q.path) > 0 /\ q.path[Len(q.path)] = q.rn
      BY <1>1, <2>2, PathOfParent
    <3>2. Len(q.path) \in 1 .. Len(q.path)
      BY <1>1, <3>1
    <3> QED  BY <2>2, <3>1, <3>2
  <2> QED  BY <2>3, <2>4, <2>5
<1>3. \A k : k \in Depth(rs, r.ri) <=>
             /\ k \in 0 .. N
             /\ \A j \in 0 .. k : HasRow(rs, up[j])
             /\ \A j \in 0 .. k - 1 : RowOf(rs, up[j]).pi # Null
             /\ RowOf(rs, up[k]).pi = Null
  BY DEF Depth
<1> HIDE DEF N, d, up
<1>4. d \in Depth(rs, r.ri)
  <2>1. \A j \in 0 .. d - 1 : j \in 0 .. d /\ j # d
    BY <1>1
  <2>2. d \in 0 .. d
    BY <1>1
  <2> QED  BY <1>1, <1>2, <1>3, <2>1, <2>2
<1>5. ASSUME NEW k \in Depth(rs, r.ri)
      PROVE  k = d
  <2>1. k \in 0 .. N /\ RowOf(rs, up[k]).pi = Null
        /\ \A j \in 0 .. k - 1 : RowOf(rs, up[j]).pi # Null
    BY <1>3
  <2>2. CASE k \in 0 .. d
    BY <1>2, <2>1, <2>2
  <2>3. CASE d \in 0 .. k - 1
    <3>1. d \in 0 .. d
      BY <1>1
    <3> QED  BY <1>2, <2>1, <2>3, <3>1
  <2> QED  BY <1>1, <2>1, <2>2, <2>3
<1>6. Depth(rs, r.ri) = {d}
  BY <1>4, <1>5
<1>7. [j \in 1 .. d + 1 |-> RowOf(rs, up[d + 1 - j]).rn] = r.path
  <2>1. \A j \in 1 .. d + 1 : RowOf(rs, up[d + 1 - j]).rn = r.path[j]
    <3> TAKE j \in 1 .. d + 1
    <3>1. d + 1 - j \in 0 .. d /\ d + 1 - (d + 1 - j) = j
      BY <1>1
    <3> QED  BY <1>2, <3>1
  <2>2. r.path \in Seq(Ident)
    BY DEF Row
  <2>3. r.path = [j \in 1 .. d + 1 |-> r.path[j]]
    BY <1>1, <2>2
  <2> QED  BY <2>1, <2>3
<1>8. GetFullPathByRI(rs, r.ri) =
        { [j \in 1 .. k + 1 |-> RowOf(rs, up[k + 1 - j]).rn] : k \in Depth(rs, r.ri) }
  BY DEF GetFullPathByRI, up
<1>9. GetFullPathByRI(rs, r.ri) = {r.path}
  BY <1>6, <1>7, <1>8
<1> QED  BY <1>6, <1>9 DEF d

(* Induction over the subsets of a finite set, one element at a time.      *)
LEMMA SubsetInduction ==
    ASSUME NEW S, IsFiniteSet(S), NEW T \in SUBSET SUBSET S, {} \in T,
           \A s \in SUBSET S : (s # {} /\ \A x \in s : s \ {x} \in T) => s \in T
    PROVE  T = SUBSET S
<1> SUFFICES ASSUME T # SUBSET S PROVE FALSE
  OBVIOUS
<1> DEFINE U == (SUBSET S) \ T
<1>1. U \subseteq SUBSET S /\ U # {}
  OBVIOUS
<1>2. PICK s \in U : \A y \in U : y \subseteq s => y = s
  <2> HIDE DEF U
  <2> QED  BY <1>1, MinimalSubset
<1>3. ASSUME NEW x \in s PROVE s \ {x} \in T
  <2>1. s \ {x} \subseteq s /\ s \ {x} # s /\ s \ {x} \in SUBSET S
    OBVIOUS
  <2> QED  BY <1>2, <2>1
<1>4. s \in SUBSET S /\ s \notin T
  BY <1>2
<1> HIDE DEF U
<1>5. s # {}
  BY <1>4
<1> QED  BY <1>3, <1>4, <1>5

-----------------------------------------------------------------------------
(* The sum of the sizes of rows.                                           *)

SizeOf(typeRows, r) == NodeOf(typeRows, r).attr.cs

SumOfSizes(typeRows, rows) == MapThenSumSet(LAMBDA r : NodeOf(typeRows, r).attr.cs, rows)

(* The function that the sum is computed with.                             *)
AddsUp(f, typeRows, rows) ==
    f = [s \in SUBSET rows |->
           IF s = {} THEN 0
           ELSE SizeOf(typeRows, CHOOSE x \in s : TRUE) + f[s \ {CHOOSE x \in s : TRUE}]]

(* SumOfSizes, with its function named.                                    *)
LEMMA SumByFunction ==
    ASSUME NEW typeRows, NEW rows
    PROVE  SumOfSizes(typeRows, rows) = (CHOOSE f : AddsUp(f, typeRows, rows))[rows]
  BY Zenon DEF SumOfSizes, MapThenSumSet, MapThenFoldSet, AddsUp, SizeOf

(* There is a function that adds, by induction over the subsets.           *)
LEMMA SumFunctionExists ==
    ASSUME NEW typeRows, NEW rows, IsFiniteSet(rows)
    PROVE  \E f : AddsUp(f, typeRows, rows)
<1> DEFINE first(s) == CHOOSE x \in s : TRUE
           Sum(f, s) == IF s = {} THEN 0 ELSE SizeOf(typeRows, first(s)) + f[s \ {first(s)}]
           Upto(f, n) == \A s \in SUBSET rows : Cardinality(s) <= n => f[s] = Sum(f, s)
           T == {n \in Nat : \E f : f = [s \in SUBSET rows |-> f[s]] /\ Upto(f, n)}
<1>1. \A s \in SUBSET rows : /\ IsFiniteSet(s) /\ Cardinality(s) \in Nat
                             /\ Cardinality(s) <= Cardinality(rows)
  BY FS_Subset, FS_CardinalityType
<1>2. \A s \in SUBSET rows : s # {} => /\ s \ {first(s)} \in SUBSET rows
                                       /\ Cardinality(s \ {first(s)}) = Cardinality(s) - 1
  <2> TAKE s \in SUBSET rows
  <2> HAVE s # {}
  <2>1. first(s) \in s
    OBVIOUS
  <2> QED  BY <1>1, <2>1, FS_RemoveElement
<1>3. \A s \in SUBSET rows : Cardinality(s) = 0 => s = {}
  BY <1>1, FS_EmptySet
<1>4. 0 \in T
  <2> DEFINE f == [s \in SUBSET rows |-> 0]
  <2>1. ASSUME NEW s \in SUBSET rows, Cardinality(s) <= 0
        PROVE  f[s] = Sum(f, s)
    <3>1. s = {}
      BY <1>1, <1>3, <2>1
    <3> QED  BY <3>1
  <2>2. f = [s \in SUBSET rows |-> f[s]]
    OBVIOUS
  <2> HIDE DEF f, Sum
  <2> QED  BY <2>1, <2>2
<1>5. ASSUME NEW n \in T PROVE n + 1 \in T
  <2>1. PICK f : f = [s \in SUBSET rows |-> f[s]] /\ Upto(f, n)
    OBVIOUS
  <2> DEFINE g == [s \in SUBSET rows |-> IF Cardinality(s) = n + 1 THEN Sum(f, s) ELSE f[s]]
  <2>2. g = [s \in SUBSET rows |-> g[s]]
    OBVIOUS
  <2>3. \A s \in SUBSET rows : Cardinality(s) <= n => g[s] = f[s]
    BY <1>1
  <2>4. \A s \in SUBSET rows : Cardinality(s) = n + 1 => g[s] = Sum(f, s)
    OBVIOUS
  <2> HIDE DEF g, first
  <2>5. \A s \in SUBSET rows : Cardinality(s) <= n + 1 => Sum(g, s) = Sum(f, s)
    <3> TAKE s \in SUBSET rows
    <3> HAVE Cardinality(s) <= n + 1
    <3>1. CASE s = {}
      BY <3>1
    <3>2. CASE s # {}
      <4>1. s \ {first(s)} \in SUBSET rows /\ Cardinality(s \ {first(s)}) <= n
        BY <1>1, <1>2, <3>2
      <4> QED  BY <2>3, <3>2, <4>1
    <3> QED  BY <3>1, <3>2
  <2> HIDE DEF Sum
  <2>6. ASSUME NEW s \in SUBSET rows, Cardinality(s) <= n + 1
        PROVE  g[s] = Sum(g, s)
    <3>1. CASE Cardinality(s) = n + 1
      BY <2>4, <2>5, <2>6, <3>1
    <3>2. CASE Cardinality(s) <= n
      BY <2>1, <2>3, <2>5, <2>6, <3>2
    <3> QED  BY <1>1, <2>6, <3>1, <3>2
  <2>7. Upto(g, n + 1) /\ n + 1 \in Nat
    BY <2>6
  <2> HIDE DEF Upto
  <2> QED  BY <2>2, <2>7
<1> HIDE DEF T
<1>6. T = Nat
  <2>1. T \in SUBSET Nat
    BY DEF T
  <2> QED  BY <1>4, <1>5, <2>1, SetInduction
<1>7. Cardinality(rows) \in T
  BY <1>1, <1>6
<1>8. PICK f : f = [s \in SUBSET rows |-> f[s]] /\ Upto(f, Cardinality(rows))
  BY <1>7 DEF T
<1>9. \A s \in SUBSET rows : f[s] = Sum(f, s)
  BY <1>1, <1>8
<1>10. f = [s \in SUBSET rows |-> Sum(f, s)]
  <2> HIDE DEF Sum
  <2> QED  BY <1>8, <1>9
<1>11. AddsUp(f, typeRows, rows)
  BY <1>10 DEF AddsUp
<1> QED  BY <1>11

(* A sum does not depend on the order of its terms, nor on other rows.     *)
LEMMA SumTerms ==
    ASSUME NEW typeRows, NEW rows, IsFiniteSet(rows), NEW f, AddsUp(f, typeRows, rows),
           \A r \in rows : SizeOf(typeRows, r) \in Nat
    PROVE  /\ f[{}] = 0
           /\ \A s \in SUBSET rows : f[s] \in Nat
           /\ \A s \in SUBSET rows : \A x \in s : f[s] = SizeOf(typeRows, x) + f[s \ {x}]
<1> DEFINE first(s) == CHOOSE x \in s : TRUE
<1>1. \A s \in SUBSET rows : s # {} =>
         /\ first(s) \in s /\ s \ {first(s)} \in SUBSET rows
         /\ f[s] = SizeOf(typeRows, first(s)) + f[s \ {first(s)}]
  BY DEF AddsUp
<1>2. f[{}] = 0
  BY DEF AddsUp
<1> HIDE DEF first
<1> DEFINE T == {s \in SUBSET rows : f[s] \in Nat}
           U == {s \in SUBSET rows : \A x \in s : f[s] = SizeOf(typeRows, x) + f[s \ {x}]}
<1>3. T = SUBSET rows
  <2>1. {} \in T
    BY <1>2
  <2>2. ASSUME NEW s \in SUBSET rows, s # {}, \A x \in s : s \ {x} \in T
        PROVE  s \in T
    <3>1. first(s) \in rows /\ f[s \ {first(s)}] \in Nat
      BY <1>1, <2>2
    <3>2. f[s] = SizeOf(typeRows, first(s)) + f[s \ {first(s)}]
      BY <1>1, <2>2
    <3>3. SizeOf(typeRows, first(s)) \in Nat
      BY <3>1
    <3> QED  BY <3>1, <3>2, <3>3
  <2>3. T \in SUBSET SUBSET rows
    OBVIOUS
  <2> HIDE DEF T
  <2> QED  BY <2>1, <2>2, <2>3, SubsetInduction
<1>4. U = SUBSET rows
  <2>1. {} \in U
    OBVIOUS
  <2>2. ASSUME NEW s \in SUBSET rows, s # {}, \A x \in s : s \ {x} \in U
        PROVE  s \in U
    <3> SUFFICES ASSUME NEW x \in s PROVE f[s] = SizeOf(typeRows, x) + f[s \ {x}]
      OBVIOUS
    <3>1. PICK y \in s : f[s] = SizeOf(typeRows, y) + f[s \ {y}]
      BY <1>1, <2>2
    <3>2. CASE x = y
      BY <3>1, <3>2
    <3>3. CASE x # y
      <4>1. s \ {x} \in U /\ s \ {y} \in U /\ y \in s \ {x} /\ x \in s \ {y}
        BY <2>2, <3>3
      <4>2. f[s \ {x}] = SizeOf(typeRows, y) + f[(s \ {x}) \ {y}]
        BY <4>1
      <4>3. f[s \ {y}] = SizeOf(typeRows, x) + f[(s \ {y}) \ {x}]
        BY <4>1
      <4>4. (s \ {y}) \ {x} = (s \ {x}) \ {y} /\ (s \ {x}) \ {y} \in SUBSET rows
        OBVIOUS
      <4>5. PICK rest : rest = f[(s \ {x}) \ {y}]
        OBVIOUS
      <4>6. rest \in Nat
        BY <1>3, <4>4, <4>5
      <4>7. SizeOf(typeRows, x) \in Nat /\ SizeOf(typeRows, y) \in Nat
        OBVIOUS
      <4>8. f[s \ {x}] = SizeOf(typeRows, y) + rest
        BY <4>2, <4>5
      <4>9. f[s \ {y}] = SizeOf(typeRows, x) + rest
        BY <4>3, <4>4, <4>5
      <4> HIDE DEF T, U
      <4> QED  BY <3>1, <4>6, <4>7, <4>8, <4>9
    <3> QED  BY <3>2, <3>3
  <2>3. U \in SUBSET SUBSET rows
    OBVIOUS
  <2> HIDE DEF U
  <2> QED  BY <2>1, <2>2, <2>3, SubsetInduction
<1> QED  BY <1>2, <1>3, <1>4

(* It may take out any element first.                                      *)
LEMMA SumAnyOrder ==
    ASSUME NEW typeRows, NEW rows, IsFiniteSet(rows), NEW f, AddsUp(f, typeRows, rows),
           \A r \in rows : SizeOf(typeRows, r) \in Nat, NEW s \in SUBSET rows, NEW x \in s
    PROVE  f[s] = SizeOf(typeRows, x) + f[s \ {x}] /\ f[s \ {x}] \in Nat
  BY SumTerms

(* Sums agree when their terms do.                                         *)
LEMMA SumAgrees ==
    ASSUME NEW typeRows, NEW more, NEW rows, NEW all, IsFiniteSet(all), rows \subseteq all,
           \A r \in rows : SizeOf(more, r) = SizeOf(typeRows, r),
           NEW f, AddsUp(f, typeRows, rows), NEW g, AddsUp(g, more, all)
    PROVE  g[rows] = f[rows]
<1> DEFINE first(s) == CHOOSE x \in s : TRUE
           T == {s \in SUBSET rows : g[s] = f[s]}
<1>1. \A s \in SUBSET rows : s # {} =>
         /\ first(s) \in s /\ s \ {first(s)} \in SUBSET rows
         /\ f[s] = SizeOf(typeRows, first(s)) + f[s \ {first(s)}]
         /\ g[s] = SizeOf(more, first(s)) + g[s \ {first(s)}]
  BY DEF AddsUp
<1>2. f[{}] = 0 /\ g[{}] = 0
  BY DEF AddsUp
<1> HIDE DEF first
<1>3. {} \in T
  BY <1>2
<1>4. ASSUME NEW s \in SUBSET rows, s # {}, \A x \in s : s \ {x} \in T
      PROVE  s \in T
  <2>1. first(s) \in rows /\ s \ {first(s)} \in T
    BY <1>1, <1>4
  <2> QED  BY <1>1, <1>4, <2>1
<1>5. T \in SUBSET SUBSET rows /\ IsFiniteSet(rows)
  BY FS_Subset
<1>6. T = SUBSET rows
  <2> HIDE DEF T
  <2> QED  BY <1>3, <1>4, <1>5, SubsetInduction
<1> QED  BY <1>6

(* The sum of nothing is 0.                                                *)
LEMMA SumOfNone ==
    ASSUME NEW typeRows
    PROVE  SumOfSizes(typeRows, {}) = 0
<1>1. IsFiniteSet({})
  BY FS_EmptySet
<1>2. PICK f : f = CHOOSE h : AddsUp(h, typeRows, {})
  OBVIOUS
<1>3. AddsUp(f, typeRows, {})
  BY <1>1, <1>2, SumFunctionExists
<1>4. f[{}] = 0
  BY <1>3 DEF AddsUp
<1> QED  BY <1>2, <1>4, SumByFunction

(* The sum of the same sizes is the same.                                  *)
LEMMA SumOfSame ==
    ASSUME NEW typeRows, NEW more, NEW rows, IsFiniteSet(rows),
           \A r \in rows : SizeOf(more, r) = SizeOf(typeRows, r)
    PROVE  SumOfSizes(more, rows) = SumOfSizes(typeRows, rows)
<1>1. PICK f : f = CHOOSE x : AddsUp(x, typeRows, rows)
  OBVIOUS
<1>2. PICK g : g = CHOOSE x : AddsUp(x, more, rows)
  OBVIOUS
<1>3. AddsUp(f, typeRows, rows) /\ AddsUp(g, more, rows)
  BY <1>1, <1>2, SumFunctionExists
<1>4. g[rows] = f[rows]
  BY <1>3, SumAgrees
<1> QED  BY <1>1, <1>2, <1>4, SumByFunction

(* The sum of numbers is a number.                                         *)
LEMMA SumIsNat ==
    ASSUME NEW typeRows, NEW rows, IsFiniteSet(rows),
           \A r \in rows : SizeOf(typeRows, r) \in Nat
    PROVE  SumOfSizes(typeRows, rows) \in Nat
<1>1. PICK f : f = CHOOSE h : AddsUp(h, typeRows, rows)
  OBVIOUS
<1>2. AddsUp(f, typeRows, rows)
  BY <1>1, SumFunctionExists
<1>3. f[rows] \in Nat
  BY <1>2, SumTerms
<1> QED  BY <1>1, <1>3, SumByFunction

(* One more row adds its size to the sum.                                  *)
LEMMA SumOfMore ==
    ASSUME NEW typeRows, NEW more, NEW rows, IsFiniteSet(rows), NEW x, x \notin rows,
           \A r \in rows : SizeOf(more, r) = SizeOf(typeRows, r),
           \A r \in rows \cup {x} : SizeOf(more, r) \in Nat
    PROVE  SumOfSizes(more, rows \cup {x}) = SumOfSizes(typeRows, rows) + SizeOf(more, x)
<1> DEFINE all == rows \cup {x}
<1>1. /\ IsFiniteSet(all) /\ all \ {x} = rows /\ x \in all /\ rows \subseteq all
      /\ \A r \in all : SizeOf(more, r) \in Nat
  BY FS_AddElement
<1> HIDE DEF all
<1>2. PICK f : f = CHOOSE h : AddsUp(h, typeRows, rows)
  OBVIOUS
<1>3. PICK g : g = CHOOSE h : AddsUp(h, more, all)
  OBVIOUS
<1>4. AddsUp(f, typeRows, rows) /\ AddsUp(g, more, all)
  BY <1>1, <1>2, <1>3, SumFunctionExists
<1>5. g[rows] = f[rows]
  BY <1>1, <1>4, SumAgrees
<1>6. g[all] = SizeOf(more, x) + g[rows] /\ g[rows] \in Nat
  <2>1. all \in SUBSET all /\ x \in all /\ AddsUp(g, more, all) /\ IsFiniteSet(all)
    BY <1>1, <1>4
  <2>2. \A r \in all : SizeOf(more, r) \in Nat
    BY <1>1
  <2>3. g[all] = SizeOf(more, x) + g[all \ {x}] /\ g[all \ {x}] \in Nat
    BY ONLY <2>1, <2>2, SumAnyOrder
  <2> QED  BY <1>1, <2>3
<1>7. SumOfSizes(more, all) = g[all] /\ SumOfSizes(typeRows, rows) = f[rows]
  BY <1>2, <1>3, SumByFunction
<1> QED  BY <1>5, <1>6, <1>7 DEF all
=============================================================================
