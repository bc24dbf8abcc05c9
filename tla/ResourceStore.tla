---------------------------- MODULE ResourceStore ----------------------------
(***************************************************************************)
(* The resource database of the CSE (zerom2m/src/sqlite/database.cpp) as   *)
(* operators over the two kinds of table it keeps:                         *)
(*                                                                         *)
(*   resources   one row per resource, with the attributes every resource  *)
(*               has and the extra column "path"; a row keeps its rowid,   *)
(*               because unordered SELECTs scan the table in that order;   *)
(*   typeRows    the rows of the tables cse, ae, container,                *)
(*               content_instance and subscription, told apart by ty.      *)
(*                                                                         *)
(* An identifier (a resource ID, a resource name, an originator) is a      *)
(* member of Ident.  A target or a path is the sequence of its segments.   *)
(* SQL NULL, to which bind_text_or_null turns an empty string, is Null.    *)
(***************************************************************************)
EXTENDS Integers, Sequences, FiniteSets, FiniteSetsExt

CONSTANTS
    Ident,      \* the identifiers and resource names in play
    HttpUri,    \* the notification addresses that start with "http://"
    Label,      \* the labels resources and subscriptions carry
    Null        \* SQL NULL

ASSUME NullAssumption == Null \notin Ident

ResourceType == {"CSEBase", "AE", "Container", "ContentInstance", "Subscription"}

(* An attribute that is a limit is 0 when it is absent (max... of a        *)
(* container); a bound of a size filter is NoBound when it is absent.      *)
NoBound == -1

Attr ==
    [CSEBase         |-> [csi : Ident],
     AE              |-> [aei : Ident \cup {Null}, poa : Seq(HttpUri), rr : BOOLEAN,
                          lbl : SUBSET Label],
     Container       |-> [mni : Nat, mbs : Nat, disr : BOOLEAN,
                          lbl : SUBSET Label],
     ContentInstance |-> [cs : Nat, lbl : SUBSET Label],
     Subscription    |-> [nu : Seq(HttpUri \cup Ident), onCreate : BOOLEAN,
                          chty : SUBSET ResourceType, lbl : SUBSET Label,
                          sza : Int, szb : Int, cr : Ident \cup {Null}]]

(* What LoadPrimitiveContentByTarget hands out and Save... takes in.       *)
NodeOfType(ty) == [ri : Ident \cup {Null}, rn : Ident, ty : {ty},
                   pi : Ident \cup {Null}, attr : Attr[ty]]

Node == NodeOfType("CSEBase") \cup NodeOfType("AE") \cup NodeOfType("Container")
        \cup NodeOfType("ContentInstance") \cup NodeOfType("Subscription")

Row == [rowid : Nat, ri : Ident \cup {Null}, rn : Ident, ty : ResourceType,
        pi : Ident \cup {Null}, path : Seq(Ident)]

TypeRowOf(ty) == [ri : Ident \cup {Null}, ty : {ty}, attr : Attr[ty]]

TypeRow == TypeRowOf("CSEBase") \cup TypeRowOf("AE") \cup TypeRowOf("Container")
           \cup TypeRowOf("ContentInstance") \cup TypeRowOf("Subscription")

-----------------------------------------------------------------------------
(* GetFullPathByRI: the recursive query climbs from a row to the row whose *)
(* pi is NULL and joins the names on the way.                              *)

HasRow(resources, i) == i # Null /\ \E r \in resources : r.ri = i

RowOf(resources, i) == CHOOSE r \in resources : r.ri = i

Ancestor(resources, i) ==
    LET up[k \in 0 .. Cardinality(resources)] ==
          IF k = 0 THEN i
          ELSE IF HasRow(resources, up[k - 1]) THEN RowOf(resources, up[k - 1]).pi
          ELSE Null
    IN  up

(* The distance from i to the root, as the set that holds it: empty when   *)
(* an ancestor has no row, or when the ancestors of i form a cycle.        *)
Depth(resources, i) ==
    LET up == Ancestor(resources, i)
    IN  {k \in 0 .. Cardinality(resources) :
            /\ \A j \in 0 .. k : HasRow(resources, up[j])
            /\ \A j \in 0 .. k - 1 : RowOf(resources, up[j]).pi # Null
            /\ RowOf(resources, up[k]).pi = Null}

(* The query never ends: it has more generations than the table has rows.  *)
Cyclic(resources, i) ==
    \A k \in 0 .. Cardinality(resources) :
        /\ HasRow(resources, Ancestor(resources, i)[k])
        /\ RowOf(resources, Ancestor(resources, i)[k]).pi # Null

GetFullPathByRI(resources, i) ==
    { [j \in 1 .. k + 1 |-> RowOf(resources, Ancestor(resources, i)[k + 1 - j]).rn]
      : k \in Depth(resources, i) }

(* Faulty variant of PathsFor: the path starts at the parent.              *)
PathsForFromParent(resources, pi, rn) ==
    IF pi = Null THEN { <<rn>> } ELSE { <<r.rn, rn>> : r \in {q \in resources : q.ri = pi} }

(* The path InsertResources computes for a resource; empty: not found.  It *)
(* joins the two with a slash unless the parent's path is one character,   *)
(* which only the CSEBase's can be: OneChar of CseService excludes that.   *)
PathsFor(resources, pi, rn) ==
    IF pi = Null THEN { <<rn>> }
    ELSE { Append(p, rn) : p \in GetFullPathByRI(resources, pi) }

-----------------------------------------------------------------------------
(* The two statements of Save...: each one is INSERT OR REPLACE keyed by   *)
(* ri, and each one commits on its own.  A NULL key conflicts with none.   *)

NextRowid(resources) == 1 + Max({0} \cup {r.rowid : r \in resources})

InsertResources(resources, n, path) ==
    {r \in resources : n.ri = Null \/ r.ri # n.ri}
    \cup {[rowid |-> NextRowid(resources), ri |-> n.ri, rn |-> n.rn,
           ty |-> n.ty, pi |-> n.pi, path |-> path]}

InsertTypeRow(typeRows, n) ==
    {d \in typeRows : n.ri = Null \/ d.ri # n.ri \/ d.ty # n.ty}
    \cup {[ri |-> n.ri, ty |-> n.ty, attr |-> n.attr]}

-----------------------------------------------------------------------------
(* Lookups.  "WHERE ri = ? OR rn = ? OR path = ? LIMIT 1" returns the      *)
(* first row in rowid order; an operator that may find nothing returns the *)
(* set of what it finds.                                                   *)

Matches(r, target) == target = <<r.ri>> \/ target = <<r.rn>> \/ target = r.path

(* Faulty variant of FirstMatch: the newest row is returned.               *)
NewestMatch(resources, target) ==
    {r \in resources :
        /\ Matches(r, target)
        /\ \A q \in resources : Matches(q, target) => r.rowid >= q.rowid}

FirstMatch(resources, target) ==
    {r \in resources :
        /\ Matches(r, target)
        /\ \A q \in resources : Matches(q, target) => r.rowid <= q.rowid}

HasTypeRow(typeRows, r) ==
    r.ri # Null /\ \E d \in typeRows : d.ri = r.ri /\ d.ty = r.ty

NodeOf(typeRows, r) ==
    [ri |-> r.ri, rn |-> r.rn, ty |-> r.ty, pi |-> r.pi,
     attr |-> (CHOOSE d \in typeRows : d.ri = r.ri /\ d.ty = r.ty).attr]

LoadPrimitiveContentByTarget(resources, typeRows, target) ==
    {NodeOf(typeRows, r) :
        r \in {q \in FirstMatch(resources, target) : HasTypeRow(typeRows, q)}}

(* The resources the database holds completely: both rows are there.       *)
Stored(resources, typeRows) ==
    {NodeOf(typeRows, r) : r \in {q \in resources : HasTypeRow(typeRows, q)}}

(* The parent of the children is found by the same three-way match, and    *)
(* whether it has a row in its type table is not looked at.                *)
ChildRows(resources, target, ty) ==
    {c \in resources : \E p \in FirstMatch(resources, target) :
        p.ri # Null /\ c.pi = p.ri /\ c.ty = ty}

LoadPrimitiveContentChildren(resources, target, ty) ==
    {c \in ChildRows(resources, target, ty) : c.ri # Null}

(* Faulty variant of LoadLatestChild: children of any type count.          *)
LoadLatestChildOfAnyType(resources, target, ty) ==
    LET children == UNION {ChildRows(resources, target, any) : any \in ResourceType}
    IN  {c \in children : \A d \in children : d.rowid <= c.rowid}

LoadLatestChild(resources, target, ty) ==
    {c \in ChildRows(resources, target, ty) :
        \A d \in ChildRows(resources, target, ty) : d.rowid <= c.rowid}

LoadOldestChild(resources, target, ty) ==
    {c \in ChildRows(resources, target, ty) :
        \A d \in ChildRows(resources, target, ty) : c.rowid <= d.rowid}

(* The rows of a result in the order of the scan: a set of one sequence,   *)
(* as no two rows have a rowid in common.                                  *)
InRowOrder(rows) ==
    {seq \in [1 .. Cardinality(rows) -> rows] :
        \A j, k \in 1 .. Cardinality(rows) : j < k => seq[j].rowid < seq[k].rowid}

GetContainerCurrentSize(resources, typeRows, ri) ==
    MapThenSumSet(LAMBDA r : NodeOf(typeRows, r).attr.cs,
                  {r \in resources : /\ r.pi = ri /\ r.ty = "ContentInstance"
                                     /\ HasTypeRow(typeRows, r)})

(* Both existence checks also answer FALSE when their query fails; the     *)
(* checks of CseService that call them say so.                             *)

(* Faulty variants of ExistsResourceByParentAndName: names are compared in *)
(* the whole database; names are not compared.                             *)
ExistsResourceByName(resources, pi, rn) == \E r \in resources : r.rn = rn
NameNeverExists(resources, pi, rn) == FALSE

ExistsResourceByParentAndName(resources, pi, rn) ==
    \E r \in resources : r.pi = pi /\ r.rn = rn

ExistsAEbyAEID(typeRows, aei) ==
    \E d \in typeRows : d.ty = "AE" /\ d.attr.aei = aei

GetPathByRI(resources, i) == {r.path : r \in {q \in resources : q.ri = i /\ i # Null}}

=============================================================================
