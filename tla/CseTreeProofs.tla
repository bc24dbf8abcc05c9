---------------------------- MODULE CseTreeProofs ----------------------------
(***************************************************************************)
(* The CSE implements the growing tree of ResourceTree under two           *)
(* provisions.  No AE registers under an identifier that the CSE uses or   *)
(* will generate: without that a new resource overwrites an old one, as    *)
(* the run reused_ids_tree shows.  And four database calls do not fail,    *)
(* whose failure the code does not notice (Reliable).                      *)
(***************************************************************************)
EXTENDS CseServiceProofs

GeneratedIds(n) == {ResourceId[m] : m \in 1 .. n}

(* The identifiers AEs bring along, to become the IDs of their resources;  *)
(* the CSE refuses an AE that brings its own.                              *)
Stems == {q.from : q \in {r \in CreateRequests : OwnStem(r) /\ r.from # CseStem}}

NoIdClash ==
    /\ Stems \cap GeneratedIds(MaxId) = {}
    /\ CseRi \notin Stems \cup GeneratedIds(MaxId)

(* A transaction for a new ID that is begun is ended: its statements can   *)
(* be prepared, and COMMIT succeeds.  A CSEBase that is stored is found at *)
(* boot, and so is an AE-ID that is registered.                            *)
Reliable == Faults \cap {"prepare", "commit", "seed", "aei"} = {}

-----------------------------------------------------------------------------
(* The invariant.                                                          *)

(* A task holds a node that is not stored yet.                             *)
Pending(t) == task[t].pc \in {"verify", "awaitVerification", "insert", "detail"}

PowerOffIdle == power = "off" => \A t \in Task : task[t].pc = "idle"

(* The CSEBase is the first row, and stays the first.                      *)
IsRoot(r) == r.ri = CseRi /\ r.ty = "CSEBase" /\ r.pi = Null

RootFirst ==
    \/ resources = {} /\ typeRows = {}
    \/ \E r \in resources, d \in typeRows :
          IsRoot(r) /\ SameKey(r, d) /\ \A q \in resources : r.rowid <= q.rowid

(* Where the ID of a stored resource comes from.                           *)
KnownIds ==
    \A d \in typeRows : d.ri # Null =>
        \/ d.ri = CseRi
        \/ d.ri \in GeneratedIds(nextId - 1)
        \/ d.ri \in Stems /\ d.ty = "AE" /\ d.attr.aei = d.ri

(* Where the ID of a pending resource comes from.  One that an AE brought  *)
(* is pending only while its task keeps the CPU.                           *)
KnownId(t, n) ==
    n.ri # Null =>
        \/ n.ri \in GeneratedIds(nextId - 1)
        \/ n.ri \in Stems /\ n.ty = "AE" /\ n.attr.aei = n.ri /\ cpu = t

HasParent(n) == \E p \in Stored(resources, typeRows) : p.ri = n.pi

PendingFresh ==
    \A t \in Task : Pending(t) =>
        /\ Unused(typeRows, task[t].node.ri)
        /\ KnownId(t, task[t].node)
        /\ HasParent(task[t].node)
        /\ task[t].pc \in {"verify", "awaitVerification"} => task[t].node.ty = "Subscription"
        /\ task[t].pc = "detail" => \E r \in resources : IsRowOf(r, task[t].node)

PendingDistinct ==
    \A t, u \in Task : (Pending(t) /\ Pending(u) /\ t # u /\ task[t].node.ri # Null) =>
        task[t].node.ri # task[u].node.ri

TreeInv ==
    /\ TypeInv /\ PowerOffIdle /\ backup = {}
    /\ RowKeys(resources) /\ TypeKeys(typeRows)
    /\ RootFirst /\ KnownIds /\ PendingFresh /\ PendingDistinct

(* A step of the database, seen as a tree.                                 *)
TreeStep == [Tree!Next]_<<Stored(resources, typeRows), power = "on">>

-----------------------------------------------------------------------------
(* Transactions.                                                           *)

(* While no transaction is open there is nothing to roll back.             *)
LEMMA RollbackNothing ==
    ASSUME TreeInv, Rollback
    PROVE  UNCHANGED db
<1>1. backup = {} /\ backup' = {}
  BY DEF TreeInv, Rollback
<1>2. PICK b \in {Tables(nextId, resources, typeRows)} :
        nextId' = b.nextId /\ resources' = b.resources /\ typeRows' = b.typeRows
  BY <1>1 DEF Rollback, Begun
<1> QED  BY <1>1, <1>2 DEF Tables, db

(* Asking for an ID uses one up, or gives the empty one.                   *)
LEMMA GetIdReliable ==
    ASSUME Reliable, TreeInv, NEW id, GetId(id)
    PROVE  /\ UNCHANGED <<resources, typeRows, backup>>
           /\ \/ id = ResourceId[nextId] /\ nextId' = nextId + 1
              \/ id = Null /\ nextId' = nextId
<1>1. \/ /\ id = ResourceId[nextId] /\ nextId' = nextId + 1 /\ backup' = {}
         /\ UNCHANGED <<resources, typeRows>>
      \/ id = Null /\ Rollback
  BY DEF GetId, Reliable
<1>2. CASE id = Null /\ Rollback
  BY <1>2, RollbackNothing DEF db
<1> QED  BY <1>1, <1>2 DEF TreeInv

-----------------------------------------------------------------------------
(* Steps that leave the database alone.                                    *)

(* The task begins nothing, and does not give up the CPU to another one    *)
(* while it registers an AE.                                               *)
QuietTask(t) ==
    Pending(t)' =>
        /\ Pending(t) /\ task'[t].node = task[t].node
        /\ task'[t].pc = "detail" => task[t].pc = "detail"
        /\ task'[t].pc \in {"verify", "awaitVerification"}
             => task[t].pc \in {"verify", "awaitVerification"}
        /\ (cpu = t /\ task[t].node.ty = "AE") => cpu' = t

LEMMA MoreIds ==
    ASSUME NEW m \in Int, NEW n \in Int, m <= n
    PROVE  GeneratedIds(m) \subseteq GeneratedIds(n)
  BY DEF GeneratedIds

LEMMA QuietStep ==
    ASSUME TreeInv, TypeInv', UNCHANGED <<resources, typeRows, backup, power>>,
           nextId <= nextId', PowerOffIdle', \A t \in Task : QuietTask(t)
    PROVE  TreeInv' /\ TreeStep
<1>1. UNCHANGED <<Stored(resources, typeRows), power = "on">>
  OBVIOUS
<1>2. nextId \in Int /\ nextId' \in Int
  BY GeneratedIdAssumption DEF TreeInv, TypeInv, TypeOK
<1>3. GeneratedIds(nextId - 1) \subseteq GeneratedIds(nextId' - 1)
  BY <1>2, MoreIds
<1>4. KnownIds'
  BY <1>3 DEF TreeInv, KnownIds
<1>5. PendingFresh'
  <2> SUFFICES ASSUME NEW t \in Task, Pending(t)'
               PROVE  /\ Unused(typeRows, task[t].node.ri)'
                      /\ KnownId(t, task[t].node)'
                      /\ HasParent(task[t].node)'
                      /\ task'[t].pc \in {"verify", "awaitVerification"}
                           => task'[t].node.ty = "Subscription"
                      /\ task'[t].pc = "detail"
                           => \E r \in resources' : IsRowOf(r, task'[t].node)
    BY DEF PendingFresh
  <2>1. /\ Pending(t) /\ task'[t].node = task[t].node
        /\ task'[t].pc = "detail" => task[t].pc = "detail"
        /\ task'[t].pc \in {"verify", "awaitVerification"}
             => task[t].pc \in {"verify", "awaitVerification"}
        /\ (cpu = t /\ task[t].node.ty = "AE") => cpu' = t
    BY DEF QuietTask
  <2>2. /\ Unused(typeRows, task[t].node.ri)
        /\ KnownId(t, task[t].node)
        /\ HasParent(task[t].node)
        /\ task[t].pc \in {"verify", "awaitVerification"} => task[t].node.ty = "Subscription"
        /\ task[t].pc = "detail" => \E r \in resources : IsRowOf(r, task[t].node)
    BY <2>1 DEF TreeInv, PendingFresh
  <2>3. KnownId(t, task[t].node)'
    BY <1>3, <2>1, <2>2 DEF KnownId
  <2>4. HasParent(task[t].node)'
    BY <2>1, <2>2 DEF HasParent
  <2>5. Unused(typeRows, task[t].node.ri)'
    BY <2>1, <2>2
  <2> QED  BY <2>1, <2>2, <2>3, <2>4, <2>5
<1>6. PendingDistinct'
  <2>1. \A t \in Task : Pending(t)' => Pending(t) /\ task'[t].node = task[t].node
    BY DEF QuietTask
  <2> QED  BY <2>1 DEF TreeInv, PendingDistinct
<1>7. RootFirst' /\ RowKeys(resources)' /\ TypeKeys(typeRows)'
  BY DEF TreeInv, RootFirst
<1> QED  BY <1>1, <1>4, <1>5, <1>6, <1>7 DEF TreeInv, TreeStep

(* The end of a create, whatever the answer.                               *)
LEMMA ReplyQuiet ==
    ASSUME TreeInv, NEW t \in Task, NEW q, NEW code, NEW n, Reply(t, q, code, n),
           cpu \in {t, Free}
    PROVE  \A u \in Task : QuietTask(u)
<1>1. task' = [task EXCEPT ![t] = Idle] /\ task \in [Task -> TaskState]
  BY DEF Reply, TreeInv, TypeInv, TypeOK
<1>2. ASSUME NEW u \in Task, Pending(u)'
      PROVE  u # t /\ task'[u] = task[u]
  BY <1>1, <1>2 DEF Pending, Idle
<1> QED  BY <1>2, TaskAssumption DEF QuietTask, Pending

(* A task that continues on the network, or with its deliveries.           *)
LEMMA ResumeQuiet ==
    ASSUME TreeInv, NEW t \in Task, NEW pc, NEW agenda, Resume(t, pc, agenda),
           \/ pc \in {"notify", "awaitPeer", "hung"}
           \/ /\ task[t].pc \in {"verify", "awaitVerification"}
              /\ pc \in {"verify", "awaitVerification", "insert"},
           cpu \in {t, Free}
    PROVE  \A u \in Task : QuietTask(u)
<1>1. task' = [task EXCEPT ![t] = [task[t] EXCEPT !.pc = pc, !.agenda = agenda]]
      /\ task \in [Task -> TaskState]
  BY DEF Resume, TreeInv, TypeInv, TypeOK
<1>2. task'[t].pc = pc /\ task'[t].node = task[t].node
  BY <1>1 DEF TaskState
<1>3. \A u \in Task : u # t => task'[u] = task[u]
  BY <1>1
<1>4. QuietTask(t)
  <2>1. CASE pc \in {"notify", "awaitPeer", "hung"}
    BY <1>2, <2>1 DEF QuietTask, Pending
  <2>2. CASE /\ task[t].pc \in {"verify", "awaitVerification"}
             /\ pc \in {"verify", "awaitVerification", "insert"}
    <3>1. Pending(t) /\ task[t].node.ty = "Subscription"
      BY <2>2 DEF Pending, TreeInv, PendingFresh
    <3> QED  BY <1>2, <2>2, <3>1 DEF QuietTask
  <2> QED  BY <2>1, <2>2
<1>5. ASSUME NEW u \in Task, u # t
      PROVE  QuietTask(u)
  BY <1>3, <1>5, TaskAssumption DEF QuietTask, Pending
<1> QED  BY <1>4, <1>5

-----------------------------------------------------------------------------
(* A request arrives.                                                      *)

(* Three checks that are appended to five become the last of eight.        *)
LEMMA EighthOfEight ==
    ASSUME NEW T, NEW a \in T, NEW b \in T, NEW c \in T, NEW d \in T, NEW e \in T,
           NEW f \in T, NEW g \in T, NEW h \in T
    PROVE  LET all == <<a, b, c, d, e>> \o <<f, g, h>>
           IN  8 \in DOMAIN all /\ all[8] = h
<1> DEFINE s == <<a, b, c, d, e>>
           r == <<f, g, h>>
<1>1. s \in Seq(T) /\ Len(s) = 5 /\ r \in Seq(T) /\ Len(r) = 3 /\ r[3] = h
  OBVIOUS
<1> HIDE DEF s, r
<1>2. /\ s \o r \in Seq(T) /\ Len(s \o r) = Len(s) + Len(r)
      /\ \A i \in 1 .. Len(s) + Len(r) :
           (s \o r)[i] = IF i <= Len(s) THEN s[i] ELSE r[i - Len(s)]
  BY <1>1, ConcatProperties
<1>3. Len(s \o r) = 8 /\ DOMAIN (s \o r) = 1 .. 8
  BY <1>1, <1>2
<1>4. (s \o r)[8] = h
  BY <1>1, <1>2
<1> QED  BY <1>3, <1>4 DEF s, r

(* An AE that is accepted under the originator it brought did not bring    *)
(* the identifier of the CSE, nor one that an AE has already.              *)
LEMMA AcceptedStem ==
    ASSUME NEW q \in CreateRequests, OwnStem(q), NEW failed, "aei" \notin failed,
           NEW rs, NEW ts,
           ~ Refused(ChecksBeforeId(q, failed)), ~ Refused(ChecksAfterId(q, failed, rs, ts))
    PROVE  q.from # CseStem /\ ~ ExistsAEbyAEID(ts, q.from)
<1> DEFINE
  a == [when |-> ~ ready \/ GetCSEBase = {} \/ "base" \in failed,
        code |-> "INTERNAL_SERVER_ERROR"]
  b == [when |-> WrongSpId(q), code |-> "NOT_FOUND"]
  c == [when |-> (q.from = NoFrom /\ q.ty # "AE") \/ q.flaw = "request",
        code |-> "BAD_REQUEST"]
  d == [when |-> Parent(q) = {} \/ "parent" \in failed, code |-> "NOT_FOUND"]
  e == [when |-> \E p \in Parent(q) : p.ty \notin ParentTypes(q.ty),
        code |-> "INVALID_CHILD_RESOURCE_TYPE"]
  f == [when |-> q.flaw = "content", code |-> "BAD_REQUEST"]
  g == [when |-> /\ "name" \notin failed
                 /\ \E p \in Parent(q) : ExistsResourceByParentAndName(resources, p.ri, q.rn),
        code |-> "CONFLICT"]
  h == [when |-> q.from = CseStem, code |-> "SECURITY_ASSOCIATION_REQUIRED"]
<1>1. q.ty = "AE"
  BY DEF OwnStem
<1>2. ChecksBeforeId(q, failed) = <<a, b, c, d, e>> \o <<f, g, h>>
  BY <1>1 DEF ChecksBeforeId, TargetChecks
<1>3. h.when = (q.from = CseStem)
  BY Zenon
<1> HIDE DEF a, b, c, d, e, f, g, h
<1>4. 8 \in DOMAIN ChecksBeforeId(q, failed) /\ ChecksBeforeId(q, failed)[8] = h
  <2> DEFINE T == {a, b, c, d, e, f, g, h}
  <2>1. a \in T /\ b \in T /\ c \in T /\ d \in T /\ e \in T /\ f \in T /\ g \in T /\ h \in T
    OBVIOUS
  <2> HIDE DEF T
  <2> QED  BY <1>2, <2>1, EighthOfEight
<1>5. ~ h.when
  BY <1>4 DEF Refused
<1>6. ~ ExistsAEbyAEID(ts, q.from)
  <2> DEFINE
    x == [when |-> OwnStem(q) /\ "aei" \notin failed /\ ExistsAEbyAEID(ts, q.from),
          code |-> "ORIGINATOR_HAS_ALREADY_REGISTERED"]
    y == [when |-> q.flaw # "none", code |-> "BAD_REQUEST"]
    z == [when |-> q.ty = "Subscription" /\
                   ("path" \in failed \/ \A p \in Parent(q) : GetPathByRI(rs, p.ri) = {}),
          code |-> "NOT_FOUND"]
  <2>1. ChecksAfterId(q, failed, rs, ts) = <<x, y, z>>
    BY DEF ChecksAfterId
  <2>2. x.when = (OwnStem(q) /\ "aei" \notin failed /\ ExistsAEbyAEID(ts, q.from))
    BY Zenon
  <2> HIDE DEF x, y, z
  <2>3. 1 \in DOMAIN <<x, y, z>> /\ <<x, y, z>>[1] = x
    OBVIOUS
  <2>4. ~ x.when
    BY <2>1, <2>3 DEF Refused
  <2> QED  BY <2>2, <2>4
<1> QED  BY <1>3, <1>5, <1>6

(* The ID of a new resource is used by no other one, stored or pending.    *)
LEMMA NewIdFresh ==
    ASSUME NoIdClash, Reliable, TreeInv, cpu = Free, nextId \in 1 .. MaxId,
           NEW q \in CreateRequests, NEW failed \in Failing, NEW p \in Node,
           NEW id \in {ResourceId[nextId], Null}, ~ Refused(ChecksBeforeId(q, failed)),
           NEW rs, ~ Refused(ChecksAfterId(q, failed, rs, typeRows)),
           NewNode(q, p, id).ri # Null
    PROVE  LET n == NewNode(q, p, id)
           IN  /\ Unused(typeRows, n.ri)
               /\ \/ n.ri = ResourceId[nextId]
                  \/ n.ri \in Stems /\ n.ty = "AE" /\ n.attr.aei = n.ri
               /\ \A u \in Task : Pending(u) => task[u].node.ri # n.ri
<1> DEFINE n == NewNode(q, p, id)
<1>1. n.ri = (IF OwnStem(q) THEN q.from ELSE id) /\ n.ty = q.ty
  BY DEF NewNode
<1>2. CASE ~ OwnStem(q)
  <2>1. n.ri = ResourceId[nextId]
    BY <1>1, <1>2
  <2> DEFINE i == ResourceId[nextId]
  <2>2. i \in GeneratedIds(MaxId) /\ i \notin GeneratedIds(nextId - 1)
    BY GeneratedIdAssumption DEF GeneratedIds
  <2>3. i # CseRi /\ i \notin Stems
    BY <2>2 DEF NoIdClash
  <2>4. Unused(typeRows, i)
    BY <2>2, <2>3 DEF TreeInv, KnownIds, Unused
  <2>5. \A u \in Task : Pending(u) => task[u].node.ri # i
    <3>1. i # Null
      BY <2>1
    <3> QED  BY <2>2, <2>3, <3>1 DEF TreeInv, PendingFresh, KnownId
  <2> QED  BY <2>1, <2>4, <2>5
<1>3. CASE OwnStem(q)
  <2>1. n.ri = q.from /\ n.ty = "AE" /\ n.ty = q.ty
    BY <1>1, <1>3 DEF OwnStem
  <2>2. n.attr.aei = n.ri
    <3>1. q.attr \in Attr["AE"]
      BY <2>1, RequestAssumption DEF CreateRequest, CreateRequestOf
    <3>2. n.attr = [q.attr EXCEPT !.aei = q.from]
      BY <1>3, <2>1 DEF NewNode
    <3> QED  BY <2>1, <3>1, <3>2 DEF Attr
  <2>3. q.from # CseStem /\ ~ ExistsAEbyAEID(typeRows, q.from)
    BY <1>3, AcceptedStem DEF Failing, Reliable
  <2>4. q.from \in Stems
    BY <1>3, <2>3 DEF Stems
  <2>5. GeneratedIds(nextId - 1) \subseteq GeneratedIds(MaxId)
    BY GeneratedIdAssumption, MoreIds
  <2>6. q.from # CseRi /\ q.from \notin GeneratedIds(nextId - 1)
    BY <2>4, <2>5 DEF NoIdClash
  <2>7. Unused(typeRows, q.from)
    BY <2>3, <2>6 DEF TreeInv, KnownIds, Unused, ExistsAEbyAEID
  <2>8. \A u \in Task : Pending(u) => task[u].node.ri # q.from
    <3>1. q.from # Null
      BY <2>1
    <3> QED  BY <2>6, <3>1, TaskAssumption DEF TreeInv, PendingFresh, KnownId
  <2> QED  BY <2>1, <2>2, <2>4, <2>7, <2>8
<1> QED  BY <1>2, <1>3

LEMMA ArrivalTree ==
    ASSUME NoIdClash, Reliable, TreeInv, NEW t \in Task, NEW q \in CreateRequests,
           RefuseCreate(t, q) \/ RefuseCreateAfterId(t, q) \/ AcceptCreate(t, q)
    PROVE  TreeInv' /\ TreeStep
<1>1. TypeInv' /\ nextId \in 1 .. MaxId + 1 /\ MaxId \in Nat
  BY ArrivalType, GeneratedIdAssumption DEF TreeInv, TypeInv, TypeOK
<1>2. /\ power = "on" /\ power' = "on" /\ cpu = Free
      /\ UNCHANGED <<resources, typeRows, backup>> /\ nextId <= nextId'
  <2>1. CASE RefuseCreate(t, q)
    BY <1>1, <2>1 DEF RefuseCreate, Scheduled, db
  <2>2. CASE RefuseCreateAfterId(t, q)
    BY <1>1, <2>2, GetIdReliable DEF RefuseCreateAfterId, Scheduled
  <2>3. CASE AcceptCreate(t, q)
    BY <1>1, <2>3, GetIdReliable DEF AcceptCreate, Scheduled
  <2> QED  BY <2>1, <2>2, <2>3
<1>3. CASE RefuseCreate(t, q)
  <2>1. \A u \in Task : QuietTask(u)
    BY <1>2, <1>3, ReplyQuiet DEF RefuseCreate
  <2> QED  BY <1>1, <1>2, <2>1, QuietStep DEF PowerOffIdle
<1>4. CASE RefuseCreateAfterId(t, q)
  <2>1. \A u \in Task : QuietTask(u)
    BY <1>2, <1>4, ReplyQuiet DEF RefuseCreateAfterId
  <2> QED  BY <1>1, <1>2, <2>1, QuietStep DEF PowerOffIdle
<1>5. CASE AcceptCreate(t, q)
  <2>1. PICK failed \in Failing, p \in Parent(q), id \in {ResourceId[nextId], Null} :
          /\ ~ Refused(ChecksBeforeId(q, failed))
          /\ GetId(id)
          /\ ~ Refused(ChecksAfterId(q, failed, resources', typeRows'))
          /\ task' = [task EXCEPT ![t] =
                [req |-> q, node |-> NewNode(q, p, id),
                 pc |-> IF q.ty = "Subscription" THEN "verify" ELSE "insert",
                 agenda |-> IF q.ty = "Subscription" THEN UriItems(NewNode(q, p, id))
                                                     ELSE << >>]]
    BY <1>5 DEF AcceptCreate
  <2> DEFINE n == NewNode(q, p, id)
  <2>2. /\ nextId \in 1 .. MaxId /\ cpu' = t
        /\ ~ Refused(ChecksAfterId(q, failed, resources, typeRows))
    BY <1>1, <1>2, <1>5, <2>1 DEF AcceptCreate
  <2>3. p \in Node /\ p \in Stored(resources, typeRows)
    <3>1. p \in Node
      BY LoadType DEF Parent, Load, TreeInv, TypeInv, TypeOK
    <3>2. p \in Stored(resources, typeRows)
      BY DEF Parent, Load, LoadPrimitiveContentByTarget, FirstMatch, Stored
    <3> QED  BY <3>1, <3>2
  <2>4. n.ri # Null =>
          /\ Unused(typeRows, n.ri)
          /\ \/ n.ri = ResourceId[nextId]
             \/ n.ri \in Stems /\ n.ty = "AE" /\ n.attr.aei = n.ri
          /\ \A u \in Task : Pending(u) => task[u].node.ri # n.ri
    BY <1>2, <2>1, <2>2, <2>3, NewIdFresh
  <2>5. nextId' \in {nextId, nextId + 1} /\ (n.ri = ResourceId[nextId] => nextId' = nextId + 1
                                              \/ n.ri = Null \/ n.ri \in Stems)
    <3>1. \/ id = ResourceId[nextId] /\ nextId' = nextId + 1
          \/ id = Null /\ nextId' = nextId
      BY <2>1, GetIdReliable
    <3>2. n.ri = id \/ n.ri \in Stems
      <4>1. n.ri = IF OwnStem(q) THEN q.from ELSE id
        BY DEF NewNode
      <4>2. "aei" \notin failed
        BY DEF Failing, Reliable
      <4> QED  BY <2>1, <4>1, <4>2, AcceptedStem DEF Stems
    <3> QED  BY <3>1, <3>2
  <2>6. n.pi = p.ri /\ n.ty = q.ty
    BY DEF NewNode
  <2>7. /\ task'[t].node = n
        /\ task'[t].pc = IF q.ty = "Subscription" THEN "verify" ELSE "insert"
        /\ \A u \in Task : u # t => task'[u] = task[u]
    BY <2>1 DEF TreeInv, TypeInv, TypeOK
  <2> HIDE DEF n
  <2>8. GeneratedIds(nextId - 1) \subseteq GeneratedIds(nextId' - 1)
    BY <1>1, <2>5, MoreIds
  <2>9. PendingFresh'
    <3>1. /\ Unused(typeRows, n.ri)' /\ HasParent(n)' /\ KnownId(t, n)'
      <4>1. Unused(typeRows, n.ri)'
        BY <1>2, <2>4 DEF Unused
      <4>2. HasParent(n)'
        BY <1>2, <2>3, <2>6 DEF HasParent
      <4>3. n.ri = ResourceId[nextId] /\ n.ri # Null
              => n.ri \in GeneratedIds(nextId' - 1) \/ n.ri \in Stems
        BY <1>1, <2>5 DEF GeneratedIds
      <4>4. ResourceId[nextId] \notin Stems
        BY <2>2 DEF NoIdClash, GeneratedIds
      <4> QED  BY <2>2, <2>4, <4>1, <4>2, <4>3, <4>4 DEF KnownId
    <3>2. ASSUME NEW u \in Task, u # t, Pending(u)
          PROVE  /\ Unused(typeRows, task[u].node.ri)'
                 /\ KnownId(u, task[u].node)'
                 /\ HasParent(task[u].node)'
                 /\ task'[u].pc \in {"verify", "awaitVerification"}
                      => task'[u].node.ty = "Subscription"
                 /\ task'[u].pc = "detail" => \E r \in resources' : IsRowOf(r, task'[u].node)
      <4>1. /\ Unused(typeRows, task[u].node.ri)
            /\ KnownId(u, task[u].node)
            /\ HasParent(task[u].node)
            /\ task[u].pc \in {"verify", "awaitVerification"}
                 => task[u].node.ty = "Subscription"
            /\ task[u].pc = "detail" => \E r \in resources : IsRowOf(r, task[u].node)
        BY <3>2 DEF TreeInv, PendingFresh
      <4>2. task'[u] = task[u] /\ cpu # u
        BY <1>2, <2>7, <3>2, TaskAssumption
      <4>3. KnownId(u, task[u].node)'
        BY <2>8, <4>1, <4>2 DEF KnownId
      <4>4. HasParent(task[u].node)'
        BY <1>2, <4>1, <4>2 DEF HasParent
      <4>5. Unused(typeRows, task[u].node.ri)'
        BY <1>2, <4>1, <4>2
      <4> QED  BY <1>2, <4>1, <4>2, <4>3, <4>4, <4>5
    <3>3. task'[t].pc \in {"verify", "awaitVerification"} => task'[t].node.ty = "Subscription"
      BY <2>6, <2>7
    <3>4. task'[t].pc # "detail"
      BY <2>7
    <3>5. \A u \in Task : u # t => (Pending(u)' <=> Pending(u))
      BY <2>7 DEF Pending
    <3> QED  BY <2>7, <3>1, <3>2, <3>3, <3>4, <3>5 DEF PendingFresh
  <2>10. PendingDistinct'
    <3>1. \A u \in Task : u # t => (Pending(u)' <=> Pending(u)) /\ task'[u] = task[u]
      BY <2>7 DEF Pending
    <3>2. \A u \in Task : (u # t /\ Pending(u)' /\ n.ri # Null) => task'[u].node.ri # n.ri
      BY <2>4, <3>1
    <3> QED  BY <2>7, <3>1, <3>2 DEF TreeInv, PendingDistinct
  <2>11. KnownIds' /\ RootFirst' /\ RowKeys(resources)' /\ TypeKeys(typeRows)'
    BY <1>2, <2>8 DEF TreeInv, KnownIds, RootFirst
  <2>12. PowerOffIdle' /\ backup' = {} /\ TreeStep
    BY <1>2 DEF TreeInv, PowerOffIdle, TreeStep
  <2> QED  BY <1>1, <2>9, <2>10, <2>11, <2>12 DEF TreeInv
<1> QED  BY <1>3, <1>4, <1>5

-----------------------------------------------------------------------------
(* Verifying and notifying.                                                *)

LEMMA VerificationTree ==
    ASSUME TreeInv, NEW t \in Task,
           VerifySubscription(t) \/ VerificationAnswered(t) \/ VerificationFails(t)
    PROVE  TreeInv' /\ TreeStep
<1>1. TypeInv' /\ nextId \in Int
  BY VerificationType, GeneratedIdAssumption DEF TreeInv, TypeInv, TypeOK
<1>2. power' = "on" /\ cpu \in {t, Free} /\ UNCHANGED <<db, power>>
  BY DEF VerifySubscription, VerificationAnswered, VerificationFails, Runs
<1>3. \A u \in Task : QuietTask(u)
  <2>1. CASE VerificationFails(t)
    BY <1>2, <2>1, ReplyQuiet DEF VerificationFails
  <2>2. CASE VerifySubscription(t)
    <3>1. \/ Resume(t, "insert", << >>)
          \/ Resume(t, "verify", Tail(task[t].agenda))
          \/ Resume(t, "awaitVerification", Tail(task[t].agenda))
      BY <2>2 DEF VerifySubscription
    <3> QED  BY <1>2, <2>2, <3>1, ResumeQuiet DEF VerifySubscription, Runs
  <2>3. CASE VerificationAnswered(t)
    BY <1>2, <2>3, ResumeQuiet DEF VerificationAnswered
  <2> QED  BY <2>1, <2>2, <2>3
<1>4. PowerOffIdle' /\ nextId <= nextId'
  BY <1>1, <1>2 DEF PowerOffIdle, db
<1> QED  BY <1>1, <1>2, <1>3, <1>4, QuietStep DEF db

LEMMA NotificationTree ==
    ASSUME TreeInv, NEW t \in Task,
           \/ SendNotification(t) \/ SkipDelivery(t)
           \/ NotificationAnswered(t) \/ FinishCreate(t)
    PROVE  TreeInv' /\ TreeStep
<1>1. TypeInv' /\ nextId \in Int
  BY NotificationType, GeneratedIdAssumption DEF TreeInv, TypeInv, TypeOK
<1>2. power' = "on" /\ cpu \in {t, Free} /\ UNCHANGED <<db, power>>
  BY DEF SendNotification, SkipDelivery, NotificationAnswered, FinishCreate, Runs
<1>3. \A u \in Task : QuietTask(u)
  <2>1. CASE FinishCreate(t)
    BY <1>2, <2>1, ReplyQuiet DEF FinishCreate
  <2>2. CASE SendNotification(t)
    <3>1. \E agenda : Resume(t, "notify", agenda) \/ Resume(t, "awaitPeer", agenda)
      BY <2>2 DEF SendNotification, ExpandSubscription, ExpandUri, Post
    <3> QED  BY <1>2, <3>1, ResumeQuiet
  <2>3. CASE NotificationAnswered(t)
    BY <1>2, <2>3, ResumeQuiet DEF NotificationAnswered
  <2>4. CASE SkipDelivery(t)
    BY <1>2, <2>4, ResumeQuiet DEF SkipDelivery
  <2> QED  BY <2>1, <2>2, <2>3, <2>4
<1>4. PowerOffIdle' /\ nextId <= nextId'
  BY <1>1, <1>2 DEF PowerOffIdle, db
<1> QED  BY <1>1, <1>2, <1>3, <1>4, QuietStep DEF db

-----------------------------------------------------------------------------
(* Saving.                                                                 *)

(* The ID of a pending resource is not the one of the CSEBase.             *)
LEMMA PendingNotRoot ==
    ASSUME NoIdClash, Reliable, TreeInv, NEW t \in Task, Pending(t)
    PROVE  task[t].node.ri # CseRi
<1>1. GeneratedIds(nextId - 1) \subseteq GeneratedIds(MaxId)
  BY MoreIds, GeneratedIdAssumption DEF TreeInv, TypeInv, TypeOK
<1>2. CseRi # Null
  BY IdentAssumption, NullAssumption
<1> QED  BY <1>1, <1>2 DEF TreeInv, PendingFresh, KnownId, NoIdClash

LEMMA RowTree ==
    ASSUME NoIdClash, Reliable, TreeInv, NEW t \in Task,
           InsertRow(t) \/ HangInPathQuery(t) \/ InsertRowFails(t)
    PROVE  TreeInv' /\ TreeStep
<1>1. TypeInv' /\ nextId \in Int
  BY RowType, GeneratedIdAssumption DEF TreeInv, TypeInv, TypeOK
<1>2. power' = "on" /\ cpu = t /\ UNCHANGED <<nextId, typeRows, backup, power>>
  <2>1. InsertRowFails(t) => UNCHANGED db
    BY RollbackNothing DEF InsertRowFails
  <2> QED  BY <2>1 DEF InsertRow, HangInPathQuery, InsertRowFails, Runs, db
<1>3. CASE HangInPathQuery(t)
  <2>1. \A u \in Task : QuietTask(u)
    BY <1>2, <1>3, ResumeQuiet DEF HangInPathQuery
  <2>2. UNCHANGED resources
    BY <1>3 DEF HangInPathQuery, db
  <2> QED  BY <1>1, <1>2, <2>1, <2>2, QuietStep DEF PowerOffIdle
<1>4. CASE InsertRowFails(t)
  <2>1. \A u \in Task : QuietTask(u)
    BY <1>2, <1>4, ReplyQuiet DEF InsertRowFails
  <2>2. UNCHANGED resources
    BY <1>4, RollbackNothing DEF InsertRowFails, db
  <2> QED  BY <1>1, <1>2, <2>1, <2>2, QuietStep DEF PowerOffIdle
<1>5. CASE InsertRow(t)
  <2> DEFINE n == task[t].node
  <2>1. PICK path \in PathsFor(resources, n.pi, n.rn) :
          resources' = InsertResources(resources, n, path)
    BY <1>5 DEF InsertRow
  <2>2. Pending(t) /\ task[t].pc = "insert" /\ cpu' = cpu
    BY <1>5 DEF InsertRow, Runs, Pending
  <2>3. /\ task'[t].node = n /\ task'[t].pc = "detail"
        /\ \A u \in Task : u # t => task'[u] = task[u]
    BY <1>5 DEF InsertRow, Resume, TreeInv, TypeInv, TypeOK, TaskState
  <2>4. Unused(typeRows, n.ri) /\ n.ri # CseRi
    BY <2>2, PendingNotRoot DEF TreeInv, PendingFresh
  <2>5. Stored(resources, typeRows)' = Stored(resources, typeRows)
    BY <1>2, <2>1, <2>4, FirstRowSaved DEF TreeInv
  <2>6. RowKeys(resources)' /\ TypeKeys(typeRows)'
    BY <1>2, <2>1, InsertResourcesKeys DEF TreeInv
  <2> DEFINE new == [rowid |-> NextRowid(resources), ri |-> n.ri, rn |-> n.rn,
                     ty |-> n.ty, pi |-> n.pi, path |-> path]
  <2>7. \A r : r \in resources' <=> (r \in resources /\ (n.ri = Null \/ r.ri # n.ri)) \/ r = new
    BY <2>1 DEF InsertResources
  <2>8. IsRowOf(new, n) /\ new.rowid = NextRowid(resources)
    BY DEF IsRowOf
  <2> HIDE DEF new
  <2>9. RootFirst'
    <3>1. \A r \in resources : r.rowid \in Nat /\ r.rowid < NextRowid(resources)
      BY NextRowidAbove DEF TreeInv, TypeInv, TypeOK, Row
    <3>2. NextRowid(resources) \in Nat
      BY NextRowidAbove DEF TreeInv, TypeInv, TypeOK
    <3>3. resources # {}
      BY <2>2 DEF TreeInv, PendingFresh, HasParent, Stored
    <3>4. PICK r \in resources, d \in typeRows :
            IsRoot(r) /\ SameKey(r, d) /\ \A q \in resources : r.rowid <= q.rowid
      BY <3>3 DEF TreeInv, RootFirst
    <3>5. r \in resources'
      BY <2>4, <2>7, <3>4 DEF IsRoot
    <3>6. \A q \in resources' : r.rowid <= q.rowid
      BY <2>7, <2>8, <3>1, <3>2, <3>4
    <3> QED  BY <1>2, <3>4, <3>5, <3>6 DEF RootFirst
  <2>10. PendingFresh'
    <3> SUFFICES ASSUME NEW u \in Task, Pending(u)'
                 PROVE  /\ Unused(typeRows, task[u].node.ri)'
                        /\ KnownId(u, task[u].node)'
                        /\ HasParent(task[u].node)'
                        /\ task'[u].pc \in {"verify", "awaitVerification"}
                             => task'[u].node.ty = "Subscription"
                        /\ task'[u].pc = "detail"
                             => \E r \in resources' : IsRowOf(r, task'[u].node)
      BY DEF PendingFresh
    <3>1. Pending(u) /\ task'[u].node = task[u].node
      BY <2>2, <2>3 DEF Pending
    <3>2. /\ Unused(typeRows, task[u].node.ri)
          /\ KnownId(u, task[u].node)
          /\ HasParent(task[u].node)
          /\ task[u].pc \in {"verify", "awaitVerification"} => task[u].node.ty = "Subscription"
          /\ task[u].pc = "detail" => \E r \in resources : IsRowOf(r, task[u].node)
      BY <3>1 DEF TreeInv, PendingFresh
    <3>3. HasParent(task[u].node)'
      BY <2>5, <3>1, <3>2 DEF HasParent
    <3>4. KnownId(u, task[u].node)'
      BY <1>2, <2>2, <3>1, <3>2 DEF KnownId
    <3>5. Unused(typeRows, task[u].node.ri)'
      BY <1>2, <3>1, <3>2
    <3>6. task'[u].pc = "detail" => \E r \in resources' : IsRowOf(r, task'[u].node)
      <4>1. CASE u = t
        BY <2>3, <2>7, <2>8, <4>1
      <4>2. CASE u # t /\ task'[u].pc = "detail"
        <5>1. PICK r \in resources : IsRowOf(r, task[u].node)
          BY <2>3, <3>2, <4>2
        <5>2. n.ri # Null => r.ri # n.ri
          BY <2>2, <3>1, <4>2, <5>1 DEF TreeInv, PendingDistinct, IsRowOf
        <5> QED  BY <2>7, <3>1, <5>1, <5>2
      <4> QED  BY <4>1, <4>2
    <3>7. task'[u].pc \in {"verify", "awaitVerification"} => task'[u].node.ty = "Subscription"
      BY <2>3, <3>1, <3>2
    <3> QED  BY <3>3, <3>4, <3>5, <3>6, <3>7
  <2>11. PendingDistinct'
    <3>1. \A u \in Task : Pending(u)' => Pending(u) /\ task'[u].node = task[u].node
      BY <2>2, <2>3 DEF Pending
    <3> QED  BY <3>1 DEF TreeInv, PendingDistinct
  <2>12. KnownIds' /\ PowerOffIdle' /\ backup' = {}
    BY <1>2 DEF TreeInv, KnownIds, PowerOffIdle
  <2>13. TreeStep
    BY <1>2, <2>5 DEF TreeStep
  <2> QED  BY <1>1, <2>6, <2>9, <2>10, <2>11, <2>12, <2>13 DEF TreeInv
<1> QED  BY <1>3, <1>4, <1>5

LEMMA DetailTree ==
    ASSUME NoIdClash, Reliable, TreeInv, NEW t \in Task, InsertDetail(t) \/ InsertDetailFails(t)
    PROVE  TreeInv' /\ TreeStep
<1>1. TypeInv' /\ nextId \in Int
  BY DetailType, GeneratedIdAssumption DEF TreeInv, TypeInv, TypeOK
<1>2. /\ power = "on" /\ power' = "on" /\ cpu = t
      /\ UNCHANGED <<nextId, resources, backup, power>>
  <2>1. InsertDetailFails(t) => UNCHANGED db
    BY RollbackNothing DEF InsertDetailFails
  <2> QED  BY <2>1 DEF InsertDetail, InsertDetailFails, Runs, db
<1>3. CASE InsertDetailFails(t)
  <2>1. \A u \in Task : QuietTask(u)
    BY <1>2, <1>3, ReplyQuiet DEF InsertDetailFails
  <2>2. UNCHANGED typeRows
    BY <1>3, RollbackNothing DEF InsertDetailFails, db
  <2> QED  BY <1>1, <1>2, <2>1, <2>2, QuietStep DEF PowerOffIdle
<1>4. CASE InsertDetail(t)
  <2> DEFINE n == task[t].node
  <2>1. typeRows' = InsertTypeRow(typeRows, n)
    BY <1>4 DEF InsertDetail
  <2>2. Pending(t) /\ task[t].pc = "detail"
    BY <1>4 DEF InsertDetail, Runs, Pending
  <2>3. n \in Node
    BY <2>2 DEF TreeInv, TypeInv, BusyHasNode
  <2>4. /\ Unused(typeRows, n.ri) /\ n.ri # CseRi /\ HasParent(n) /\ KnownId(t, n)
        /\ \E r \in resources : IsRowOf(r, n)
    BY <2>2, PendingNotRoot DEF TreeInv, PendingFresh
  <2>5. ~ Pending(t)' /\ \A u \in Task : u # t => task'[u] = task[u]
    <3>1. CASE n.ty = "Subscription"
      BY <1>4, <3>1 DEF InsertDetail, Reply, Idle, Pending, TreeInv, TypeInv, TypeOK
    <3>2. CASE n.ty # "Subscription"
      <4>1. PICK items : Resume(t, "notify", items)
        BY <1>4, <3>2 DEF InsertDetail
      <4> QED  BY <4>1 DEF Resume, Pending, TreeInv, TypeInv, TypeOK, TaskState
    <3> QED  BY <3>1, <3>2
  <2>6. /\ TypeKeys(typeRows')
        /\ n.ri = Null => Stored(resources', typeRows') = Stored(resources, typeRows)
        /\ n.ri # Null => /\ Stored(resources', typeRows')
                               = Stored(resources, typeRows) \cup {n}
                          /\ \A m \in Stored(resources, typeRows) : m.ri # n.ri
    <3>1. PICK r \in resources : IsRowOf(r, n)
      BY <2>4
    <3> QED  BY <1>2, <2>1, <2>3, <2>4, <3>1, SecondRowSaved DEF TreeInv
  <2>7. Stored(resources, typeRows) \subseteq Stored(resources', typeRows')
    BY <2>6
  <2> DEFINE new == [ri |-> n.ri, ty |-> n.ty, attr |-> n.attr]
  <2>8. /\ \A d : d \in typeRows' <=> d \in typeRows \/ d = new
        /\ new.ri = n.ri /\ new.ty = n.ty /\ new.attr = n.attr
    BY <2>1, <2>4 DEF InsertTypeRow, Unused
  <2> HIDE DEF new
  <2>9. KnownIds'
    BY <1>2, <2>4, <2>8 DEF TreeInv, KnownIds, KnownId
  <2>10. RootFirst'
    <3>1. resources # {}
      BY <2>4
    <3>2. PICK r \in resources, d \in typeRows :
            IsRoot(r) /\ SameKey(r, d) /\ \A q \in resources : r.rowid <= q.rowid
      BY <3>1 DEF TreeInv, RootFirst
    <3>3. r \in resources' /\ d \in typeRows' /\ \A q \in resources' : r.rowid <= q.rowid
      BY <1>2, <2>8, <3>2
    <3> QED  BY <3>2, <3>3 DEF RootFirst
  <2>11. PendingFresh'
    <3> SUFFICES ASSUME NEW u \in Task, Pending(u)'
                 PROVE  /\ Unused(typeRows, task[u].node.ri)'
                        /\ KnownId(u, task[u].node)'
                        /\ HasParent(task[u].node)'
                        /\ task'[u].pc \in {"verify", "awaitVerification"}
                             => task'[u].node.ty = "Subscription"
                        /\ task'[u].pc = "detail"
                             => \E r \in resources' : IsRowOf(r, task'[u].node)
      BY DEF PendingFresh
    <3>1. u # t /\ Pending(u) /\ task'[u] = task[u]
      BY <2>5 DEF Pending
    <3>2. /\ Unused(typeRows, task[u].node.ri)
          /\ KnownId(u, task[u].node)
          /\ HasParent(task[u].node)
          /\ task[u].pc \in {"verify", "awaitVerification"} => task[u].node.ty = "Subscription"
          /\ task[u].pc = "detail" => \E r \in resources : IsRowOf(r, task[u].node)
      BY <3>1 DEF TreeInv, PendingFresh
    <3>3. HasParent(task[u].node)'
      BY <2>7, <3>1, <3>2 DEF HasParent
    <3>4. KnownId(u, task[u].node)'
      BY <1>2, <3>1, <3>2 DEF KnownId
    <3>5. Unused(typeRows, task[u].node.ri)'
      <4>1. task[u].node.ri # Null => task[u].node.ri # n.ri
        BY <2>2, <3>1 DEF TreeInv, PendingDistinct
      <4> QED  BY <2>8, <3>1, <3>2, <4>1 DEF Unused
    <3> QED  BY <1>2, <3>1, <3>2, <3>3, <3>4, <3>5
  <2>12. PendingDistinct'
    <3>1. \A u \in Task : Pending(u)' => Pending(u) /\ task'[u] = task[u]
      BY <2>5 DEF Pending
    <3> QED  BY <3>1 DEF TreeInv, PendingDistinct
  <2>13. PowerOffIdle' /\ backup' = {} /\ RowKeys(resources)' /\ TypeKeys(typeRows)'
    BY <1>2, <2>6 DEF TreeInv, PowerOffIdle
  <2>14. TreeStep
    <3>1. CASE n.ri = Null
      BY <1>2, <2>6, <3>1 DEF TreeStep
    <3>2. CASE n.ri # Null
      <4>1. /\ n \in Stored(resources', typeRows') \ Stored(resources, typeRows)
            /\ Stored(resources', typeRows') = Stored(resources, typeRows) \cup {n}
            /\ \A m \in Stored(resources, typeRows) : m.ri # n.ri
        BY <2>6, <3>2
      <4>2. \E p \in Stored(resources, typeRows) : p.ri = n.pi
        BY <2>4 DEF HasParent
      <4>3. Tree!Create
        BY <1>2, <4>1, <4>2 DEF Tree!Create
      <4> QED  BY <4>3 DEF TreeStep, Tree!Next
    <3> QED  BY <3>1, <3>2
  <2> QED  BY <1>1, <2>9, <2>10, <2>11, <2>12, <2>13, <2>14 DEF TreeInv
<1> QED  BY <1>3, <1>4

-----------------------------------------------------------------------------
(* Starting and stopping.                                                  *)

(* A database that has a row has the CSEBase, and GetCSEBase finds it.     *)
LEMMA RootFound ==
    ASSUME TreeInv, resources # {} \/ typeRows # {}
    PROVE  CSEBases(resources, typeRows) # {}
<1>1. PICK r \in resources, d \in typeRows :
        IsRoot(r) /\ SameKey(r, d) /\ \A q \in resources : r.rowid <= q.rowid
  BY DEF TreeInv, RootFirst
<1>2. r \in FirstMatch(resources, <<CseRi>>) /\ HasTypeRow(typeRows, r)
  BY <1>1 DEF IsRoot, SameKey, FirstMatch, Matches, HasTypeRow
<1>3. NodeOf(typeRows, r) \in LoadPrimitiveContentByTarget(resources, typeRows, <<CseRi>>)
  BY <1>2 DEF LoadPrimitiveContentByTarget
<1>4. NodeOf(typeRows, r).ty = "CSEBase"
  BY <1>1 DEF NodeOf, IsRoot
<1> QED  BY <1>3, <1>4 DEF CSEBases

(* The two rows of the CSEBase in a new database.                          *)
LEMMA Seeded ==
    LET rs == InsertResources({}, CSEBaseNode, <<CseName>>)
        ts == InsertTypeRow({}, CSEBaseNode)
    IN  /\ RowKeys(rs) /\ TypeKeys(ts)
        /\ \A d \in ts : d.ri = CseRi
        /\ \E r \in rs, d \in ts :
              IsRoot(r) /\ SameKey(r, d) /\ \A q \in rs : r.rowid <= q.rowid
        /\ \E root \in Stored(rs, ts) : root.pi = Null /\ Stored(rs, ts) = {root}
<1> DEFINE rs == InsertResources({}, CSEBaseNode, <<CseName>>)
           ts == InsertTypeRow({}, CSEBaseNode)
           r == [rowid |-> NextRowid({}), ri |-> CseRi, rn |-> CseName,
                 ty |-> "CSEBase", pi |-> Null, path |-> <<CseName>>]
           d == [ri |-> CseRi, ty |-> "CSEBase", attr |-> [csi |-> CseId]]
<1>1. rs = {r} /\ ts = {d}
  BY DEF InsertResources, InsertTypeRow, CSEBaseNode
<1>2. CseRi # Null
  BY IdentAssumption, NullAssumption
<1>3. IsRoot(r) /\ SameKey(r, d)
  BY <1>2 DEF IsRoot, SameKey
<1>4. r.rowid \in Nat
  <2>1. {} \in SUBSET Row /\ HasLastRow({})
    BY DEF HasLastRow
  <2> QED  BY <2>1, NextRowidAbove
<1>5. d.ri = CseRi /\ Joined(r, d).pi = Null
  BY DEF Joined
<1> HIDE DEF rs, ts, r, d
<1>6. RowKeys(rs) /\ TypeKeys(ts)
  BY <1>1 DEF RowKeys, TypeKeys
<1>7. \A m : m \in Stored(rs, ts) <=> m = Joined(r, d)
  BY <1>1, <1>3, <1>6, StoredIsJoin
<1>8. Stored(rs, ts) = {Joined(r, d)}
  BY <1>7
<1>9. \E x \in rs, y \in ts : IsRoot(x) /\ SameKey(x, y) /\ \A q \in rs : x.rowid <= q.rowid
  BY <1>1, <1>3, <1>4
<1> QED  BY <1>1, <1>5, <1>6, <1>8, <1>9 DEF rs, ts

LEMMA BootTree ==
    ASSUME Reliable, TreeInv, NEW clean \in CleanOnBoot, Boot(clean)
    PROVE  TreeInv' /\ TreeStep
<1>1. TypeInv' /\ nextId \in Int
  BY BootType, GeneratedIdAssumption DEF TreeInv, TypeInv, TypeOK
<1>2. /\ power = "off" /\ power' = "on" /\ UNCHANGED <<cpu, task>>
      /\ nextId' = (IF clean THEN 1 ELSE nextId) /\ backup' = {}
  BY DEF Boot, Initialize, Reliable
<1>3. \A t \in Task : ~ Pending(t) /\ ~ Pending(t)'
  BY <1>2 DEF TreeInv, PowerOffIdle, Pending
<1>4. PendingFresh' /\ PendingDistinct' /\ PowerOffIdle'
  BY <1>2, <1>3 DEF PendingFresh, PendingDistinct, PowerOffIdle
<1> DEFINE rs == IF clean THEN {} ELSE resources
           ts == IF clean THEN {} ELSE typeRows
<1>5. \/ resources' = rs /\ typeRows' = ts
      \/ /\ CSEBases(rs, ts) = {}
         /\ resources' = InsertResources(rs, CSEBaseNode, <<CseName>>)
         /\ typeRows' = InsertTypeRow(ts, CSEBaseNode)
  BY DEF Boot, Initialize, Reliable
<1>6. CASE resources' = rs /\ typeRows' = ts /\ ~ clean
  <2>1. UNCHANGED <<resources, typeRows, nextId>>
    BY <1>2, <1>6
  <2>2. KnownIds' /\ RootFirst' /\ RowKeys(resources)' /\ TypeKeys(typeRows)'
    BY <2>1 DEF TreeInv, KnownIds, RootFirst
  <2>3. Tree!Start
    BY <1>2, <2>1 DEF Tree!Start
  <2> QED  BY <1>1, <1>2, <1>4, <2>2, <2>3 DEF TreeInv, TreeStep, Tree!Next
<1>7. CASE resources' = rs /\ typeRows' = ts /\ clean
  <2>1. resources' = {} /\ typeRows' = {}
    BY <1>7
  <2>2. KnownIds' /\ RootFirst' /\ RowKeys(resources)' /\ TypeKeys(typeRows)'
    BY <2>1 DEF KnownIds, RootFirst, RowKeys, TypeKeys
  <2>3. Stored(resources', typeRows') = {}
    BY <2>1 DEF Stored
  <2>4. Tree!Start
    BY <1>2, <2>3 DEF Tree!Start
  <2> QED  BY <1>1, <1>2, <1>4, <2>2, <2>4 DEF TreeInv, TreeStep, Tree!Next
<1>8. CASE /\ CSEBases(rs, ts) = {}
           /\ resources' = InsertResources(rs, CSEBaseNode, <<CseName>>)
           /\ typeRows' = InsertTypeRow(ts, CSEBaseNode)
  <2>1. rs = {} /\ ts = {}
    BY <1>8, RootFound
  <2>2. /\ resources' = InsertResources({}, CSEBaseNode, <<CseName>>)
        /\ typeRows' = InsertTypeRow({}, CSEBaseNode)
    BY <1>8, <2>1
  <2>3. /\ RowKeys(resources') /\ TypeKeys(typeRows')
        /\ \A d \in typeRows' : d.ri = CseRi
        /\ \E r \in resources', d \in typeRows' :
              IsRoot(r) /\ SameKey(r, d) /\ \A q \in resources' : r.rowid <= q.rowid
        /\ \E root \in Stored(resources', typeRows') :
              root.pi = Null /\ Stored(resources', typeRows') = {root}
    BY <2>2, Seeded
  <2>4. KnownIds' /\ RootFirst'
    BY <2>3 DEF KnownIds, RootFirst
  <2>5. Tree!Start
    BY <1>2, <2>3 DEF Tree!Start
  <2> QED  BY <1>1, <1>2, <1>4, <2>3, <2>4, <2>5 DEF TreeInv, TreeStep, Tree!Next
<1> QED  BY <1>5, <1>6, <1>7, <1>8

LEMMA PowerLossTree ==
    ASSUME TreeInv, PowerLoss
    PROVE  TreeInv' /\ TreeStep
<1>1. TypeInv'
  BY PowerLossType DEF TreeInv
<1>2. /\ power = "on" /\ power' = "off" /\ task' = [t \in Task |-> Idle]
      /\ UNCHANGED db
  BY RollbackNothing DEF PowerLoss
<1>3. \A t \in Task : task'[t].pc = "idle" /\ ~ Pending(t)'
  BY <1>2 DEF Pending, Idle
<1>4. PendingFresh' /\ PendingDistinct' /\ PowerOffIdle'
  BY <1>3 DEF PendingFresh, PendingDistinct, PowerOffIdle
<1>5. KnownIds' /\ RootFirst' /\ backup' = {} /\ RowKeys(resources)' /\ TypeKeys(typeRows)'
  BY <1>2 DEF TreeInv, KnownIds, RootFirst, db
<1>6. Tree!Stop
  BY <1>2 DEF Tree!Stop, db
<1> QED  BY <1>1, <1>4, <1>5, <1>6 DEF TreeInv, TreeStep, Tree!Next

-----------------------------------------------------------------------------
(* TreeInv is inductive, and every step is a step of the tree.             *)
LEMMA TreeInvInit == Init => TreeInv /\ Tree!Init
<1> SUFFICES ASSUME Init PROVE TreeInv /\ Tree!Init
  OBVIOUS
<1>1. \A t \in Task : task[t].pc = "idle" /\ ~ Pending(t)
  BY DEF Init, Idle, Pending
<1>2. PowerOffIdle /\ PendingFresh /\ PendingDistinct
  BY <1>1 DEF PowerOffIdle, PendingFresh, PendingDistinct
<1>3. RootFirst /\ KnownIds /\ backup = {} /\ RowKeys(resources) /\ TypeKeys(typeRows)
  BY DEF Init, RootFirst, KnownIds, RowKeys, TypeKeys
<1>4. Tree!Init
  BY DEF Init, Tree!Init, Stored
<1> QED  BY <1>2, <1>3, <1>4, TypeInvInit DEF TreeInv

LEMMA TreeInvStep ==
    ASSUME NoIdClash, Reliable, TreeInv, [Next]_vars
    PROVE  TreeInv' /\ TreeStep
<1>1. CASE \E t \in Task : Create(t)
  <2>1. PICK t \in Task : Create(t)
    BY <1>1
  <2> QED  BY <2>1, ArrivalTree, VerificationTree, RowTree, DetailTree, NotificationTree
           DEF Create
<1>2. CASE (\E t \in Task, q \in RetrieveRequests : Retrieve(t, q)) \/ UNCHANGED vars
  <2>1. UNCHANGED <<nextId, resources, typeRows, backup, power, cpu, task>>
    BY <1>2 DEF Retrieve, vars, db, ram
  <2>2. TypeInv' /\ PowerOffIdle' /\ nextId <= nextId'
    BY <2>1, TypeInvStep, GeneratedIdAssumption DEF TreeInv, TypeInv, TypeOK, PowerOffIdle
  <2>3. \A t \in Task : QuietTask(t)
    BY <2>1 DEF QuietTask, Pending
  <2> QED  BY <2>1, <2>2, <2>3, QuietStep
<1>3. CASE \E clean \in CleanOnBoot : Boot(clean)
  BY <1>3, BootTree
<1>4. CASE PowerLoss
  BY <1>4, PowerLossTree
<1> QED  BY <1>1, <1>2, <1>3, <1>4 DEF Next

(* Seen as the resources it holds completely, the database is a tree that  *)
(* grows by one resource at a time, under a parent that exists and with an *)
(* ID that is new, and that power failures, the interleaving of tasks and  *)
(* the failure of any database call but the four of Reliable never make    *)
(* lose a resource.                                                        *)
THEOREM TreeImplemented ==
    ASSUME NoIdClash, Reliable
    PROVE  Spec => TreeSpec
<1>1. TreeInv /\ [Next]_vars => TreeInv' /\ TreeStep
  BY TreeInvStep
<1>2. TreeStep <=> [Tree!Next]_(Tree!vars)
  BY DEF TreeStep, Tree!vars
<1> QED  BY <1>1, <1>2, TreeInvInit, PTL DEF Spec, TreeSpec, Tree!Spec

-----------------------------------------------------------------------------
(* A step that is not a start keeps what every lookup finds.               *)
LEMMA LookupStep ==
    ASSUME NoIdClash, Reliable, TreeInv, [Next]_vars, NEW target
    PROVE  \/ \E clean \in CleanOnBoot : Boot(clean)
           \/ Load(target) \subseteq
                LoadPrimitiveContentByTarget(resources', typeRows', target)
<1> DEFINE Kept == Load(target) \subseteq
                     LoadPrimitiveContentByTarget(resources', typeRows', target)
<1>1. CASE UNCHANGED <<resources, typeRows>>
  BY <1>1 DEF Load
<1>2. ASSUME NEW t \in Task, InsertRow(t)
      PROVE  Kept
  <2>1. Pending(t) /\ UNCHANGED typeRows
    BY <1>2 DEF InsertRow, Runs, Pending
  <2>2. \E path : resources' = InsertResources(resources, task[t].node, path)
    BY <1>2 DEF InsertRow
  <2>3. Unused(typeRows, task[t].node.ri)
    BY <2>1 DEF TreeInv, PendingFresh
  <2> QED  BY <2>1, <2>2, <2>3, FirstRowKeepsLookups DEF Load, TreeInv, TypeInv, TypeOK
<1>3. ASSUME NEW t \in Task, InsertDetail(t)
      PROVE  Kept
  <2>1. Pending(t) /\ UNCHANGED resources /\ typeRows' = InsertTypeRow(typeRows, task[t].node)
    BY <1>3 DEF InsertDetail, Runs, Pending
  <2>2. typeRows \subseteq typeRows'
    BY <2>1 DEF TreeInv, PendingFresh, InsertTypeRow, Unused
  <2>3. TypeKeys(typeRows) /\ TypeKeys(typeRows')
    BY TreeInvStep DEF TreeInv
  <2> QED  BY <2>1, <2>2, <2>3, SecondRowKeepsLookups DEF Load
<1>4. \/ UNCHANGED <<resources, typeRows>>
      \/ \E t \in Task : InsertRow(t) \/ InsertDetail(t)
      \/ \E clean \in CleanOnBoot : Boot(clean)
  <2>1. Rollback => UNCHANGED <<resources, typeRows>>
    BY RollbackNothing DEF db
  <2>2. ASSUME NEW t \in Task, NEW q \in CreateRequests,
               RefuseCreateAfterId(t, q) \/ AcceptCreate(t, q)
        PROVE  UNCHANGED <<resources, typeRows>>
    BY <2>2, GetIdReliable DEF RefuseCreateAfterId, AcceptCreate
  <2> QED  BY <2>1, <2>2 DEF Next, Create, RefuseCreate, VerifySubscription,
         VerificationAnswered, VerificationFails, HangInPathQuery, InsertRowFails,
         InsertDetailFails, SendNotification, SkipDelivery, NotificationAnswered,
         FinishCreate, Retrieve, PowerLoss, vars, db
<1> QED  BY <1>1, <1>2, <1>3, <1>4

(* What a path or an ID leads to does not change while the database is     *)
(* kept: a resource that is saved later, whatever its name, is never found *)
(* in place of one that was found before, nor is a failed save; the two    *)
(* provisions are those of TreeImplemented.                                *)
THEOREM LookupsStable ==
    ASSUME NoIdClash, Reliable
    PROVE  Spec => LookupStable
<1>1. TreeInv /\ [Next]_vars => TreeInv'
  BY TreeInvStep
<1>2. TreeInv /\ [Next]_vars =>
        [(\E clean \in CleanOnBoot : Boot(clean)) \/
         \A target \in {r.path : r \in resources} \cup {<<i>> : i \in Ident} :
            Load(target) \subseteq
              LoadPrimitiveContentByTarget(resources', typeRows', target)]_vars
  BY LookupStep
<1>3. Init => TreeInv
  BY TreeInvInit
<1> QED  BY <1>1, <1>2, <1>3, PTL DEF Spec, LookupStable

=============================================================================
