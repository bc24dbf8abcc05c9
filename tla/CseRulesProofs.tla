--------------------------- MODULE CseRulesProofs ---------------------------
(***************************************************************************)
(* The rules of oneM2M the service keeps, for every set of tasks, requests *)
(* and identifiers that meets the provisions of each theorem: the path     *)
(* stored with a resource spells its ancestors, AEs have names and AE-IDs  *)
(* of their own, containers stay within their limits, what someone         *)
(* retrieves is governed by their own AE, and, as long as no failure       *)
(* leaves half a resource, the latest instance of a container can be       *)
(* retrieved and what an answer says is there is found.                    *)
(***************************************************************************)
EXTENDS CseDeliveryProofs

(* The row a resource was saved under is still there, complete, and spells *)
(* the path.                                                               *)
UnderStored(r) ==
    \/ r.pi = Null /\ r.path = <<r.rn>>
    \/ \E p \in resources : /\ HasTypeRow(typeRows, p) /\ p.ri = r.pi
                            /\ r.path = Append(p.path, r.rn)

RowPaths == \A r \in resources : UnderStored(r)

PathInv == TreeInv /\ RowPaths

(* So the path of every row is spelled by its parent's row.                *)
LEMMA RowPathsSpelled ==
    ASSUME RowPaths
    PROVE  PathsSpelled(resources)
  BY DEF RowPaths, UnderStored, PathsSpelled, SpelledByParent, HasTypeRow

(* The path query finds the stored path of a parent, and ends.             *)
LEMMA PathsForStored ==
    ASSUME PathInv, NEW p \in resources, p.ri # Null, NEW rn
    PROVE  /\ PathsFor(resources, p.ri, rn) = {Append(p.path, rn)}
           /\ ~ Cyclic(resources, p.ri)
<1>1. /\ resources \in SUBSET Row /\ IsFiniteSet(resources) /\ RowKeys(resources)
      /\ PathsSpelled(resources)
  BY RowPathsSpelled DEF PathInv, TreeInv, TypeInv, TypeOK
<1>2. /\ Depth(resources, p.ri) = {Len(p.path) - 1}
      /\ GetFullPathByRI(resources, p.ri) = {p.path}
  BY <1>1, FullPath
<1>3. PathsFor(resources, p.ri, rn) = {Append(q, rn) : q \in {p.path}}
  BY <1>2 DEF PathsFor
<1>4. \E k \in 0 .. Cardinality(resources) :
         RowOf(resources, Ancestor(resources, p.ri)[k]).pi = Null
  BY <1>2 DEF Depth
<1> QED  BY <1>3, <1>4 DEF Cyclic

(* The parent of a pending resource is stored.                             *)
LEMMA PendingParent ==
    ASSUME TreeInv, NEW t \in Task, Pending(t)
    PROVE  \E p \in resources : /\ HasTypeRow(typeRows, p) /\ p.ri = task[t].node.pi
                                /\ p.ri # Null
  BY DEF TreeInv, PendingFresh, HasParent, Stored, NodeOf, HasTypeRow

(* A row that is complete stays, whatever is saved.                        *)
LEMMA SavedRow ==
    ASSUME NoIdClash, Reliable, PathInv, NEW t \in Task, InsertRow(t)
    PROVE  RowPaths'
<1> DEFINE n == task[t].node
<1>1. PICK path \in PathsFor(resources, n.pi, n.rn) :
        resources' = InsertResources(resources, n, path)
  BY DEF InsertRow
<1>2. Pending(t) /\ UNCHANGED typeRows
  BY DEF InsertRow, Runs, Pending
<1>3. PICK p \in resources : HasTypeRow(typeRows, p) /\ p.ri = n.pi /\ p.ri # Null
  BY <1>2, PendingParent DEF PathInv
<1>4. path = Append(p.path, n.rn)
  BY <1>1, <1>3, PathsForStored
<1>5. Unused(typeRows, n.ri)
  BY <1>2 DEF PathInv, TreeInv, PendingFresh
<1>6. PICK new :
        /\ \A r : r \in resources' <=>
                   (r \in resources /\ (n.ri = Null \/ r.ri # n.ri)) \/ r = new
        /\ new.pi = n.pi /\ new.path = Append(p.path, new.rn)
  <2> DEFINE row == [rowid |-> NextRowid(resources), ri |-> n.ri, rn |-> n.rn,
                     ty |-> n.ty, pi |-> n.pi, path |-> path]
  <2>1. resources' = {r \in resources : n.ri = Null \/ r.ri # n.ri} \cup {row}
    BY <1>1 DEF InsertResources
  <2>2. row.pi = n.pi /\ row.path = Append(p.path, row.rn)
    BY <1>4
  <2> HIDE DEF row, n
  <2> QED  BY <2>1, <2>2
<1> HIDE DEF n
<1>8. \A r \in resources : HasTypeRow(typeRows, r) => r \in resources'
  BY <1>5, <1>6 DEF HasTypeRow, Unused
<1>9. ASSUME NEW r \in resources PROVE UnderStored(r)'
  BY <1>2, <1>8, <1>9 DEF PathInv, RowPaths, UnderStored
<1>10. UnderStored(new)'
  BY <1>2, <1>3, <1>6, <1>8 DEF UnderStored
<1> QED  BY <1>6, <1>9, <1>10 DEF RowPaths

(* The second row of a resource disturbs no first row.                     *)
LEMMA SavedDetail ==
    ASSUME PathInv, NEW t \in Task, InsertDetail(t)
    PROVE  RowPaths'
<1>1. Pending(t) /\ UNCHANGED resources /\ typeRows' = InsertTypeRow(typeRows, task[t].node)
  BY DEF InsertDetail, Runs, Pending
<1>2. typeRows \subseteq typeRows'
  BY <1>1 DEF PathInv, TreeInv, PendingFresh, InsertTypeRow, Unused
<1> QED  BY <1>1, <1>2 DEF PathInv, RowPaths, UnderStored, HasTypeRow

(* A boot keeps the rows, or leaves that of the CSEBase alone.             *)
LEMMA BootedPaths ==
    ASSUME Reliable, PathInv, NEW clean \in CleanOnBoot, Boot(clean)
    PROVE  RowPaths'
<1> DEFINE rs == IF clean THEN {} ELSE resources
           ts == IF clean THEN {} ELSE typeRows
<1>1. \/ resources' = rs /\ typeRows' = ts
      \/ /\ CSEBases(rs, ts) = {}
         /\ resources' = InsertResources(rs, CSEBaseNode, <<CseName>>)
         /\ typeRows' = InsertTypeRow(ts, CSEBaseNode)
  BY DEF Boot, Initialize, Reliable
<1>2. CASE resources' = {}
  BY <1>2 DEF RowPaths
<1>3. CASE UNCHANGED <<resources, typeRows>>
  BY <1>3 DEF PathInv, RowPaths, UnderStored
<1>4. CASE CSEBases(rs, ts) = {} /\ resources' = InsertResources(rs, CSEBaseNode, <<CseName>>)
  <2>1. rs = {}
    BY <1>4, RootFound DEF PathInv
  <2>2. \A r \in resources' : r.pi = Null /\ r.path = <<r.rn>>
    BY <1>4, <2>1 DEF InsertResources, CSEBaseNode
  <2> QED  BY <2>2 DEF RowPaths, UnderStored
<1> QED  BY <1>1, <1>2, <1>3, <1>4

(* The steps that save rows are these three.                               *)
LEMMA PathInvStep ==
    ASSUME NoIdClash, Reliable, PathInv, [Next]_vars
    PROVE  PathInv'
<1>1. TreeInv'
  BY TreeInvStep DEF PathInv
<1>2. UNCHANGED <<resources, typeRows>> => RowPaths'
  BY DEF PathInv, RowPaths, UnderStored
<1>3. RowPaths'
  BY <1>2, StorageSteps, SavedRow, SavedDetail, BootedPaths DEF PathInv
<1> QED  BY <1>1, <1>3 DEF PathInv

(* Before the first boot there are no rows.                                *)
LEMMA PathInvInit == Init => PathInv
  BY TreeInvInit DEF PathInv, RowPaths, Init

(* The path in a row is, at any time, the one its ancestors spell.         *)
THEOREM StoredPathsCurrent ==
    ASSUME NoIdClash, Reliable
    PROVE  Spec => []PathsCurrent
<1>1. PathInv => PathsCurrent
  <2> SUFFICES ASSUME PathInv, NEW r \in resources
               PROVE  r.path \in PathsFor(resources, r.pi, r.rn)
    BY DEF PathsCurrent
  <2>1. CASE r.pi = Null /\ r.path = <<r.rn>>
    BY <2>1 DEF PathsFor
  <2>2. ASSUME NEW p \in resources, HasTypeRow(typeRows, p), p.ri = r.pi,
               r.path = Append(p.path, r.rn)
        PROVE  r.path \in PathsFor(resources, r.pi, r.rn)
    BY <2>2, PathsForStored DEF HasTypeRow
  <2> QED  BY <2>1, <2>2 DEF PathInv, RowPaths, UnderStored
<1>2. PathInv /\ [Next]_vars => PathInv'
  BY PathInvStep
<1> QED  BY <1>1, <1>2, PathInvInit, PTL DEF Spec

(* No save hangs: the path query climbs at most to the CSEBase.            *)
THEOREM PathQueriesEnd ==
    ASSUME NoIdClash, Reliable
    PROVE  Spec => [][\A t \in Task : ~ HangInPathQuery(t)]_vars
<1>1. PathInv => \A t \in Task : ~ HangInPathQuery(t)
  <2> SUFFICES ASSUME PathInv, NEW t \in Task, HangInPathQuery(t) PROVE FALSE
    OBVIOUS
  <2>1. Pending(t) /\ Cyclic(resources, task[t].node.pi)
    BY DEF HangInPathQuery, Runs, Pending
  <2>2. PICK p \in resources : p.ri = task[t].node.pi /\ p.ri # Null
    BY <2>1, PendingParent DEF PathInv
  <2> QED  BY <2>1, <2>2, PathsForStored
<1>2. PathInv /\ [Next]_vars => PathInv'
  BY PathInvStep
<1>3. PathInv /\ [Next]_vars => [\A t \in Task : ~ HangInPathQuery(t)]_vars
  BY <1>1
<1> QED  BY <1>2, <1>3, PathInvInit, PTL DEF Spec

-----------------------------------------------------------------------------
(* What the rules about AEs and containers have in common.                 *)

(* From its checks to its second row, a create keeps the CPU, unless a     *)
(* subscription is verified.                                               *)
Uninterrupted ==
    \A t \in Task : (Pending(t) /\ task[t].node.ty # "Subscription") =>
        cpu = t /\ task[t].pc \in {"insert", "detail"}

PendingTypes ==
    \A t \in Task : Pending(t) =>
        task[t].node.ty \in {"AE", "Container", "ContentInstance", "Subscription"}

OneRoot == \A d \in typeRows : d.ty = "CSEBase" => d.ri = CseRi

CheckedInv == TreeInv /\ Uninterrupted /\ PendingTypes /\ OneRoot

(* A pending resource that needs no verification has just been accepted,   *)
(* or its first row has just been saved.                                   *)
LEMMA UninterruptedTask ==
    ASSUME CheckedInv, [Next]_vars, NEW u \in Task, Pending(u)',
           task'[u].node.ty # "Subscription"
    PROVE  \/ \E q \in CreateRequests : AcceptCreate(u, q)
           \/ InsertRow(u) /\ Pending(u)
           \/ UNCHANGED vars
<1> SUFFICES ASSUME ~ \E q \in CreateRequests : AcceptCreate(u, q),
                    ~ InsertRow(u), ~ UNCHANGED vars
             PROVE  FALSE
  BY DEF InsertRow, Runs, Pending
<1>1. TypeInv /\ task \in [Task -> TaskState]
  BY DEF CheckedInv, TreeInv, TypeInv, TypeOK
<1>2. task[u].pc # "idle" /\ task'[u].node = task[u].node
  BY <1>1, BusyTask DEF Pending
<1>3. ASSUME Pending(u) PROVE FALSE
  <2>1. cpu = u /\ cpu # Free /\ power # "off" /\ task[u].pc \in {"insert", "detail"}
    BY <1>2, <1>3, TaskAssumption DEF CheckedInv, TreeInv, Uninterrupted, PowerOffIdle
  <2>2. ASSUME NEW t \in Task, Create(t)
        PROVE  \/ HangInPathQuery(u) \/ InsertRowFails(u)
               \/ InsertDetail(u) \/ InsertDetailFails(u)
    BY <2>1, <2>2
    DEF Create, RefuseCreate, RefuseCreateAfterId, AcceptCreate, VerifySubscription,
        VerificationAnswered, VerificationFails, InsertRow, HangInPathQuery, InsertRowFails,
        InsertDetail, InsertDetailFails, SendNotification, SkipDelivery,
        NotificationAnswered, FinishCreate, Scheduled, Runs
  <2>3. ~ InsertDetail(u)
    <3>1. ASSUME InsertDetail(u)
          PROVE  (\E q, code, n : Reply(u, q, code, n)) \/ \E items : Resume(u, "notify", items)
      BY <3>1 DEF InsertDetail
    <3> QED  BY <1>1, <3>1, ReplyTask, ResumeTask DEF Pending
  <2>4. ~ InsertDetailFails(u) /\ ~ InsertRowFails(u)
    BY <1>1, ReplyTask DEF InsertDetailFails, InsertRowFails, Pending
  <2>5. ~ HangInPathQuery(u)
    BY <1>1, ResumeTask DEF HangInPathQuery, Pending
  <2>6. ~ PowerLoss
    BY DEF PowerLoss, Idle, Pending
  <2>7. \A t \in Task : \A q : ~ Retrieve(t, q)
    BY <2>1 DEF Retrieve, Scheduled
  <2>8. \A clean : ~ Boot(clean)
    BY <2>1 DEF Boot
  <2> QED  BY <2>2, <2>3, <2>4, <2>5, <2>6, <2>7, <2>8 DEF Next
<1>4. ASSUME ~ Pending(u) PROVE FALSE
  <2>1. CASE \E t \in Task : Create(t)
    <3>1. PICK t \in Task : Create(t)
      BY <2>1
    <3>2. task[u].pc \in {"notify", "awaitPeer", "hung"}
      BY <1>1, <1>2, <1>4 DEF Pending, TaskState
    <3>3. t = u
      <4>1. \A q : AcceptCreate(t, q) => t = u \/ task'[u] = task[u]
        BY <1>1 DEF AcceptCreate
      <4>2. \A pc, agenda : Resume(t, pc, agenda) => t = u \/ task'[u] = task[u]
        BY <1>1, ResumeTask
      <4>3. \A q, code, n : Reply(t, q, code, n) => t = u \/ task'[u] = task[u]
        BY <1>1, ReplyTask
      <4> QED  BY <1>4, <3>1, <4>1, <4>2, <4>3, CreateShape DEF Pending
    <3>4. \/ SendNotification(u) \/ SkipDelivery(u)
          \/ NotificationAnswered(u) \/ FinishCreate(u)
      BY <3>1, <3>2, <3>3
      DEF Create, RefuseCreate, RefuseCreateAfterId, AcceptCreate, VerifySubscription,
          VerificationAnswered, VerificationFails, InsertRow, HangInPathQuery,
          InsertRowFails, InsertDetail, InsertDetailFails, Scheduled, Runs
    <3>5. \/ \E agenda : Resume(u, "notify", agenda) \/ Resume(u, "awaitPeer", agenda)
          \/ \E q, code, n : Reply(u, q, code, n)
      BY <3>4 DEF SendNotification, ExpandSubscription, ExpandUri, Post, SkipDelivery,
                  NotificationAnswered, FinishCreate
    <3> QED  BY <1>1, <3>5, ReplyTask, ResumeTask DEF Pending
  <2>2. CASE \/ \E t \in Task, q \in RetrieveRequests : Retrieve(t, q)
             \/ \E clean \in CleanOnBoot : Boot(clean)
    <3>1. task' = task
      BY <2>2 DEF Retrieve, Boot, ram
    <3> QED  BY <1>4, <3>1 DEF Pending
  <2>3. ~ PowerLoss
    BY DEF PowerLoss, Idle, Pending
  <2> QED  BY <2>1, <2>2, <2>3 DEF Next
<1> QED  BY <1>3, <1>4

(* What is known of a create that has passed its checks.                   *)
LEMMA AcceptedTask ==
    ASSUME Reliable, TreeInv, NEW t \in Task, NEW q \in CreateRequests, AcceptCreate(t, q)
    PROVE  \E failed \in Failing, p \in Parent(q), id \in {ResourceId[nextId], Null} :
              /\ ~ Refused(ChecksBeforeId(q, failed))
              /\ ~ Refused(ChecksAfterId(q, failed, resources, typeRows))
              /\ GetId(id) /\ nextId \in 1 .. MaxId
              /\ task'[t].node = NewNode(q, p, id) /\ task'[t].req = q
              /\ task'[t].pc = (IF q.ty = "Subscription" THEN "verify" ELSE "insert")
              /\ cpu = Free /\ cpu' = t
              /\ UNCHANGED <<resources, typeRows>>
<1>1. task \in [Task -> TaskState] /\ nextId \in 1 .. MaxId /\ cpu = Free /\ cpu' = t
  BY GeneratedIdAssumption DEF TreeInv, TypeInv, TypeOK, AcceptCreate, Scheduled
<1>2. PICK failed \in Failing, p \in Parent(q), id \in {ResourceId[nextId], Null} :
        /\ ~ Refused(ChecksBeforeId(q, failed))
        /\ GetId(id)
        /\ ~ Refused(ChecksAfterId(q, failed, resources', typeRows'))
        /\ LET n == NewNode(q, p, id) IN
           task' = [task EXCEPT ![t] =
                [req |-> q, node |-> n,
                 pc |-> IF q.ty = "Subscription" THEN "verify" ELSE "insert",
                 agenda |-> IF q.ty = "Subscription" THEN UriItems(n) ELSE << >>]]
  BY DEF AcceptCreate
<1>3. UNCHANGED <<resources, typeRows>>
  BY <1>2, GetIdReliable
<1>4. ~ Refused(ChecksAfterId(q, failed, resources, typeRows))
  BY <1>2, <1>3
<1>5. /\ task'[t].node = NewNode(q, p, id) /\ task'[t].req = q
      /\ task'[t].pc = (IF q.ty = "Subscription" THEN "verify" ELSE "insert")
  BY <1>1, <1>2
<1> QED  BY <1>1, <1>2, <1>3, <1>4, <1>5

(* The new database of a first boot.                                       *)
LEMMA SeededStored ==
    LET rs == InsertResources({}, CSEBaseNode, <<CseName>>)
        ts == InsertTypeRow({}, CSEBaseNode)
    IN  /\ Stored(rs, ts) = {CSEBaseNode}
        /\ \A d \in ts : d.ri = CseRi
        /\ \A r \in rs : r.ri = CseRi /\ r.ty = "CSEBase" /\ r.pi = Null
<1> DEFINE rs == InsertResources({}, CSEBaseNode, <<CseName>>)
           ts == InsertTypeRow({}, CSEBaseNode)
           r == [rowid |-> NextRowid({}), ri |-> CseRi, rn |-> CseName,
                 ty |-> "CSEBase", pi |-> Null, path |-> <<CseName>>]
           d == [ri |-> CseRi, ty |-> "CSEBase", attr |-> [csi |-> CseId]]
<1>1. rs = {r} /\ ts = {d}
  BY DEF InsertResources, InsertTypeRow, CSEBaseNode
<1>2. CseRi # Null
  BY IdentAssumption, NullAssumption
<1>3. SameKey(r, d) /\ d.ri = CseRi /\ r.ri = CseRi /\ r.ty = "CSEBase" /\ r.pi = Null
  BY <1>2 DEF SameKey
<1>4. Joined(r, d) = CSEBaseNode
  BY DEF Joined, CSEBaseNode
<1> HIDE DEF rs, ts, r, d
<1>5. TypeKeys(ts)
  BY <1>1 DEF TypeKeys
<1>6. \A m : m \in Stored(rs, ts) <=> m = Joined(r, d)
  BY <1>1, <1>3, <1>5, StoredIsJoin
<1>7. Stored(rs, ts) = {Joined(r, d)}
  BY <1>6
<1> QED  BY <1>1, <1>3, <1>4, <1>7 DEF rs, ts

(* A boot keeps both tables, empties them, or seeds the CSEBase.           *)
LEMMA BootChange ==
    ASSUME Reliable, TreeInv, NEW clean \in CleanOnBoot, Boot(clean)
    PROVE  \/ UNCHANGED <<resources, typeRows>>
           \/ Stored(resources', typeRows') = {} /\ typeRows' = {} /\ resources' = {}
           \/ /\ Stored(resources', typeRows') = {CSEBaseNode}
              /\ \A d \in typeRows' : d.ri = CseRi
              /\ \A r \in resources' : r.ri = CseRi /\ r.ty = "CSEBase" /\ r.pi = Null
<1> DEFINE rs == IF clean THEN {} ELSE resources
           ts == IF clean THEN {} ELSE typeRows
<1>1. \/ resources' = rs /\ typeRows' = ts
      \/ /\ CSEBases(rs, ts) = {}
         /\ resources' = InsertResources(rs, CSEBaseNode, <<CseName>>)
         /\ typeRows' = InsertTypeRow(ts, CSEBaseNode)
  BY DEF Boot, Initialize, Reliable
<1>2. CASE resources' = rs /\ typeRows' = ts
  BY <1>2 DEF Stored
<1>3. CASE /\ CSEBases(rs, ts) = {}
           /\ resources' = InsertResources(rs, CSEBaseNode, <<CseName>>)
           /\ typeRows' = InsertTypeRow(ts, CSEBaseNode)
  <2>1. rs = {} /\ ts = {}
    BY <1>3, RootFound
  <2>2. /\ resources' = InsertResources({}, CSEBaseNode, <<CseName>>)
        /\ typeRows' = InsertTypeRow({}, CSEBaseNode)
    BY <1>3, <2>1
  <2> QED  BY <2>2, SeededStored
<1> QED  BY <1>1, <1>2, <1>3

(* What a step does to the resources that are stored.                      *)
LEMMA StoredChange ==
    ASSUME NoIdClash, Reliable, TreeInv, [Next]_vars
    PROVE  \/ /\ Stored(resources', typeRows') = Stored(resources, typeRows)
              /\ UNCHANGED typeRows
           \/ \E t \in Task :
                /\ InsertDetail(t) /\ Pending(t) /\ ~ Pending(t)'
                /\ \A d \in typeRows' : \/ d \in typeRows
                                        \/ d.ty = task[t].node.ty /\ d.ri = task[t].node.ri
                /\ \/ /\ task[t].node.ri = Null
                      /\ Stored(resources', typeRows') = Stored(resources, typeRows)
                   \/ /\ task[t].node.ri # Null
                      /\ Stored(resources', typeRows')
                           = Stored(resources, typeRows) \cup {task[t].node}
           \/ /\ \E clean \in CleanOnBoot : Boot(clean)
              /\ \/ Stored(resources', typeRows') = {} /\ typeRows' = {}
                 \/ /\ Stored(resources', typeRows') = {CSEBaseNode}
                    /\ \A d \in typeRows' : d.ri = CseRi
<1>1. CASE UNCHANGED <<resources, typeRows>>
  BY <1>1
<1>2. ASSUME NEW t \in Task, InsertRow(t)
      PROVE  /\ Stored(resources', typeRows') = Stored(resources, typeRows)
             /\ UNCHANGED typeRows
  <2>1. Pending(t) /\ UNCHANGED typeRows
    BY <1>2 DEF InsertRow, Runs, Pending
  <2>2. \E path : resources' = InsertResources(resources, task[t].node, path)
    BY <1>2 DEF InsertRow
  <2>3. Unused(typeRows, task[t].node.ri)
    BY <2>1 DEF TreeInv, PendingFresh
  <2> QED  BY <2>1, <2>2, <2>3, FirstRowSaved DEF TreeInv
<1>3. ASSUME NEW t \in Task, InsertDetail(t)
      PROVE  /\ Pending(t) /\ ~ Pending(t)'
             /\ \A d \in typeRows' : \/ d \in typeRows
                                     \/ d.ty = task[t].node.ty /\ d.ri = task[t].node.ri
             /\ \/ /\ task[t].node.ri = Null
                   /\ Stored(resources', typeRows') = Stored(resources, typeRows)
                \/ /\ task[t].node.ri # Null
                   /\ Stored(resources', typeRows')
                        = Stored(resources, typeRows) \cup {task[t].node}
  <2> DEFINE n == task[t].node
  <2>1. /\ Pending(t) /\ UNCHANGED resources /\ typeRows' = InsertTypeRow(typeRows, n)
        /\ task[t].pc = "detail"
    BY <1>3 DEF InsertDetail, Runs, Pending
  <2>2. n \in Node /\ Unused(typeRows, n.ri) /\ \E r \in resources : IsRowOf(r, n)
    BY <2>1 DEF TreeInv, TypeInv, BusyHasNode, PendingFresh, Pending
  <2>3. \/ /\ n.ri = Null
           /\ Stored(resources', typeRows') = Stored(resources, typeRows)
        \/ /\ n.ri # Null
           /\ Stored(resources', typeRows') = Stored(resources, typeRows) \cup {n}
    BY <2>1, <2>2, SecondRowSaved DEF TreeInv
  <2>4. \A d \in typeRows' : d \in typeRows \/ (d.ty = n.ty /\ d.ri = n.ri)
    BY <2>1 DEF InsertTypeRow
  <2>5. ~ Pending(t)'
    <3>1. (\E q, code, m : Reply(t, q, code, m)) \/ \E items : Resume(t, "notify", items)
      BY <1>3 DEF InsertDetail
    <3> QED  BY <3>1, ReplyTask, ResumeTask DEF Pending, TreeInv
  <2> QED  BY <2>1, <2>3, <2>4, <2>5
<1> QED  BY <1>1, <1>2, <1>3, BootChange, StorageSteps

(* Each step keeps what the rules have in common.                          *)
LEMMA CheckedInvStep ==
    ASSUME NoIdClash, Reliable, CheckedInv, [Next]_vars
    PROVE  CheckedInv'
<1>1. TreeInv' /\ TreeInv /\ TypeInv
  BY TreeInvStep DEF CheckedInv, TreeInv
<1>2. PendingTypes'
  <2> SUFFICES ASSUME NEW t \in Task, Pending(t)'
               PROVE  task'[t].node.ty \in {"AE", "Container", "ContentInstance", "Subscription"}
    BY DEF PendingTypes
  <2>1. CASE \E q \in CreateRequests : AcceptCreate(t, q)
    <3>1. PICK q \in CreateRequests : AcceptCreate(t, q)
      BY <2>1
    <3>2. q.ty \in {"AE", "Container", "ContentInstance", "Subscription"}
      BY RequestAssumption DEF CreateRequest, CreateRequestOf
    <3>3. \E p, id : task'[t].node = NewNode(q, p, id)
      BY <1>1, <3>1, AcceptedTask
    <3> QED  BY <3>2, <3>3 DEF NewNode
  <2>2. CASE task'[t].node.ty # "Subscription" /\ InsertRow(t) /\ Pending(t)
    <3>1. task'[t].node = task[t].node
      BY <1>1, <2>2, ResumeTask DEF InsertRow
    <3> QED  BY <2>2, <3>1 DEF CheckedInv, PendingTypes
  <2>3. CASE UNCHANGED vars
    BY <2>3 DEF vars, ram, CheckedInv, PendingTypes, Pending
  <2> QED  BY <2>1, <2>2, <2>3, UninterruptedTask
<1>3. Uninterrupted'
  <2> SUFFICES ASSUME NEW t \in Task, Pending(t)', task'[t].node.ty # "Subscription"
               PROVE  cpu' = t /\ task'[t].pc \in {"insert", "detail"}
    BY DEF Uninterrupted
  <2>1. ASSUME NEW q \in CreateRequests, AcceptCreate(t, q)
        PROVE  cpu' = t /\ task'[t].pc \in {"insert", "detail"}
    <3>1. PICK p, id : /\ task'[t].node = NewNode(q, p, id) /\ cpu' = t
                       /\ task'[t].pc = (IF q.ty = "Subscription" THEN "verify" ELSE "insert")
      BY <1>1, <2>1, AcceptedTask
    <3> QED  BY <3>1 DEF NewNode
  <2>2. ASSUME InsertRow(t)
        PROVE  cpu' = t /\ task'[t].pc \in {"insert", "detail"}
    BY <1>1, <2>2, ResumeTask DEF InsertRow, Runs
  <2>3. CASE UNCHANGED vars
    BY <2>3 DEF vars, ram, CheckedInv, Uninterrupted, Pending
  <2> QED  BY <2>1, <2>2, <2>3, UninterruptedTask
<1>4. OneRoot'
  BY <1>1, StoredChange DEF CheckedInv, OneRoot, PendingTypes
<1> QED  BY <1>1, <1>2, <1>3, <1>4 DEF CheckedInv

(* Initially no task is pending and nothing is stored.                     *)
LEMMA CheckedInvInit == Init => CheckedInv
<1> SUFFICES ASSUME Init PROVE CheckedInv
  OBVIOUS
<1>1. \A t \in Task : ~ Pending(t)
  BY DEF Init, Idle, Pending
<1> QED  BY <1>1, TreeInvInit DEF Init, CheckedInv, Uninterrupted, PendingTypes, OneRoot

-----------------------------------------------------------------------------
(* The checks of a create.                                                 *)

(* Five checks and three are eight, in their order.                        *)
LEMMA EightChecks ==
    ASSUME NEW T, NEW a \in T, NEW b \in T, NEW c \in T, NEW d \in T, NEW e \in T,
           NEW f \in T, NEW g \in T, NEW h \in T
    PROVE  LET all == <<a, b, c, d, e>> \o <<f, g, h>>
           IN  /\ DOMAIN all = 1 .. 8
               /\ all[1] = a /\ all[2] = b /\ all[3] = c /\ all[4] = d /\ all[5] = e
               /\ all[6] = f /\ all[7] = g /\ all[8] = h
<1> DEFINE s == <<a, b, c, d, e>>
           r == <<f, g, h>>
<1>1. /\ s \in Seq(T) /\ Len(s) = 5 /\ r \in Seq(T) /\ Len(r) = 3
      /\ s[1] = a /\ s[2] = b /\ s[3] = c /\ s[4] = d /\ s[5] = e
      /\ r[1] = f /\ r[2] = g /\ r[3] = h
  OBVIOUS
<1> HIDE DEF s, r
<1>2. /\ s \o r \in Seq(T) /\ Len(s \o r) = Len(s) + Len(r)
      /\ \A i \in 1 .. Len(s) + Len(r) :
           (s \o r)[i] = IF i <= Len(s) THEN s[i] ELSE r[i - Len(s)]
  BY <1>1, ConcatProperties
<1>3. Len(s \o r) = 8 /\ DOMAIN (s \o r) = 1 .. 8
  BY <1>1, <1>2
<1>4. /\ (s \o r)[1] = a /\ (s \o r)[2] = b /\ (s \o r)[3] = c /\ (s \o r)[4] = d
      /\ (s \o r)[5] = e
  BY <1>1, <1>2
<1>5. (s \o r)[6] = f /\ (s \o r)[7] = g /\ (s \o r)[8] = h
  BY <1>1, <1>2
<1> QED  BY <1>3, <1>4, <1>5 DEF s, r

(* Five checks and four are nine.                                          *)
LEMMA NineChecks ==
    ASSUME NEW T, NEW a \in T, NEW b \in T, NEW c \in T, NEW d \in T, NEW e \in T,
           NEW f \in T, NEW g \in T, NEW h \in T, NEW i \in T
    PROVE  LET all == <<a, b, c, d, e>> \o <<f, g, h, i>>
           IN  /\ DOMAIN all = 1 .. 9
               /\ all[1] = a /\ all[2] = b /\ all[3] = c /\ all[4] = d /\ all[5] = e
               /\ all[6] = f /\ all[7] = g /\ all[8] = h /\ all[9] = i
<1> DEFINE s == <<a, b, c, d, e>>
           r == <<f, g, h, i>>
<1>1. /\ s \in Seq(T) /\ Len(s) = 5 /\ r \in Seq(T) /\ Len(r) = 4
      /\ s[1] = a /\ s[2] = b /\ s[3] = c /\ s[4] = d /\ s[5] = e
      /\ r[1] = f /\ r[2] = g /\ r[3] = h /\ r[4] = i
  OBVIOUS
<1> HIDE DEF s, r
<1>2. /\ s \o r \in Seq(T) /\ Len(s \o r) = Len(s) + Len(r)
      /\ \A k \in 1 .. Len(s) + Len(r) :
           (s \o r)[k] = IF k <= Len(s) THEN s[k] ELSE r[k - Len(s)]
  BY <1>1, ConcatProperties
<1>3. Len(s \o r) = 9 /\ DOMAIN (s \o r) = 1 .. 9
  BY <1>1, <1>2
<1>4. /\ (s \o r)[1] = a /\ (s \o r)[2] = b /\ (s \o r)[3] = c /\ (s \o r)[4] = d
      /\ (s \o r)[5] = e
  BY <1>1, <1>2
<1>5. (s \o r)[6] = f /\ (s \o r)[7] = g /\ (s \o r)[8] = h /\ (s \o r)[9] = i
  BY <1>1, <1>2
<1> QED  BY <1>3, <1>4, <1>5 DEF s, r

(* The parent of an accepted AE is the CSEBase and has no child with the   *)
(* name, if that could be queried.                                         *)
LEMMA AcceptedAE ==
    ASSUME NEW q \in CreateRequests, q.ty = "AE", NEW failed, "name" \notin failed,
           ~ Refused(ChecksBeforeId(q, failed)), NEW p \in Parent(q)
    PROVE  p.ty = "CSEBase" /\ ~ ExistsResourceByParentAndName(resources, p.ri, q.rn)
<1> DEFINE
  a == [when |-> ~ ready \/ GetCSEBase = {} \/ "base" \in failed,
        code |-> "INTERNAL_SERVER_ERROR"]
  b == [when |-> WrongSpId(q), code |-> "NOT_FOUND"]
  c == [when |-> (q.from = NoFrom /\ q.ty # "AE") \/ q.flaw = "request",
        code |-> "BAD_REQUEST"]
  d == [when |-> Parent(q) = {} \/ "parent" \in failed, code |-> "NOT_FOUND"]
  e == [when |-> \E r \in Parent(q) : r.ty \notin ParentTypes(q.ty),
        code |-> "INVALID_CHILD_RESOURCE_TYPE"]
  f == [when |-> q.flaw = "content", code |-> "BAD_REQUEST"]
  g == [when |-> /\ "name" \notin failed
                 /\ \E r \in Parent(q) : ExistsResourceByParentAndName(resources, r.ri, q.rn),
        code |-> "CONFLICT"]
  h == [when |-> q.from = CseStem, code |-> "SECURITY_ASSOCIATION_REQUIRED"]
<1>1. ChecksBeforeId(q, failed) = <<a, b, c, d, e>> \o <<f, g, h>>
  BY DEF ChecksBeforeId, TargetChecks
<1>2. e.when = (\E r \in Parent(q) : r.ty \notin ParentTypes(q.ty))
  BY Zenon
<1>3. g.when = ( /\ "name" \notin failed
                 /\ \E r \in Parent(q) : ExistsResourceByParentAndName(resources, r.ri, q.rn) )
  BY Zenon
<1> HIDE DEF a, b, c, d, e, f, g, h
<1>4. /\ DOMAIN ChecksBeforeId(q, failed) = 1 .. 8
      /\ ChecksBeforeId(q, failed)[5] = e /\ ChecksBeforeId(q, failed)[7] = g
  <2> DEFINE T == {a, b, c, d, e, f, g, h}
  <2>1. a \in T /\ b \in T /\ c \in T /\ d \in T /\ e \in T /\ f \in T /\ g \in T /\ h \in T
    OBVIOUS
  <2> HIDE DEF T
  <2> QED  BY <1>1, <2>1, EightChecks
<1>5. ~ e.when /\ ~ g.when
  <2>1. 5 \in 1 .. 8 /\ 7 \in 1 .. 8
    OBVIOUS
  <2> QED  BY <1>4, <2>1 DEF Refused
<1> QED  BY <1>2, <1>3, <1>5 DEF ParentTypes

-----------------------------------------------------------------------------
(* AEs have their own names and IDs.                                       *)

AENames == {q.rn : q \in {r \in CreateRequests : r.ty = "AE"}}

(* The names the CSE makes up for AEs are different for different IDs, and *)
(* no AE asks for one of them.                                             *)
DefaultNamesApart ==
    /\ \A i \in Ids : DefaultName("AE", i) \notin AENames
    /\ \A i, j \in Ids : DefaultName("AE", i) = DefaultName("AE", j) => i = j

(* An AE is a child of the CSEBase, and its AE-ID is its resource ID.      *)
Registered(n) ==
    /\ n.pi = CseRi /\ n.attr.aei = n.ri /\ n.ri \in Ids
    /\ n.rn \in AENames \/ n.rn = DefaultName("AE", n.ri)

AEs == {n \in Stored(resources, typeRows) : n.ty = "AE"}

AEsRegistered == \A n \in AEs : Registered(n)

AENamesDistinct == \A m, n \in AEs : m # n => m.rn # n.rn

(* The name that was checked is still free when the AE is saved.           *)
PendingAEs ==
    \A t \in Task : (Pending(t) /\ task[t].node.ty = "AE" /\ task[t].node.ri # Null) =>
        /\ Registered(task[t].node)
        /\ \A m \in AEs : m.rn # task[t].node.rn

RegistryInv == CheckedInv /\ AEsRegistered /\ AENamesDistinct /\ PendingAEs

(* An ID is stored once.                                                   *)
LEMMA StoredOnce ==
    ASSUME TreeInv, NEW m \in Stored(resources, typeRows), NEW n \in Stored(resources, typeRows),
           m.ri = n.ri
    PROVE  m = n
<1>1. resources \in SUBSET Row /\ RowKeys(resources)
  BY DEF TreeInv, TypeInv, TypeOK
<1>2. m = NodeOf(typeRows, RowOf(resources, m.ri)) /\ n = NodeOf(typeRows, RowOf(resources, n.ri))
  BY <1>1, RowOfStored
<1> QED  BY <1>2

(* The only CSEBase is the root.                                           *)
LEMMA CSEBaseStored ==
    ASSUME OneRoot, NEW m \in Stored(resources, typeRows), m.ty = "CSEBase"
    PROVE  m.ri = CseRi
  BY DEF OneRoot, Stored, HasTypeRow, NodeOf

(* What the checks of an AE make sure of: it is new by ID and by name.     *)
LEMMA NewAE ==
    ASSUME NoIdClash, Reliable, "name" \notin Faults, DefaultNamesApart, RegistryInv,
           [Next]_vars, NEW t \in Task, NEW q \in CreateRequests, AcceptCreate(t, q),
           task'[t].node.ty = "AE", task'[t].node.ri # Null
    PROVE  /\ Registered(task'[t].node)
           /\ \A m \in AEs : m.rn # task'[t].node.rn
<1>1. TreeInv /\ TypeInv /\ OneRoot
  BY DEF RegistryInv, CheckedInv, TreeInv
<1>2. PICK failed \in Failing, p \in Parent(q), id \in {ResourceId[nextId], Null} :
              /\ ~ Refused(ChecksBeforeId(q, failed))
              /\ ~ Refused(ChecksAfterId(q, failed, resources, typeRows))
              /\ nextId \in 1 .. MaxId /\ cpu = Free
              /\ task'[t].node = NewNode(q, p, id)
  BY <1>1, AcceptedTask
<1>3. PICK n : n = NewNode(q, p, id)
  OBVIOUS
<1>4. q.ty = "AE" /\ n.ty = "AE" /\ n.ri # Null /\ n = task'[t].node
  BY <1>2, <1>3 DEF NewNode
<1>5. "name" \notin failed
  BY DEF Failing
<1>6. p \in Node /\ p \in Stored(resources, typeRows)
  <2>1. p \in Node
    BY <1>1, LoadType DEF Parent, Load, TypeInv, TypeOK
  <2>2. p \in Stored(resources, typeRows)
    BY DEF Parent, Load, LoadPrimitiveContentByTarget, FirstMatch, Stored
  <2> QED  BY <2>1, <2>2
<1>7. p.ri = CseRi /\ ~ ExistsResourceByParentAndName(resources, p.ri, q.rn)
  BY <1>1, <1>2, <1>4, <1>5, <1>6, AcceptedAE, CSEBaseStored
<1>8. Unused(typeRows, n.ri) /\ (n.ri = ResourceId[nextId] \/ n.ri \in Stems)
  BY <1>1, <1>2, <1>3, <1>4, <1>6, NewIdFresh
<1>9. n.ri \in Ids
  BY <1>2, <1>8 DEF Ids, GeneratedIds
<1>10. n.pi = CseRi /\ n.rn = NameOf(q, n.ri) /\ n.attr.aei = n.ri
  <2>1. q.attr \in Attr["AE"]
    BY <1>4, RequestAssumption DEF CreateRequest, CreateRequestOf
  <2>2. n.attr = [q.attr EXCEPT !.aei = n.ri]
    BY <1>3, <1>4 DEF NewNode
  <2>3. n.attr.aei = n.ri
    BY <2>1, <2>2 DEF Attr
  <2>4. n.pi = p.ri /\ n.rn = NameOf(q, n.ri)
    BY <1>3 DEF NewNode
  <2> QED  BY <1>7, <2>3, <2>4
<1>11. q.rn \in AENames
  BY <1>4 DEF AENames
<1>12. Registered(n)
  BY <1>4, <1>9, <1>10, <1>11 DEF Registered, NameOf
<1>13. ASSUME NEW m \in AEs, m.rn = n.rn PROVE FALSE
  <2>1. m \in Stored(resources, typeRows) /\ Registered(m)
    BY DEF AEs, RegistryInv, AEsRegistered
  <2>2. m.ri # n.ri
    <3>1. m.ri # Null /\ \E d \in typeRows : d.ri = m.ri
      BY <2>1 DEF Stored, NodeOf, HasTypeRow
    <3> QED  BY <1>4, <1>8, <3>1 DEF Unused
  <2>3. CASE q.rn = NoName
    <3>1. n.rn = DefaultName("AE", n.ri)
      BY <1>4, <1>10, <2>3 DEF NameOf
    <3> QED  BY <1>9, <1>13, <2>1, <2>2, <3>1 DEF Registered, DefaultNamesApart
  <2>4. CASE q.rn # NoName
    <3>1. n.rn = q.rn
      BY <1>10, <2>4 DEF NameOf
    <3>2. \E r \in resources : r.pi = m.pi /\ r.rn = m.rn
      BY <2>1 DEF Stored, NodeOf
    <3> QED  BY <1>7, <1>13, <2>1, <3>1, <3>2 DEF Registered, ExistsResourceByParentAndName
  <2> QED  BY <2>3, <2>4
<1> QED  BY <1>4, <1>12, <1>13

(* Each step keeps the registry of AEs.                                    *)
LEMMA RegistryInvStep ==
    ASSUME NoIdClash, Reliable, "name" \notin Faults, DefaultNamesApart, RegistryInv,
           [Next]_vars
    PROVE  RegistryInv'
<1>1. CheckedInv /\ CheckedInv' /\ TreeInv /\ TypeInv /\ TreeInv'
  BY CheckedInvStep DEF RegistryInv, CheckedInv, TreeInv
<1>2. PendingAEs'
  <2> SUFFICES ASSUME NEW t \in Task, Pending(t)', task'[t].node.ty = "AE",
                      task'[t].node.ri # Null
               PROVE  Registered(task'[t].node) /\ \A m \in AEs' : m.rn # task'[t].node.rn
    BY DEF PendingAEs, Registered
  <2>1. \/ \E q \in CreateRequests : AcceptCreate(t, q)
        \/ InsertRow(t) /\ Pending(t)
        \/ UNCHANGED vars
    BY <1>1, UninterruptedTask
  <2>2. AEs' = AEs
    <3>1. CASE \E q \in CreateRequests : AcceptCreate(t, q)
      BY <1>1, <3>1, AcceptedTask DEF AEs
    <3>2. CASE UNCHANGED vars
      BY <3>2 DEF vars, db, AEs
    <3>3. CASE InsertRow(t) /\ Pending(t)
      <4>1. /\ UNCHANGED typeRows /\ Unused(typeRows, task[t].node.ri)
            /\ \E path : resources' = InsertResources(resources, task[t].node, path)
        BY <1>1, <3>3 DEF InsertRow, TreeInv, PendingFresh
      <4>2. Stored(resources', typeRows') = Stored(resources, typeRows)
        BY <1>1, <4>1, FirstRowSaved DEF TreeInv
      <4> QED  BY <4>2 DEF AEs
    <3> QED  BY <2>1, <3>1, <3>2, <3>3
  <2>3. CASE \E q \in CreateRequests : AcceptCreate(t, q)
    BY <2>2, <2>3, NewAE
  <2>4. CASE ~ \E q \in CreateRequests : AcceptCreate(t, q)
    <3>1. Pending(t) /\ task'[t].node = task[t].node
      BY <1>1, <2>1, <2>4, ResumeTask DEF InsertRow, vars, ram, Pending
    <3> QED  BY <2>2, <3>1 DEF RegistryInv, PendingAEs
  <2> QED  BY <2>3, <2>4
<1>3. AEsRegistered' /\ AENamesDistinct'
  <2>1. CASE Stored(resources', typeRows') = Stored(resources, typeRows)
    BY <2>1 DEF RegistryInv, AEsRegistered, AENamesDistinct, AEs, Registered
  <2>2. ASSUME NEW t \in Task, Pending(t), task[t].node.ri # Null,
               Stored(resources', typeRows') = Stored(resources, typeRows) \cup {task[t].node}
        PROVE  AEsRegistered' /\ AENamesDistinct'
    <3>1. task[t].node.ty = "AE" =>
            Registered(task[t].node) /\ \A m \in AEs : m.rn # task[t].node.rn
      BY <2>2 DEF RegistryInv, PendingAEs
    <3>2. PICK n : n = task[t].node
      OBVIOUS
    <3>3. \A m : m \in AEs' <=> m \in AEs \/ (m = n /\ n.ty = "AE")
      BY <2>2, <3>2 DEF AEs
    <3>4. AEsRegistered'
      BY <3>1, <3>2, <3>3 DEF RegistryInv, AEsRegistered, Registered
    <3>5. AENamesDistinct'
      BY <3>1, <3>2, <3>3 DEF RegistryInv, AENamesDistinct
    <3> QED  BY <3>4, <3>5
  <2>3. CASE Stored(resources', typeRows') \in {{}, {CSEBaseNode}}
    BY <2>3 DEF AEsRegistered, AENamesDistinct, AEs, CSEBaseNode
  <2> QED  BY <1>1, <2>1, <2>2, <2>3, StoredChange
<1> QED  BY <1>1, <1>2, <1>3 DEF RegistryInv

(* Initially no AE is registered.                                          *)
LEMMA RegistryInvInit == Init => RegistryInv
<1> SUFFICES ASSUME Init PROVE RegistryInv
  OBVIOUS
<1>1. \A t \in Task : ~ Pending(t)
  BY DEF Init, Idle, Pending
<1>2. AEs = {}
  BY DEF Init, AEs, Stored
<1> QED  BY <1>1, <1>2, CheckedInvInit
         DEF RegistryInv, AEsRegistered, AENamesDistinct, PendingAEs

(* No two AEs get the same name or the same AE-ID, whichever way the       *)
(* requests for them interleave and power fails, as long as the queries    *)
(* for the name and the AE-ID do not fail: the code takes a failing query  *)
(* for the answer that they are free (Reliable keeps "aei" out).           *)
THEOREM AEsAreDistinct ==
    ASSUME NoIdClash, Reliable, "name" \notin Faults, DefaultNamesApart
    PROVE  Spec => []AEsDistinct
<1>1. RegistryInv => AEsDistinct
  <2> SUFFICES ASSUME RegistryInv, NEW m \in AEs, NEW n \in AEs, m # n
               PROVE  m.rn # n.rn /\ m.attr.aei # n.attr.aei
    BY DEF AEsDistinct, AEs
  <2>1. m.rn # n.rn
    BY DEF RegistryInv, AENamesDistinct
  <2>2. m.ri # n.ri
    BY StoredOnce DEF AEs, RegistryInv, CheckedInv
  <2>3. m.attr.aei = m.ri /\ n.attr.aei = n.ri
    BY DEF RegistryInv, AEsRegistered, Registered
  <2> QED  BY <2>1, <2>2, <2>3
<1>2. RegistryInv /\ [Next]_vars => RegistryInv'
  BY RegistryInvStep
<1> QED  BY <1>1, <1>2, RegistryInvInit, PTL DEF Spec

-----------------------------------------------------------------------------
(* Containers stay within their limits.                                    *)

InstanceRows(rs, i) == {r \in rs : r.pi = i /\ r.ty = "ContentInstance"}

Sized(rs, ts, i) ==
    {r \in rs : /\ r.pi = i /\ r.ty = "ContentInstance"
                /\ HasTypeRow(ts, r)}

(* GetContainerCurrentSize is a sum over the instances that have both rows. *)
LEMMA SizeIsSum ==
    ASSUME NEW rs, NEW ts, NEW i
    PROVE  GetContainerCurrentSize(rs, ts, i) = SumOfSizes(ts, Sized(rs, ts, i))
  BY Zenon DEF GetContainerCurrentSize, SumOfSizes, Sized

RowsHaveId == \A r \in resources : r.ri # Null /\ r.ri \in Ids \cup {CseRi}

(* An instance that was checked still fits when its rows are saved.        *)
Fits(c, n, saved) ==
    /\ (c.attr.mni # 0 /\ ~ saved) => Cardinality(InstanceRows(resources, c.ri)) + 1 <= c.attr.mni
    /\ c.attr.mbs # 0 => GetContainerCurrentSize(resources, typeRows, c.ri) + n.attr.cs
                           <= c.attr.mbs

PendingFits ==
    \A t \in Task : (Pending(t) /\ task[t].node.ty = "ContentInstance") =>
        \A c \in Stored(resources, typeRows) :
            (c.ty = "Container" /\ c.ri = task[t].node.pi) =>
                Fits(c, task[t].node, task[t].pc = "detail")

WithinLimits(c) ==
    /\ c.attr.mni # 0 => Cardinality(InstanceRows(resources, c.ri)) <= c.attr.mni
    /\ c.attr.mbs # 0 => GetContainerCurrentSize(resources, typeRows, c.ri) <= c.attr.mbs

AllWithinLimits ==
    \A c \in Stored(resources, typeRows) : c.ty = "Container" => WithinLimits(c)

RowInv == LookupInv /\ CheckedInv /\ RowPaths /\ RowsHaveId

LimitsInv == RowInv /\ AllWithinLimits /\ PendingFits

(* What an instance adds to the size.                                      *)
LEMMA InstanceSize ==
    ASSUME NEW ts \in SUBSET TypeRow, NEW r, r.ty = "ContentInstance", HasTypeRow(ts, r)
    PROVE  SizeOf(ts, r) \in Nat
<1> DEFINE d == CHOOSE d \in ts : d.ri = r.ri /\ d.ty = r.ty
<1>1. d \in ts /\ d.ty = "ContentInstance"
  BY DEF HasTypeRow
<1>2. SizeOf(ts, r) = d.attr.cs
  BY DEF SizeOf, NodeOf
<1> HIDE DEF d
<1>3. d.attr \in Attr["ContentInstance"]
  BY <1>1 DEF TypeRow, TypeRowOf
<1> QED  BY <1>2, <1>3 DEF Attr

(* The size of a container is a number.                                    *)
LEMMA ContainerSize ==
    ASSUME NEW rs, IsFiniteSet(rs), NEW ts \in SUBSET TypeRow, NEW i
    PROVE  GetContainerCurrentSize(rs, ts, i) \in Nat
<1>1. IsFiniteSet(Sized(rs, ts, i))
  BY FS_Subset DEF Sized
<1>2. \A r \in Sized(rs, ts, i) : SizeOf(ts, r) \in Nat
  BY InstanceSize DEF Sized
<1> QED  BY <1>1, <1>2, SumIsNat, SizeIsSum

(* The parent of an accepted content instance is a container with room.    *)
LEMMA AcceptedInstance ==
    ASSUME NEW q \in CreateRequests, q.ty = "ContentInstance", NEW failed,
           ~ Refused(ChecksBeforeId(q, failed)), NEW p \in Parent(q)
    PROVE  p.ty = "Container" /\ ~ OverByteSize(q, p) /\ ~ OverInstances(p, failed)
<1> DEFINE
  a == [when |-> ~ ready \/ GetCSEBase = {} \/ "base" \in failed,
        code |-> "INTERNAL_SERVER_ERROR"]
  b == [when |-> WrongSpId(q), code |-> "NOT_FOUND"]
  c == [when |-> (q.from = NoFrom /\ q.ty # "AE") \/ q.flaw = "request",
        code |-> "BAD_REQUEST"]
  d == [when |-> Parent(q) = {} \/ "parent" \in failed, code |-> "NOT_FOUND"]
  e == [when |-> \E r \in Parent(q) : r.ty \notin ParentTypes(q.ty),
        code |-> "INVALID_CHILD_RESOURCE_TYPE"]
  f == [when |-> q.flaw = "content", code |-> "BAD_REQUEST"]
  g == [when |-> /\ "size" \in failed
                 /\ \E r \in {x \in Parent(q) : x.ty = "Container"} : r.attr.mbs # 0,
        code |-> "INTERNAL_SERVER_ERROR"]
  h == [when |-> \E r \in {x \in Parent(q) : x.ty = "Container"} : OverByteSize(q, r),
        code |-> "NOT_ACCEPTABLE"]
  i == [when |-> \E r \in {x \in Parent(q) : x.ty = "Container"} : OverInstances(r, failed),
        code |-> "NOT_ACCEPTABLE"]
<1>1. ChecksBeforeId(q, failed) = <<a, b, c, d, e>> \o <<f, g, h, i>>
  BY DEF ChecksBeforeId, TargetChecks
<1>2. e.when = (\E r \in Parent(q) : r.ty \notin ParentTypes(q.ty))
  BY Zenon
<1>3. h.when = (\E r \in {x \in Parent(q) : x.ty = "Container"} : OverByteSize(q, r))
  BY Zenon
<1>4. i.when = (\E r \in {x \in Parent(q) : x.ty = "Container"} : OverInstances(r, failed))
  BY Zenon
<1> HIDE DEF a, b, c, d, e, f, g, h, i
<1>5. /\ DOMAIN ChecksBeforeId(q, failed) = 1 .. 9
      /\ ChecksBeforeId(q, failed)[5] = e
      /\ ChecksBeforeId(q, failed)[8] = h /\ ChecksBeforeId(q, failed)[9] = i
  <2> DEFINE T == {a, b, c, d, e, f, g, h, i}
  <2>1. /\ a \in T /\ b \in T /\ c \in T /\ d \in T /\ e \in T
        /\ f \in T /\ g \in T /\ h \in T /\ i \in T
    OBVIOUS
  <2> HIDE DEF T
  <2> QED  BY <1>1, <2>1, NineChecks
<1>6. ~ e.when /\ ~ h.when /\ ~ i.when
  <2>1. 5 \in 1 .. 9 /\ 8 \in 1 .. 9 /\ 9 \in 1 .. 9
    OBVIOUS
  <2> QED  BY <1>5, <2>1 DEF Refused
<1>7. p.ty = "Container"
  BY <1>2, <1>6 DEF ParentTypes
<1> QED  BY <1>3, <1>4, <1>6, <1>7

(* What the checks of an instance make sure of: it still fits.             *)
LEMMA NewInstance ==
    ASSUME NoNameClash, Reliable, "count" \notin Faults, LimitsInv, NEW t \in Task,
           NEW q \in CreateRequests, AcceptCreate(t, q), task'[t].node.ty = "ContentInstance",
           NEW c \in Stored(resources, typeRows), c.ri = task'[t].node.pi
    PROVE  Fits(c, task'[t].node, FALSE)
<1>1. TreeInv /\ TypeInv /\ RowsNamed
  BY DEF LimitsInv, RowInv, LookupInv, CheckedInv, TreeInv
<1>2. PICK failed \in Failing, p \in Parent(q), id \in {ResourceId[nextId], Null} :
        ~ Refused(ChecksBeforeId(q, failed)) /\ task'[t].node = NewNode(q, p, id)
  BY <1>1, AcceptedTask
<1>3. PICK n : n = NewNode(q, p, id)
  OBVIOUS
<1>4. q.ty = "ContentInstance" /\ n = task'[t].node /\ n.pi = p.ri /\ n.attr = q.attr
  BY <1>2, <1>3 DEF NewNode
<1>5. "count" \notin failed
  BY DEF Failing
<1>6. ~ OverByteSize(q, p) /\ ~ OverInstances(p, failed)
  BY <1>2, <1>4, AcceptedInstance
<1>7. p \in Stored(resources, typeRows)
  BY DEF Parent, Load, LoadPrimitiveContentByTarget, FirstMatch, Stored
<1>8. c = p
  BY <1>1, <1>4, <1>7, StoredOnce
<1>9. FirstMatch(resources, <<p.ri>>) = {RowOf(resources, p.ri)}
  BY <1>1, <1>7, FoundByRow
<1>10. p.ri # Null /\ RowOf(resources, p.ri).ri = p.ri
  BY <1>1, <1>7, RowOfStored DEF TreeInv, TypeInv, TypeOK
<1>11. LoadPrimitiveContentChildren(resources, <<p.ri>>, "ContentInstance")
         = InstanceRows(resources, p.ri)
  BY <1>9, <1>10
  DEF LoadPrimitiveContentChildren, ChildRows, InstanceRows, LimitsInv, RowInv, RowsHaveId
<1>12. c.ty = "Container" /\ c.attr.mni \in Nat /\ c.attr.mbs \in Nat /\ q.attr.cs \in Nat
  <2>1. p \in Node
    BY <1>1, LoadType DEF Parent, Load, TypeInv, TypeOK
  <2>2. p.ty = "Container"
    BY <1>2, <1>4, AcceptedInstance
  <2>3. p.attr \in Attr["Container"]
    BY <2>1, <2>2 DEF Node, NodeOfType
  <2>4. q.attr \in Attr["ContentInstance"]
    BY <1>4, RequestAssumption DEF CreateRequest, CreateRequestOf
  <2> QED  BY <1>8, <2>2, <2>3, <2>4 DEF Attr
<1>13. c.attr.mni # 0 => Cardinality(InstanceRows(resources, c.ri)) + 1 <= c.attr.mni
  <2>1. IsFiniteSet(InstanceRows(resources, c.ri))
    BY <1>1, FS_Subset DEF InstanceRows, TypeInv
  <2>2. Cardinality(InstanceRows(resources, c.ri)) \in Nat
    BY <2>1, FS_CardinalityType
  <2> QED  BY <1>5, <1>6, <1>8, <1>11, <1>12, <2>2 DEF OverInstances, Instances
<1>14. PICK size : size = GetContainerCurrentSize(resources, typeRows, c.ri)
  OBVIOUS
<1>15. size \in Nat
  BY <1>1, <1>14, ContainerSize DEF TypeInv, TypeOK
<1>16. c.attr.mbs # 0 => size + n.attr.cs <= c.attr.mbs
  BY <1>4, <1>6, <1>8, <1>12, <1>14, <1>15 DEF OverByteSize
<1> QED  BY <1>4, <1>13, <1>14, <1>16 DEF Fits

(* The first row of a save adds at most one instance to its parent.        *)
LEMMA FirstRowInstances ==
    ASSUME NoIdClash, Reliable, LimitsInv, NEW t \in Task, InsertRow(t), NEW i
    PROVE  LET now == Cardinality(InstanceRows(resources, i))
               then == Cardinality(InstanceRows(resources', i))
           IN  /\ now \in Nat /\ then \in Nat /\ then <= now + 1
               /\ (task[t].node.ty # "ContentInstance" \/ task[t].node.pi # i) => then <= now
<1> DEFINE n == task[t].node
<1>1. PICK new :
        /\ \A r : r \in resources' <=>
                   (r \in resources /\ (n.ri = Null \/ r.ri # n.ri)) \/ r = new
        /\ new.ty = n.ty /\ new.pi = n.pi
  <2>1. PICK path : resources' = InsertResources(resources, n, path)
    BY DEF InsertRow
  <2> DEFINE row == [rowid |-> NextRowid(resources), ri |-> n.ri, rn |-> n.rn,
                     ty |-> n.ty, pi |-> n.pi, path |-> path]
  <2>2. resources' = {r \in resources : n.ri = Null \/ r.ri # n.ri} \cup {row}
    BY <2>1 DEF InsertResources
  <2>3. row.ty = n.ty /\ row.pi = n.pi
    OBVIOUS
  <2> HIDE DEF row, n
  <2> QED  BY <2>2, <2>3
<1>2. IsFiniteSet(InstanceRows(resources, i))
  BY FS_Subset DEF InstanceRows, LimitsInv, RowInv, CheckedInv, TreeInv, TypeInv
<1>3. PICK all : all = InstanceRows(resources, i) \cup {new}
  OBVIOUS
<1>4. /\ IsFiniteSet(all) /\ Cardinality(InstanceRows(resources, i)) \in Nat
      /\ Cardinality(all) <= Cardinality(InstanceRows(resources, i)) + 1
  <2>1. PICK rows : rows = InstanceRows(resources, i)
    OBVIOUS
  <2>2. /\ IsFiniteSet(all)
        /\ Cardinality(all) = Cardinality(rows) \/ Cardinality(all) = Cardinality(rows) + 1
    BY <1>2, <1>3, <2>1, FS_AddElement
  <2>3. Cardinality(rows) \in Nat
    BY <1>2, <2>1, FS_CardinalityType
  <2> QED  BY <2>1, <2>2, <2>3
<1>5. InstanceRows(resources', i) \subseteq all
  BY <1>1, <1>3 DEF InstanceRows
<1>6. /\ Cardinality(InstanceRows(resources', i)) \in Nat /\ Cardinality(all) \in Nat
      /\ Cardinality(InstanceRows(resources', i)) <= Cardinality(all)
  BY <1>4, <1>5, FS_Subset, FS_CardinalityType
<1>7. ASSUME n.ty # "ContentInstance" \/ n.pi # i
      PROVE  Cardinality(InstanceRows(resources', i)) <= Cardinality(InstanceRows(resources, i))
  <2>1. InstanceRows(resources', i) \subseteq InstanceRows(resources, i)
    BY <1>1, <1>7 DEF InstanceRows
  <2> QED  BY <1>2, <2>1, FS_Subset
<1> QED  BY <1>4, <1>6, <1>7

(* The first row of a save has no size yet.                                *)
LEMMA FirstRowSizes ==
    ASSUME LimitsInv, NEW t \in Task, InsertRow(t), NEW i
    PROVE  GetContainerCurrentSize(resources', typeRows', i)
             = GetContainerCurrentSize(resources, typeRows, i)
<1> DEFINE n == task[t].node
<1>1. PICK new :
        /\ \A r : r \in resources' <=>
                   (r \in resources /\ (n.ri = Null \/ r.ri # n.ri)) \/ r = new
        /\ new.ri = n.ri
  <2>1. PICK path : resources' = InsertResources(resources, n, path)
    BY DEF InsertRow
  <2> DEFINE row == [rowid |-> NextRowid(resources), ri |-> n.ri, rn |-> n.rn,
                     ty |-> n.ty, pi |-> n.pi, path |-> path]
  <2>2. resources' = {r \in resources : n.ri = Null \/ r.ri # n.ri} \cup {row}
    BY <2>1 DEF InsertResources
  <2>3. row.ri = n.ri
    OBVIOUS
  <2> HIDE DEF row, n
  <2> QED  BY <2>2, <2>3
<1>2. Unused(typeRows, n.ri) /\ UNCHANGED typeRows
  BY DEF InsertRow, Runs, Pending, LimitsInv, RowInv, CheckedInv, TreeInv, PendingFresh
<1> HIDE DEF n
<1>3. \A r : HasTypeRow(typeRows, r) => (r \in resources' <=> r \in resources)
  BY <1>1, <1>2 DEF HasTypeRow, Unused
<1>4. Sized(resources', typeRows', i) = Sized(resources, typeRows, i)
  BY <1>2, <1>3 DEF Sized
<1> QED  BY <1>2, <1>4, SizeIsSum

(* The second row of an instance adds its size to that of its parent.      *)
LEMMA SecondRowSizes ==
    ASSUME LimitsInv, NEW t \in Task, InsertDetail(t), NEW i
    PROVE  LET now == GetContainerCurrentSize(resources, typeRows, i)
               then == GetContainerCurrentSize(resources', typeRows', i)
               n == task[t].node
           IN  /\ (n.ty = "ContentInstance" /\ n.pi = i) => then = now + n.attr.cs
               /\ (n.ty # "ContentInstance" \/ n.pi # i) => then = now
<1>1. TreeInv /\ TypeInv /\ IsFiniteSet(resources) /\ TypeKeys(typeRows) /\ RowKeys(resources)
  BY DEF LimitsInv, RowInv, CheckedInv, TreeInv, TypeInv
<1>2. PICK n : n = task[t].node
  OBVIOUS
<1>3. Pending(t) /\ task[t].pc = "detail" /\ resources' = resources
      /\ typeRows' = InsertTypeRow(typeRows, n)
  BY <1>2 DEF InsertDetail, Runs, Pending
<1>4. /\ n \in Node /\ n.ri # Null /\ Unused(typeRows, n.ri)
      /\ \E r \in resources : IsRowOf(r, n)
  BY <1>1, <1>2, <1>3
  DEF TreeInv, TypeInv, BusyHasNode, PendingFresh, Pending,
      LimitsInv, RowInv, LookupInv, DeliveryInv, BusyHasId
<1>5. PICK row \in resources : IsRowOf(row, n)
  BY <1>4
<1>6. PICK more : more = InsertTypeRow(typeRows, n)
  OBVIOUS
<1>7. PICK new : new.ri = n.ri /\ new.ty = n.ty /\ new.attr = n.attr
                 /\ more = typeRows \cup {new}
  <2> DEFINE d == [ri |-> n.ri, ty |-> n.ty, attr |-> n.attr]
  <2>1. more = typeRows \cup {d}
    BY <1>4, <1>6 DEF InsertTypeRow, Unused
  <2>2. d.ri = n.ri /\ d.ty = n.ty /\ d.attr = n.attr
    OBVIOUS
  <2> HIDE DEF d
  <2> QED  BY <2>1, <2>2
<1>8. TypeKeys(more) /\ more \in SUBSET TypeRow
  BY <1>1, <1>4, <1>5, <1>6, SecondRowSaved, InsertTypeRowType DEF TypeInv, TypeOK
<1>9. \A r \in resources : HasTypeRow(typeRows, r) =>
         HasTypeRow(more, r) /\ SizeOf(more, r) = SizeOf(typeRows, r)
  <2> SUFFICES ASSUME NEW r \in resources, HasTypeRow(typeRows, r)
               PROVE  HasTypeRow(more, r) /\ SizeOf(more, r) = SizeOf(typeRows, r)
    OBVIOUS
  <2>1. HasTypeRow(more, r)
    BY <1>7 DEF HasTypeRow
  <2>2. PICK d : d = CHOOSE f \in typeRows : f.ri = r.ri /\ f.ty = r.ty
    OBVIOUS
  <2>3. PICK e : e = CHOOSE f \in more : f.ri = r.ri /\ f.ty = r.ty
    OBVIOUS
  <2>4. d \in typeRows /\ d.ri = r.ri /\ d.ty = r.ty /\ r.ri # Null
    BY <2>2 DEF HasTypeRow
  <2>5. e \in more /\ e.ri = r.ri /\ e.ty = r.ty
    BY <2>1, <2>3 DEF HasTypeRow
  <2>6. d = e
    BY <1>7, <1>8, <2>4, <2>5 DEF TypeKeys
  <2> QED  BY <2>1, <2>2, <2>3, <2>6 DEF SizeOf, NodeOf
<1>10. \A r \in resources : HasTypeRow(more, r) => HasTypeRow(typeRows, r) \/ r = row
  BY <1>1, <1>5, <1>7 DEF HasTypeRow, RowKeys, IsRowOf
<1>11. HasTypeRow(more, row) /\ ~ HasTypeRow(typeRows, row)
  BY <1>4, <1>5, <1>7 DEF HasTypeRow, Unused, IsRowOf
<1>12. PICK rows : rows = Sized(resources, typeRows, i)
  OBVIOUS
<1>13. /\ IsFiniteSet(rows) /\ row \notin rows
       /\ \A r \in rows : SizeOf(more, r) = SizeOf(typeRows, r)
  BY <1>1, <1>9, <1>11, <1>12, FS_Subset DEF Sized
<1>14. ASSUME n.ty = "ContentInstance", n.pi = i
       PROVE  SumOfSizes(more, Sized(resources, more, i))
                = SumOfSizes(typeRows, rows) + n.attr.cs
  <2>1. Sized(resources, more, i) = rows \cup {row}
    BY <1>5, <1>9, <1>10, <1>11, <1>12, <1>14 DEF Sized, IsRowOf
  <2>2. \A r \in rows \cup {row} : SizeOf(more, r) \in Nat
    BY <1>8, <2>1, InstanceSize DEF Sized
  <2>3. SizeOf(more, row) = n.attr.cs
    <3>1. PICK e : e = CHOOSE f \in more : f.ri = row.ri /\ f.ty = row.ty
      OBVIOUS
    <3>2. e \in more /\ e.ri = row.ri /\ e.ty = row.ty
      BY <1>11, <3>1 DEF HasTypeRow
    <3>3. e = new
      BY <1>4, <1>5, <1>7, <1>8, <3>2 DEF TypeKeys, IsRowOf
    <3> QED  BY <1>7, <3>1, <3>3 DEF SizeOf, NodeOf
  <2> QED  BY <1>13, <2>1, <2>2, <2>3, SumOfMore
<1>15. ASSUME n.ty # "ContentInstance" \/ n.pi # i
       PROVE  SumOfSizes(more, Sized(resources, more, i)) = SumOfSizes(typeRows, rows)
  <2>1. Sized(resources, more, i) = rows
    BY <1>5, <1>9, <1>10, <1>12, <1>15 DEF Sized, IsRowOf
  <2> QED  BY <1>13, <2>1, SumOfSame
<1> QED  BY <1>2, <1>3, <1>6, <1>12, <1>14, <1>15, SizeIsSum

(* A new container has no instances yet.                                   *)
LEMMA NoOrphans ==
    ASSUME RowPaths, NEW i, i # Null, Unused(typeRows, i)
    PROVE  InstanceRows(resources, i) = {}
  BY DEF RowPaths, UnderStored, HasTypeRow, Unused, InstanceRows

(* The limits of a container are numbers.                                  *)
LEMMA ContainerLimits ==
    ASSUME TypeInv, NEW c \in Stored(resources, typeRows), c.ty = "Container"
    PROVE  c.attr.mni \in Nat /\ c.attr.mbs \in Nat
<1>1. PICK r \in resources : HasTypeRow(typeRows, r) /\ c = NodeOf(typeRows, r)
  BY DEF Stored
<1> DEFINE d == CHOOSE d \in typeRows : d.ri = r.ri /\ d.ty = r.ty
<1>2. d \in typeRows /\ d.ty = r.ty
  BY <1>1 DEF HasTypeRow
<1>3. c.attr = d.attr /\ c.ty = r.ty
  BY <1>1 DEF NodeOf
<1> HIDE DEF d
<1>4. d.attr \in Attr["Container"]
  BY <1>2, <1>3 DEF TypeInv, TypeOK, TypeRow, TypeRowOf
<1> QED  BY <1>3, <1>4 DEF Attr

(* The first row of an instance uses up the place that was checked.        *)
LEMMA FirstRowWithin ==
    ASSUME NoIdClash, Reliable, LimitsInv, NEW t \in Task, InsertRow(t)
    PROVE  AllWithinLimits'
<1>1. /\ Stored(resources', typeRows') = Stored(resources, typeRows)
      /\ Pending(t) /\ task[t].pc = "insert"
  <2>1. Pending(t) /\ UNCHANGED typeRows /\ task[t].pc = "insert"
    BY DEF InsertRow, Runs, Pending
  <2>2. \E path : resources' = InsertResources(resources, task[t].node, path)
    BY DEF InsertRow
  <2>3. Unused(typeRows, task[t].node.ri) /\ TypeKeys(typeRows)
    BY <2>1 DEF LimitsInv, RowInv, CheckedInv, TreeInv, PendingFresh
  <2> QED  BY <2>1, <2>2, <2>3, FirstRowSaved
<1> SUFFICES ASSUME NEW c \in Stored(resources, typeRows), c.ty = "Container"
             PROVE  WithinLimits(c)'
  BY <1>1 DEF AllWithinLimits
<1>2. WithinLimits(c)
  BY DEF LimitsInv, AllWithinLimits
<1>3. (task[t].node.ty = "ContentInstance" /\ c.ri = task[t].node.pi)
        => Fits(c, task[t].node, FALSE)
  BY <1>1 DEF LimitsInv, PendingFits
<1>4. GetContainerCurrentSize(resources', typeRows', c.ri)
        = GetContainerCurrentSize(resources, typeRows, c.ri)
  BY FirstRowSizes
<1>5. PICK now, then : /\ now = Cardinality(InstanceRows(resources, c.ri))
                       /\ then = Cardinality(InstanceRows(resources', c.ri))
  OBVIOUS
<1>6. /\ now \in Nat /\ then \in Nat /\ then <= now + 1
      /\ (task[t].node.ty # "ContentInstance" \/ task[t].node.pi # c.ri) => then <= now
  BY <1>5, FirstRowInstances
<1>7. c.attr.mni \in Nat
  BY ContainerLimits DEF LimitsInv, RowInv, CheckedInv, TreeInv
<1>8. c.attr.mni # 0 => then <= c.attr.mni
  BY <1>2, <1>3, <1>5, <1>6, <1>7 DEF WithinLimits, Fits
<1> QED  BY <1>2, <1>4, <1>5, <1>8 DEF WithinLimits

(* The second row of an instance uses up the bytes that were checked.      *)
LEMMA SecondRowWithin ==
    ASSUME NoIdClash, Reliable, LimitsInv, [Next]_vars, NEW t \in Task, InsertDetail(t)
    PROVE  AllWithinLimits'
<1>1. PICK n : n = task[t].node
  OBVIOUS
<1>2. /\ Pending(t) /\ task[t].pc = "detail" /\ resources' = resources
      /\ typeRows' = InsertTypeRow(typeRows, n)
  BY <1>1 DEF InsertDetail, Runs, Pending
<1>3. /\ n \in Node /\ n.ri # Null /\ Unused(typeRows, n.ri)
      /\ \E r \in resources : IsRowOf(r, n)
  BY <1>1, <1>2
  DEF TreeInv, TypeInv, BusyHasNode, PendingFresh, Pending,
      LimitsInv, RowInv, CheckedInv, LookupInv, DeliveryInv, BusyHasId
<1>4. Stored(resources', typeRows') = Stored(resources, typeRows) \cup {n}
  BY <1>2, <1>3, SecondRowSaved DEF LimitsInv, RowInv, CheckedInv, TreeInv
<1>5. ASSUME NEW c \in Stored(resources, typeRows), c.ty = "Container"
      PROVE  WithinLimits(c)'
  <2>1. WithinLimits(c)
    BY <1>5 DEF LimitsInv, AllWithinLimits
  <2>2. (n.ty = "ContentInstance" /\ c.ri = n.pi) => Fits(c, n, TRUE)
    BY <1>1, <1>2, <1>5 DEF LimitsInv, PendingFits
  <2>3. /\ (n.ty = "ContentInstance" /\ n.pi = c.ri) =>
               GetContainerCurrentSize(resources', typeRows', c.ri)
                 = GetContainerCurrentSize(resources, typeRows, c.ri) + n.attr.cs
        /\ (n.ty # "ContentInstance" \/ n.pi # c.ri) =>
               GetContainerCurrentSize(resources', typeRows', c.ri)
                 = GetContainerCurrentSize(resources, typeRows, c.ri)
    BY <1>1, SecondRowSizes
  <2> QED  BY <1>2, <2>1, <2>2, <2>3 DEF WithinLimits, Fits
<1>6. ASSUME n.ty = "Container" PROVE WithinLimits(n)'
  <2>1. InstanceRows(resources, n.ri) = {}
    BY <1>3, NoOrphans DEF LimitsInv, RowInv
  <2>2. InstanceRows(resources', n.ri) = {} /\ Sized(resources', typeRows', n.ri) = {}
    BY <1>2, <2>1 DEF InstanceRows, Sized
  <2>3. /\ Cardinality(InstanceRows(resources', n.ri)) = 0
        /\ GetContainerCurrentSize(resources', typeRows', n.ri) = 0
    BY <2>2, SizeIsSum, SumOfNone, FS_EmptySet
  <2>4. n.attr.mni \in Nat /\ n.attr.mbs \in Nat
    BY <1>3, <1>6 DEF Node, NodeOfType, Attr
  <2> QED  BY <2>3, <2>4 DEF WithinLimits
<1> QED  BY <1>4, <1>5, <1>6 DEF AllWithinLimits

(* Nothing comes between the checks of an instance and its second row.     *)
LEMMA PendingFitsStep ==
    ASSUME NoIdClash, Reliable, "count" \notin Faults, NoNameClash, LimitsInv, [Next]_vars
    PROVE  PendingFits'
<1> SUFFICES ASSUME NEW t \in Task, Pending(t)', task'[t].node.ty = "ContentInstance",
                    NEW c \in Stored(resources', typeRows'),
                    c.ty = "Container", c.ri = task'[t].node.pi,
                    NEW n, n = task'[t].node, NEW saved, saved = (task'[t].pc = "detail")
             PROVE  Fits(c, n, saved)'
  BY DEF PendingFits, Fits
<1>1. TreeInv /\ TypeInv /\ CheckedInv
  BY DEF LimitsInv, RowInv, CheckedInv, TreeInv
<1>2. ASSUME NEW q \in CreateRequests, AcceptCreate(t, q)
      PROVE  Fits(c, n, saved)'
  <2>1. UNCHANGED <<resources, typeRows>> /\ c \in Stored(resources, typeRows)
    BY <1>1, <1>2, AcceptedTask
  <2>2. Fits(c, n, FALSE)
    BY <1>2, <2>1, NewInstance
  <2> QED  BY <2>1, <2>2 DEF Fits
<1>3. ASSUME InsertRow(t), Pending(t)
      PROVE  Fits(c, n, saved)'
  <2>1. task'[t].pc = "detail" /\ task'[t].node = task[t].node
    BY <1>1, <1>3, ResumeTask DEF InsertRow
  <2>2. c \in Stored(resources, typeRows)
    <3>1. UNCHANGED typeRows /\ Unused(typeRows, task[t].node.ri)
          /\ \E path : resources' = InsertResources(resources, task[t].node, path)
      BY <1>1, <1>3 DEF InsertRow, TreeInv, PendingFresh
    <3> QED  BY <1>1, <3>1, FirstRowSaved DEF TreeInv
  <2>3. \E b : Fits(c, n, b)
    BY <1>3, <2>1, <2>2 DEF LimitsInv, PendingFits
  <2>4. GetContainerCurrentSize(resources', typeRows', c.ri)
          = GetContainerCurrentSize(resources, typeRows, c.ri)
    BY <1>3, FirstRowSizes
  <2> QED  BY <2>1, <2>3, <2>4 DEF Fits
<1>4. ASSUME UNCHANGED vars
      PROVE  Fits(c, n, saved)'
  BY <1>4 DEF vars, db, ram, LimitsInv, PendingFits, Pending, Fits
<1> QED  BY <1>1, <1>2, <1>3, <1>4, UninterruptedTask

(* As long as IDs can be generated, every row has one.                     *)
LEMMA RowsHaveIdStep ==
    ASSUME NoIdClash, Reliable, RowInv, [Next]_vars
    PROVE  RowsHaveId'
<1>1. TreeInv
  BY DEF RowInv, CheckedInv
<1>2. ASSUME NEW t \in Task, InsertRow(t) PROVE RowsHaveId'
  <2>1. task[t].node.ri # Null
    BY <1>2 DEF InsertRow, Runs, RowInv, LookupInv, DeliveryInv, BusyHasId
  <2>2. GeneratedIds(nextId - 1) \subseteq GeneratedIds(MaxId)
    BY <1>1, MoreIds, GeneratedIdAssumption DEF TreeInv, TypeInv, TypeOK
  <2>3. KnownId(t, task[t].node)
    BY <1>1, <1>2 DEF TreeInv, PendingFresh, InsertRow, Runs, Pending
  <2>4. task[t].node.ri \in Ids
    BY <2>1, <2>2, <2>3 DEF KnownId, Ids
  <2> QED  BY <1>2, <2>1, <2>4 DEF InsertRow, InsertResources, RowInv, RowsHaveId
<1>3. ASSUME NEW clean \in CleanOnBoot, Boot(clean) PROVE RowsHaveId'
  <2>1. CseRi # Null
    BY IdentAssumption, NullAssumption
  <2> QED  BY <1>1, <1>3, <2>1, BootChange DEF RowInv, RowsHaveId
<1> QED  BY <1>1, <1>2, <1>3, StorageSteps DEF RowInv, RowsHaveId, InsertDetail

(* What all rules rest on is kept by each step.                            *)
LEMMA RowInvStep ==
    ASSUME NoIdClash, Reliable, "id" \notin Faults, RowInv, [Next]_vars
    PROVE  RowInv'
<1>1. TreeInv /\ PathInv
  BY DEF RowInv, CheckedInv, PathInv
<1> QED  BY <1>1, LookupInvStep, CheckedInvStep, PathInvStep, RowsHaveIdStep
         DEF RowInv, PathInv

(* What all rules rest on holds initially.                                 *)
LEMMA RowInvInit == Init => RowInv
<1> SUFFICES ASSUME Init PROVE RowInv
  OBVIOUS
<1>1. LookupInv /\ CheckedInv /\ RowPaths
  BY SavedInvInit, CheckedInvInit, PathInvInit DEF SavedInv, PathInv
<1> QED  BY <1>1 DEF Init, RowInv, RowsHaveId

(* Each step keeps the limits and what pending instances need of them.     *)
LEMMA LimitsInvStep ==
    ASSUME NoIdClash, Reliable, NoNameClash, Faults \cap {"id", "count"} = {}, LimitsInv,
           [Next]_vars
    PROVE  LimitsInv'
<1>1. TreeInv /\ PathInv
  BY DEF LimitsInv, RowInv, CheckedInv, PathInv
<1>2. RowInv' /\ PendingFits'
  BY RowInvStep, PendingFitsStep DEF LimitsInv
<1>3. UNCHANGED <<resources, typeRows>> => AllWithinLimits'
  BY DEF LimitsInv, AllWithinLimits, WithinLimits
<1>4. ASSUME NEW clean \in CleanOnBoot, Boot(clean) PROVE AllWithinLimits'
  <2>1. CASE Stored(resources', typeRows') \in {{}, {CSEBaseNode}}
    BY <2>1 DEF AllWithinLimits, CSEBaseNode
  <2> QED  BY <1>1, <1>3, <1>4, <2>1, BootChange
<1>5. AllWithinLimits'
  BY <1>1, <1>3, <1>4, StorageSteps, FirstRowWithin, SecondRowWithin
<1> QED  BY <1>2, <1>5 DEF LimitsInv

(* Initially there are no containers.                                      *)
LEMMA LimitsInvInit == Init => LimitsInv
<1> SUFFICES ASSUME Init PROVE LimitsInv
  OBVIOUS
<1>1. RowInv
  BY RowInvInit
<1>2. \A t \in Task : ~ Pending(t)
  BY DEF Init, Idle, Pending
<1>3. Stored(resources, typeRows) = {} /\ resources = {}
  BY DEF Init, Stored
<1> QED  BY <1>1, <1>2, <1>3 DEF LimitsInv, RowInv, RowsHaveId, AllWithinLimits, PendingFits

(* A container never holds more instances or bytes than its limits allow:  *)
(* no other task saves an instance between the check and the save, and the *)
(* three-way lookup of the check finds the container and not its namesake. *)
(* The instances must be counted, though: when they cannot be loaded the   *)
(* code counts none, and the create goes on ("count").                     *)
THEOREM LimitsAreRespected ==
    ASSUME NoIdClash, Reliable, NoNameClash, Faults \cap {"id", "count"} = {}
    PROVE  Spec => []LimitsRespected
<1>1. LimitsInv => LimitsRespected
  BY DEF LimitsInv, AllWithinLimits, WithinLimits, InstanceRows, LimitsRespected
<1>2. LimitsInv /\ [Next]_vars => LimitsInv'
  BY LimitsInvStep
<1> QED  BY <1>1, <1>2, LimitsInvInit, PTL DEF Spec

-----------------------------------------------------------------------------
(* Who may retrieve.                                                       *)

Governs(o, from) ==
    /\ o.ty \in {"AE", "CSEBase"}
    /\ from = IF o.ty = "AE" THEN o.attr.aei ELSE o.attr.csi

(* From a resource, parent by parent, to the AE or CSEBase that governs it. *)
Line(s) ==
    /\ s \in Seq(Stored(resources, typeRows)) /\ Len(s) > 0
    /\ s[Len(s)].ty \in {"AE", "CSEBase"}
    /\ \A j \in 1 .. Len(s) - 1 :
          s[j].ty \notin {"AE", "CSEBase"} /\ s[j + 1].ri = s[j].pi

OwnedBy(n, from) == \E s : Line(s) /\ s[1] = n /\ Governs(s[Len(s)], from)

(* What governs itself is owned by whom it lets in.                        *)
LEMMA LineStarts ==
    ASSUME NEW o \in Stored(resources, typeRows), NEW from, Governs(o, from)
    PROVE  OwnedBy(o, from)
<1> DEFINE s == <<o>>
<1>1. s \in Seq(Stored(resources, typeRows)) /\ Len(s) = 1 /\ s[1] = o
  OBVIOUS
<1> HIDE DEF s
<1>2. Line(s)
  BY <1>1 DEF Line, Governs
<1> QED  BY <1>1, <1>2 DEF OwnedBy

(* A child is owned by whoever owns its parent.                            *)
LEMMA LineGrows ==
    ASSUME NEW n \in Stored(resources, typeRows), NEW p, NEW from, OwnedBy(p, from),
           n.ty \notin {"AE", "CSEBase"}, p.ri = n.pi
    PROVE  OwnedBy(n, from)
<1> DEFINE T == Stored(resources, typeRows)
<1>1. PICK s : Line(s) /\ s[1] = p /\ Governs(s[Len(s)], from)
  BY DEF OwnedBy
<1>2. s \in Seq(T) /\ Len(s) > 0 /\ Len(s) \in Nat
  BY <1>1 DEF Line
<1>3. PICK r : r = <<n>> \o s
  OBVIOUS
<1> HIDE DEF T
<1>4. /\ r \in Seq(T) /\ Len(r) = Len(s) + 1 /\ r[1] = n
      /\ \A j \in 1 .. Len(s) : r[j + 1] = s[j]
  <2>1. <<n>> \in Seq(T) /\ Len(<<n>>) = 1 /\ <<n>>[1] = n
    BY DEF T
  <2>2. PICK one : one = <<n>>
    OBVIOUS
  <2>3. /\ one \o s \in Seq(T) /\ Len(one \o s) = Len(one) + Len(s)
        /\ \A i \in 1 .. Len(one) + Len(s) :
             (one \o s)[i] = IF i <= Len(one) THEN one[i] ELSE s[i - Len(one)]
    BY <1>2, <2>1, <2>2, ConcatProperties
  <2> QED  BY <1>2, <1>3, <2>1, <2>2, <2>3
<1>5. r[Len(r)] = s[Len(s)]
  BY <1>2, <1>4
<1>6. ASSUME NEW j \in 1 .. Len(r) - 1
      PROVE  r[j].ty \notin {"AE", "CSEBase"} /\ r[j + 1].ri = r[j].pi
  <2>1. CASE j = 1
    BY <1>1, <1>2, <1>4, <2>1
  <2>2. CASE j # 1
    <3>1. j - 1 \in 1 .. Len(s) - 1 /\ (j - 1) + 1 = j /\ j \in 1 .. Len(s)
      BY <1>2, <1>4, <2>2
    <3>2. r[j] = s[j - 1] /\ r[j + 1] = s[j]
      BY <1>4, <3>1
    <3>3. s[j - 1].ty \notin {"AE", "CSEBase"} /\ s[j].ri = s[j - 1].pi
      BY <1>1, <3>1 DEF Line
    <3> QED  BY <3>2, <3>3
  <2> QED  BY <2>1, <2>2
<1>7. Line(r)
  BY <1>1, <1>2, <1>4, <1>5, <1>6 DEF Line, T
<1> QED  BY <1>1, <1>4, <1>5, <1>7 DEF OwnedBy

(* Ownership stays as long as the resources do.                            *)
LEMMA LinesStay ==
    ASSUME Stored(resources, typeRows) \subseteq Stored(resources', typeRows'),
           NEW n, NEW from, OwnedBy(n, from)
    PROVE  OwnedBy(n, from)'
<1>1. PICK s : Line(s) /\ s[1] = n /\ Governs(s[Len(s)], from)
  BY DEF OwnedBy
<1>2. s \in Seq(Stored(resources', typeRows'))
  BY <1>1 DEF Line
<1>3. Line(s)'
  BY <1>1, <1>2 DEF Line
<1> QED  BY <1>1, <1>3 DEF OwnedBy

(* The row of a stored resource, and the path it spells.                   *)

(* Up from a stored resource, paths get shorter by one name.               *)
LEMMA StoredRow ==
    ASSUME PathInv, NEW n \in Stored(resources, typeRows)
    PROVE  LET r == RowOf(resources, n.ri) IN
           /\ r \in resources /\ r.pi = n.pi /\ r.ri = n.ri /\ n.ri # Null
           /\ HasRow(resources, n.ri)
           /\ Len(r.path) \in Nat /\ 0 < Len(r.path) /\ Len(r.path) <= Cardinality(resources)
           /\ n.pi # Null => \E p \in resources :
                 p.ri = n.pi /\ p = RowOf(resources, n.pi) /\ Len(p.path) = Len(r.path) - 1
<1>1. /\ resources \in SUBSET Row /\ IsFiniteSet(resources) /\ RowKeys(resources)
      /\ PathsSpelled(resources)
  BY RowPathsSpelled DEF PathInv, TreeInv, TypeInv, TypeOK
<1>2. PICK r : r = RowOf(resources, n.ri)
  OBVIOUS
<1>3. /\ n.ri # Null /\ r \in resources /\ r.ri = n.ri /\ NodeOf(typeRows, r) = n
  BY <1>1, <1>2, RowOfStored
<1>4. r.pi = n.pi
  BY <1>3 DEF NodeOf
<1>5. /\ Len(r.path) \in Nat /\ Len(r.path) > 0
      /\ r.pi # Null => \E p \in resources : p.ri = r.pi /\ Len(p.path) = Len(r.path) - 1
  BY <1>1, <1>3, PathOfParent
<1>6. Len(r.path) <= Cardinality(resources)
  BY <1>1, <1>3, MoreRows
<1>7. HasRow(resources, n.ri)
  BY <1>3 DEF HasRow
<1>8. n.pi # Null => \E p \in resources :
         p.ri = n.pi /\ p = RowOf(resources, n.pi) /\ Len(p.path) = Len(r.path) - 1
  BY <1>1, <1>4, <1>5, RowOfKey
<1> QED  BY <1>2, <1>3, <1>4, <1>5, <1>6, <1>7, <1>8

(* A line to the top has at most as many members as the path has names.    *)

(* A line is what Ancestor climbs.                                         *)
LEMMA LineClimbs ==
    ASSUME PathInv, NEW s, Line(s), NEW k \in 1 .. Len(s)
    PROVE  /\ Len(RowOf(resources, s[k].ri).path) + k = Len(RowOf(resources, s[1].ri).path) + 1
           /\ k - 1 \in 0 .. Cardinality(resources)
           /\ Ancestor(resources, s[1].ri)[k - 1] = s[k].ri
<1> DEFINE up == Ancestor(resources, s[1].ri)
           N == Cardinality(resources)
           len(m) == Len(RowOf(resources, s[m].ri).path)
           Up(m) == len(m) + m = len(1) + 1 /\ m - 1 \in 0 .. N /\ up[m - 1] = s[m].ri
           T == {m \in Nat : m + 1 <= Len(s) => Up(m + 1)}
<1>1. IsFiniteSet(resources)
  BY DEF PathInv, TreeInv, TypeInv
<1>2. /\ N \in Nat /\ up[0] = s[1].ri
      /\ \A j \in 0 .. N - 1 :
            up[j + 1] = IF HasRow(resources, up[j]) THEN RowOf(resources, up[j]).pi ELSE Null
  BY <1>1, AncestorSteps
<1>3. /\ Len(s) \in Nat /\ Len(s) > 0
      /\ \A m \in 1 .. Len(s) : s[m] \in Stored(resources, typeRows)
      /\ \A m \in 1 .. Len(s) - 1 : s[m + 1].ri = s[m].pi
  BY DEF Line
<1>4. \A m \in 1 .. Len(s) :
         /\ RowOf(resources, s[m].ri).pi = s[m].pi /\ HasRow(resources, s[m].ri)
         /\ s[m].ri # Null /\ len(m) \in Nat /\ 0 < len(m) /\ len(m) <= N
         /\ s[m].pi # Null => Len(RowOf(resources, s[m].pi).path) = len(m) - 1
  BY <1>3, StoredRow
<1> HIDE DEF up, N, len
<1>5. 0 \in T
  <2>1. 1 \in 1 .. Len(s) /\ len(1) \in Nat
    BY <1>3, <1>4
  <2>2. Up(1)
    BY <1>2, <2>1
  <2> QED  BY <2>2
<1>6. ASSUME NEW m \in T PROVE m + 1 \in T
  <2> SUFFICES ASSUME (m + 1) + 1 <= Len(s) PROVE Up((m + 1) + 1)
    OBVIOUS
  <2>0. PICK j : j = m + 1 /\ j \in 1 .. Len(s) - 1 /\ j \in 1 .. Len(s) /\ j + 1 \in 1 .. Len(s)
    BY <1>3
  <2>1. Up(j)
    BY <1>3, <2>0
  <2>2. s[j + 1].ri = s[j].pi /\ s[j + 1].ri # Null
    BY <1>3, <1>4, <2>0
  <2>3. len(j + 1) = len(j) - 1
    BY <1>4, <2>0, <2>2 DEF len
  <2>4. len(j) \in Nat /\ len(j + 1) \in Nat /\ len(1) \in Nat /\ 0 < len(j + 1) /\ len(1) <= N
    BY <1>3, <1>4, <2>0
  <2>5. len(j + 1) + (j + 1) = len(1) + 1 /\ j \in 0 .. N /\ j - 1 \in 0 .. N - 1
    <3>1. len(j) + j = len(1) + 1 /\ j \in Nat /\ j >= 1 /\ N \in Nat
      BY <1>2, <1>3, <2>0, <2>1
    <3>2. PICK a, b, c : a = len(j) /\ b = len(j + 1) /\ c = len(1)
      OBVIOUS
    <3>3. /\ a \in Nat /\ b \in Nat /\ c \in Nat /\ 0 < b /\ c <= N /\ b = a - 1
          /\ a + j = c + 1
      BY <2>3, <2>4, <3>1, <3>2
    <3>4. b + (j + 1) = c + 1 /\ j \in 0 .. N /\ j - 1 \in 0 .. N - 1
      BY ONLY <3>1, <3>3
    <3> QED  BY <3>2, <3>4
  <2>6. up[(j - 1) + 1] = s[j].pi
    BY <1>2, <1>4, <2>0, <2>1, <2>5
  <2>7. (j + 1) - 1 = j /\ (j - 1) + 1 = j
    BY <2>0
  <2>8. Up(j + 1)
    BY <2>2, <2>5, <2>6, <2>7
  <2> QED  BY <2>0, <2>8
<1>7. T = Nat
  <2>1. T \in SUBSET Nat
    OBVIOUS
  <2> HIDE DEF T
  <2> QED  BY <1>5, <1>6, <2>1, SetInduction
<1>8. k - 1 \in T /\ (k - 1) + 1 = k
  <2>1. k \in 1 .. Len(s) /\ Len(s) \in Nat
    BY <1>3
  <2>2. k - 1 \in Nat /\ (k - 1) + 1 = k
    BY ONLY <2>1
  <2> HIDE DEF T
  <2> QED  BY <1>7, <2>2
<1>9. Up(k)
  BY <1>3, <1>8
<1> QED  BY <1>9 DEF up, N, len

(* A line ends at the resource Owners finds.                               *)
LEMMA LineEnds ==
    ASSUME PathInv, NEW s, Line(s)
    PROVE  s[Len(s)] \in Owners(s[1].ri)
<1> DEFINE up == Ancestor(resources, s[1].ri)
           governs(k) == \E n \in Stored(resources, typeRows) :
                            n.ri = up[k] /\ n.ty \in {"AE", "CSEBase"}
           k == Len(s) - 1
<1>1. /\ Len(s) \in Nat /\ Len(s) > 0 /\ Len(s) \in 1 .. Len(s)
      /\ \A m \in 1 .. Len(s) : s[m] \in Stored(resources, typeRows)
      /\ \A m \in 1 .. Len(s) - 1 : s[m].ty \notin {"AE", "CSEBase"}
      /\ s[Len(s)].ty \in {"AE", "CSEBase"}
  BY DEF Line
<1>2. DOMAIN up = 0 .. Cardinality(resources)
  BY AncestorSteps DEF PathInv, TreeInv, TypeInv
<1>3. \A m \in 1 .. Len(s) : m - 1 \in 0 .. Cardinality(resources) /\ up[m - 1] = s[m].ri
  BY LineClimbs
<1> HIDE DEF up
<1>4. k \in DOMAIN up /\ s[Len(s)].ri = up[k] /\ governs(k)
  BY <1>1, <1>2, <1>3
<1>5. ASSUME NEW j \in 0 .. k - 1 PROVE ~ governs(j)
  <2>1. j + 1 \in 1 .. Len(s) - 1 /\ j + 1 \in 1 .. Len(s) /\ (j + 1) - 1 = j
    BY <1>1
  <2>2. up[j] = s[j + 1].ri /\ s[j + 1] \in Stored(resources, typeRows)
        /\ s[j + 1].ty \notin {"AE", "CSEBase"}
    BY <1>1, <1>3, <2>1
  <2> QED  BY <2>2, StoredOnce DEF PathInv
<1> HIDE DEF k, governs
<1> QED  BY <1>1, <1>4, <1>5 DEF Owners, up, governs

(* IsAllowedForContainer, as the function it climbs with.                  *)
Above(k, i) == IF k = 0 \/ i = Null THEN {} ELSE Load(<<i>>)

Allows(f, from, k, i) ==
    \E p \in Above(k, i) :
        \/ p.ty = "AE" /\ from = p.attr.aei
        \/ p.ty = "Container" /\ f[k - 1][p.pi]
        \/ p.ty = "CSEBase" /\ from = p.attr.csi

MayRetrieve(f, from) ==
    f = [k \in 0 .. 32 |-> [i \in Ident \cup {Null} |-> Allows(f, from, k, i)]]

(* IsAllowedForContainer, with its function named.                         *)
LEMMA AllowedByFunction ==
    ASSUME NEW from, NEW cnt
    PROVE  IsAllowedForContainer(from, cnt)
             <=> from = CAdmin \/ (CHOOSE f : MayRetrieve(f, from))[32][cnt.pi]
  BY Zenon DEF IsAllowedForContainer, MayRetrieve, Allows, Above

(* There is a function that climbs as IsAllowedForContainer does, because  *)
(* after each number of levels there is one that is right up to there.     *)
LEMMA MayExists ==
    ASSUME NEW from
    PROVE  \E f : MayRetrieve(f, from)
<1> DEFINE I == Ident \cup {Null}
           Level(f, k) == [i \in I |-> Allows(f, from, k, i)]
           T == {n \in Nat : \E f : /\ f = [k \in 0 .. 32 |-> f[k]]
                                   /\ \A k \in 0 .. 32 : k <= n => f[k] = Level(f, k)}
<1>0. \A f, k : k = 0 => Level(f, k) = [i \in I |-> FALSE]
  BY DEF Allows, Above
<1>1. 0 \in T
  <2> DEFINE f == [k \in 0 .. 32 |-> [i \in I |-> FALSE]]
  <2>1. f = [k \in 0 .. 32 |-> f[k]] /\ f[0] = [i \in I |-> FALSE]
    OBVIOUS
  <2> HIDE DEF f, Level
  <2>2. \A k \in 0 .. 32 : k <= 0 => f[k] = Level(f, k)
    <3> SUFFICES ASSUME NEW k \in 0 .. 32, k <= 0 PROVE f[k] = Level(f, k)
      OBVIOUS
    <3>1. k = 0
      OBVIOUS
    <3> QED  BY <1>0, <2>1, <3>1
  <2> QED  BY <2>1, <2>2
<1>2. ASSUME NEW n \in T PROVE n + 1 \in T
  <2>1. PICK f : /\ f = [k \in 0 .. 32 |-> f[k]]
                 /\ \A k \in 0 .. 32 : k <= n => f[k] = Level(f, k)
    OBVIOUS
  <2> DEFINE g == [k \in 0 .. 32 |-> IF k = n + 1 THEN Level(f, k) ELSE f[k]]
  <2>2. g = [k \in 0 .. 32 |-> g[k]]
    OBVIOUS
  <2>3. \A k \in 0 .. 32 : g[k] = IF k = n + 1 THEN Level(f, k) ELSE f[k]
    OBVIOUS
  <2> HIDE DEF g
  <2>4. ASSUME NEW k \in 0 .. 32, k <= n + 1 PROVE Level(g, k) = Level(f, k)
    <3>1. CASE k = 0
      <4> HIDE DEF Level
      <4> QED  BY <1>0, <3>1
    <3>2. CASE k # 0
      <4>1. k - 1 \in 0 .. 32 /\ k - 1 # n + 1
        BY <2>4, <3>2
      <4>2. g[k - 1] = f[k - 1]
        BY <2>3, <4>1
      <4> QED  BY <4>2 DEF Allows
    <3> QED  BY <3>1, <3>2
  <2> HIDE DEF Level
  <2>5. ASSUME NEW k \in 0 .. 32, k <= n + 1 PROVE g[k] = Level(g, k)
    <3>1. CASE k = n + 1
      BY <2>3, <2>4, <2>5, <3>1
    <3>2. CASE k # n + 1
      <4>1. k <= n
        BY <2>5, <3>2
      <4> QED  BY <2>1, <2>3, <2>4, <2>5, <3>2, <4>1
    <3> QED  BY <3>1, <3>2
  <2> QED  BY <2>2, <2>5
<1>3. T = Nat
  <2>1. T \in SUBSET Nat
    OBVIOUS
  <2> HIDE DEF T
  <2> QED  BY <1>1, <1>2, <2>1, SetInduction
<1>4. 32 \in T
  <2> HIDE DEF T
  <2> QED  BY <1>3
<1>5. PICK f : /\ f = [k \in 0 .. 32 |-> f[k]]
               /\ \A k \in 0 .. 32 : k <= 32 => f[k] = Level(f, k)
  BY <1>4
<1>6. f = [k \in 0 .. 32 |-> Level(f, k)]
  <2> HIDE DEF Level
  <2>1. \A k \in 0 .. 32 : f[k] = Level(f, k)
    BY <1>5
  <2> QED  BY <1>5, <2>1
<1> QED  BY <1>6 DEF MayRetrieve

(* What that function is, level by level.                                  *)
LEMMA MayByFunction ==
    ASSUME NEW f, NEW from, MayRetrieve(f, from), NEW k \in 0 .. 32,
           NEW i \in Ident \cup {Null}
    PROVE  f[k][i] = Allows(f, from, k, i)
  BY DEF MayRetrieve

(* The lookup of a parent's ID finds the parent.                           *)
LEMMA ParentFound ==
    ASSUME NoNameClash, PathInv, RowsNamed, NEW n \in Stored(resources, typeRows),
           n.pi # Null, NEW p \in Load(<<n.pi>>)
    PROVE  p \in Stored(resources, typeRows) /\ p.ri = n.pi
<1>1. PICK r \in resources : HasTypeRow(typeRows, r) /\ n = NodeOf(typeRows, r)
  BY DEF Stored
<1>2. r.pi = n.pi
  BY <1>1 DEF NodeOf
<1>3. PICK above \in resources : HasTypeRow(typeRows, above) /\ above.ri = n.pi
  BY <1>2 DEF PathInv, RowPaths, UnderStored
<1>4. PICK m : m = NodeOf(typeRows, above)
  OBVIOUS
<1>5. m \in Stored(resources, typeRows) /\ m.ri = n.pi
  BY <1>3, <1>4 DEF Stored, NodeOf
<1>6. Load(<<m.ri>>) = {m}
  BY <1>5, FoundById DEF PathInv
<1> QED  BY <1>5, <1>6

(* Who may retrieve a container governs it.                                *)
LEMMA MayIsOwned ==
    ASSUME NoNameClash, PathInv, RowsNamed, NEW f, NEW from, MayRetrieve(f, from)
    PROVE  \A k \in 0 .. 32 : \A n \in Stored(resources, typeRows) :
              (n.ty \notin {"AE", "CSEBase"} /\ f[k][n.pi]) => OwnedBy(n, from)
<1> DEFINE Claim(k) == \A n \in Stored(resources, typeRows) :
                          (n.ty \notin {"AE", "CSEBase"} /\ f[k][n.pi]) => OwnedBy(n, from)
           T == {k \in Nat : k <= 32 => Claim(k)}
<1>0. \A n \in Stored(resources, typeRows) : n.pi \in Ident \cup {Null}
  BY DEF Stored, NodeOf, PathInv, TreeInv, TypeInv, TypeOK, Row
<1>1. 0 \in T
  <2> SUFFICES ASSUME NEW n \in Stored(resources, typeRows), f[0][n.pi] PROVE FALSE
    OBVIOUS
  <2>1. f[0][n.pi] = Allows(f, from, 0, n.pi)
    <3>1. 0 \in 0 .. 32
      OBVIOUS
    <3> QED  BY <3>1, <1>0, MayByFunction
  <2> QED  BY <2>1 DEF Allows, Above
<1>2. ASSUME NEW k \in T PROVE k + 1 \in T
  <2> SUFFICES ASSUME k + 1 <= 32, NEW n \in Stored(resources, typeRows),
                      n.ty \notin {"AE", "CSEBase"}, f[k + 1][n.pi]
               PROVE  OwnedBy(n, from)
    OBVIOUS
  <2>0. k + 1 \in 0 .. 32 /\ k \in 0 .. 32 /\ (k + 1) - 1 = k
    OBVIOUS
  <2>1. f[k + 1][n.pi] = Allows(f, from, k + 1, n.pi)
    BY <1>0, <2>0, MayByFunction
  <2>2. PICK p \in Above(k + 1, n.pi) : \/ p.ty = "AE" /\ from = p.attr.aei
                                        \/ p.ty = "Container" /\ f[k][p.pi]
                                        \/ p.ty = "CSEBase" /\ from = p.attr.csi
    BY <2>0, <2>1 DEF Allows
  <2>3. n.pi # Null /\ p \in Load(<<n.pi>>)
    BY <2>2 DEF Above
  <2>4. p \in Stored(resources, typeRows) /\ p.ri = n.pi
    BY <2>3, ParentFound
  <2>5. CASE p.ty = "Container" /\ f[k][p.pi]
    <3>1. OwnedBy(p, from)
      BY <2>0, <2>4, <2>5
    <3> QED  BY <2>4, <3>1, LineGrows
  <2>6. CASE (p.ty = "AE" /\ from = p.attr.aei) \/ (p.ty = "CSEBase" /\ from = p.attr.csi)
    <3>1. OwnedBy(p, from)
      BY <2>4, <2>6, LineStarts DEF Governs
    <3> QED  BY <2>4, <3>1, LineGrows
  <2> QED  BY <2>2, <2>5, <2>6
<1>3. T = Nat
  <2>1. T \in SUBSET Nat
    OBVIOUS
  <2> HIDE DEF T
  <2> QED  BY <1>1, <1>2, <2>1, SetInduction
<1>4. ASSUME NEW k \in 0 .. 32 PROVE Claim(k)
  <2>1. k \in T /\ k <= 32
    <3> HIDE DEF T
    <3> QED  BY <1>3
  <2> QED  BY <2>1
<1> QED  BY <1>4

(* Whom IsAllowedForContainer lets in is the owner.                        *)
LEMMA AllowedIsOwned ==
    ASSUME NoNameClash, PathInv, RowsNamed, NEW from, from # CAdmin,
           NEW n \in Stored(resources, typeRows), n.ty = "Container",
           IsAllowedForContainer(from, n)
    PROVE  OwnedBy(n, from)
<1>1. PICK f : f = CHOOSE g : MayRetrieve(g, from)
  OBVIOUS
<1>2. MayRetrieve(f, from)
  BY <1>1, MayExists
<1>3. f[32][n.pi]
  BY <1>1, AllowedByFunction
<1>4. n.ty \notin {"AE", "CSEBase"} /\ 32 \in 0 .. 32
  OBVIOUS
<1> QED  BY <1>2, <1>3, <1>4, MayIsOwned

-----------------------------------------------------------------------------
(* Lists of checks.                                                        *)

(* A refusal has the code of a check that refuses.                         *)
LEMMA RefusalOfCheck ==
    ASSUME NEW T, NEW checks \in Seq(T), Refused(checks)
    PROVE  \E k \in DOMAIN checks :
              checks[k].when /\ RefusalCode(checks) = checks[k].code
<1> DEFINE U == {i \in DOMAIN checks : checks[i].when}
<1>1. U \in SUBSET Nat /\ U # {} /\ DOMAIN checks = 1 .. Len(checks) /\ Len(checks) \in Nat
  BY DEF Refused
<1>2. PICK i \in U : \A j \in U : i <= j
  <2> HIDE DEF U
  <2> QED  BY <1>1, LeastNumber
<1>3. i \in DOMAIN checks /\ checks[i].when
  OBVIOUS
<1>4. ASSUME NEW j \in 1 .. i - 1, checks[j].when PROVE FALSE
  <2>1. j \in DOMAIN checks /\ j < i
    BY <1>1, <1>3
  <2> QED  BY <1>1, <1>2, <1>4, <2>1
<1>5. PICK k : k = CHOOSE m \in DOMAIN checks :
                     checks[m].when /\ \A j \in 1 .. m - 1 : ~ checks[j].when
  OBVIOUS
<1>6. k \in DOMAIN checks /\ checks[k].when
  BY <1>3, <1>4, <1>5
<1>7. RefusalCode(checks) = checks[k].code
  BY <1>5 DEF RefusalCode
<1> QED  BY <1>6, <1>7

(* Checks in sequence refuse when one of them does.                        *)
LEMMA RefusedByEither ==
    ASSUME NEW T, NEW s \in Seq(T), NEW t \in Seq(T)
    PROVE  Refused(s \o t) <=> Refused(s) \/ Refused(t)
<1>1. /\ s \o t \in Seq(T) /\ Len(s \o t) = Len(s) + Len(t)
      /\ \A i \in 1 .. Len(s) + Len(t) :
           (s \o t)[i] = IF i <= Len(s) THEN s[i] ELSE t[i - Len(s)]
  BY ConcatProperties
<1>2. /\ DOMAIN s = 1 .. Len(s) /\ DOMAIN t = 1 .. Len(t)
      /\ DOMAIN (s \o t) = 1 .. Len(s) + Len(t) /\ Len(s) \in Nat /\ Len(t) \in Nat
  BY <1>1
<1>3. ASSUME NEW i \in 1 .. Len(s) + Len(t), (s \o t)[i].when
      PROVE  Refused(s) \/ Refused(t)
  <2>1. CASE i <= Len(s)
    BY <1>1, <1>2, <1>3, <2>1 DEF Refused
  <2>2. CASE ~ i <= Len(s)
    <3>1. i - Len(s) \in 1 .. Len(t)
      BY <1>2, <2>2
    <3> QED  BY <1>1, <1>2, <1>3, <2>2, <3>1 DEF Refused
  <2> QED  BY <2>1, <2>2
<1>4. ASSUME NEW i \in 1 .. Len(s), s[i].when PROVE Refused(s \o t)
  <2>1. i \in 1 .. Len(s) + Len(t) /\ (s \o t)[i] = s[i]
    BY <1>1, <1>2
  <2> QED  BY <1>2, <1>4, <2>1 DEF Refused
<1>5. ASSUME NEW i \in 1 .. Len(t), t[i].when PROVE Refused(s \o t)
  <2>1. i + Len(s) \in 1 .. Len(s) + Len(t) /\ ~ (i + Len(s) <= Len(s))
        /\ (i + Len(s)) - Len(s) = i
    BY <1>2
  <2>2. (s \o t)[i + Len(s)] = t[i]
    BY <1>1, <2>1
  <2> QED  BY <1>2, <1>5, <2>1, <2>2 DEF Refused
<1> QED  BY <1>2, <1>3, <1>4, <1>5 DEF Refused

(* The answers that say that something is there, and all others.           *)
Answers == {"OK", "CREATED", "CONFLICT"}

Errors(checks) == \E T : checks \in Seq(T) /\ \A c \in T : c.code \notin Answers

(* The same for checks whose codes are errors.                             *)
LEMMA ErrorsOfBoth ==
    ASSUME NEW s, NEW t, Errors(s), Errors(t)
    PROVE  /\ Errors(s \o t)
           /\ Refused(s \o t) <=> Refused(s) \/ Refused(t)
<1>1. PICK T : s \in Seq(T) /\ \A c \in T : c.code \notin Answers
  BY DEF Errors
<1>2. PICK U : t \in Seq(U) /\ \A c \in U : c.code \notin Answers
  BY DEF Errors
<1>3. s \in Seq(T \cup U) /\ t \in Seq(T \cup U) /\ \A c \in T \cup U : c.code \notin Answers
  BY <1>1, <1>2
<1>4. s \o t \in Seq(T \cup U)
  BY <1>3, ConcatProperties
<1>5. Refused(s \o t) <=> Refused(s) \/ Refused(t)
  BY <1>3, RefusedByEither
<1> QED  BY <1>3, <1>4, <1>5 DEF Errors

(* A refusal by such checks is none of them.                               *)
LEMMA RefusedIsError ==
    ASSUME NEW checks, Errors(checks), Refused(checks)
    PROVE  RefusalCode(checks) \notin Answers
<1>1. PICK T : checks \in Seq(T) /\ \A c \in T : c.code \notin Answers
  BY DEF Errors
<1>2. PICK k \in DOMAIN checks : RefusalCode(checks) = checks[k].code
  BY <1>1, RefusalOfCheck
<1> QED  BY <1>1, <1>2

(* What the checks of an instance let pass.                                *)
LEMMA CinPasses ==
    ASSUME NEW from, NEW cin, NEW target
    PROVE  /\ Errors(CinChecks(from, cin, target))
           /\ ~ Refused(CinChecks(from, cin, target)) =>
                cin.pi # Null /\ \E p \in Load(<<cin.pi>>) :
                    p.ty = "Container" /\ IsAllowedForContainer(from, p)
<1> DEFINE
  parents == IF cin.pi = Null THEN {} ELSE Load(<<cin.pi>>)
  a == [when |-> ~ MatchesResourceTarget(cin, target), code |-> "NOT_FOUND"]
  b == [when |-> parents = {}, code |-> "NOT_FOUND"]
  c == [when |-> \E p \in parents : p.ty # "Container", code |-> "INTERNAL_SERVER_ERROR"]
  d == [when |-> \E p \in parents : p.ty = "Container" /\ p.attr.disr,
        code |-> "OPERATION_NOT_ALLOWED"]
  e == [when |-> \E p \in parents : ~ IsAllowedForContainer(from, p),
        code |-> "ORIGINATOR_HAS_NO_PRIVILEGE"]
<1>1. CinChecks(from, cin, target) = <<a, b, c, d, e>>
  BY DEF CinChecks
<1>2. /\ b.when = (parents = {})
      /\ c.when = (\E p \in parents : p.ty # "Container")
      /\ e.when = (\E p \in parents : ~ IsAllowedForContainer(from, p))
  BY Zenon
<1>3. \A x \in {a, b, c, d, e} : x.code \notin Answers
  BY DEF Answers
<1> HIDE DEF a, b, c, d, e
<1>4. PICK all : all = <<a, b, c, d, e>>
  OBVIOUS
<1>5. /\ all \in Seq({a, b, c, d, e}) /\ DOMAIN all = 1 .. 5
      /\ all[2] = b /\ all[3] = c /\ all[5] = e
  BY <1>4
<1>6. Errors(all)
  BY <1>3, <1>5 DEF Errors
<1>7. ASSUME ~ Refused(all)
      PROVE  cin.pi # Null /\ \E p \in Load(<<cin.pi>>) :
                    p.ty = "Container" /\ IsAllowedForContainer(from, p)
  <2>1. 2 \in DOMAIN all /\ 3 \in DOMAIN all /\ 5 \in DOMAIN all
    BY <1>5
  <2>2. ~ b.when /\ ~ c.when /\ ~ e.when
    BY <1>5, <1>7, <2>1 DEF Refused
  <2>3. parents # {} /\ \A p \in parents : p.ty = "Container" /\ IsAllowedForContainer(from, p)
    BY <1>2, <2>2
  <2> QED  BY <2>3
<1> QED  BY <1>1, <1>4, <1>6, <1>7

(* What the checks of a container let pass.                                *)
LEMMA ContainerPasses ==
    ASSUME NEW from, NEW cnt, NEW target
    PROVE  /\ Errors(ContainerChecks(from, cnt, target))
           /\ ~ Refused(ContainerChecks(from, cnt, target)) =>
                /\ IsAllowedForContainer(from, cnt)
                /\ IsVirtual(cnt, target) =>
                     \E c \in VirtualChild(cnt, target) : Load(<<c.ri>>) # {}
<1> DEFINE
  a == [when |-> ~ MatchesResourceTarget(cnt, target), code |-> "NOT_FOUND"]
  b == [when |-> ~ IsAllowedForContainer(from, cnt), code |-> "ORIGINATOR_HAS_NO_PRIVILEGE"]
  c == [when |-> cnt.attr.disr, code |-> "OPERATION_NOT_ALLOWED"]
  d == [when |-> IsVirtual(cnt, target) /\
                 \A r \in VirtualChild(cnt, target) : Load(<<r.ri>>) = {},
        code |-> "NOT_FOUND"]
<1>1. ContainerChecks(from, cnt, target) = <<a, b, c, d>>
  BY DEF ContainerChecks
<1>2. /\ b.when = (~ IsAllowedForContainer(from, cnt))
      /\ d.when = (IsVirtual(cnt, target) /\
                   \A r \in VirtualChild(cnt, target) : Load(<<r.ri>>) = {})
  BY Zenon
<1>3. \A x \in {a, b, c, d} : x.code \notin Answers
  BY DEF Answers
<1> HIDE DEF a, b, c, d
<1>4. PICK all : all = <<a, b, c, d>>
  OBVIOUS
<1>5. all \in Seq({a, b, c, d}) /\ DOMAIN all = 1 .. 4 /\ all[2] = b /\ all[4] = d
  BY <1>4
<1>6. Errors(all)
  BY <1>3, <1>5 DEF Errors
<1>7. ASSUME ~ Refused(all) PROVE ~ b.when /\ ~ d.when
  <2>1. 2 \in DOMAIN all /\ 4 \in DOMAIN all
    BY <1>5
  <2> QED  BY <1>5, <1>7, <2>1 DEF Refused
<1> QED  BY <1>1, <1>2, <1>4, <1>6, <1>7

(* What two checks let pass.                                               *)
LEMMA TwoChecks ==
    ASSUME NEW x, NEW y, NEW i, NEW j, i \notin Answers, j \notin Answers
    PROVE  LET checks == << [when |-> x, code |-> i], [when |-> y, code |-> j] >>
           IN  Errors(checks) /\ (~ Refused(checks) => ~ x /\ ~ y)
<1> DEFINE a == [when |-> x, code |-> i]
           b == [when |-> y, code |-> j]
<1>1. a.when = x /\ b.when = y /\ a.code = i /\ b.code = j
  OBVIOUS
<1> HIDE DEF a, b
<1>2. PICK all : all = <<a, b>>
  OBVIOUS
<1>3. all \in Seq({a, b}) /\ DOMAIN all = 1 .. 2 /\ all[1] = a /\ all[2] = b
  BY <1>2
<1>4. Errors(all)
  BY <1>1, <1>3 DEF Errors
<1>5. ASSUME ~ Refused(all) PROVE ~ x /\ ~ y
  <2>1. 1 \in DOMAIN all /\ 2 \in DOMAIN all
    BY <1>3
  <2>2. ~ a.when /\ ~ b.when
    BY <1>3, <1>5, <2>1 DEF Refused
  <2> QED  BY <1>1, <2>2
<1> QED  BY <1>2, <1>4, <1>5 DEF a, b

(* No check refuses nothing.                                               *)
LEMMA NoChecks == Errors(<< >>) /\ ~ Refused(<< >>)
<1>1. PICK none : none = << >>
  OBVIOUS
<1>2. none \in Seq({}) /\ DOMAIN none = {}
  BY <1>1
<1>3. Errors(none)
  BY <1>2 DEF Errors
<1>4. ~ Refused(none)
  BY <1>2 DEF Refused
<1> QED  BY <1>1, <1>3, <1>4

(* The checks of a retrieve, and what they let pass.                       *)
LEMMA RetrievePasses ==
    ASSUME NEW q, NEW n \in Node
    PROVE  /\ Errors(RetrieveChecks(q, n))
           /\ (~ Refused(RetrieveChecks(q, n)) /\ q.from # CAdmin) =>
                /\ n.ty # "CSEBase"
                /\ n.ty = "AE" => q.from = n.attr.aei
                /\ n.ty = "Container" =>
                     ~ Refused(ContainerChecks(q.from, n, q.to))
                /\ (n.ty = "Container" /\ IsVirtual(n, q.to)) =>
                     LET cin == CHOOSE c \in Returned(n, q.to) : TRUE
                     IN  ~ Refused(CinChecks(q.from, cin, <<cin.ri>>))
                /\ n.ty = "ContentInstance" => ~ Refused(CinChecks(q.from, n, q.to))
<1>1. n.ty \in ResourceType
  BY DEF Node, NodeOfType, ResourceType
<1>2. CASE n.ty = "CSEBase"
  <2>1. RetrieveChecks(q, n) =
           << [when |-> q.to # <<n.rn>>, code |-> "NOT_FOUND"],
              [when |-> q.from # CAdmin, code |-> "ORIGINATOR_HAS_NO_PRIVILEGE"] >>
    BY <1>2 DEF RetrieveChecks
  <2>2. Errors(RetrieveChecks(q, n))
        /\ (~ Refused(RetrieveChecks(q, n)) => ~ (q.from # CAdmin))
    BY <2>1, TwoChecks DEF Answers
  <2> QED  BY <1>2, <2>2
<1>3. CASE n.ty = "AE"
  <2>1. RetrieveChecks(q, n) =
           << [when |-> ~ MatchesResourceTarget(n, q.to), code |-> "NOT_FOUND"],
              [when |-> q.from # n.attr.aei, code |-> "ORIGINATOR_HAS_NO_PRIVILEGE"] >>
    BY <1>3 DEF RetrieveChecks
  <2>2. Errors(RetrieveChecks(q, n))
        /\ (~ Refused(RetrieveChecks(q, n)) => ~ (q.from # n.attr.aei))
    BY <2>1, TwoChecks DEF Answers
  <2> QED  BY <1>3, <2>2
<1>4. CASE n.ty = "Subscription"
  <2>1. RetrieveChecks(q, n) =
           << [when |-> ~ MatchesResourceTarget(n, q.to), code |-> "NOT_FOUND"],
              [when |-> n.attr.cr = Null \/ q.from # n.attr.cr,
               code |-> "ORIGINATOR_HAS_NO_PRIVILEGE"] >>
    BY <1>4 DEF RetrieveChecks
  <2>2. Errors(RetrieveChecks(q, n))
    BY <2>1, TwoChecks DEF Answers
  <2> QED  BY <1>4, <2>2
<1>5. CASE n.ty = "ContentInstance"
  <2>1. RetrieveChecks(q, n) = CinChecks(q.from, n, q.to)
    BY <1>5 DEF RetrieveChecks
  <2> QED  BY <1>5, <2>1, CinPasses
<1>6. CASE n.ty = "Container"
  <2>1. PICK s : s = ContainerChecks(q.from, n, q.to)
    OBVIOUS
  <2>2. PICK cin : cin = CHOOSE c \in Returned(n, q.to) : TRUE
    OBVIOUS
  <2>3. PICK r : r = CinChecks(q.from, cin, <<cin.ri>>)
    OBVIOUS
  <2>4. PICK t : t = IF Refused(s) \/ ~ IsVirtual(n, q.to) THEN << >> ELSE r
    OBVIOUS
  <2>5. RetrieveChecks(q, n) = s \o t
    <3>1. RetrieveChecks(q, n) =
             ContainerChecks(q.from, n, q.to) \o
             IF Refused(ContainerChecks(q.from, n, q.to)) \/ ~ IsVirtual(n, q.to) THEN << >>
             ELSE CinChecks(q.from, CHOOSE c \in Returned(n, q.to) : TRUE,
                            <<(CHOOSE c \in Returned(n, q.to) : TRUE).ri>>)
      BY <1>6 DEF RetrieveChecks
    <3> QED  BY <2>1, <2>2, <2>3, <2>4, <3>1
  <2>6. Errors(s) /\ Errors(t)
    BY <2>1, <2>3, <2>4, ContainerPasses, CinPasses, NoChecks
  <2>7. Errors(s \o t) /\ (Refused(s \o t) <=> Refused(s) \/ Refused(t))
    BY <2>6, ErrorsOfBoth
  <2> QED  BY <1>6, <2>1, <2>2, <2>3, <2>4, <2>5, <2>7
<1> QED  BY <1>1, <1>2, <1>3, <1>4, <1>5, <1>6 DEF ResourceType

(* No other row takes the place of a row that is looked up by its ID.      *)
LEMMA FirstIsRow ==
    ASSUME NoNameClash, TreeInv, RowsNamed, RowsHaveId, NEW c \in resources,
           NEW r \in FirstMatch(resources, <<c.ri>>)
    PROVE  r = c
<1>1. r \in resources /\ Matches(r, <<c.ri>>) /\ RowKeys(resources)
      /\ r.path \in Seq(Ident)
  BY DEF FirstMatch, TreeInv, TypeInv, TypeOK, Row
<1>2. c.ri # Null /\ c.ri \in Ids \cup {CseRi}
  BY DEF RowsHaveId
<1>3. c.ri = r.ri \/ c.ri = r.rn \/ <<c.ri>> = r.path
  BY <1>1 DEF Matches
<1>4. ASSUME c.ri # r.ri PROVE FALSE
  <2>1. CASE r.ri = CseRi /\ r.rn = CseName /\ r.path = <<CseName>>
    BY <1>2, <1>3, <1>4, <2>1 DEF NoNameClash
  <2>2. CASE r.rn \in Names /\ Len(r.path) > 1
    <3>1. <<c.ri>> # r.path
      <4>1. Len(<<c.ri>>) = 1
        OBVIOUS
      <4>2. ~ (1 > 1)
        OBVIOUS
      <4> QED  BY <2>2, <4>1, <4>2
    <3> QED  BY <1>2, <1>3, <1>4, <2>2, <3>1 DEF NoNameClash
  <2> QED  BY <1>1, <2>1, <2>2 DEF RowsNamed
<1> QED  BY <1>1, <1>2, <1>4 DEF RowKeys

(* What a target ending in la or ol stands for is an instance.             *)
LEMMA VirtualIsInstance ==
    ASSUME NoNameClash, TreeInv, RowsNamed, RowsHaveId, NEW cnt, NEW target,
           NEW c \in VirtualChild(cnt, target), NEW m \in Load(<<c.ri>>)
    PROVE  m.ty = "ContentInstance"
<1>1. c \in resources /\ c.ty = "ContentInstance"
  BY DEF VirtualChild, LoadLatestChild, LoadOldestChild, ChildRows
<1>2. PICK r \in FirstMatch(resources, <<c.ri>>) : m = NodeOf(typeRows, r)
  BY DEF Load, LoadPrimitiveContentByTarget
<1>3. r = c
  BY <1>1, FirstIsRow
<1> QED  BY <1>1, <1>2, <1>3 DEF NodeOf

(* An instance is owned by whoever may read its container.                 *)
LEMMA InstanceIsOwned ==
    ASSUME NoNameClash, PathInv, RowsNamed, NEW from, from # CAdmin,
           NEW cin \in Stored(resources, typeRows), cin.ty = "ContentInstance",
           NEW target, ~ Refused(CinChecks(from, cin, target))
    PROVE  OwnedBy(cin, from)
<1>1. cin.pi # Null
  BY CinPasses
<1>2. PICK p \in Load(<<cin.pi>>) : p.ty = "Container" /\ IsAllowedForContainer(from, p)
  BY CinPasses
<1>3. p \in Stored(resources, typeRows) /\ p.ri = cin.pi
  BY <1>1, ParentFound
<1>4. OwnedBy(p, from)
  BY <1>2, <1>3, AllowedIsOwned
<1> QED  BY <1>3, <1>4, LineGrows

Governed(ri, from) ==
    \E m \in Stored(resources, typeRows) :
        m.ri = ri /\ (m.ty \in {"AE", "Container", "ContentInstance"} => OwnedBy(m, from))

(* What a retrieve returns is governed by whoever asked.                   *)
LEMMA RetrievedIsGoverned ==
    ASSUME NoNameClash, PathInv, RowsNamed, RowsHaveId,
           NEW q, q.from # CAdmin, NEW n \in RetrieveFound(q),
           ~ Refused(RetrieveChecks(q, n))
    PROVE  Governed((CHOOSE c \in Returned(n, q.to) : TRUE).ri, q.from)
<1>1. n \in Node /\ n \in Stored(resources, typeRows)
  <2>1. n \in Load(<<CseRi>>) \/ n \in Load(LookupTarget(q.to))
    BY DEF RetrieveFound, GetCSEBase, CSEBases, Load
  <2>2. PICK target : n \in Load(target)
    BY <2>1
  <2>3. n \in Node
    BY <2>2, LoadType DEF Load, PathInv, TreeInv, TypeInv, TypeOK
  <2> QED  BY <2>2, <2>3 DEF Load, LoadPrimitiveContentByTarget, FirstMatch, Stored
<1>2. /\ n.ty # "CSEBase"
      /\ n.ty = "AE" => q.from = n.attr.aei
      /\ n.ty = "Container" => ~ Refused(ContainerChecks(q.from, n, q.to))
      /\ (n.ty = "Container" /\ IsVirtual(n, q.to)) =>
           LET cin == CHOOSE c \in Returned(n, q.to) : TRUE
           IN  ~ Refused(CinChecks(q.from, cin, <<cin.ri>>))
      /\ n.ty = "ContentInstance" => ~ Refused(CinChecks(q.from, n, q.to))
  BY <1>1, RetrievePasses
<1>3. CASE n.ty = "Container" /\ IsVirtual(n, q.to)
  <2>1. PICK cin : cin = CHOOSE c \in Returned(n, q.to) : TRUE
    OBVIOUS
  <2>2. Returned(n, q.to) = UNION {Load(<<c.ri>>) : c \in VirtualChild(n, q.to)}
    BY <1>3 DEF Returned
  <2>3. \E c \in VirtualChild(n, q.to) : Load(<<c.ri>>) # {}
    BY <1>2, <1>3, ContainerPasses
  <2>4. PICK c \in VirtualChild(n, q.to) : cin \in Load(<<c.ri>>)
    BY <2>1, <2>2, <2>3
  <2>5. cin.ty = "ContentInstance"
    BY <2>4, VirtualIsInstance DEF PathInv
  <2>6. cin \in Stored(resources, typeRows)
    BY <2>4 DEF Load, LoadPrimitiveContentByTarget, FirstMatch, Stored
  <2>7. ~ Refused(CinChecks(q.from, cin, <<cin.ri>>))
    BY <1>2, <1>3, <2>1
  <2>8. OwnedBy(cin, q.from)
    BY <2>5, <2>6, <2>7, InstanceIsOwned
  <2> QED  BY <2>1, <2>6, <2>8 DEF Governed
<1>4. CASE ~ (n.ty = "Container" /\ IsVirtual(n, q.to))
  <2>1. (CHOOSE c \in Returned(n, q.to) : TRUE) = n
    <3>1. Returned(n, q.to) = {n}
      BY <1>4 DEF Returned
    <3> QED  BY <3>1
  <2>2. CASE n.ty = "AE"
    BY <1>1, <1>2, <2>1, <2>2, LineStarts DEF Governs, Governed
  <2>3. CASE n.ty = "ContentInstance"
    <3>1. OwnedBy(n, q.from)
      BY <1>1, <1>2, <2>3, InstanceIsOwned
    <3> QED  BY <1>1, <2>1, <3>1 DEF Governed
  <2>4. CASE n.ty = "Container"
    <3>1. IsAllowedForContainer(q.from, n)
      BY <1>2, <2>4, ContainerPasses
    <3>2. OwnedBy(n, q.from)
      BY <1>1, <2>4, <3>1, AllowedIsOwned
    <3> QED  BY <1>1, <2>1, <3>2 DEF Governed
  <2>5. CASE n.ty \notin {"AE", "Container", "ContentInstance"}
    BY <1>1, <2>1, <2>5 DEF Governed
  <2> QED  BY <2>2, <2>3, <2>4, <2>5
<1> QED  BY <1>3, <1>4

(* Before the ID, only an AE is refused with CONFLICT, and only when the   *)
(* name is taken.                                                          *)
LEMMA BeforeIdRefusal ==
    ASSUME NEW q \in CreateRequests, NEW failed, Refused(ChecksBeforeId(q, failed))
    PROVE  LET code == RefusalCode(ChecksBeforeId(q, failed)) IN
           /\ code \notin {"OK", "CREATED"}
           /\ code = "CONFLICT" =>
                /\ q.ty = "AE"
                /\ \E p \in Parent(q) :
                      ExistsResourceByParentAndName(resources, p.ri, q.rn)
<1> DEFINE
  a == [when |-> ~ ready \/ GetCSEBase = {} \/ "base" \in failed,
        code |-> "INTERNAL_SERVER_ERROR"]
  b == [when |-> WrongSpId(q), code |-> "NOT_FOUND"]
  c == [when |-> (q.from = NoFrom /\ q.ty # "AE") \/ q.flaw = "request",
        code |-> "BAD_REQUEST"]
  d == [when |-> Parent(q) = {} \/ "parent" \in failed, code |-> "NOT_FOUND"]
  e == [when |-> \E r \in Parent(q) : r.ty \notin ParentTypes(q.ty),
        code |-> "INVALID_CHILD_RESOURCE_TYPE"]
  f == [when |-> q.flaw = "content", code |-> "BAD_REQUEST"]
  g == [when |-> /\ "name" \notin failed
                 /\ \E p \in Parent(q) : ExistsResourceByParentAndName(resources, p.ri, q.rn),
        code |-> "CONFLICT"]
  h == [when |-> q.from = CseStem, code |-> "SECURITY_ASSOCIATION_REQUIRED"]
  s == [when |-> /\ "size" \in failed
                 /\ \E p \in {x \in Parent(q) : x.ty = "Container"} : p.attr.mbs # 0,
        code |-> "INTERNAL_SERVER_ERROR"]
  i == [when |-> \E p \in {x \in Parent(q) : x.ty = "Container"} : OverByteSize(q, p),
        code |-> "NOT_ACCEPTABLE"]
  j == [when |-> \E p \in {x \in Parent(q) : x.ty = "Container"} : OverInstances(p, failed),
        code |-> "NOT_ACCEPTABLE"]
<1>1. TargetChecks(q, failed) = <<a, b, c, d, e>>
  BY DEF TargetChecks
<1>2. \A x \in {a, b, c, d, e, f, h, s, i, j} : x.code \notin Answers
  BY DEF Answers
<1>3. g.code = "CONFLICT"
  OBVIOUS
<1>4. g.when = ( /\ "name" \notin failed
                 /\ \E p \in Parent(q) : ExistsResourceByParentAndName(resources, p.ri, q.rn) )
  BY Zenon
<1>5. \/ q.ty = "AE" /\ ChecksBeforeId(q, failed) = TargetChecks(q, failed) \o <<f, g, h>>
      \/ ChecksBeforeId(q, failed) = TargetChecks(q, failed) \o <<f, s, i, j>>
      \/ ChecksBeforeId(q, failed) = TargetChecks(q, failed) \o << >>
  BY DEF ChecksBeforeId
<1> HIDE DEF a, b, c, d, e, f, g, h, i, j, s
<1>6. PICK five, ae, cin : five = <<a, b, c, d, e>> /\ ae = <<f, g, h>> /\ cin = <<f, s, i, j>>
  OBVIOUS
<1>7. five \in Seq({a, b, c, d, e}) /\ ae \in Seq({f, g, h}) /\ cin \in Seq({f, s, i, j})
  BY <1>6
<1>8. CASE ChecksBeforeId(q, failed) = five \o cin \/ ChecksBeforeId(q, failed) = five \o << >>
  <2>1. Errors(five) /\ Errors(cin)
    BY <1>2, <1>7 DEF Errors
  <2>2. Errors(five \o cin) /\ Errors(five \o << >>)
    BY <2>1, ErrorsOfBoth, NoChecks
  <2> QED  BY <1>8, <2>2, RefusedIsError DEF Answers
<1>9. CASE q.ty = "AE" /\ ChecksBeforeId(q, failed) = five \o ae
  <2> DEFINE T == {a, b, c, d, e, f, g, h}
  <2>1. \A x \in T : \/ x.code \notin Answers
                     \/ x.code = "CONFLICT" /\ x.when = g.when
    BY <1>2, <1>3
  <2>2. five \in Seq(T) /\ ae \in Seq(T)
    BY <1>7
  <2> HIDE DEF T
  <2>3. ChecksBeforeId(q, failed) \in Seq(T)
    BY <1>9, <2>2, ConcatProperties
  <2>4. PICK k \in DOMAIN ChecksBeforeId(q, failed) :
          /\ ChecksBeforeId(q, failed)[k].when
          /\ RefusalCode(ChecksBeforeId(q, failed)) = ChecksBeforeId(q, failed)[k].code
    BY <2>3, RefusalOfCheck
  <2>5. ChecksBeforeId(q, failed)[k] \in T
    BY <2>3, <2>4
  <2> QED  BY <1>4, <1>9, <2>1, <2>4, <2>5 DEF Answers
<1> QED  BY <1>1, <1>5, <1>6, <1>8, <1>9

(* No check of a create has the code OK, before the ID and after it.       *)
LEMMA AfterIdErrors ==
    ASSUME NEW q, NEW failed, NEW rs, NEW ts
    PROVE  Errors(ChecksAfterId(q, failed, rs, ts))
<1> DEFINE
  a == [when |-> OwnStem(q) /\ "aei" \notin failed /\ ExistsAEbyAEID(ts, q.from),
        code |-> "ORIGINATOR_HAS_ALREADY_REGISTERED"]
  b == [when |-> q.flaw # "none", code |-> "BAD_REQUEST"]
  c == [when |-> q.ty = "Subscription" /\
                 ("path" \in failed \/ \A p \in Parent(q) : GetPathByRI(rs, p.ri) = {}),
        code |-> "NOT_FOUND"]
<1>1. ChecksAfterId(q, failed, rs, ts) = <<a, b, c>>
  BY DEF ChecksAfterId
<1>2. \A x \in {a, b, c} : x.code \notin Answers
  BY DEF Answers
<1> HIDE DEF a, b, c
<1>3. PICK all : all = <<a, b, c>>
  OBVIOUS
<1>4. all \in Seq({a, b, c})
  BY <1>3
<1>5. Errors(all)
  BY <1>2, <1>4 DEF Errors
<1> QED  BY <1>1, <1>3, <1>5

(* What was retrieved last is still below the AE or CSEBase of whoever     *)
(* retrieved it.                                                           *)
ReplyGoverned ==
    (Answered("OK") /\ reply.req.from # CAdmin) => Governed(reply.ri, reply.req.from)

OwnerInv == RowInv /\ ReplyGoverned

Replied(req, code) == reply'.req = req /\ reply'.code = code

(* How a create is answered: with CREATED when the resource is saved, with *)
(* CONFLICT when an AE with the name is there, never with OK.              *)
LEMMA CreateReplies ==
    ASSUME NEW t \in Task, Create(t)
    PROVE  \/ UNCHANGED reply
           \/ FinishCreate(t) /\ Replied(task[t].req, "CREATED")
           \/ InsertDetail(t) /\ task[t].node.ty = "Subscription"
              /\ Replied(task[t].req, "CREATED")
           \/ \E q \in CreateRequests :
                 /\ RefuseCreate(t, q) /\ Replied(q, "CONFLICT") /\ q.ty = "AE"
                 /\ \E p \in Parent(q) :
                       ExistsResourceByParentAndName(resources, p.ri, q.rn)
           \/ \E req, code : Replied(req, code) /\ code \notin Answers
<1>1. ASSUME NEW q, NEW code, NEW n, Reply(t, q, code, n)
      PROVE  Replied(q, code)
  BY <1>1 DEF Reply, Replied
<1>2. ASSUME NEW q \in CreateRequests, RefuseCreate(t, q)
      PROVE  \/ /\ Replied(q, "CONFLICT") /\ q.ty = "AE"
                /\ \E p \in Parent(q) :
                      ExistsResourceByParentAndName(resources, p.ri, q.rn)
             \/ \E req, code : Replied(req, code) /\ code \notin Answers
  <2>1. PICK failed \in Failing :
          /\ Refused(ChecksBeforeId(q, failed))
          /\ Reply(t, q, RefusalCode(ChecksBeforeId(q, failed)), NoNode)
    BY <1>2 DEF RefuseCreate
  <2>2. PICK code : code = RefusalCode(ChecksBeforeId(q, failed))
    OBVIOUS
  <2>3. Replied(q, code)
    BY <1>1, <2>1, <2>2
  <2>4. /\ code \notin {"OK", "CREATED"}
        /\ code = "CONFLICT" =>
             /\ q.ty = "AE"
             /\ \E p \in Parent(q) : ExistsResourceByParentAndName(resources, p.ri, q.rn)
    BY <2>1, <2>2, BeforeIdRefusal
  <2> QED  BY <1>2, <2>3, <2>4 DEF Answers
<1>3. ASSUME NEW q \in CreateRequests, RefuseCreateAfterId(t, q)
      PROVE  \E req, code : Replied(req, code) /\ code \notin Answers
  <2>1. PICK failed \in Failing :
          /\ Refused(ChecksAfterId(q, failed, resources', typeRows'))
          /\ Reply(t, q, RefusalCode(ChecksAfterId(q, failed, resources', typeRows')), NoNode)
    BY <1>3 DEF RefuseCreateAfterId
  <2>2. PICK checks : checks = ChecksAfterId(q, failed, resources', typeRows')
    OBVIOUS
  <2>3. Errors(checks)
    BY <2>2, AfterIdErrors
  <2>4. RefusalCode(checks) \notin Answers
    BY <2>1, <2>2, <2>3, RefusedIsError
  <2> QED  BY <1>1, <2>1, <2>2, <2>4
<1>4. ASSUME VerificationFails(t) \/ InsertRowFails(t) \/ InsertDetailFails(t)
      PROVE  \E req, code : Replied(req, code) /\ code \notin Answers
  <2>1. \A code \in {"SUBSCRIPTION_VERIFICATION_INITIATION_FAILED", "INTERNAL_SERVER_ERROR"} :
           code \notin Answers
    BY DEF Answers
  <2>2. \E code \in {"SUBSCRIPTION_VERIFICATION_INITIATION_FAILED", "INTERNAL_SERVER_ERROR"} :
           Replied(task[t].req, code)
    BY <1>1, <1>4 DEF VerificationFails, InsertRowFails, InsertDetailFails
  <2> QED  BY <2>1, <2>2
<1>5. ASSUME FinishCreate(t) PROVE Replied(task[t].req, "CREATED")
  BY <1>1, <1>5 DEF FinishCreate
<1>6. ASSUME InsertDetail(t)
      PROVE  \/ UNCHANGED reply
             \/ task[t].node.ty = "Subscription" /\ Replied(task[t].req, "CREATED")
  BY <1>1, <1>6 DEF InsertDetail
<1>7. ASSUME \/ \E q \in CreateRequests : AcceptCreate(t, q)
             \/ VerifySubscription(t) \/ VerificationAnswered(t) \/ InsertRow(t)
             \/ HangInPathQuery(t) \/ SendNotification(t) \/ SkipDelivery(t)
             \/ NotificationAnswered(t)
      PROVE  UNCHANGED reply
  BY <1>7 DEF AcceptCreate, VerifySubscription, VerificationAnswered, InsertRow,
              HangInPathQuery, SendNotification, SkipDelivery, NotificationAnswered, history
<1>8. ASSUME NEW q \in CreateRequests,
             RefuseCreate(t, q) \/ RefuseCreateAfterId(t, q) \/ AcceptCreate(t, q)
      PROVE  \/ UNCHANGED reply
             \/ /\ RefuseCreate(t, q) /\ Replied(q, "CONFLICT") /\ q.ty = "AE"
                /\ \E p \in Parent(q) :
                      ExistsResourceByParentAndName(resources, p.ri, q.rn)
             \/ \E req, code : Replied(req, code) /\ code \notin Answers
  BY <1>2, <1>3, <1>7, <1>8
<1> QED  BY <1>4, <1>5, <1>6, <1>7, <1>8 DEF Create

(* A retrieve whose reads fail is refused.                                 *)
LEMMA ReadFailureCodes ==
    ASSUME NEW q, NEW a \in ReadFailures(q)
    PROVE  a.code \notin Answers
<1>1. \E code \in {"BAD_REQUEST", "NOT_FOUND", "ORIGINATOR_HAS_NO_PRIVILEGE",
                    "INTERNAL_SERVER_ERROR"} : a = Answer(q, code, Null)
  BY DEF ReadFailures
<1> QED  BY <1>1 DEF Answer, Answers

(* An answer OK is governed when it is given, ...                          *)
LEMMA RetrieveGoverned ==
    ASSUME NoNameClash, RowInv, NEW q, NEW a \in RetrieveAnswers(q),
           a.code = "OK", a.req.from # CAdmin
    PROVE  Governed(a.ri, a.req.from)
<1>0. PathInv /\ RowsNamed /\ RowsHaveId
  BY DEF RowInv, PathInv, LookupInv, CheckedInv
<1>1. PICK n \in RetrieveFound(q) :
        a = IF Refused(RetrieveChecks(q, n))
              THEN Answer(q, RefusalCode(RetrieveChecks(q, n)), Null)
              ELSE Answer(q, "OK", (CHOOSE c \in Returned(n, q.to) : TRUE).ri)
  BY DEF RetrieveAnswers, Answer
<1>2. n \in Node
  <2>1. \E target : n \in Load(target)
    BY DEF RetrieveFound, GetCSEBase, CSEBases, Load
  <2> QED  BY <1>0, <2>1, LoadType DEF Load, PathInv, TreeInv, TypeInv, TypeOK
<1>3. ~ Refused(RetrieveChecks(q, n))
  <2> SUFFICES ASSUME Refused(RetrieveChecks(q, n)) PROVE FALSE
    OBVIOUS
  <2>1. RefusalCode(RetrieveChecks(q, n)) # "OK"
    BY <1>2, RetrievePasses, RefusedIsError DEF Answers
  <2> QED  BY <1>1, <2>1 DEF Answer
<1>4. a.req = q /\ a.ri = (CHOOSE c \in Returned(n, q.to) : TRUE).ri
  BY <1>1, <1>3 DEF Answer
<1> QED  BY <1>0, <1>3, <1>4, RetrievedIsGoverned

(* ... and stays so while it is the last answer.                           *)
LEMMA ReplyGovernedStep ==
    ASSUME NoIdClash, Reliable, NoNameClash, OwnerInv, [Next]_vars
    PROVE  ReplyGoverned'
<1>0. TreeInv /\ PowerOffSilent
  BY DEF OwnerInv, RowInv, LookupInv, CheckedInv
<1>1. ASSUME UNCHANGED reply PROVE ReplyGoverned'
  <2>1. CASE power = "off"
    BY <1>0, <1>1, <2>1 DEF PowerOffSilent, ReplyGoverned, Answered
  <2>2. CASE power # "off"
    <3>1. power = "on"
      BY <1>0, <2>2 DEF TreeInv, TypeInv, TypeOK
    <3>2. Stored(resources, typeRows) \subseteq Stored(resources', typeRows')
      BY <1>0, <3>1, StoredStays
    <3> SUFFICES ASSUME Answered("OK"), reply.req.from # CAdmin
                 PROVE  Governed(reply.ri, reply.req.from)'
      BY <1>1 DEF ReplyGoverned, Answered
    <3>3. PICK ri, from : ri = reply.ri /\ from = reply.req.from
      OBVIOUS
    <3>4. PICK m \in Stored(resources, typeRows) :
            m.ri = ri /\ (m.ty \in {"AE", "Container", "ContentInstance"} => OwnedBy(m, from))
      BY <3>3 DEF OwnerInv, ReplyGoverned, Governed
    <3>5. m.ty \in {"AE", "Container", "ContentInstance"} => OwnedBy(m, from)'
      BY <3>2, <3>4, LinesStay
    <3> QED  BY <1>1, <3>2, <3>3, <3>4, <3>5 DEF Governed
  <2> QED  BY <2>1, <2>2
<1>2. ASSUME NEW t \in Task, NEW q \in RetrieveRequests, Retrieve(t, q)
      PROVE  ReplyGoverned'
  <2>1. /\ reply' \in RetrieveAnswers(q) \/ reply' \in ReadFailures(q)
        /\ UNCHANGED <<resources, typeRows>>
    BY <1>2 DEF Retrieve, db
  <2>2. PICK a : a = reply'
    OBVIOUS
  <2>3. (a.code = "OK" /\ a.req.from # CAdmin) => Governed(a.ri, a.req.from)
    BY <2>1, <2>2, RetrieveGoverned, ReadFailureCodes DEF OwnerInv, Answers
  <2>4. Governed(a.ri, a.req.from) => Governed(a.ri, a.req.from)'
    <3>1. Stored(resources, typeRows) \subseteq Stored(resources', typeRows')
      BY <2>1
    <3>2. \A m, from : OwnedBy(m, from) => OwnedBy(m, from)'
      BY <3>1, LinesStay
    <3> QED  BY <3>1, <3>2 DEF Governed
  <2> QED  BY <2>2, <2>3, <2>4 DEF ReplyGoverned, Answered
<1>3. ASSUME NEW t \in Task, Create(t) PROVE ReplyGoverned'
  <2>1. UNCHANGED reply \/ reply'.code # "OK"
    BY <1>3, CreateReplies DEF Replied, Answers
  <2> QED  BY <1>1, <2>1 DEF ReplyGoverned, Answered
<1>4. ASSUME \E clean \in CleanOnBoot : Boot(clean) PROVE ReplyGoverned'
  BY <1>1, <1>4 DEF Boot
<1>5. ASSUME PowerLoss PROVE ReplyGoverned'
  BY <1>5 DEF PowerLoss, ReplyGoverned, Answered
<1>6. UNCHANGED vars => UNCHANGED reply
  BY DEF vars, history
<1> QED  BY <1>1, <1>2, <1>3, <1>4, <1>5, <1>6 DEF Next

(* Whatever form of address a retrieve uses, what it returns to anyone but *)
(* the administrator lies below the AE or CSEBase the originator stands    *)
(* for, by the IDs of the ancestors.                                       *)
THEOREM OwnersRetrieve ==
    ASSUME NoIdClash, Reliable, NoNameClash, "id" \notin Faults
    PROVE  Spec => []RetrievedByOwner
<1>1. OwnerInv => RetrievedByOwner
  <2> SUFFICES ASSUME OwnerInv, Answered("OK"), reply.req.from # CAdmin,
                      NEW n \in Stored(resources, typeRows), n.ri = reply.ri,
                      n.ty \in {"AE", "Container", "ContentInstance"}
               PROVE  \E o \in Owners(n.ri) :
                        reply.req.from = IF o.ty = "AE" THEN o.attr.aei ELSE o.attr.csi
    BY DEF RetrievedByOwner
  <2>1. PathInv /\ TreeInv
    BY DEF OwnerInv, RowInv, PathInv, CheckedInv
  <2>2. OwnedBy(n, reply.req.from)
    BY <2>1, StoredOnce DEF OwnerInv, ReplyGoverned, Governed
  <2>3. PICK s : Line(s) /\ s[1] = n /\ Governs(s[Len(s)], reply.req.from)
    BY <2>2 DEF OwnedBy
  <2>4. s[Len(s)] \in Owners(n.ri)
    BY <2>1, <2>3, LineEnds
  <2> QED  BY <2>3, <2>4 DEF Governs
<1>2. Init => OwnerInv
  BY RowInvInit DEF OwnerInv, ReplyGoverned, Answered, Init
<1>3. OwnerInv /\ [Next]_vars => OwnerInv'
  BY RowInvStep, ReplyGovernedStep DEF OwnerInv
<1> QED  BY <1>1, <1>2, <1>3, PTL DEF Spec

-----------------------------------------------------------------------------
(* Half rows.                                                              *)

(* Each resource has both of its rows, or a task is about to save the      *)
(* second one.                                                             *)
Whole ==
    \A r \in resources :
        \/ HasTypeRow(typeRows, r)
        \/ \E t \in Task : task[t].pc = "detail" /\ IsRowOf(r, task[t].node)

(* Power does not fail, nor the second statement of a save.                *)
NoFailures == MaxBoots <= 1 /\ "detail" \notin Faults

WholeInv == RowInv /\ Whole /\ (power = "on" => boots > 0)

(* A task that is about to save a second row does so next.                 *)
LEMMA LeavesDetail ==
    ASSUME TreeInv, SavesLast, [Next]_vars, NEW u \in Task, task[u].pc = "detail"
    PROVE  \/ UNCHANGED vars
           \/ InsertDetail(u) \/ InsertDetailFails(u)
           \/ PowerLoss
<1>1. cpu = u /\ cpu # Free /\ power # "off"
  BY TaskAssumption DEF SavesLast, TreeInv, PowerOffIdle
<1>2. ASSUME NEW t \in Task, Create(t)
      PROVE  InsertDetail(u) \/ InsertDetailFails(u)
  BY <1>1, <1>2
  DEF Create, RefuseCreate, RefuseCreateAfterId, AcceptCreate, VerifySubscription,
      VerificationAnswered, VerificationFails, InsertRow, HangInPathQuery, InsertRowFails,
      InsertDetail, InsertDetailFails, SendNotification, SkipDelivery, NotificationAnswered,
      FinishCreate, Scheduled, Runs
<1>3. \A t \in Task : \A q : ~ Retrieve(t, q)
  BY <1>1 DEF Retrieve, Scheduled
<1>4. \A clean : ~ Boot(clean)
  BY <1>1 DEF Boot
<1> QED  BY <1>2, <1>3, <1>4 DEF Next

(* What can be read of a stored second row.                                *)
LEMMA DetailSaved ==
    ASSUME RowInv, NEW u \in Task, InsertDetail(u)
    PROVE  /\ \A r \in resources : IsRowOf(r, task[u].node) => HasTypeRow(typeRows', r)
           /\ \A r : HasTypeRow(typeRows, r) => HasTypeRow(typeRows', r)
<1> PICK n : n = task[u].node
  OBVIOUS
<1>1. n.ri # Null /\ typeRows' = InsertTypeRow(typeRows, n) /\ Unused(typeRows, n.ri)
  BY DEF InsertDetail, Runs, RowInv, LookupInv, DeliveryInv, BusyHasId, TreeInv, PendingFresh,
         Pending
<1> DEFINE d == [ri |-> n.ri, ty |-> n.ty, attr |-> n.attr]
<1>2. typeRows' = typeRows \cup {d}
  BY <1>1 DEF InsertTypeRow, Unused
<1>3. d.ri = n.ri /\ d.ty = n.ty
  OBVIOUS
<1> HIDE DEF d
<1> QED  BY <1>1, <1>2, <1>3 DEF HasTypeRow, IsRowOf

(* A step that saves a first row leaves a task about to save the second,   *)
(* and nothing but a failure stops that task.                              *)
LEMMA WholeStep ==
    ASSUME NoIdClash, Reliable, NoFailures, "id" \notin Faults, WholeInv, [Next]_vars
    PROVE  Whole'
<1>1. RowInv /\ RowInv' /\ TreeInv /\ TreeInv' /\ SavesLast /\ SavesLast'
  BY RowInvStep DEF WholeInv, RowInv, LookupInv, CheckedInv
<1>2. ~ PowerLoss
  <2>1. boots \in Nat /\ MaxBoots \in Nat /\ MaxBoots <= 1 /\ (power = "on" => boots > 0)
    BY <1>1, BootAssumption DEF NoFailures, WholeInv, TreeInv, TypeInv, TypeOK
  <2>2. PowerLoss => power = "on" /\ boots < MaxBoots
    BY DEF PowerLoss
  <2> QED  BY <2>1, <2>2
<1>3. \A t \in Task : ~ InsertDetailFails(t)
  BY DEF NoFailures, InsertDetailFails
<1>4. CASE UNCHANGED <<resources, typeRows>> /\ ~ \E t \in Task : InsertDetail(t)
  <2>1. ASSUME NEW t \in Task, task[t].pc = "detail" PROVE task' = task
    BY <1>1, <1>2, <1>3, <1>4, <2>1, LeavesDetail DEF vars, ram
  <2> QED  BY <1>4, <2>1 DEF WholeInv, Whole
<1>5. CASE \E t \in Task : InsertDetail(t)
  <2>1. PICK t \in Task : InsertDetail(t)
    BY <1>5
  <2>2. resources' = resources /\ cpu = t
    BY <2>1 DEF InsertDetail, Runs
  <2>3. \A u \in Task : task[u].pc = "detail" => u = t
    BY <1>1, <2>2 DEF SavesLast
  <2> QED  BY <1>1, <2>1, <2>2, <2>3, DetailSaved DEF WholeInv, Whole
<1>6. CASE \E t \in Task : InsertRow(t)
  <2>1. PICK t \in Task : InsertRow(t)
    BY <1>6
  <2>2. PICK n, path : n = task[t].node /\ resources' = InsertResources(resources, n, path)
    BY <2>1 DEF InsertRow
  <2>3. task[t].pc = "insert" /\ cpu = t /\ typeRows' = typeRows
    BY <2>1 DEF InsertRow, Runs
  <2>4. \A u \in Task : task[u].pc # "detail"
    BY <1>1, <2>3 DEF SavesLast
  <2>5. task'[t].pc = "detail" /\ task'[t].node = n
    BY <1>1, <2>1, <2>2, ResumeTask DEF InsertRow, TreeInv
  <2> DEFINE new == [rowid |-> NextRowid(resources), ri |-> n.ri, rn |-> n.rn,
                     ty |-> n.ty, pi |-> n.pi, path |-> path]
  <2>6. \A r \in resources' : r \in resources \/ r = new
    BY <2>2 DEF InsertResources
  <2>7. IsRowOf(new, n)
    BY DEF IsRowOf
  <2> HIDE DEF new
  <2> QED  BY <2>1, <2>3, <2>4, <2>5, <2>6, <2>7 DEF WholeInv, Whole
<1>7. ASSUME NEW clean \in CleanOnBoot, Boot(clean) PROVE Whole'
  <2>1. \A t \in Task : task[t].pc # "detail"
    BY <1>1, <1>7 DEF Boot, TreeInv, PowerOffIdle
  <2>2. CASE UNCHANGED <<resources, typeRows>>
    BY <2>1, <2>2 DEF WholeInv, Whole
  <2>3. CASE resources' = {}
    BY <2>3 DEF Whole
  <2>4. CASE \A r \in resources' : r.ri = CseRi
    BY <1>1, <2>4 DEF Whole, TreeInv, RootFirst, RowKeys, SameKey, IsRoot, HasTypeRow
  <2> QED  BY <1>1, <1>7, <2>2, <2>3, <2>4, BootChange
<1> QED  BY <1>1, <1>4, <1>5, <1>6, <1>7, StorageSteps

(* Power is on only after the first boot, which is then the last.          *)
LEMMA WholeInvStep ==
    ASSUME NoIdClash, Reliable, NoFailures, "id" \notin Faults, WholeInv, [Next]_vars
    PROVE  WholeInv'
<1>1. Whole' /\ RowInv'
  BY WholeStep, RowInvStep DEF WholeInv
<1>2. boots \in Nat
  BY DEF WholeInv, RowInv, CheckedInv, TreeInv, TypeInv, TypeOK
<1>3. power' = "on" => boots' > 0
  <2>1. CASE UNCHANGED <<power, boots>>
    BY <2>1 DEF WholeInv
  <2>2. CASE \E clean : Boot(clean)
    BY <1>2, <2>2 DEF Boot
  <2>3. CASE PowerLoss
    BY <2>3 DEF PowerLoss
  <2>4. \/ UNCHANGED <<power, boots>>
        \/ PowerLoss \/ \E clean : Boot(clean)
    BY DEF Next, Create, RefuseCreate, RefuseCreateAfterId, AcceptCreate, VerifySubscription,
         VerificationAnswered, VerificationFails, InsertRow, HangInPathQuery, InsertRowFails,
         InsertDetail, InsertDetailFails, SendNotification, SkipDelivery,
         NotificationAnswered, FinishCreate, Retrieve, vars, ram, history
  <2> QED  BY <2>1, <2>2, <2>3, <2>4
<1> QED  BY <1>1, <1>3 DEF WholeInv

(* Before the first boot there are no rows to be half.                     *)
LEMMA WholeInvInit == Init => WholeInv
  BY RowInvInit DEF WholeInv, Whole, Init

(* As long as power does not fail between the two rows of a resource, nor  *)
(* the second of them, no resource is left with one.                       *)
THEOREM RowsStayWhole ==
    ASSUME NoIdClash, Reliable, NoFailures, "id" \notin Faults
    PROVE  Spec => []Whole
<1>1. WholeInv /\ [Next]_vars => WholeInv'
  BY WholeInvStep
<1>2. WholeInv => Whole
  BY DEF WholeInv
<1> QED  BY <1>1, <1>2, WholeInvInit, PTL DEF Spec

-----------------------------------------------------------------------------
(* The latest instance.                                                    *)

(* No container is created with retrieval switched off.                    *)
NeverDisabled == \A q \in CreateRequests : q.ty = "Container" => ~ q.attr.disr

Enabled(n) == n.ty = "Container" => ~ n.attr.disr

EnabledRows == \A d \in typeRows : Enabled(d)

EnabledTasks == \A t \in Task : Pending(t) => Enabled(task[t].node)

(* A service that is ready has its CSEBase.                                *)
ReadyRooted == ready => resources # {}

RowidsDistinct == \A r, q \in resources : r.rowid = q.rowid => r = q

LatestInv ==
    /\ RowInv /\ DeliversSaved /\ AckedStored
    /\ EnabledRows /\ EnabledTasks /\ ReadyRooted /\ RowidsDistinct

(* Containers are stored as they were asked for: retrieval not disabled.   *)
LEMMA EnabledStep ==
    ASSUME NoIdClash, Reliable, NeverDisabled, CheckedInv, EnabledRows, EnabledTasks, [Next]_vars
    PROVE  EnabledRows' /\ EnabledTasks'
<1>1. TreeInv /\ TypeInv
  BY DEF CheckedInv, TreeInv
<1>2. EnabledTasks'
  <2> SUFFICES ASSUME NEW t \in Task, Pending(t)', task'[t].node.ty = "Container"
               PROVE  ~ task'[t].node.attr.disr
    BY DEF EnabledTasks, Enabled
  <2>1. ASSUME NEW q \in CreateRequests, AcceptCreate(t, q)
        PROVE  ~ task'[t].node.attr.disr
    <3>1. PICK p, id : task'[t].node = NewNode(q, p, id)
      BY <1>1, <2>1, AcceptedTask
    <3>2. task'[t].node.ty = q.ty
      BY <3>1 DEF NewNode
    <3>3. task'[t].node.attr = q.attr
      BY <3>1, <3>2 DEF NewNode
    <3> QED  BY <3>2, <3>3 DEF NeverDisabled
  <2>2. ASSUME InsertRow(t)
        PROVE  ~ task'[t].node.attr.disr
    <3>1. task'[t].node = task[t].node
      BY <1>1, <2>2, ResumeTask DEF InsertRow
    <3> QED  BY <2>2, <3>1 DEF EnabledTasks, Enabled, InsertRow, Runs, Pending
  <2>3. CASE UNCHANGED vars
    BY <2>3 DEF vars, ram, EnabledTasks, Enabled, Pending
  <2> QED  BY <2>1, <2>2, <2>3, UninterruptedTask
<1>3. EnabledRows'
  <2>1. ASSUME NEW t \in Task, InsertDetail(t) PROVE EnabledRows'
    <3> PICK n : n = task[t].node
      OBVIOUS
    <3>1. Enabled(n) /\ typeRows' = InsertTypeRow(typeRows, n)
      BY <2>1 DEF InsertDetail, Runs, Pending, EnabledTasks
    <3> DEFINE d == [ri |-> n.ri, ty |-> n.ty, attr |-> n.attr]
    <3>2. d.ty = n.ty /\ d.attr = n.attr
      OBVIOUS
    <3>3. \A e \in typeRows' : e \in typeRows \/ e = d
      BY <3>1 DEF InsertTypeRow
    <3> HIDE DEF d
    <3> QED  BY <3>1, <3>2, <3>3 DEF EnabledRows, Enabled
  <2>2. ASSUME NEW clean \in CleanOnBoot, Boot(clean) PROVE EnabledRows'
    <3> DEFINE ts == IF clean THEN {} ELSE typeRows
               d == [ri |-> CSEBaseNode.ri, ty |-> CSEBaseNode.ty, attr |-> CSEBaseNode.attr]
    <3>1. d.ty = "CSEBase"
      BY DEF CSEBaseNode
    <3>2. \A e \in typeRows' : e \in typeRows \/ e = d
      BY <2>2 DEF Boot, Initialize, InsertTypeRow
    <3> HIDE DEF d
    <3> QED  BY <3>1, <3>2 DEF EnabledRows, Enabled
  <2>3. ASSUME NEW t \in Task, InsertRow(t) PROVE EnabledRows'
    BY <2>3 DEF InsertRow, EnabledRows
  <2> QED  BY <1>1, <2>1, <2>2, <2>3, StorageSteps DEF EnabledRows
<1> QED  BY <1>2, <1>3

(* A service that is ready has its CSEBase.                                *)
LEMMA ReadyStep ==
    ASSUME NoIdClash, Reliable, TreeInv, ReadyRooted, [Next]_vars
    PROVE  ReadyRooted'
<1>1. ASSUME NEW clean \in CleanOnBoot, Boot(clean), ready' PROVE resources' # {}
  <2> PICK rs, ts : /\ rs = IF clean THEN {} ELSE resources
                    /\ ts = IF clean THEN {} ELSE typeRows
    OBVIOUS
  <2>1. \/ CSEBases(rs, ts) # {} /\ resources' = rs
        \/ resources' = InsertResources(rs, CSEBaseNode, <<CseName>>)
    BY <1>1 DEF Boot, Initialize, Reliable
  <2>2. CSEBases(rs, ts) # {} => rs # {}
    BY DEF CSEBases, LoadPrimitiveContentByTarget, FirstMatch
  <2>3. InsertResources(rs, CSEBaseNode, <<CseName>>) # {}
    BY DEF InsertResources
  <2> QED  BY <2>1, <2>2, <2>3
<1>2. ASSUME NEW t \in Task, InsertRow(t) PROVE resources' # {}
  <2>1. PICK n, path : resources' = InsertResources(resources, n, path)
    BY <1>2 DEF InsertRow
  <2> QED  BY <2>1 DEF InsertResources
<1>3. \/ UNCHANGED ready \/ ~ ready' \/ \E clean \in CleanOnBoot : Boot(clean)
  BY DEF Next, Create, RefuseCreate, RefuseCreateAfterId, AcceptCreate, VerifySubscription,
         VerificationAnswered, VerificationFails, InsertRow, HangInPathQuery, InsertRowFails,
         InsertDetail, InsertDetailFails, SendNotification, SkipDelivery,
         NotificationAnswered, FinishCreate, Retrieve, PowerLoss, vars, ram
<1>4. \A t \in Task : InsertDetail(t) => UNCHANGED resources
  BY DEF InsertDetail
<1> QED  BY <1>1, <1>2, <1>3, <1>4, StorageSteps DEF ReadyRooted

(* A new row comes after all rows there are.                               *)
LEMMA RowidsDistinctStep ==
    ASSUME Reliable, TreeInv, RowidsDistinct, [Next]_vars
    PROVE  RowidsDistinct'
<1>1. resources \in SUBSET Row /\ HasLastRow(resources)
  BY DEF TreeInv, TypeInv, TypeOK
<1>2. ASSUME NEW rs \in SUBSET Row, HasLastRow(rs), NEW n, NEW path,
             \A r, q \in rs : r.rowid = q.rowid => r = q,
             resources' = InsertResources(rs, n, path)
      PROVE  RowidsDistinct'
  <2>1. /\ NextRowid(rs) \in Nat
        /\ \A r \in rs : r.rowid < NextRowid(rs)
    BY <1>2, NextRowidAbove
  <2> DEFINE new == [rowid |-> NextRowid(rs), ri |-> n.ri, rn |-> n.rn,
                     ty |-> n.ty, pi |-> n.pi, path |-> path]
  <2>2. new.rowid = NextRowid(rs) /\ \A r \in resources' : r \in rs \/ r = new
    BY <1>2 DEF InsertResources
  <2> HIDE DEF new
  <2>3. \A r \in rs : r.rowid \in Nat
    BY DEF Row
  <2>4. \A r \in rs : r.rowid # new.rowid
    BY <2>1, <2>2, <2>3
  <2> QED  BY <1>2, <2>2, <2>4 DEF RowidsDistinct
<1>3. ASSUME NEW t \in Task, InsertRow(t) PROVE RowidsDistinct'
  BY <1>1, <1>2, <1>3 DEF InsertRow, RowidsDistinct
<1>4. ASSUME NEW clean \in CleanOnBoot, Boot(clean) PROVE RowidsDistinct'
  <2>1. HasLastRow({}) /\ {} \in SUBSET Row
    BY DEF HasLastRow
  <2>2. \/ resources' = {} \/ UNCHANGED resources
        \/ resources' = InsertResources({}, CSEBaseNode, <<CseName>>)
        \/ resources' = InsertResources(resources, CSEBaseNode, <<CseName>>)
    BY <1>4 DEF Boot, Initialize
  <2>3. CASE resources' = {} \/ UNCHANGED resources
    BY <2>3 DEF RowidsDistinct
  <2>4. CASE resources' = InsertResources({}, CSEBaseNode, <<CseName>>)
    BY <1>2, <2>1, <2>4
  <2>5. CASE resources' = InsertResources(resources, CSEBaseNode, <<CseName>>)
    BY <1>1, <1>2, <2>5 DEF RowidsDistinct
  <2> QED  BY <2>2, <2>3, <2>4, <2>5
<1>5. \A t \in Task : InsertDetail(t) => UNCHANGED resources
  BY DEF InsertDetail
<1> QED  BY <1>3, <1>4, <1>5, StorageSteps DEF RowidsDistinct

(* The parts of the invariant, each by its own lemma.                      *)
LEMMA LatestInvStep ==
    ASSUME NoIdClash, Reliable, NoNameClash, NeverDisabled, "id" \notin Faults, LatestInv,
           [Next]_vars
    PROVE  LatestInv'
<1>1. RowInv' /\ CheckedInv /\ TreeInv
  BY RowInvStep DEF LatestInv, RowInv, CheckedInv
<1>2. DeliversSaved' /\ AckedStored'
  BY DeliversSavedStep, AckedStoredStep DEF LatestInv, RowInv, SavedInv
<1>3. EnabledRows' /\ EnabledTasks'
  BY <1>1, EnabledStep DEF LatestInv
<1>4. ReadyRooted' /\ RowidsDistinct'
  BY <1>1, ReadyStep, RowidsDistinctStep DEF LatestInv
<1> QED  BY <1>1, <1>2, <1>3, <1>4 DEF LatestInv

(* Initially there is nothing to be found.                                 *)
LEMMA LatestInvInit == Init => LatestInv
<1> SUFFICES ASSUME Init PROVE LatestInv
  OBVIOUS
<1>1. RowInv /\ DeliversSaved
  BY RowInvInit, SavedInvInit DEF SavedInv
<1>2. resources = {} /\ typeRows = {} /\ acked = {} /\ ready = FALSE
      /\ \A t \in Task : ~ Pending(t)
  BY DEF Init, Idle, Pending
<1> QED  BY <1>1, <1>2
         DEF LatestInv, AckedStored, EnabledRows, EnabledTasks, ReadyRooted, RowidsDistinct

(* When the checks of an instance let pass.                                *)
LEMMA CinAllowed ==
    ASSUME NEW from, NEW cin, NEW target, MatchesResourceTarget(cin, target),
           cin.pi # Null, Load(<<cin.pi>>) # {},
           \A p \in Load(<<cin.pi>>) :
              p.ty = "Container" /\ ~ p.attr.disr /\ IsAllowedForContainer(from, p)
    PROVE  ~ Refused(CinChecks(from, cin, target))
<1> DEFINE
  parents == IF cin.pi = Null THEN {} ELSE Load(<<cin.pi>>)
  a == [when |-> ~ MatchesResourceTarget(cin, target), code |-> "NOT_FOUND"]
  b == [when |-> parents = {}, code |-> "NOT_FOUND"]
  c == [when |-> \E p \in parents : p.ty # "Container", code |-> "INTERNAL_SERVER_ERROR"]
  d == [when |-> \E p \in parents : p.ty = "Container" /\ p.attr.disr,
        code |-> "OPERATION_NOT_ALLOWED"]
  e == [when |-> \E p \in parents : ~ IsAllowedForContainer(from, p),
        code |-> "ORIGINATOR_HAS_NO_PRIVILEGE"]
<1>1. CinChecks(from, cin, target) = <<a, b, c, d, e>>
  BY DEF CinChecks
<1>2. /\ a.when = (~ MatchesResourceTarget(cin, target))
      /\ b.when = (parents = {})
      /\ c.when = (\E p \in parents : p.ty # "Container")
      /\ d.when = (\E p \in parents : p.ty = "Container" /\ p.attr.disr)
      /\ e.when = (\E p \in parents : ~ IsAllowedForContainer(from, p))
  BY Zenon
<1>3. parents = Load(<<cin.pi>>)
  OBVIOUS
<1> HIDE DEF a, b, c, d, e, parents
<1>4. ~ a.when /\ ~ b.when /\ ~ c.when /\ ~ d.when /\ ~ e.when
  BY <1>2, <1>3
<1>5. PICK all : all = <<a, b, c, d, e>>
  OBVIOUS
<1>6. /\ DOMAIN all = 1 .. 5
      /\ all[1] = a /\ all[2] = b /\ all[3] = c /\ all[4] = d /\ all[5] = e
  BY <1>5
<1>7. ~ Refused(all)
  BY <1>4, <1>6 DEF Refused
<1> QED  BY <1>1, <1>5, <1>7

(* When the checks of a container let pass to its latest instance.         *)
LEMMA ContainerAllowed ==
    ASSUME NEW from, NEW cnt, NEW target, MatchesResourceTarget(cnt, target),
           IsAllowedForContainer(from, cnt), ~ cnt.attr.disr,
           \E r \in VirtualChild(cnt, target) : Load(<<r.ri>>) # {}
    PROVE  ~ Refused(ContainerChecks(from, cnt, target))
<1> DEFINE
  a == [when |-> ~ MatchesResourceTarget(cnt, target), code |-> "NOT_FOUND"]
  b == [when |-> ~ IsAllowedForContainer(from, cnt), code |-> "ORIGINATOR_HAS_NO_PRIVILEGE"]
  c == [when |-> cnt.attr.disr, code |-> "OPERATION_NOT_ALLOWED"]
  d == [when |-> IsVirtual(cnt, target) /\
                 \A r \in VirtualChild(cnt, target) : Load(<<r.ri>>) = {},
        code |-> "NOT_FOUND"]
<1>1. ContainerChecks(from, cnt, target) = <<a, b, c, d>>
  BY DEF ContainerChecks
<1>2. /\ a.when = (~ MatchesResourceTarget(cnt, target))
      /\ b.when = (~ IsAllowedForContainer(from, cnt))
      /\ c.when = cnt.attr.disr
      /\ d.when = (IsVirtual(cnt, target) /\
                   \A r \in VirtualChild(cnt, target) : Load(<<r.ri>>) = {})
  BY Zenon
<1> HIDE DEF a, b, c, d
<1>3. ~ a.when /\ ~ b.when /\ ~ c.when /\ ~ d.when
  BY <1>2
<1>4. PICK all : all = <<a, b, c, d>>
  OBVIOUS
<1>5. /\ DOMAIN all = 1 .. 4
      /\ all[1] = a /\ all[2] = b /\ all[3] = c /\ all[4] = d
  BY <1>4
<1>6. ~ Refused(all)
  BY <1>3, <1>5 DEF Refused
<1> QED  BY <1>1, <1>4, <1>6

(* Children have a last one.                                               *)
LEMMA LatestRow ==
    ASSUME TypeInv, NEW S \in SUBSET resources, S # {}
    PROVE  \E x \in S : \A y \in S : y.rowid <= x.rowid
<1>1. PICK top : top \in Nat /\ \A r \in resources : r.rowid \in Nat /\ r.rowid < top
  BY NextRowidAbove DEF TypeInv, TypeOK, Row
<1> DEFINE T == {top - r.rowid : r \in S}
<1>2. T \in SUBSET Nat /\ T # {}
  BY <1>1
<1>3. PICK n \in T : \A m \in T : n <= m
  BY <1>2, LeastNumber
<1>4. PICK x \in S : n = top - x.rowid
  BY <1>3
<1>5. ASSUME NEW y \in S PROVE y.rowid <= x.rowid
  <2>1. top - y.rowid \in T
    OBVIOUS
  <2>2. top - x.rowid <= top - y.rowid
    BY <1>3, <1>4, <2>1
  <2>3. x.rowid \in Nat /\ y.rowid \in Nat
    BY <1>1
  <2> QED  BY ONLY <1>1, <2>2, <2>3
<1> QED  BY <1>5

(* A row that is complete is found by its ID and, if it is the first of    *)
(* its path, by that.                                                      *)
LEMMA FoundWhole ==
    ASSUME NoNameClash, TreeInv, RowsNamed, RowsHaveId,
           NEW r \in resources, HasTypeRow(typeRows, r)
    PROVE  /\ Load(<<r.ri>>) = {NodeOf(typeRows, r)}
           /\ GetPathByRI(resources, r.ri) = {r.path}
           /\ RowOf(resources, r.ri) = r
<1>1. NodeOf(typeRows, r) \in Stored(resources, typeRows) /\ NodeOf(typeRows, r).ri = r.ri
  BY DEF Stored, NodeOf
<1>2. r.ri # Null /\ RowKeys(resources)
  BY DEF RowsHaveId, TreeInv
<1>3. {q \in resources : q.ri = r.ri /\ r.ri # Null} = {r}
  BY <1>2 DEF RowKeys
<1>4. GetPathByRI(resources, r.ri) = {q.path : q \in {r}}
  BY <1>3 DEF GetPathByRI
<1>5. RowOf(resources, r.ri) = r
  BY <1>2 DEF RowOf, RowKeys
<1> QED  BY <1>1, <1>4, <1>5, FoundById

(* The latest child of a container, when every row is complete.            *)
LEMMA LatestChildFound ==
    ASSUME NoNameClash, TreeInv, RowsNamed, RowsHaveId,
           NEW r \in resources, HasTypeRow(typeRows, r),
           NEW c \in resources, c.ty = "ContentInstance", c.pi = r.ri
    PROVE  LET latest == LoadLatestChild(resources, <<r.ri>>, "ContentInstance")
           IN  /\ latest # {}
               /\ \A x \in latest : /\ x \in resources /\ x.ty = "ContentInstance"
                                    /\ x.pi = r.ri /\ c.rowid <= x.rowid
<1>1. r \in FirstMatch(resources, <<r.ri>>)
  <2>1. /\ NodeOf(typeRows, r) \in Stored(resources, typeRows) /\ NodeOf(typeRows, r).ri = r.ri
    BY DEF Stored, NodeOf
  <2>2. RowOf(resources, r.ri) = r
    BY FoundWhole
  <2> QED  BY <2>1, <2>2, FoundByRow
<1>2. \A q \in FirstMatch(resources, <<r.ri>>) : q = r
  BY FirstIsRow
<1>3. r.ri # Null
  BY DEF RowsHaveId
<1> DEFINE S == ChildRows(resources, <<r.ri>>, "ContentInstance")
<1>4. S \in SUBSET resources /\ \A x \in S : x.ty = "ContentInstance" /\ x.pi = r.ri
  BY <1>2 DEF ChildRows
<1>5. c \in S
  BY <1>1, <1>3 DEF ChildRows
<1> HIDE DEF S
<1>6. PICK x \in S : \A y \in S : y.rowid <= x.rowid
  BY <1>4, <1>5, LatestRow DEF TreeInv
<1>7. LoadLatestChild(resources, <<r.ri>>, "ContentInstance")
        = {z \in S : \A y \in S : y.rowid <= z.rowid}
  BY DEF LoadLatestChild, S
<1> QED  BY <1>4, <1>5, <1>6, <1>7

(* A container that may be retrieved, and the retrieve of its latest       *)
(* instance.                                                               *)
LEMMA LatestAnswered ==
    ASSUME NoNameClash, LatestInv, \A x \in resources : HasTypeRow(typeRows, x),
           NEW r \in resources, r.ty = "Container", r \in FirstMatch(resources, r.path),
           NEW c \in resources, c.ty = "ContentInstance", c.pi = r.ri,
           ready,
           NEW q, q = [to |-> Append(r.path, La), form |-> "csRelative", from |-> CAdmin],
           NEW a \in RetrieveAnswers(q)
    PROVE  /\ a.code = "OK"
           /\ \E x \in resources : /\ a.ri = x.ri /\ x.ty = "ContentInstance"
                                   /\ x.pi = r.ri /\ c.rowid <= x.rowid
<1>1. /\ TreeInv /\ TypeInv /\ RowsNamed /\ RowsHaveId /\ RowKeys(resources)
      /\ resources \subseteq Row /\ RowidsDistinct
  BY DEF LatestInv, RowInv, LookupInv, DeliveryInv, CheckedInv, TreeInv, TypeInv, TypeOK
<1>2. PICK path, target : path = r.path /\ target = Append(path, La)
  OBVIOUS
<1>3. path \in Seq(Ident) /\ Len(path) > 0 /\ La \in Ident
  <2>1. r.path \in Seq(Ident)
    BY <1>1 DEF Row
  <2>2. Len(r.path) > 0
    BY <1>1, <2>1 DEF RowsNamed
  <2> QED  BY <1>2, <2>1, <2>2, IdentAssumption
<1>4. /\ Len(target) = Len(path) + 1 /\ Last(target) = La /\ Front(target) = path
      /\ target \in Seq(Ident)
  BY <1>2, <1>3 DEF Last, Front
<1>5. q.to = target /\ q.from = CAdmin /\ q.form = "csRelative"
  BY <1>2
<1>6. ~ WrongSpId(q)
  BY <1>5 DEF WrongSpId
<1>7. GetCSEBase # {}
  BY <1>1, RootFound DEF GetCSEBase, LatestInv, ReadyRooted
<1>8. LookupTarget(target) = path
  BY <1>3, <1>4, IdentAssumption DEF LookupTarget
<1> PICK n : n = NodeOf(typeRows, r)
  OBVIOUS
<1>9. n.ri = r.ri /\ n.ty = "Container" /\ n.pi = r.pi
      /\ n \in Stored(resources, typeRows)
  BY DEF NodeOf, Stored
<1>10. RetrieveFound(q) = {n}
  <2>1. target # <<CseName>>
    <3>1. Len(<<CseName>>) = 1
      OBVIOUS
    <3> QED  BY <1>3, <1>4, <3>1
  <2>2. FirstMatch(resources, path) = {r}
    <3>1. ASSUME NEW x \in FirstMatch(resources, path) PROVE x = r
      <4>1. x.rowid <= r.rowid /\ r.rowid <= x.rowid /\ x \in resources
        BY <1>2, <3>1 DEF FirstMatch
      <4>2. x.rowid = r.rowid
        BY <1>1, <4>1 DEF Row
      <4> QED  BY <1>1, <4>1, <4>2 DEF RowidsDistinct
    <3> QED  BY <1>2, <3>1
  <2>3. {x \in FirstMatch(resources, path) : HasTypeRow(typeRows, x)} = {r}
    BY <2>2
  <2>4. Load(path) = {NodeOf(typeRows, x) : x \in {r}}
    BY <2>3 DEF Load, LoadPrimitiveContentByTarget
  <2> QED  BY <1>5, <1>8, <2>1, <2>4 DEF RetrieveFound
<1>11. /\ GetPathByRI(resources, n.ri) = {path} /\ Load(<<n.ri>>) = {n}
  BY <1>1, <1>2, <1>9, FoundWhole
<1>12. MatchesResourceTarget(n, target) /\ IsVirtual(n, target)
  BY <1>2, <1>11 DEF MatchesResourceTarget, IsVirtual
<1>13. IsAllowedForContainer(CAdmin, n)
  BY DEF IsAllowedForContainer
<1>14. ~ n.attr.disr
  <2>1. PICK d \in typeRows : d.ri = r.ri /\ d.ty = r.ty
    BY DEF HasTypeRow
  <2>2. PICK e \in typeRows : /\ e.ri = r.ri /\ e.ty = r.ty
                              /\ e = CHOOSE d2 \in typeRows : d2.ri = r.ri /\ d2.ty = r.ty
    BY <2>1
  <2>3. n.attr = e.attr
    BY <2>2 DEF NodeOf
  <2> QED  BY <2>2, <2>3 DEF LatestInv, EnabledRows, Enabled
<1> PICK latest : latest = LoadLatestChild(resources, <<r.ri>>, "ContentInstance")
  OBVIOUS
<1>15. VirtualChild(n, target) = latest
  BY <1>2, <1>9, <1>11 DEF VirtualChild
<1>16. /\ latest # {}
       /\ \A x \in latest : /\ x \in resources /\ x.ty = "ContentInstance"
                            /\ x.pi = r.ri /\ c.rowid <= x.rowid
  BY <1>1, LatestChildFound
<1>17. \A x \in latest : Load(<<x.ri>>) = {NodeOf(typeRows, x)}
  BY <1>1, <1>16, FoundWhole
<1>18. PICK s : s = ContainerChecks(CAdmin, n, target)
  OBVIOUS
<1>19. ~ Refused(s)
  BY <1>12, <1>13, <1>14, <1>15, <1>16, <1>17, <1>18, ContainerAllowed
<1>20. Returned(n, target) = UNION {Load(<<x.ri>>) : x \in latest}
  BY <1>9, <1>12, <1>15 DEF Returned
<1>21. PICK cin : cin = CHOOSE m \in Returned(n, target) : TRUE
  OBVIOUS
<1>22. PICK x \in latest : cin = NodeOf(typeRows, x)
  <2>1. Returned(n, target) # {}
    <3>1. PICK y \in latest : TRUE
      BY <1>16
    <3>2. NodeOf(typeRows, y) \in Load(<<y.ri>>)
      BY <1>17
    <3> QED  BY <1>20, <3>2
  <2>2. cin \in Returned(n, target)
    BY <1>21, <2>1
  <2>3. PICK y \in latest : cin \in Load(<<y.ri>>)
    BY <1>20, <2>2
  <2> QED  BY <1>17, <2>3
<1>23. /\ x \in resources /\ cin.ri = x.ri /\ cin.pi = r.ri /\ r.ri # Null
       /\ x.ty = "ContentInstance" /\ x.pi = r.ri /\ c.rowid <= x.rowid
  BY <1>1, <1>16, <1>22 DEF NodeOf, RowsHaveId
<1>24. MatchesResourceTarget(cin, <<cin.ri>>)
  <2>1. GetPathByRI(resources, cin.ri) = {x.path}
    BY <1>1, <1>23, FoundWhole
  <2> QED  BY <2>1 DEF MatchesResourceTarget
<1>25. PICK t : t = CinChecks(CAdmin, cin, <<cin.ri>>)
  OBVIOUS
<1>26. ~ Refused(t)
  <2>1. Load(<<cin.pi>>) = {n}
    BY <1>9, <1>11, <1>23
  <2> QED  BY <1>9, <1>13, <1>14, <1>23, <1>24, <1>25, <2>1, CinAllowed
<1>27. RetrieveChecks(q, n) = s \o t
  <2>1. RetrieveChecks(q, n) =
          ContainerChecks(q.from, n, q.to) \o
           IF Refused(ContainerChecks(q.from, n, q.to)) \/ ~ IsVirtual(n, q.to) THEN << >>
           ELSE CinChecks(q.from, CHOOSE m \in Returned(n, q.to) : TRUE,
                          <<(CHOOSE m \in Returned(n, q.to) : TRUE).ri>>)
    BY <1>9 DEF RetrieveChecks
  <2>2. q.from = CAdmin /\ q.to = target
    BY <1>5
  <2> QED  BY <1>12, <1>18, <1>19, <1>21, <1>25, <2>1, <2>2
<1>28. ~ Refused(RetrieveChecks(q, n))
  <2>1. Errors(s)
    BY ONLY <1>18, ContainerPasses
  <2>2. Errors(t)
    BY ONLY <1>25, CinPasses
  <2>3. ~ Refused(s \o t)
    BY ONLY <1>19, <1>26, <2>1, <2>2, ErrorsOfBoth
  <2> QED  BY <1>27, <2>3
<1>29. a = Answer(q, "OK", cin.ri)
  <2>1. a \in {IF Refused(RetrieveChecks(q, m))
                 THEN Answer(q, RefusalCode(RetrieveChecks(q, m)), Null)
                 ELSE Answer(q, "OK", (CHOOSE k \in Returned(m, q.to) : TRUE).ri)
               : m \in RetrieveFound(q)}
    BY <1>6, <1>7, <1>10 DEF RetrieveAnswers
  <2>2. PICK m \in RetrieveFound(q) :
          a = IF Refused(RetrieveChecks(q, m))
                 THEN Answer(q, RefusalCode(RetrieveChecks(q, m)), Null)
                 ELSE Answer(q, "OK", (CHOOSE k \in Returned(m, q.to) : TRUE).ri)
    BY <2>1
  <2>3. m = n
    BY <1>10
  <2> QED  BY <1>5, <1>21, <1>28, <2>2, <2>3
<1>30. a.code = "OK" /\ a.ri = x.ri
  BY <1>23, <1>29 DEF Answer
<1> QED  BY <1>23, <1>30

(* So the latest instance is answered, and it is as new as any instance    *)
(* that was acknowledged.                                                  *)
LEMMA LatestIsFound ==
    ASSUME NoNameClash, LatestInv, Whole
    PROVE  LatestAvailable
<1> SUFFICES ASSUME cpu = Free, ready, NEW r \in resources, NEW c \in acked,
                    r.ty = "Container", r \in FirstMatch(resources, r.path),
                    c.ty = "ContentInstance", c.pi = r.ri,
                    NEW q, q = [to |-> Append(r.path, La), form |-> "csRelative",
                                from |-> CAdmin],
                    NEW a \in RetrieveAnswers(q)
             PROVE  /\ a.code = "OK"
                    /\ \E n \in Stored(resources, typeRows) :
                         /\ n.ri = a.ri /\ n.ty = "ContentInstance" /\ n.pi = r.ri
                         /\ RowidOf(c) <= RowidOf(n)
  BY DEF LatestAvailable
<1>1. TreeInv /\ RowsNamed /\ RowsHaveId /\ SavesLast /\ AckedStored
      /\ resources \in SUBSET Row /\ RowKeys(resources)
  BY DEF LatestInv, RowInv, LookupInv, DeliveryInv, CheckedInv, TreeInv, TypeInv, TypeOK
<1>2. \A x \in resources : HasTypeRow(typeRows, x)
  BY <1>1, TaskAssumption DEF Whole, SavesLast
<1>3. PICK row \in resources : HasTypeRow(typeRows, row) /\ c = NodeOf(typeRows, row)
  BY <1>1 DEF AckedStored, Stored
<1>4. row.ty = "ContentInstance" /\ row.pi = r.ri /\ c.ri = row.ri
  BY <1>3 DEF NodeOf
<1>5. /\ a.code = "OK"
      /\ \E x \in resources : /\ a.ri = x.ri /\ x.ty = "ContentInstance"
                              /\ x.pi = r.ri /\ row.rowid <= x.rowid
  BY <1>2, <1>4, LatestAnswered
<1>6. PICK x \in resources : /\ a.ri = x.ri /\ x.ty = "ContentInstance"
                             /\ x.pi = r.ri /\ row.rowid <= x.rowid
  BY <1>5
<1>7. PICK n : n = NodeOf(typeRows, x)
  OBVIOUS
<1>8. n \in Stored(resources, typeRows) /\ n.ri = x.ri /\ n.ty = x.ty /\ n.pi = x.pi
  BY <1>2, <1>7 DEF Stored, NodeOf
<1>9. RowOf(resources, c.ri) = row /\ RowOf(resources, n.ri) = x
  BY <1>1, <1>2, <1>4, <1>8, FoundWhole
<1> QED  BY <1>5, <1>6, <1>8, <1>9 DEF RowidOf

(* As long as no failure has left half a resource, the latest instance of  *)
(* a container can be retrieved whenever a request can be served, and it   *)
(* is no older than any that was acknowledged.                             *)
THEOREM LatestIsAvailable ==
    ASSUME NoIdClash, Reliable, NoNameClash, NeverDisabled, "id" \notin Faults
    PROVE  Spec => [](Whole => LatestAvailable)
<1>1. LatestInv /\ [Next]_vars => LatestInv'
  BY LatestInvStep
<1>2. LatestInv => (Whole => LatestAvailable)
  BY LatestIsFound
<1> QED  BY <1>1, <1>2, LatestInvInit, PTL DEF Spec

-----------------------------------------------------------------------------
(* Resources that are found under the address and the name of the request  *)
(* that created them.                                                      *)

(* The names a create may give its resource.                               *)
NamesOf(q) == IF q.rn = NoName THEN {DefaultName(q.ty, i) : i \in Ids} ELSE {q.rn}

(* Every create addresses the parent by its path.                          *)
ByPath == \A q \in CreateRequests : Len(q.to) > 1 \/ q.to = <<CseName>>

(* Resources of different types do not compete for a path.                 *)
NamesApart ==
    \A q, s \in CreateRequests :
        (q.to = s.to /\ NamesOf(q) \cap NamesOf(s) # {}) => q.ty = s.ty

Requested(r) ==
    \E q \in CreateRequests :
        r.ty = q.ty /\ r.rn \in NamesOf(q) /\ r.path = Append(q.to, r.rn)

RowsRequested == \A r \in resources : r.path = <<CseName>> \/ Requested(r)

(* There is a complete row with this path.                                 *)
StoredAt(path) == \E r \in resources : HasTypeRow(typeRows, r) /\ r.path = path

(* The parent of the resource a task creates is still where the request    *)
(* says.                                                                   *)
Placed(q, n) ==
    /\ q \in CreateRequests /\ n.rn \in NamesOf(q)
    /\ \E p \in resources : HasTypeRow(typeRows, p) /\ p.ri = n.pi /\ p.path = q.to

TasksPlaced == \A t \in Task : task[t].pc # "idle" => Placed(task[t].req, task[t].node)

(* What an answer says is there.                                           *)
SaysStored(code, q) ==
    /\ (code = "CREATED" /\ q.rn # NoName) =>
         q \in CreateRequests /\ StoredAt(Append(q.to, q.rn))
    /\ code = "CONFLICT" =>
         q \in CreateRequests /\ q.ty = "AE" /\ q.rn # NoName /\ StoredAt(Append(q.to, q.rn))

ReplyStored == reply # NoReply => SaysStored(reply.code, reply.req)

PlacesInv ==
    RowInv /\ DeliversSaved /\ RowidsDistinct /\ RowsRequested /\ TasksPlaced /\ ReplyStored

(* A complete row stays while power is on.                                 *)
LEMMA WholeRowStays ==
    ASSUME NoIdClash, Reliable, PathInv, [Next]_vars, power = "on",
           NEW r \in resources, HasTypeRow(typeRows, r)
    PROVE  r \in resources' /\ HasTypeRow(typeRows', r)
<1>1. CASE UNCHANGED <<resources, typeRows>>
  BY <1>1
<1>2. ASSUME NEW t \in Task, InsertRow(t)
      PROVE  r \in resources' /\ HasTypeRow(typeRows', r)
  <2>1. Unused(typeRows, task[t].node.ri) /\ UNCHANGED typeRows
    BY <1>2 DEF PathInv, TreeInv, PendingFresh, InsertRow, Runs, Pending
  <2> QED  BY <1>2, <2>1 DEF InsertRow, InsertResources, HasTypeRow, Unused
<1>3. ASSUME NEW t \in Task, InsertDetail(t)
      PROVE  r \in resources' /\ HasTypeRow(typeRows', r)
  <2>1. /\ Pending(t) /\ UNCHANGED resources
        /\ typeRows' = InsertTypeRow(typeRows, task[t].node)
    BY <1>3 DEF InsertDetail, Runs, Pending
  <2>2. typeRows \subseteq typeRows'
    BY <2>1 DEF PathInv, TreeInv, PendingFresh, InsertTypeRow, Unused
  <2> QED  BY <2>1, <2>2 DEF HasTypeRow
<1>4. \A clean \in CleanOnBoot : ~ Boot(clean)
  BY DEF Boot
<1> QED  BY <1>1, <1>2, <1>3, <1>4, StorageSteps DEF PathInv

(* The parent of a create is the row its address is the path of.           *)
LEMMA ParentAt ==
    ASSUME ByPath, PathInv, RowsNamed, RowidsDistinct,
           NEW q \in CreateRequests, NEW p \in Parent(q)
    PROVE  \E r \in resources : HasTypeRow(typeRows, r) /\ r.ri = p.ri /\ r.path = q.to
<1>1. PICK r \in FirstMatch(resources, q.to) :
        HasTypeRow(typeRows, r) /\ p = NodeOf(typeRows, r)
  BY DEF Parent, Load, LoadPrimitiveContentByTarget
<1>2. r \in resources /\ r.ri = p.ri /\ Matches(r, q.to)
      /\ \A x \in resources : Matches(x, q.to) => r.rowid <= x.rowid
  BY <1>1 DEF FirstMatch, NodeOf
<1>3. CASE Len(q.to) > 1
  <2>1. ASSUME NEW i, q.to = <<i>> PROVE FALSE
    <3>1. Len(<<i>>) = 1
      OBVIOUS
    <3> QED  BY <1>3, <2>1, <3>1
  <2> QED  BY <1>1, <1>2, <2>1 DEF Matches
<1>4. CASE q.to = <<CseName>>
  <2>1. PICK x \in resources, d \in typeRows :
          IsRoot(x) /\ SameKey(x, d) /\ \A y \in resources : x.rowid <= y.rowid
    BY <1>1, <1>2 DEF PathInv, TreeInv, RootFirst
  <2>2. x.path = <<CseName>>
    <3>1. x.path = <<x.rn>>
      BY <2>1 DEF PathInv, RowPaths, UnderStored, IsRoot, HasTypeRow
    <3>2. ~ Len(x.path) > 1
      <4>1. Len(<<x.rn>>) = 1
        OBVIOUS
      <4> QED  BY <3>1, <4>1
    <3> QED  BY <3>2 DEF RowsNamed
  <2>3. r = x
    <3>1. r.rowid <= x.rowid /\ x.rowid <= r.rowid
      BY <1>2, <1>4, <2>1, <2>2 DEF Matches
    <3>2. r.rowid \in Nat /\ x.rowid \in Nat
      BY <1>2 DEF PathInv, TreeInv, TypeInv, TypeOK, Row
    <3>3. r.rowid = x.rowid
      BY <3>1, <3>2
    <3> QED  BY <1>2, <3>3 DEF RowidsDistinct
  <2> QED  BY <1>1, <1>2, <1>4, <2>2, <2>3
<1> QED  BY <1>3, <1>4 DEF ByPath

(* Two sequences are equal when they are with an element appended.         *)
LEMMA AppendSame ==
    ASSUME NEW T, NEW s \in Seq(T), NEW u \in Seq(T), NEW a, NEW b,
           Append(s, a) = Append(u, b)
    PROVE  s = u /\ a = b
<1>1. /\ Len(Append(s, a)) = Len(s) + 1 /\ Append(s, a)[Len(s) + 1] = a
      /\ \A i \in 1 .. Len(s) : Append(s, a)[i] = s[i]
  OBVIOUS
<1>2. /\ Len(Append(u, b)) = Len(u) + 1 /\ Append(u, b)[Len(u) + 1] = b
      /\ \A i \in 1 .. Len(u) : Append(u, b)[i] = u[i]
  OBVIOUS
<1>3. Len(s) = Len(u) /\ Len(s) \in Nat
  BY <1>1, <1>2
<1>4. \A i \in 1 .. Len(s) : s[i] = u[i]
  BY <1>1, <1>2, <1>3
<1> QED  BY <1>1, <1>2, <1>3, <1>4

(* Only a row of the type the request asks for has the path it names.      *)
LEMMA FoundAtPath ==
    ASSUME NamesApart, LookupInv, RowidsDistinct, RowsRequested, Whole,
           NEW q \in CreateRequests, q.rn # NoName, ByPath, StoredAt(Append(q.to, q.rn))
    PROVE  \E n \in NamedResource(q) : n.ty = q.ty
<1>0. TreeInv /\ SavesLast /\ BusyHasId /\ RowKeys(resources)
      /\ \A y \in resources : y.rowid \in Nat
  BY DEF LookupInv, DeliveryInv, TreeInv, TypeInv, TypeOK, Row
<1>1. PICK path : path = Append(q.to, q.rn)
  OBVIOUS
<1>2. q.to \in Seq(Ident) /\ Len(q.to) > 0
  <2>1. q.to \in Seq(Ident)
    BY RequestAssumption DEF CreateRequest, CreateRequestOf
  <2>2. Len(<<CseName>>) = 1
    OBVIOUS
  <2> QED  BY <2>1, <2>2 DEF ByPath
<1>3. path # <<CseName>> /\ \A i : path # <<i>>
  <2>1. Len(path) = Len(q.to) + 1 /\ Len(q.to) \in Nat
    BY <1>1, <1>2
  <2>2. \A i : Len(<<i>>) = 1
    OBVIOUS
  <2> QED  BY <1>2, <2>1, <2>2
<1>4. PICK r \in resources : HasTypeRow(typeRows, r) /\ r.path = path
  BY <1>1 DEF StoredAt
<1>5. PICK x \in resources : /\ x.path = path
                            /\ \A y \in resources : y.path = path => x.rowid <= y.rowid
  <2> DEFINE T == {y.rowid : y \in {z \in resources : z.path = path}}
  <2>2. T \in SUBSET Nat /\ r.rowid \in T
    BY <1>0, <1>4
  <2>3. PICK k \in T : \A m \in T : k <= m
    <3> HIDE DEF T
    <3> QED  BY <2>2, LeastNumber
  <2> QED  BY <2>3
<1>6. x \in FirstMatch(resources, path)
  BY <1>3, <1>5 DEF FirstMatch, Matches
<1>7. HasTypeRow(typeRows, x)
  <2> SUFFICES ASSUME ~ HasTypeRow(typeRows, x) PROVE FALSE
    OBVIOUS
  <2>1. PICK t \in Task : task[t].pc = "detail" /\ IsRowOf(x, task[t].node)
    BY DEF Whole
  <2>2. PICK y \in resources : /\ IsRowOf(y, task[t].node)
                              /\ \A z \in resources : z.rowid <= y.rowid
    BY <1>0, <2>1 DEF SavesLast
  <2>3. task[t].node.ri # Null
    BY <1>0, <2>1 DEF BusyHasId
  <2>4. x = y
    BY <1>0, <2>1, <2>2, <2>3 DEF IsRowOf, RowKeys
  <2>5. r.rowid = x.rowid
    BY <1>0, <1>4, <1>5, <2>2, <2>4
  <2> QED  BY <1>4, <2>5 DEF RowidsDistinct
<1>8. x.ty = q.ty
  <2>1. PICK s \in CreateRequests :
          x.ty = s.ty /\ x.rn \in NamesOf(s) /\ x.path = Append(s.to, x.rn)
    BY <1>3, <1>5 DEF RowsRequested, Requested
  <2>2. s.to = q.to /\ x.rn = q.rn
    <3>1. s.to \in Seq(Ident)
      BY RequestAssumption DEF CreateRequest, CreateRequestOf
    <3>2. Append(s.to, x.rn) = Append(q.to, q.rn)
      BY <1>1, <1>5, <2>1
    <3> QED  BY <1>2, <3>1, <3>2, AppendSame
  <2>3. q.rn \in NamesOf(q) \cap NamesOf(s)
    BY <2>1, <2>2 DEF NamesOf
  <2> QED  BY <2>1, <2>2, <2>3 DEF NamesApart
<1>9. NodeOf(typeRows, x) \in NamedResource(q) /\ NodeOf(typeRows, x).ty = x.ty
  BY <1>1, <1>6, <1>7 DEF NamedResource, Load, LoadPrimitiveContentByTarget, NodeOf
<1> QED  BY <1>8, <1>9

(* A row that is saved has the path and the name of its request.           *)
LEMMA RowsRequestedStep ==
    ASSUME NoIdClash, Reliable, PathInv, BusyNamed, RowsRequested, TasksPlaced, [Next]_vars
    PROVE  RowsRequested'
<1>1. ASSUME NEW t \in Task, InsertRow(t) PROVE RowsRequested'
  <2> PICK n, q : n = task[t].node /\ q = task[t].req
    OBVIOUS
  <2>1. PICK path \in PathsFor(resources, n.pi, n.rn) :
          resources' = InsertResources(resources, n, path)
    BY <1>1 DEF InsertRow
  <2>2. task[t].pc = "insert"
    BY <1>1 DEF InsertRow, Runs
  <2>3. q \in CreateRequests /\ n.rn \in NamesOf(q) /\ n.ty = q.ty
    BY <2>2 DEF TasksPlaced, Placed, BusyNamed
  <2>4. PICK p \in resources : HasTypeRow(typeRows, p) /\ p.ri = n.pi /\ p.path = q.to
    BY <2>2 DEF TasksPlaced, Placed
  <2>5. path = Append(q.to, n.rn)
    BY <2>1, <2>4, PathsForStored DEF HasTypeRow
  <2> DEFINE new == [rowid |-> NextRowid(resources), ri |-> n.ri, rn |-> n.rn,
                     ty |-> n.ty, pi |-> n.pi, path |-> path]
  <2>6. /\ new.ty = n.ty /\ new.rn = n.rn /\ new.path = path
        /\ \A r \in resources' : r \in resources \/ r = new
    BY <2>1 DEF InsertResources
  <2> HIDE DEF new
  <2> QED  BY <2>3, <2>5, <2>6 DEF RowsRequested, Requested
<1>2. ASSUME NEW clean \in CleanOnBoot, Boot(clean) PROVE RowsRequested'
  <2>1. \A r \in resources' : r \in resources \/ r.path = <<CseName>>
    BY <1>2 DEF Boot, Initialize, InsertResources, CSEBaseNode
  <2> QED  BY <2>1 DEF RowsRequested
<1>3. UNCHANGED resources => RowsRequested'
  BY DEF RowsRequested
<1>4. \A t \in Task : InsertDetail(t) => UNCHANGED resources
  BY DEF InsertDetail
<1> QED  BY <1>1, <1>2, <1>3, <1>4, StorageSteps DEF PathInv

(* The parent that was found by its path stays there.                      *)
LEMMA TasksPlacedStep ==
    ASSUME NoIdClash, Reliable, ByPath, "id" \notin Faults, PathInv, LookupInv, RowidsDistinct,
           TasksPlaced, [Next]_vars
    PROVE  TasksPlaced'
<1> SUFFICES ASSUME NEW u \in Task, task'[u].pc # "idle"
             PROVE  Placed(task[u].req, task[u].node)'
  BY DEF TasksPlaced
<1>0. TreeInv /\ TypeInv /\ RowsNamed
  BY DEF PathInv, TreeInv, LookupInv
<1> PICK n, q : n = task'[u].node /\ q = task'[u].req
  OBVIOUS
<1>1. ASSUME Placed(q, n), power = "on" PROVE Placed(q, n)'
  <2>1. PICK p \in resources : HasTypeRow(typeRows, p) /\ p.ri = n.pi /\ p.path = q.to
    BY <1>1 DEF Placed
  <2>2. p \in resources' /\ HasTypeRow(typeRows', p)
    BY <1>1, <2>1, WholeRowStays
  <2> QED  BY <1>1, <2>1, <2>2 DEF Placed
<1>2. CASE /\ task[u].pc # "idle" /\ task'[u].node = task[u].node
           /\ task'[u].req = task[u].req
  <2>1. power = "on"
    BY <1>0, <1>2 DEF TreeInv, PowerOffIdle, TypeInv, TypeOK
  <2>2. Placed(q, n)
    BY <1>2 DEF TasksPlaced
  <2> QED  BY <1>1, <2>1, <2>2 DEF Placed
<1>3. ASSUME NEW s \in CreateRequests, AcceptCreate(u, s)
      PROVE  Placed(q, n)'
  <2>1. PICK failed \in Failing, p \in Parent(s), id \in {ResourceId[nextId], Null} :
          /\ ~ Refused(ChecksBeforeId(s, failed))
          /\ ~ Refused(ChecksAfterId(s, failed, resources, typeRows))
          /\ GetId(id) /\ nextId \in 1 .. MaxId
          /\ n = NewNode(s, p, id) /\ q = s
    BY <1>0, <1>3, AcceptedTask
  <2>2. id \in Ids
    BY <2>1 DEF GetId, Ids, GeneratedIds, Reliable
  <2> DEFINE ri == IF OwnStem(s) THEN s.from ELSE id
  <2>3. ri \in Ids
    <3>1. "aei" \notin failed
      BY DEF Failing, Reliable
    <3>2. OwnStem(s) => s.from \in Stems
      BY <2>1, <3>1, AcceptedStem DEF Stems
    <3> QED  BY <2>2, <3>2 DEF Ids
  <2>4. n.pi = p.ri /\ n.rn = NameOf(s, ri)
    BY <2>1 DEF NewNode
  <2>5. n.rn \in NamesOf(s)
    BY <2>3, <2>4 DEF NameOf, NamesOf
  <2>6. Placed(s, n)
    BY <1>0, <2>4, <2>5, ParentAt DEF Placed
  <2>7. power = "on"
    BY <1>3 DEF AcceptCreate, Scheduled
  <2> QED  BY <1>1, <2>1, <2>6, <2>7
<1> QED  BY <1>0, <1>2, <1>3, BusyTask

(* A stored resource of a task is at the path its request names.           *)
LEMMA CreatedAt ==
    ASSUME PathInv, TasksPlaced, NEW t \in Task, task[t].pc # "idle",
           NEW r \in resources, HasTypeRow(typeRows, r), IsRowOf(r, task[t].node),
           task[t].req.rn # NoName
    PROVE  StoredAt(Append(task[t].req.to, task[t].req.rn))
<1> PICK n, q : n = task[t].node /\ q = task[t].req
  OBVIOUS
<1>1. n.rn = q.rn
  BY DEF TasksPlaced, Placed, NamesOf
<1>2. PICK p \in resources : HasTypeRow(typeRows, p) /\ p.ri = n.pi /\ p.path = q.to
  BY DEF TasksPlaced, Placed
<1>3. r.path = Append(p.path, r.rn)
  BY <1>2 DEF PathInv, RowPaths, UnderStored, TreeInv, RowKeys, IsRowOf, HasTypeRow
<1> QED  BY <1>1, <1>2, <1>3 DEF StoredAt, IsRowOf

(* A retrieve is answered neither CREATED nor CONFLICT.                    *)
LEMMA RetrieveCodes ==
    ASSUME TypeInv, NEW q, NEW a \in RetrieveAnswers(q)
    PROVE  a.code \notin {"CREATED", "CONFLICT"}
<1>1. ASSUME NEW n \in RetrieveFound(q), Refused(RetrieveChecks(q, n))
      PROVE  RefusalCode(RetrieveChecks(q, n)) \notin Answers
  <2>1. n \in Node
    <3>1. \E target : n \in Load(target)
      BY DEF RetrieveFound, GetCSEBase, CSEBases, Load
    <3> QED  BY <3>1, LoadType DEF Load, TypeInv, TypeOK
  <2> QED  BY <1>1, <2>1, RetrievePasses, RefusedIsError
<1>2. \/ a = Answer(q, "BAD_REQUEST", Null) \/ a = Answer(q, "NOT_FOUND", Null)
      \/ \E n \in RetrieveFound(q) :
            a = IF Refused(RetrieveChecks(q, n))
                  THEN Answer(q, RefusalCode(RetrieveChecks(q, n)), Null)
                  ELSE Answer(q, "OK", (CHOOSE c \in Returned(n, q.to) : TRUE).ri)
  BY DEF RetrieveAnswers
<1> QED  BY <1>1, <1>2 DEF Answer, Answers

(* What an answer says is there stays there while it is the last one.      *)
LEMMA ReplyStoredStep ==
    ASSUME NoIdClash, Reliable, ByPath, PlacesInv, Whole, [Next]_vars
    PROVE  ReplyStored'
<1>0. /\ PathInv /\ TreeInv /\ TypeInv /\ LookupInv /\ PowerOffSilent /\ SavesLast
      /\ RowsNamed /\ BusyHasId /\ DeliversSaved
  BY DEF PlacesInv, RowInv, LookupInv, DeliveryInv, CheckedInv, TreeInv, PathInv
<1>1. ASSUME NEW path, StoredAt(path), power = "on" PROVE StoredAt(path)'
  <2>1. PICK r \in resources : HasTypeRow(typeRows, r) /\ r.path = path
    BY <1>1 DEF StoredAt
  <2>2. r \in resources' /\ HasTypeRow(typeRows', r)
    BY <1>0, <1>1, <2>1, WholeRowStays
  <2> QED  BY <2>1, <2>2 DEF StoredAt
<1>2. ASSUME NEW q, NEW code, SaysStored(code, q), power = "on"
      PROVE  SaysStored(code, q)'
  BY <1>1, <1>2 DEF SaysStored
<1>3. ASSUME UNCHANGED reply PROVE ReplyStored'
  <2>1. CASE power = "off"
    BY <1>0, <1>3, <2>1 DEF PowerOffSilent, ReplyStored
  <2>2. CASE power = "on" /\ reply # NoReply
    <3> PICK q, code : q = reply.req /\ code = reply.code
      OBVIOUS
    <3>1. SaysStored(code, q)'
      BY <1>2, <2>2 DEF PlacesInv, ReplyStored
    <3> QED  BY <1>3, <3>1 DEF ReplyStored
  <2> QED  BY <1>0, <1>3, <2>1, <2>2 DEF TypeInv, TypeOK, ReplyStored
<1>4. ASSUME NEW q, NEW code, Replied(q, code), SaysStored(code, q), power = "on"
      PROVE  ReplyStored'
  <2>1. SaysStored(code, q)'
    BY <1>2, <1>4
  <2> QED  BY <1>4, <2>1 DEF Replied, ReplyStored
<1>5. ASSUME NEW q, NEW code, Replied(q, code), code \notin {"CREATED", "CONFLICT"}
      PROVE  ReplyStored'
  BY <1>5 DEF Replied, ReplyStored, SaysStored
<1>6. ASSUME NEW t \in Task, FinishCreate(t), Replied(task[t].req, "CREATED")
      PROVE  ReplyStored'
  <2>1. task[t].pc = "notify" /\ power = "on"
    BY <1>6 DEF FinishCreate, Runs
  <2>2. task[t].node \in Stored(resources, typeRows)
    BY <1>0, <2>1 DEF DeliversSaved, Delivers
  <2>3. PICK r \in resources : HasTypeRow(typeRows, r) /\ IsRowOf(r, task[t].node)
    BY <2>2 DEF Stored, NodeOf, IsRowOf
  <2> PICK q : q = task[t].req
    OBVIOUS
  <2>4. q.rn # NoName => StoredAt(Append(q.to, q.rn))
    BY <1>0, <2>1, <2>3, CreatedAt DEF PlacesInv
  <2>5. q \in CreateRequests
    BY <2>1 DEF PlacesInv, TasksPlaced, Placed
  <2>6. SaysStored("CREATED", q)
    BY <2>4, <2>5 DEF SaysStored
  <2> QED  BY <1>4, <1>6, <2>1, <2>6
<1>7. ASSUME NEW t \in Task, InsertDetail(t), Replied(task[t].req, "CREATED")
      PROVE  ReplyStored'
  <2>1. task[t].pc = "detail" /\ power = "on" /\ UNCHANGED resources
    BY <1>7 DEF InsertDetail, Runs
  <2> PICK q, n : q = task[t].req /\ n = task[t].node
    OBVIOUS
  <2>2. PICK r \in resources : IsRowOf(r, n)
    BY <1>0, <2>1 DEF SavesLast
  <2>3. HasTypeRow(typeRows', r)
    BY <1>7, <2>2, DetailSaved DEF PlacesInv
  <2>4. q \in CreateRequests /\ (q.rn # NoName => n.rn = q.rn)
    BY <2>1 DEF PlacesInv, TasksPlaced, Placed, NamesOf
  <2>5. PICK p \in resources : HasTypeRow(typeRows, p) /\ p.ri = n.pi /\ p.path = q.to
    BY <2>1 DEF PlacesInv, TasksPlaced, Placed
  <2>6. r.path = Append(q.to, r.rn) /\ r.rn = n.rn
    BY <1>0, <2>2, <2>5 DEF PathInv, RowPaths, UnderStored, TreeInv, RowKeys, IsRowOf, HasTypeRow
  <2>7. q.rn # NoName => StoredAt(Append(q.to, q.rn))'
    BY <2>1, <2>2, <2>3, <2>4, <2>6 DEF StoredAt
  <2> QED  BY <1>7, <2>4, <2>7 DEF Replied, ReplyStored, SaysStored
<1>8. ASSUME NEW t \in Task, NEW q \in CreateRequests, RefuseCreate(t, q),
             Replied(q, "CONFLICT"), q.ty = "AE",
             NEW p \in Parent(q), ExistsResourceByParentAndName(resources, p.ri, q.rn)
      PROVE  ReplyStored'
  <2>1. power = "on" /\ cpu = Free
    BY <1>8 DEF RefuseCreate, Scheduled
  <2>2. PICK x \in resources : x.pi = p.ri /\ x.rn = q.rn
    BY <1>8 DEF ExistsResourceByParentAndName
  <2>3. PICK r \in resources : HasTypeRow(typeRows, r) /\ r.ri = p.ri /\ r.path = q.to
    BY <1>0, <1>8, ParentAt DEF PlacesInv
  <2>4. HasTypeRow(typeRows, x)
    BY <1>0, <2>1, TaskAssumption DEF Whole, SavesLast
  <2>5. x.path = Append(q.to, q.rn)
    BY <1>0, <2>2, <2>3 DEF PathInv, RowPaths, UnderStored, TreeInv, RowKeys, HasTypeRow
  <2>6. q.rn # NoName
    BY <1>0, <2>2, IdentAssumption DEF TypeInv, TypeOK, Row
  <2>7. SaysStored("CONFLICT", q)
    BY <1>8, <2>4, <2>5, <2>6 DEF SaysStored, StoredAt
  <2> QED  BY <1>4, <1>8, <2>1, <2>7
<1>9. ASSUME NEW t \in Task, Create(t) PROVE ReplyStored'
  BY <1>3, <1>5, <1>6, <1>7, <1>8, <1>9, CreateReplies DEF Answers
<1>10. ASSUME NEW t \in Task, NEW q \in RetrieveRequests, Retrieve(t, q)
       PROVE  ReplyStored'
  <2>1. PICK a : a = reply' /\ (a \in RetrieveAnswers(q) \/ a \in ReadFailures(q))
    BY <1>10 DEF Retrieve
  <2>2. a.code \notin {"CREATED", "CONFLICT"}
    BY <1>0, <2>1, RetrieveCodes, ReadFailureCodes DEF Answers
  <2> QED  BY <1>5, <2>1, <2>2 DEF Replied
<1>11. ASSUME \E clean \in CleanOnBoot : Boot(clean) PROVE ReplyStored'
  BY <1>3, <1>11 DEF Boot
<1>12. ASSUME PowerLoss PROVE ReplyStored'
  BY <1>12 DEF PowerLoss, ReplyStored
<1>13. UNCHANGED vars => UNCHANGED reply
  BY DEF vars, history
<1> QED  BY <1>3, <1>9, <1>10, <1>11, <1>12, <1>13 DEF Next

(* Initially there are no rows, no busy tasks and no answer.               *)
LEMMA PlacesInvInit == Init => PlacesInv
<1> SUFFICES ASSUME Init PROVE PlacesInv
  OBVIOUS
<1>1. RowInv /\ DeliversSaved
  BY RowInvInit, SavedInvInit DEF SavedInv
<1>2. resources = {} /\ reply = NoReply /\ \A t \in Task : task[t].pc = "idle"
  BY DEF Init, Idle
<1> QED  BY <1>1, <1>2
         DEF PlacesInv, RowidsDistinct, RowsRequested, TasksPlaced, ReplyStored

(* Each part of the invariant is kept; only what CONFLICT says needs       *)
(* resources to be whole.                                                  *)
LEMMA PlacesInvStep ==
    ASSUME NoIdClash, Reliable, NoNameClash, ByPath, "id" \notin Faults, PlacesInv, Whole,
           [Next]_vars
    PROVE  PlacesInv'
<1>1. RowInv' /\ PathInv /\ LookupInv /\ BusyNamed /\ TreeInv
  BY RowInvStep DEF PlacesInv, RowInv, CheckedInv, PathInv, LookupInv
<1>2. DeliversSaved'
  BY DeliversSavedStep DEF PlacesInv, RowInv
<1>3. RowidsDistinct' /\ RowsRequested' /\ TasksPlaced'
  BY <1>1, RowidsDistinctStep, RowsRequestedStep, TasksPlacedStep DEF PlacesInv
<1> QED  BY <1>1, <1>2, <1>3, ReplyStoredStep DEF PlacesInv

(* As long as no failure has left half a resource, a container that was    *)
(* created under a name is found under the path of its parent and that     *)
(* name.                                                                   *)
THEOREM CreatedIsFound ==
    ASSUME NoIdClash, Reliable, NoNameClash, ByPath, NamesApart, "id" \notin Faults
    PROVE  Spec /\ []Whole => []CreatedIsReachable
<1>1. PlacesInv /\ Whole => CreatedIsReachable
  <2> SUFFICES ASSUME PlacesInv, Whole, Answered("CREATED"), reply.req.ty = "Container",
                      reply.req.rn # NoName
               PROVE  \E n \in NamedResource(reply.req) : n.ty = "Container"
    BY DEF CreatedIsReachable
  <2> PICK q : q = reply.req
    OBVIOUS
  <2>1. q \in CreateRequests /\ StoredAt(Append(q.to, q.rn))
    BY DEF PlacesInv, ReplyStored, SaysStored, Answered
  <2> QED  BY <2>1, FoundAtPath DEF PlacesInv, RowInv
<1>2. PlacesInv /\ Whole /\ [Next]_vars => PlacesInv'
  BY PlacesInvStep
<1> QED  BY <1>1, <1>2, PlacesInvInit, PTL DEF Spec

(* As long as no failure has left half a resource, CONFLICT means that an  *)
(* AE is there under the name.                                             *)
THEOREM ConflictsAreRegistered ==
    ASSUME NoIdClash, Reliable, NoNameClash, ByPath, NamesApart, "id" \notin Faults
    PROVE  Spec /\ []Whole => []ConflictMeansRegistered
<1>1. PlacesInv /\ Whole => ConflictMeansRegistered
  <2> SUFFICES ASSUME PlacesInv, Whole, Answered("CONFLICT")
               PROVE  \E n \in NamedResource(reply.req) : n.ty = "AE"
    BY DEF ConflictMeansRegistered
  <2> PICK q : q = reply.req
    OBVIOUS
  <2>1. q \in CreateRequests /\ q.ty = "AE" /\ q.rn # NoName
        /\ StoredAt(Append(q.to, q.rn))
    BY DEF PlacesInv, ReplyStored, SaysStored, Answered
  <2> QED  BY <2>1, FoundAtPath DEF PlacesInv, RowInv
<1>2. PlacesInv /\ Whole /\ [Next]_vars => PlacesInv'
  BY PlacesInvStep
<1> QED  BY <1>1, <1>2, PlacesInvInit, PTL DEF Spec

(* Together with RowsStayWhole, both hold outright when nothing fails.     *)
COROLLARY AnswersAreTrue ==
    ASSUME NoIdClash, Reliable, NoNameClash, ByPath, NamesApart, "id" \notin Faults, NoFailures
    PROVE  Spec => [](CreatedIsReachable /\ ConflictMeansRegistered)
  BY CreatedIsFound, ConflictsAreRegistered, RowsStayWhole, PTL

=============================================================================
