--------------------------- MODULE CseServiceProofs ---------------------------
(***************************************************************************)
(* Theorems about CseService for every number of tasks, every set of       *)
(* requests and every bound.                                               *)
(***************************************************************************)
EXTENDS CseService, ResourceStoreProofs, SequenceTheorems

(* A task that serves a create holds the request and the resource it is    *)
(* to save.                                                                *)
BusyHasNode ==
    \A t \in Task : task[t].pc # "idle" =>
                      task[t].node \in Node /\ task[t].req \in CreateRequests

(* TypeOK as it is is not inductive: what a save writes depends on the     *)
(* node its task holds and on the last row of the table.                   *)
TypeInv ==
    /\ TypeOK
    /\ BusyHasNode
    /\ IsFiniteSet(resources)
    /\ HasLastRow(resources)
    /\ \A b \in backup : IsFiniteSet(b.resources) /\ HasLastRow(b.resources)

(* The part of it that is about the database.                              *)
TablesOK ==
    /\ nextId \in 1 .. MaxId + 1
    /\ resources \subseteq Row /\ typeRows \subseteq TypeRow
    /\ IsFiniteSet(resources) /\ HasLastRow(resources)
    /\ backup \subseteq [nextId : 1 .. MaxId + 1, resources : SUBSET Row,
                         typeRows : SUBSET TypeRow]
    /\ \A b \in backup : IsFiniteSet(b.resources) /\ HasLastRow(b.resources)

TasksOK == task \in [Task -> TaskState] /\ BusyHasNode

-----------------------------------------------------------------------------
(* Facts about the helpers of the actions.                                 *)

LEMMA IdleType == Idle \in TaskState
<1>1. << >> \in Agenda
  BY DEF Agenda
<1> QED  BY <1>1 DEF Idle, TaskState

(* A task that continues keeps its request and its node.                   *)
LEMMA ResumeType ==
    ASSUME TasksOK, NEW t \in Task, task[t].pc # "idle",
           NEW pc \in {"verify", "awaitVerification", "insert", "detail",
                       "notify", "awaitPeer", "hung"},
           NEW agenda \in Agenda, Resume(t, pc, agenda)
    PROVE  TasksOK'
<1>1. task' = [task EXCEPT ![t] = [task[t] EXCEPT !.pc = pc, !.agenda = agenda]]
  BY DEF Resume, TasksOK
<1>2. task[t] \in TaskState /\ task[t].node \in Node /\ task[t].req \in CreateRequests
  BY DEF TasksOK, BusyHasNode
<1> DEFINE next == [task[t] EXCEPT !.pc = pc, !.agenda = agenda]
<1>3. next \in TaskState /\ next.node \in Node /\ next.req \in CreateRequests
  BY <1>2 DEF TaskState
<1> HIDE DEF next
<1>4. task' \in [Task -> TaskState]
  BY <1>1, <1>3 DEF TasksOK, next
<1>5. BusyHasNode'
  BY <1>1, <1>3 DEF TasksOK, BusyHasNode, next
<1> QED  BY <1>4, <1>5 DEF TasksOK

(* An answer ends what the task was doing.                                 *)
LEMMA ReplyType ==
    ASSUME TasksOK, NEW t \in Task, acked \subseteq Node,
           NEW q, NEW code, NEW n \in Node \cup {NoNode},
           Reply(t, q, code, n)
    PROVE  TasksOK' /\ cpu' = Free /\ acked' \subseteq Node
<1>1. task' = [task EXCEPT ![t] = Idle] /\ Idle \in TaskState /\ Idle.pc = "idle"
  BY IdleType DEF Reply, Idle
<1>2. TasksOK'
  BY <1>1 DEF TasksOK, BusyHasNode
<1> QED  BY <1>2 DEF Reply

(* The URIs of a subscription are work for the network.                    *)
LEMMA UriItemsType ==
    ASSUME NEW n \in Node, n.ty = "Subscription"
    PROVE  UriItems(n) \in Agenda
<1>1. n.attr.nu \in Seq(HttpUri \cup Ident)
  BY DEF Node, NodeOfType, Attr
<1>2. \A i \in DOMAIN n.attr.nu : n.attr.nu[i] \in Ident \cup HttpUri \cup {Null}
  BY <1>1
<1>3. n.ri \in Ident \cup {Null}
  BY DEF Node, NodeOfType
<1>4. PICK m \in Nat : DOMAIN n.attr.nu = 1 .. m
  BY <1>1
<1> QED  BY <1>2, <1>3, <1>4 DEF UriItems, Agenda

(* So are the subscriptions of the parent.                                 *)
LEMMA SubscriptionItemsType ==
    ASSUME TypeInv, NEW n
    PROVE  SubscriptionItems(n) \subseteq Agenda
<1> DEFINE rows == LoadPrimitiveContentChildren(resources, <<n.pi>>, "Subscription")
<1>1. rows \subseteq resources
  BY DEF LoadPrimitiveContentChildren, ChildRows
<1>2. IsFiniteSet(rows) /\ rows \subseteq Row
  BY <1>1, FS_Subset DEF TypeInv, TypeOK
<1> HIDE DEF rows
<1>3. SUFFICES ASSUME NEW seq \in InRowOrder(rows)
               PROVE  [k \in DOMAIN seq |-> [what |-> "sub", sub |-> seq[k].ri, arg |-> Null]]
                        \in Agenda
  <2>1. << >> \in Agenda
    BY DEF Agenda
  <2> QED  BY <2>1 DEF SubscriptionItems, rows
<1>4. seq \in Seq(rows)
  BY <1>2, InRowOrderType
<1>5. \A k \in DOMAIN seq : seq[k].ri \in Ident \cup {Null}
  BY <1>2, <1>4 DEF Row
<1>6. PICK m \in Nat : DOMAIN seq = 1 .. m
  BY <1>4
<1> QED  BY <1>5, <1>6 DEF Agenda

(* The third check of five stays the third one when checks are appended.   *)
LEMMA ThirdOfFive ==
    ASSUME NEW T, NEW a \in T, NEW b \in T, NEW c \in T, NEW d \in T, NEW e \in T,
           NEW rest \in Seq(T)
    PROVE  /\ 3 \in DOMAIN (<<a, b, c, d, e>> \o rest)
           /\ (<<a, b, c, d, e>> \o rest)[3] = c
<1> DEFINE s == <<a, b, c, d, e>>
<1>1. s \in Seq(T) /\ Len(s) = 5 /\ s[3] = c
  OBVIOUS
<1> HIDE DEF s
<1>2. Len(rest) \in Nat
  OBVIOUS
<1>5. /\ s \o rest \in Seq(T)
      /\ Len(s \o rest) = Len(s) + Len(rest)
      /\ \A i \in 1 .. Len(s) + Len(rest) :
           (s \o rest)[i] = IF i <= Len(s) THEN s[i] ELSE rest[i - Len(s)]
  BY <1>1, ConcatProperties
<1>3. 3 \in 1 .. Len(s \o rest) /\ DOMAIN (s \o rest) = 1 .. Len(s \o rest)
  BY <1>1, <1>2, <1>5
<1>4. (s \o rest)[3] = s[3]
  BY <1>1, <1>2, <1>5
<1> QED  BY <1>1, <1>3, <1>4 DEF s

(* A create without an originator is refused, unless it is for an AE.      *)
LEMMA AcceptedHasOriginator ==
    ASSUME NEW q \in CreateRequests, NEW failed,
           ~ Refused(ChecksBeforeId(q, failed)), q.ty # "AE"
    PROVE  q.from # NoFrom
<1> DEFINE
  containers == {p \in Parent(q) : p.ty = "Container"}
  a == [when |-> ~ ready \/ GetCSEBase = {} \/ "base" \in failed,
        code |-> "INTERNAL_SERVER_ERROR"]
  b == [when |-> WrongSpId(q), code |-> "NOT_FOUND"]
  c == [when |-> (q.from = NoFrom /\ q.ty # "AE") \/ q.flaw = "request",
        code |-> "BAD_REQUEST"]
  d == [when |-> Parent(q) = {} \/ "parent" \in failed, code |-> "NOT_FOUND"]
  e == [when |-> \E p \in Parent(q) : p.ty \notin ParentTypes(q.ty),
        code |-> "INVALID_CHILD_RESOURCE_TYPE"]
  f == [when |-> q.flaw = "content", code |-> "BAD_REQUEST"]
  g == [when |-> "size" \in failed /\ \E p \in containers : p.attr.mbs # 0,
        code |-> "INTERNAL_SERVER_ERROR"]
  h == [when |-> \E p \in containers : OverByteSize(q, p), code |-> "NOT_ACCEPTABLE"]
  i == [when |-> \E p \in containers : OverInstances(p, failed), code |-> "NOT_ACCEPTABLE"]
  rest == IF q.ty = "ContentInstance" THEN <<f, g, h, i>> ELSE << >>
<1>1. ChecksBeforeId(q, failed) = <<a, b, c, d, e>> \o rest
  <2>1. CASE q.ty = "ContentInstance"
    BY <2>1 DEF ChecksBeforeId, TargetChecks
  <2>2. CASE q.ty # "ContentInstance"
    BY <2>2 DEF ChecksBeforeId, TargetChecks
  <2> QED  BY <2>1, <2>2
<1>2. c.when = ((q.from = NoFrom /\ q.ty # "AE") \/ q.flaw = "request")
  BY Zenon
<1> HIDE DEF a, b, c, d, e, f, g, h, i
<1>3. rest \in Seq({a, b, c, d, e, f, g, h, i})
  <2>1. /\ <<f, g, h, i>> \in Seq({a, b, c, d, e, f, g, h, i})
        /\ << >> \in Seq({a, b, c, d, e, f, g, h, i})
    OBVIOUS
  <2> QED  BY <2>1
<1>4. 3 \in DOMAIN ChecksBeforeId(q, failed) /\ ChecksBeforeId(q, failed)[3] = c
  <2> HIDE DEF rest
  <2> QED  BY <1>1, <1>3, ThirdOfFive
<1>5. ~ c.when
  BY <1>4 DEF Refused
<1> QED  BY <1>2, <1>5

(* What AcceptCreate prepares is a resource.                               *)
LEMMA NewNodeType ==
    ASSUME NEW q \in CreateRequests, NEW failed,
           ~ Refused(ChecksBeforeId(q, failed)), NEW p \in Node,
           nextId \in 1 .. MaxId, NEW id \in {ResourceId[nextId], Null}
    PROVE  NewNode(q, p, id) \in Node /\ NewNode(q, p, id).ty = q.ty
<1> DEFINE ri == IF OwnStem(q) THEN q.from ELSE id
           rn == IF q.rn = NoName THEN DefaultName(q.ty, ri) ELSE q.rn
           attr == CASE q.ty = "AE" -> [q.attr EXCEPT !.aei = ri]
                    [] q.ty = "Subscription" ->
                         [q.attr EXCEPT !.cr =
                            IF @ # Null \/ \E i \in DOMAIN q.attr.nu : q.attr.nu[i] # q.from
                              THEN q.from ELSE Null]
                    [] OTHER -> q.attr
<1>1. NewNode(q, p, id) = [ri |-> ri, ty |-> q.ty, pi |-> p.ri, rn |-> rn, attr |-> attr]
  BY DEF NewNode, NameOf
<1>2. /\ q \in CreateRequest
      /\ q.ty \in {"AE", "Container", "ContentInstance", "Subscription"}
      /\ q.from \in Ident \cup {NoFrom} /\ q.rn \in Ident \cup {NoName}
      /\ q.attr \in Attr[q.ty]
  BY RequestAssumption DEF CreateRequest, CreateRequestOf
<1>3. id \in Ident \cup {Null}
  BY GeneratedIdAssumption
<1>4. ri \in Ident \cup {Null}
  BY <1>2, <1>3 DEF OwnStem
<1>5. rn \in Ident
  <2>1. ri \in ({r.from : r \in CreateRequests} \ {NoFrom})
               \cup {ResourceId[n] : n \in 1 .. MaxId} \cup {Null}
    BY <1>2 DEF OwnStem
  <2>2. DefaultName(q.ty, ri) \in Ident
    BY <1>2, <2>1, GeneratedIdAssumption DEF ResourceType
  <2> QED  BY <1>2, <2>2
<1>6. attr \in Attr[q.ty]
  <2>1. CASE q.ty = "AE"
    BY <1>2, <1>4, <2>1 DEF Attr
  <2>2. CASE q.ty = "Subscription"
    <3>1. q.from \in Ident
      BY <1>2, <2>2, AcceptedHasOriginator
    <3>2. attr = [q.attr EXCEPT !.cr =
                    IF @ # Null \/ \E i \in DOMAIN q.attr.nu : q.attr.nu[i] # q.from
                      THEN q.from ELSE Null]
      BY <2>2
    <3> QED  BY <1>2, <2>2, <3>1, <3>2 DEF Attr
  <2>3. CASE q.ty \notin {"AE", "Subscription"}
    BY <1>2, <2>3
  <2> QED  BY <2>1, <2>2, <2>3
<1>7. p.ri \in Ident \cup {Null}
  BY DEF Node, NodeOfType
<1> HIDE DEF ri, rn, attr
<1>8. [ri |-> ri, ty |-> q.ty, pi |-> p.ri, rn |-> rn, attr |-> attr] \in NodeOfType(q.ty)
  BY <1>4, <1>5, <1>6, <1>7 DEF NodeOfType
<1> QED  BY <1>1, <1>2, <1>8 DEF Node

-----------------------------------------------------------------------------
(* The actions.  Each lemma says of some of them that they keep TypeInv.   *)

(* A step keeps TypeInv when it keeps the types of the database and of the *)
(* tasks.                                                                  *)
LEMMA StepType ==
    ASSUME TypeInv, TablesOK', TasksOK', cpu' \in Task \cup {Free}, acked' \subseteq Node,
           UNCHANGED <<power, ready, spId, boots, sent>>
    PROVE  TypeInv'
  BY DEF TypeInv, TypeOK, TasksOK, TablesOK

(* A step that leaves the database alone.                                  *)
LEMMA SameDatabaseType ==
    ASSUME TypeInv, TasksOK', cpu' \in Task \cup {Free}, acked' \subseteq Node,
           nextId' \in 1 .. MaxId + 1,
           UNCHANGED <<resources, typeRows, backup, power, ready, spId, boots, sent>>
    PROVE  TypeInv'
  BY DEF TypeInv, TypeOK, TasksOK

(* What a transaction that is left open would go back to are tables.       *)
LEMMA BegunType ==
    ASSUME TypeInv
    PROVE  /\ Begun \subseteq [nextId : 1 .. MaxId + 1, resources : SUBSET Row,
                               typeRows : SUBSET TypeRow]
           /\ \A b \in Begun : IsFiniteSet(b.resources) /\ HasLastRow(b.resources)
  BY DEF TypeInv, TypeOK, Begun, Tables

LEMMA RollbackType ==
    ASSUME TypeInv, Rollback
    PROVE  TablesOK'
<1>1. PICK b \in Begun : nextId' = b.nextId /\ resources' = b.resources
                         /\ typeRows' = b.typeRows
  BY DEF Rollback
<1>2. backup' = {}
  BY DEF Rollback
<1> QED  BY <1>1, <1>2, BegunType DEF TablesOK

(* However the generation of an ID ends.                                   *)
LEMMA GetIdType ==
    ASSUME TypeInv, nextId <= MaxId, NEW id, GetId(id)
    PROVE  TablesOK'
<1>1. MaxId \in Nat /\ nextId + 1 \in 1 .. MaxId + 1
  BY GeneratedIdAssumption DEF TypeInv, TypeOK
<1>2. CASE Rollback
  BY <1>2, RollbackType
<1>3. CASE nextId' = nextId + 1 /\ backup' \in {{}, Begun} /\ UNCHANGED <<resources, typeRows>>
  BY <1>1, <1>3, BegunType DEF TablesOK, TypeInv, TypeOK
<1>4. CASE backup' = Begun /\ UNCHANGED <<nextId, resources, typeRows>>
  BY <1>4, BegunType DEF TablesOK, TypeInv, TypeOK
<1> QED  BY <1>2, <1>3, <1>4 DEF GetId

(* A request arrives.                                                      *)
LEMMA ArrivalType ==
    ASSUME TypeInv, NEW t \in Task, NEW q \in CreateRequests,
           RefuseCreate(t, q) \/ RefuseCreateAfterId(t, q) \/ AcceptCreate(t, q)
    PROVE  TypeInv'
<1>1. TasksOK /\ acked \subseteq Node /\ nextId \in 1 .. MaxId + 1 /\ MaxId \in Nat
  BY GeneratedIdAssumption DEF TypeInv, TasksOK, TypeOK
<1>2. CASE RefuseCreate(t, q)
  <2>1. PICK failed \in Failing :
          Reply(t, q, RefusalCode(ChecksBeforeId(q, failed)), NoNode)
    BY <1>2 DEF RefuseCreate
  <2>2. TasksOK' /\ cpu' = Free /\ acked' \subseteq Node
    BY <1>1, <2>1, ReplyType
  <2>3. UNCHANGED <<nextId, resources, typeRows, backup, power, ready, spId, boots, sent>>
    BY <1>2 DEF RefuseCreate, db
  <2> QED  BY <1>1, <2>2, <2>3, SameDatabaseType
<1>3. CASE RefuseCreateAfterId(t, q)
  <2>1. PICK failed \in Failing :
          Reply(t, q, RefusalCode(ChecksAfterId(q, failed, resources', typeRows')), NoNode)
    BY <1>3 DEF RefuseCreateAfterId
  <2>2. TasksOK' /\ cpu' = Free /\ acked' \subseteq Node
    BY <1>1, <2>1, ReplyType
  <2>3. TablesOK'
    BY <1>3, GetIdType DEF RefuseCreateAfterId
  <2>4. UNCHANGED <<power, ready, spId, boots, sent>>
    BY <1>3 DEF RefuseCreateAfterId
  <2> QED  BY <2>2, <2>3, <2>4, StepType
<1>4. CASE AcceptCreate(t, q)
  <2>1. PICK failed \in Failing, p \in Parent(q), id \in {ResourceId[nextId], Null} :
          /\ ~ Refused(ChecksBeforeId(q, failed))
          /\ GetId(id)
          /\ task' = [task EXCEPT ![t] =
                [req |-> q, node |-> NewNode(q, p, id),
                 pc |-> IF q.ty = "Subscription" THEN "verify" ELSE "insert",
                 agenda |-> IF q.ty = "Subscription" THEN UriItems(NewNode(q, p, id))
                                                     ELSE << >>]]
    BY <1>4 DEF AcceptCreate
  <2>2. nextId \in 1 .. MaxId /\ TablesOK'
    BY <1>1, <1>4, <2>1, GetIdType DEF AcceptCreate
  <2>3. p \in Node
    BY LoadType DEF Parent, Load, TypeInv, TypeOK
  <2>4. NewNode(q, p, id) \in Node /\ NewNode(q, p, id).ty = q.ty
    BY <2>1, <2>2, <2>3, NewNodeType
  <2> DEFINE n == NewNode(q, p, id)
             items == IF q.ty = "Subscription" THEN UriItems(n) ELSE << >>
             next == [req |-> q, node |-> n,
                      pc |-> IF q.ty = "Subscription" THEN "verify" ELSE "insert",
                      agenda |-> items]
  <2>5. items \in Agenda
    <3>1. << >> \in Agenda
      BY DEF Agenda
    <3> QED  BY <2>4, <3>1, UriItemsType
  <2>6. task' = [task EXCEPT ![t] = next]
    BY <2>1
  <2> HIDE DEF n, items
  <2>7. next \in TaskState /\ next.node \in Node /\ next.req \in CreateRequests
    BY <2>4, <2>5 DEF TaskState, n
  <2> HIDE DEF next
  <2>8. TasksOK'
    BY <1>1, <2>6, <2>7 DEF TasksOK, BusyHasNode
  <2>9. /\ cpu' \in Task \cup {Free} /\ acked' \subseteq Node
        /\ UNCHANGED <<power, ready, spId, boots, sent>>
    BY <1>1, <1>4 DEF AcceptCreate, history
  <2> QED  BY <2>2, <2>8, <2>9, StepType
<1> QED  BY <1>2, <1>3, <1>4

(* A task that waits on its agenda continues with what is left of it.      *)
LEMMA TailType ==
    ASSUME NEW agenda \in Agenda, agenda # << >>
    PROVE  /\ Tail(agenda) \in Agenda
           /\ Head(agenda).what \in {"sub", "uri", "post"}
           /\ Head(agenda).sub \in Ident \cup {Null}
           /\ Head(agenda).arg \in Ident \cup HttpUri \cup {Null}
<1> DEFINE Item == [what : {"sub", "uri", "post"}, sub : Ident \cup {Null},
                    arg : Ident \cup HttpUri \cup {Null}]
<1>1. agenda \in Seq(Item)
  BY DEF Agenda
<1>2. Head(agenda) \in Item /\ Tail(agenda) \in Seq(Item)
  <2> HIDE DEF Item
  <2> QED  BY <1>1, HeadTailProperties
<1> QED  BY <1>2 DEF Agenda

(* The verification of a subscription.                                     *)
LEMMA VerificationType ==
    ASSUME TypeInv, NEW t \in Task,
           VerifySubscription(t) \/ VerificationAnswered(t) \/ VerificationFails(t)
    PROVE  TypeInv'
<1>1. TasksOK /\ acked \subseteq Node /\ nextId \in 1 .. MaxId + 1
  BY DEF TypeInv, TasksOK, TypeOK
<1>2. task[t].agenda \in Agenda /\ << >> \in Agenda
  <2>1. << >> \in Agenda
    BY DEF Agenda
  <2> QED  BY <1>1, <2>1 DEF TasksOK, TaskState
<1>3. CASE VerifySubscription(t)
  <2>1. task[t].pc # "idle" /\ cpu = t /\ Tail(task[t].agenda) \in Agenda
    BY <1>3, <1>2, TailType DEF VerifySubscription, Runs
  <2>2. \/ Resume(t, "insert", << >>)
        \/ Resume(t, "verify", Tail(task[t].agenda))
        \/ Resume(t, "awaitVerification", Tail(task[t].agenda))
    BY <1>3 DEF VerifySubscription
  <2>3. TasksOK'
    BY <1>1, <1>2, <2>1, <2>2, ResumeType
  <2>4. cpu' \in Task \cup {Free}
    BY <1>3, <2>1 DEF VerifySubscription
  <2>5. UNCHANGED <<nextId, resources, typeRows, backup, power, ready, spId, boots, sent, acked>>
    BY <1>3 DEF VerifySubscription, db, history
  <2> QED  BY <1>1, <2>3, <2>4, <2>5, SameDatabaseType
<1>4. CASE VerificationAnswered(t)
  <2>1. Resume(t, "insert", << >>) \/ Resume(t, "verify", task[t].agenda)
    BY <1>4 DEF VerificationAnswered
  <2>2. TasksOK'
    BY <1>1, <1>4, <1>2, <2>1, ResumeType DEF VerificationAnswered
  <2>3. /\ cpu' = t
        /\ UNCHANGED <<nextId, resources, typeRows, backup, power, ready, spId, boots, sent, acked>>
    BY <1>4 DEF VerificationAnswered, db, history
  <2> QED  BY <1>1, <2>2, <2>3, SameDatabaseType
<1>5. CASE VerificationFails(t)
  <2>1. TasksOK' /\ cpu' = Free /\ acked' \subseteq Node
    BY <1>1, <1>5, ReplyType DEF VerificationFails
  <2>2. UNCHANGED <<nextId, resources, typeRows, backup, power, ready, spId, boots, sent>>
    BY <1>5 DEF VerificationFails, db
  <2> QED  BY <1>1, <2>1, <2>2, SameDatabaseType
<1> QED  BY <1>3, <1>4, <1>5

(* The first row of a resource.                                            *)
LEMMA RowType ==
    ASSUME TypeInv, NEW t \in Task,
           InsertRow(t) \/ HangInPathQuery(t) \/ InsertRowFails(t)
    PROVE  TypeInv'
<1>1. /\ TasksOK /\ acked \subseteq Node /\ nextId \in 1 .. MaxId + 1
      /\ cpu \in Task \cup {Free} /\ << >> \in Agenda
  BY DEF TypeInv, TasksOK, TypeOK, Agenda
<1>2. CASE InsertRow(t)
  <2>1. task[t].pc # "idle" /\ task[t].node \in Node
    BY <1>1, <1>2 DEF InsertRow, Runs, TasksOK, BusyHasNode
  <2>2. task[t].node.rn \in Ident
    BY <2>1 DEF Node, NodeOfType
  <2>3. resources \in SUBSET Row /\ HasLastRow(resources) /\ IsFiniteSet(resources)
    BY DEF TypeInv, TypeOK
  <2>4. PICK path \in PathsFor(resources, task[t].node.pi, task[t].node.rn) :
          resources' = InsertResources(resources, task[t].node, path)
    BY <1>2 DEF InsertRow
  <2>5. path \in Seq(Ident)
    BY <2>2, <2>3, PathsForType
  <2>6. resources' \subseteq Row /\ IsFiniteSet(resources') /\ HasLastRow(resources')
    BY <2>1, <2>3, <2>4, <2>5, InsertResourcesType
  <2>7. TasksOK'
    BY <1>1, <1>2, <2>1, ResumeType DEF InsertRow
  <2>8. UNCHANGED <<nextId, typeRows, backup, power, ready, spId, cpu, boots, acked, sent>>
    BY <1>2 DEF InsertRow, history
  <2> QED  BY <2>6, <2>7, <2>8 DEF TypeInv, TypeOK, TasksOK
<1>3. CASE HangInPathQuery(t)
  <2>1. TasksOK'
    BY <1>1, <1>3, ResumeType DEF HangInPathQuery, Runs
  <2>2. UNCHANGED <<nextId, resources, typeRows, backup, power, ready, spId, cpu, boots,
                    acked, sent>>
    BY <1>3 DEF HangInPathQuery, db, history
  <2> QED  BY <1>1, <2>1, <2>2, SameDatabaseType
<1>4. CASE InsertRowFails(t)
  <2>1. TasksOK' /\ cpu' = Free /\ acked' \subseteq Node
    BY <1>1, <1>4, ReplyType DEF InsertRowFails
  <2>2. UNCHANGED <<power, ready, spId, boots, sent>>
    BY <1>4 DEF InsertRowFails
  <2>3. CASE Rollback
    BY <2>1, <2>2, <2>3, RollbackType, StepType
  <2>4. CASE UNCHANGED db
    BY <1>1, <2>1, <2>2, <2>4, SameDatabaseType DEF db
  <2> QED  BY <1>4, <2>3, <2>4 DEF InsertRowFails
<1> QED  BY <1>2, <1>3, <1>4

(* The second row of a resource.                                           *)
LEMMA DetailType ==
    ASSUME TypeInv, NEW t \in Task, InsertDetail(t) \/ InsertDetailFails(t)
    PROVE  TypeInv'
<1>1. /\ TasksOK /\ acked \subseteq Node /\ nextId \in 1 .. MaxId + 1
      /\ cpu \in Task \cup {Free}
  BY DEF TypeInv, TasksOK, TypeOK
<1>2. CASE InsertDetail(t)
  <2>1. task[t].pc # "idle" /\ task[t].node \in Node
    BY <1>1, <1>2 DEF InsertDetail, Runs, TasksOK, BusyHasNode
  <2>2. typeRows' \subseteq TypeRow
    BY <1>2, <2>1, InsertTypeRowType DEF InsertDetail, TypeInv, TypeOK
  <2>3. TasksOK' /\ cpu' \in Task \cup {Free} /\ acked' \subseteq Node
    <3>1. CASE task[t].node.ty = "Subscription"
      <4>1. Reply(t, task[t].req, "CREATED", task[t].node)
        BY <1>2, <3>1 DEF InsertDetail
      <4> QED  BY <1>1, <2>1, <4>1, ReplyType
    <3>2. CASE task[t].node.ty # "Subscription"
      <4>1. /\ \E items \in SubscriptionItems(task[t].node) : Resume(t, "notify", items)
            /\ UNCHANGED <<cpu, acked>>
        BY <1>2, <3>2 DEF InsertDetail
      <4>2. SubscriptionItems(task[t].node) \subseteq Agenda
        BY SubscriptionItemsType
      <4>3. TasksOK'
        BY <1>1, <2>1, <4>1, <4>2, ResumeType
      <4> QED  BY <1>1, <4>1, <4>3
    <3> QED  BY <3>1, <3>2
  <2>4. UNCHANGED <<nextId, resources, backup, power, ready, spId, boots, sent>>
    BY <1>2 DEF InsertDetail
  <2> QED  BY <2>2, <2>3, <2>4 DEF TypeInv, TypeOK, TasksOK
<1>3. CASE InsertDetailFails(t)
  <2>1. TasksOK' /\ cpu' = Free /\ acked' \subseteq Node
    BY <1>1, <1>3, ReplyType DEF InsertDetailFails
  <2>2. UNCHANGED <<power, ready, spId, boots, sent>>
    BY <1>3 DEF InsertDetailFails
  <2>3. CASE Rollback
    BY <2>1, <2>2, <2>3, RollbackType, StepType
  <2>4. CASE UNCHANGED db
    BY <1>1, <2>1, <2>2, <2>4, SameDatabaseType DEF db
  <2> QED  BY <1>3, <2>3, <2>4 DEF InsertDetailFails
<1> QED  BY <1>2, <1>3

(* New work goes before the work that is left.                             *)
LEMMA ConcatAgenda ==
    ASSUME NEW work \in Agenda, NEW rest \in Agenda
    PROVE  work \o rest \in Agenda
  BY ConcatProperties DEF Agenda

(* What a URI is expanded to is work for the network.                      *)
LEMMA PostItemsType ==
    ASSUME TypeInv, NEW uri, NEW originator, NEW sub \in Ident \cup {Null}
    PROVE  LET poas == PointsOfAccess(uri, originator)
           IN  [i \in DOMAIN poas |-> [what |-> "post", sub |-> sub, arg |-> poas[i]]] \in Agenda
<1> DEFINE poas == PointsOfAccess(uri, originator)
           ae == {a \in Load(<<uri>>) : /\ uri \in StemIds /\ a.ty = "AE"
                                        /\ a.attr.rr /\ a.attr.aei = originator}
<1>1. poas \in Seq(HttpUri)
  <2>1. CASE uri \in HttpUri
    <3>1. poas = <<uri>>
      BY <2>1 DEF PointsOfAccess
    <3> QED  BY <2>1, <3>1
  <2>2. CASE uri \notin HttpUri /\ ae # {}
    <3>1. PICK a \in ae : poas = a.attr.poa
      BY <2>2 DEF PointsOfAccess
    <3>2. a \in Node /\ a.ty = "AE"
      BY <3>1, LoadType DEF Load, TypeInv, TypeOK
    <3>3. a.attr.poa \in Seq(HttpUri)
      BY <3>2 DEF Node, NodeOfType, Attr
    <3> QED  BY <3>1, <3>3
  <2>3. CASE uri \notin HttpUri /\ ae = {}
    <3>1. poas = << >>
      BY <2>3 DEF PointsOfAccess
    <3> QED  BY <3>1
  <2> QED  BY <2>1, <2>2, <2>3
<1> HIDE DEF poas
<1>2. PICK m \in Nat : DOMAIN poas = 1 .. m
  BY <1>1
<1>3. \A i \in DOMAIN poas : poas[i] \in HttpUri
  BY <1>1
<1> QED  BY <1>2, <1>3 DEF Agenda, poas

(* The deliveries, and the answer after the last one.                      *)
LEMMA NotificationType ==
    ASSUME TypeInv, NEW t \in Task,
           \/ SendNotification(t) \/ SkipDelivery(t)
           \/ NotificationAnswered(t) \/ FinishCreate(t)
    PROVE  TypeInv'
<1>1. TasksOK /\ acked \subseteq Node /\ nextId \in 1 .. MaxId + 1
  BY DEF TypeInv, TasksOK, TypeOK
<1>2. task[t].agenda \in Agenda /\ << >> \in Agenda
  <2>1. << >> \in Agenda
    BY DEF Agenda
  <2> QED  BY <1>1, <2>1 DEF TasksOK, TaskState
<1>3. CASE SendNotification(t)
  <2> DEFINE item == Head(task[t].agenda)
             rest == Tail(task[t].agenda)
  <2>1. /\ task[t].pc # "idle" /\ cpu = t
        /\ task[t].node \in Node
    BY <1>1, <1>3 DEF SendNotification, Runs, TasksOK, BusyHasNode
  <2>2. /\ rest \in Agenda
        /\ item.sub \in Ident \cup {Null} /\ item.arg \in Ident \cup HttpUri \cup {Null}
    BY <1>2, <1>3, TailType DEF SendNotification
  <2>3. /\ ExpandSubscription(t, item) \/ ExpandUri(t, item) \/ Post(t, item)
        /\ UNCHANGED <<nextId, resources, typeRows, backup, power, ready, spId, boots, acked>>
    BY <1>3 DEF SendNotification, db
  <2> HIDE DEF item, rest
  <2>4. CASE ExpandSubscription(t, item)
    <3> DEFINE wanted == {s \in Load(<<item.sub>>) :
                            s.ty = "Subscription" /\ MatchesCriteria(s, task[t].node)}
               work == IF wanted = {} THEN << >> ELSE UriItems(CHOOSE s \in wanted : TRUE)
    <3>1. work \in Agenda
      <4>1. wanted \subseteq Node
        BY LoadType DEF Load, TypeInv, TypeOK
      <4>2. CASE wanted # {}
        <5>1. PICK s \in wanted : work = UriItems(s)
          BY <4>2
        <5> QED  BY <4>1, <5>1, UriItemsType
      <4> QED  BY <1>2, <4>2
    <3>2. Resume(t, "notify", work \o rest) /\ UNCHANGED <<cpu, sent>>
      BY <2>4 DEF ExpandSubscription, rest
    <3> HIDE DEF work
    <3>3. TasksOK'
      BY <1>1, <2>1, <2>2, <3>1, <3>2, ConcatAgenda, ResumeType
    <3>4. cpu' \in Task \cup {Free} /\ acked' \subseteq Node
      BY <1>1, <2>1, <2>3, <3>2
    <3> QED  BY <1>1, <2>3, <3>2, <3>3, <3>4, SameDatabaseType
  <2>5. CASE ExpandUri(t, item)
    <3> DEFINE poas == PointsOfAccess(item.arg, task[t].req.from)
               work == [i \in DOMAIN poas |->
                          [what |-> "post", sub |-> item.sub, arg |-> poas[i]]]
    <3>1. work \in Agenda
      BY <2>2, PostItemsType
    <3>2. Resume(t, "notify", work \o rest) /\ UNCHANGED <<cpu, sent>>
      BY <2>5 DEF ExpandUri, rest
    <3> HIDE DEF work
    <3>3. TasksOK'
      BY <1>1, <2>1, <2>2, <3>1, <3>2, ConcatAgenda, ResumeType
    <3>4. cpu' \in Task \cup {Free} /\ acked' \subseteq Node
      BY <1>1, <2>1, <2>3, <3>2
    <3> QED  BY <1>1, <2>3, <3>2, <3>3, <3>4, SameDatabaseType
  <2>6. CASE Post(t, item)
    <3>1. TasksOK'
      BY <1>1, <2>1, <2>2, <2>6, ResumeType DEF Post, rest
    <3>2. task[t].node.ri \in Ident \cup {Null}
      BY <2>1 DEF Node, NodeOfType
    <3>3. sent' = sent \cup {[about |-> task[t].node.ri, sub |-> item.sub, to |-> item.arg]}
          /\ cpu' = Free
      BY <2>6 DEF Post
    <3> QED  BY <2>2, <2>3, <3>1, <3>2, <3>3 DEF TypeInv, TypeOK, TasksOK
  <2> QED  BY <2>3, <2>4, <2>5, <2>6
<1>4. CASE NotificationAnswered(t)
  <2>1. TasksOK'
    BY <1>1, <1>2, <1>4, ResumeType DEF NotificationAnswered
  <2>2. /\ cpu' = t
        /\ UNCHANGED <<nextId, resources, typeRows, backup, power, ready, spId, boots, sent, acked>>
    BY <1>4 DEF NotificationAnswered, db, history
  <2> QED  BY <1>1, <2>1, <2>2, SameDatabaseType
<1>5. CASE FinishCreate(t)
  <2>1. task[t].node \in Node
    BY <1>1, <1>5 DEF FinishCreate, Runs, TasksOK, BusyHasNode
  <2>2. TasksOK' /\ cpu' = Free /\ acked' \subseteq Node
    BY <1>1, <1>5, <2>1, ReplyType DEF FinishCreate
  <2>3. UNCHANGED <<nextId, resources, typeRows, backup, power, ready, spId, boots, sent>>
    BY <1>5 DEF FinishCreate, db
  <2> QED  BY <1>1, <2>2, <2>3, SameDatabaseType
<1>6. CASE SkipDelivery(t)
  <2>1. /\ task[t].pc # "idle" /\ cpu = t /\ Tail(task[t].agenda) \in Agenda
        /\ Resume(t, "notify", Tail(task[t].agenda))
    BY <1>2, <1>6, TailType DEF SkipDelivery, Runs
  <2>2. TasksOK'
    BY <1>1, <2>1, ResumeType
  <2>3. UNCHANGED <<nextId, resources, typeRows, backup, power, ready, spId, cpu, boots,
                    sent, acked>>
    BY <1>6 DEF SkipDelivery, db, history
  <2> QED  BY <1>1, <2>1, <2>2, <2>3, SameDatabaseType
<1> QED  BY <1>3, <1>4, <1>5, <1>6

(* The first boot, a restart and a clean start.                            *)
LEMMA BootType ==
    ASSUME TypeInv, NEW clean \in CleanOnBoot, Boot(clean)
    PROVE  TypeInv'
<1> DEFINE rs == IF clean THEN {} ELSE resources
           ts == IF clean THEN {} ELSE typeRows
<1>1. rs \in SUBSET Row /\ ts \in SUBSET TypeRow /\ IsFiniteSet(rs) /\ HasLastRow(rs)
  BY FS_EmptySet DEF TypeInv, TypeOK, HasLastRow
<1>2. CSEBaseNode \in Node /\ <<CseName>> \in Seq(Ident)
  BY IdentAssumption DEF CSEBaseNode, Node, NodeOfType, Attr
<1>3. nextId' \in 1 .. MaxId + 1
  BY GeneratedIdAssumption DEF Boot, Initialize, TypeInv, TypeOK
<1>4. ready' \in BOOLEAN /\ spId' \in {Null, SpId}
  BY DEF Boot, Initialize, TypeInv, TypeOK
<1>5. /\ resources' = rs \/ resources' = InsertResources(rs, CSEBaseNode, <<CseName>>)
      /\ typeRows' = ts \/ typeRows' = InsertTypeRow(ts, CSEBaseNode)
  BY DEF Boot, Initialize
<1>10. /\ backup' \subseteq [nextId : 1 .. MaxId + 1, resources : SUBSET Row,
                            typeRows : SUBSET TypeRow]
       /\ \A b \in backup' : IsFiniteSet(b.resources) /\ HasLastRow(b.resources)
  <2>1. backup' \subseteq {Tables(nextId', rs, ts)}
    BY DEF Boot, Initialize
  <2> HIDE DEF rs, ts
  <2> QED  BY <1>1, <1>3, <2>1 DEF Tables
<1> HIDE DEF rs, ts
<1>6. resources' \subseteq Row /\ IsFiniteSet(resources') /\ HasLastRow(resources')
  BY <1>1, <1>2, <1>5, InsertResourcesType
<1>7. typeRows' \subseteq TypeRow
  BY <1>1, <1>2, <1>5, InsertTypeRowType
<1>8. power' = "on" /\ boots' \in 0 .. MaxBoots
  BY BootAssumption DEF Boot, TypeInv, TypeOK
<1>9. UNCHANGED <<cpu, task>> /\ acked' \subseteq acked /\ sent' \subseteq sent
  BY DEF Boot, Forget
<1> QED  BY <1>3, <1>4, <1>6, <1>7, <1>8, <1>9, <1>10 DEF TypeInv, TypeOK, BusyHasNode

LEMMA PowerLossType ==
    ASSUME TypeInv, PowerLoss
    PROVE  TypeInv'
<1>1. task' = [t \in Task |-> Idle] /\ Idle \in TaskState /\ Idle.pc = "idle"
  BY IdleType DEF PowerLoss, Idle
<1>2. /\ power' = "off" /\ ready' = FALSE /\ spId' = Null /\ cpu' = Free
      /\ UNCHANGED <<boots, acked, sent>> /\ TablesOK'
  BY RollbackType DEF PowerLoss
<1>3. task' \in [Task -> TaskState] /\ BusyHasNode'
  BY <1>1 DEF BusyHasNode
<1> QED  BY <1>2, <1>3 DEF TypeInv, TypeOK, TablesOK

(* TypeInv is inductive.                                                   *)
LEMMA TypeInvInit == Init => TypeInv
<1> SUFFICES ASSUME Init PROVE TypeInv
  OBVIOUS
<1>1. Idle \in TaskState /\ Idle.pc = "idle"
  BY IdleType DEF Idle
<1>2. task \in [Task -> TaskState] /\ BusyHasNode
  BY <1>1 DEF Init, BusyHasNode
<1>3. nextId \in 1 .. MaxId + 1 /\ boots \in 0 .. MaxBoots
  BY GeneratedIdAssumption, BootAssumption DEF Init
<1>4. IsFiniteSet(resources) /\ HasLastRow(resources)
  BY FS_EmptySet DEF Init, HasLastRow
<1> QED  BY <1>2, <1>3, <1>4 DEF Init, TypeInv, TypeOK

LEMMA TypeInvStep == TypeInv /\ [Next]_vars => TypeInv'
<1> SUFFICES ASSUME TypeInv, [Next]_vars PROVE TypeInv'
  OBVIOUS
<1>1. CASE \E t \in Task : Create(t)
  <2>1. PICK t \in Task : Create(t)
    BY <1>1
  <2> QED  BY <2>1, ArrivalType, VerificationType, RowType, DetailType, NotificationType
           DEF Create
<1>2. CASE \E t \in Task, q \in RetrieveRequests : Retrieve(t, q)
  BY <1>2 DEF Retrieve, TypeInv, TypeOK, BusyHasNode, db, ram
<1>3. CASE \E clean \in CleanOnBoot : Boot(clean)
  BY <1>3, BootType
<1>4. CASE PowerLoss
  BY <1>4, PowerLossType
<1>5. CASE UNCHANGED vars
  BY <1>5 DEF TypeInv, TypeOK, BusyHasNode, vars, db, ram, history
<1> QED  BY <1>1, <1>2, <1>3, <1>4, <1>5 DEF Next

-----------------------------------------------------------------------------
(* Every reachable state has the types TypeOK names, whatever power        *)
(* failures, faults and interleavings led to it.                           *)
THEOREM TypeCorrect == Spec => []TypeOK
<1>1. TypeInv => TypeOK
  BY DEF TypeInv
<1> QED  BY <1>1, TypeInvInit, TypeInvStep, PTL DEF Spec

=============================================================================
