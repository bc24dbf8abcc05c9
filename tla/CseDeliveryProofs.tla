-------------------------- MODULE CseDeliveryProofs --------------------------
(***************************************************************************)
(* Notifications are about resources that are stored, and go through       *)
(* subscriptions that are stored, although they are delivered while other  *)
(* tasks create and power may fail after every one of them; every          *)
(* subscriber is notified before a create is answered; and what was        *)
(* answered CREATED is found by its ID for ever.                           *)
(*                                                                         *)
(* The provisions of the tree hold here too, and the sequence of IDs can   *)
(* be advanced; a resource that is saved without an ID is notified, but    *)
(* can never be looked up.  The last two theorems have one more, that no   *)
(* resource is named like an ID, and that every subscriber is notified     *)
(* needs the loads of the deliveries to succeed: the code passes over one  *)
(* that fails in silence.                                                  *)
(***************************************************************************)
EXTENDS CseTreeProofs

(* The invariant.  What a task still has to deliver was expanded from      *)
(* subscriptions that were stored, and those never go away.                *)

StoredId(i) == \E n \in Stored(resources, typeRows) : n.ri = i

StoredSub(i) == \E n \in Stored(resources, typeRows) : n.ri = i /\ n.ty = "Subscription"

Item == [what : {"sub", "uri", "post"}, sub : Ident \cup {Null},
         arg : Ident \cup HttpUri \cup {Null}]

Deliverable == {i \in Item : i.what = "sub" \/ StoredSub(i.sub)}

Delivers(t) == task[t].pc \in {"notify", "awaitPeer"}

BusyHasId == \A t \in Task : task[t].pc # "idle" => task[t].node.ri # Null

DeliversStored ==
    \A t \in Task : Delivers(t) =>
        StoredId(task[t].node.ri) /\ task[t].agenda \in Seq(Deliverable)

DeliveryInv == TreeInv /\ BusyHasId /\ DeliversStored /\ NotifiedIsStored

-----------------------------------------------------------------------------
(* No step but a clean start takes a stored resource away.                 *)

LEMMA StoredStays ==
    ASSUME NoIdClash, Reliable, TreeInv, [Next]_vars, power = "on"
    PROVE  Stored(resources, typeRows) \subseteq Stored(resources', typeRows')
<1>1. TreeStep
  BY TreeInvStep
<1> QED  BY <1>1 DEF TreeStep, Tree!Next, Tree!Create, Tree!Start, Tree!Stop

(* A step that sends nothing keeps the invariant, when each task that      *)
(* delivers after it did so before, with the same work.                    *)
KeepsOn(t) ==
    /\ task'[t].pc # "idle" => task[t].pc # "idle" /\ task'[t].node = task[t].node
    /\ Delivers(t)' => Delivers(t) /\ task'[t].agenda = task[t].agenda

LEMMA Monotone ==
    ASSUME Stored(resources, typeRows) \subseteq Stored(resources', typeRows')
    PROVE  /\ \A i : StoredId(i) => StoredId(i)'
           /\ \A i : StoredSub(i) => StoredSub(i)'
           /\ Seq(Deliverable) \subseteq Seq(Deliverable')
<1>1. \A i : StoredId(i) => StoredId(i)'
  BY DEF StoredId
<1>2. \A i : StoredSub(i) => StoredSub(i)'
  BY DEF StoredSub
<1>3. Deliverable \subseteq Deliverable'
  BY <1>2 DEF Deliverable
<1>4. Seq(Deliverable) \subseteq Seq(Deliverable')
  <2> SUFFICES ASSUME NEW s \in Seq(Deliverable) PROVE s \in Seq(Deliverable')
    OBVIOUS
  <2>1. PICK m \in Nat : s \in [1 .. m -> Deliverable]
    OBVIOUS
  <2>2. s \in [1 .. m -> Deliverable']
    BY <1>3, <2>1
  <2> QED  BY <2>2
<1> QED  BY <1>1, <1>2, <1>4

(* What a subscription stands for, and what a URI of it stands for, can be *)
(* delivered when the subscription is stored.                              *)
LEMMA AgendaDeliverable ==
    ASSUME NEW work \in Agenda,
           \A i \in DOMAIN work : work[i].what = "sub" \/ StoredSub(work[i].sub)
    PROVE  work \in Seq(Deliverable)
<1>1. work \in Seq(Item)
  BY DEF Agenda, Item
<1>2. PICK m \in Nat : work \in [1 .. m -> Item]
  BY <1>1
<1>3. work \in [1 .. m -> Deliverable]
  BY <1>2 DEF Deliverable
<1> QED  BY <1>3

LEMMA NotifiedStays ==
    ASSUME NotifiedIsStored, UNCHANGED sent,
           Stored(resources, typeRows) \subseteq Stored(resources', typeRows')
    PROVE  NotifiedIsStored'
  BY DEF NotifiedIsStored

LEMMA KeepOnStep ==
    ASSUME NoIdClash, Reliable, DeliveryInv, [Next]_vars, UNCHANGED sent,
           Stored(resources, typeRows) \subseteq Stored(resources', typeRows'),
           \A t \in Task : KeepsOn(t)
    PROVE  DeliveryInv'
<1>1. TreeInv'
  BY TreeInvStep DEF DeliveryInv
<1>2. BusyHasId'
  BY DEF DeliveryInv, BusyHasId, KeepsOn
<1>3. DeliversStored'
  <2> SUFFICES ASSUME NEW t \in Task, Delivers(t)'
               PROVE  StoredId(task[t].node.ri)' /\ (task[t].agenda \in Seq(Deliverable))'
    BY DEF DeliversStored
  <2>1. Delivers(t) /\ task'[t].agenda = task[t].agenda /\ task'[t].node = task[t].node
    BY DEF KeepsOn, Delivers
  <2>2. StoredId(task[t].node.ri) /\ task[t].agenda \in Seq(Deliverable)
    BY <2>1 DEF DeliveryInv, DeliversStored
  <2>3. StoredId(task[t].node.ri)'
    BY <2>1, <2>2 DEF StoredId
  <2>4. Seq(Deliverable) \subseteq Seq(Deliverable')
    BY Monotone
  <2> QED  BY <2>1, <2>2, <2>3, <2>4
<1> QED  BY <1>1, <1>2, <1>3, NotifiedStays DEF DeliveryInv

LEMMA ReplyKeepsOn ==
    ASSUME TypeInv, NEW t \in Task, NEW q, NEW code, NEW n, Reply(t, q, code, n)
    PROVE  \A u \in Task : KeepsOn(u)
<1>1. task' = [task EXCEPT ![t] = Idle] /\ task \in [Task -> TaskState]
  BY DEF Reply, TypeInv, TypeOK
<1>2. task'[t].pc = "idle" /\ \A u \in Task : u # t => task'[u] = task[u]
  BY <1>1 DEF Idle
<1> QED  BY <1>2 DEF KeepsOn, Delivers

LEMMA ResumeKeepsOn ==
    ASSUME TypeInv, NEW t \in Task, task[t].pc # "idle", NEW pc, NEW agenda,
           Resume(t, pc, agenda),
           pc \in {"notify", "awaitPeer"} => Delivers(t) /\ agenda = task[t].agenda
    PROVE  \A u \in Task : KeepsOn(u)
<1>1. task' = [task EXCEPT ![t] = [task[t] EXCEPT !.pc = pc, !.agenda = agenda]]
      /\ task \in [Task -> TaskState]
  BY DEF Resume, TypeInv, TypeOK
<1>2. task'[t].pc = pc /\ task'[t].node = task[t].node /\ task'[t].agenda = agenda
  BY <1>1 DEF TaskState
<1>3. \A u \in Task : u # t => task'[u] = task[u]
  BY <1>1
<1> QED  BY <1>2, <1>3 DEF KeepsOn, Delivers

-----------------------------------------------------------------------------
(* The actions of a create.                                                *)

(* Every action of a create but the three that follow: a new task, the     *)
(* start of the deliveries and the deliveries.                             *)
LEMMA OtherCreateSteps ==
    ASSUME NoIdClash, Reliable, DeliveryInv, [Next]_vars, NEW t \in Task,
           \/ \E q \in CreateRequests : RefuseCreate(t, q) \/ RefuseCreateAfterId(t, q)
           \/ VerifySubscription(t) \/ VerificationAnswered(t) \/ VerificationFails(t)
           \/ InsertRow(t) \/ HangInPathQuery(t) \/ InsertRowFails(t)
           \/ InsertDetailFails(t) \/ NotificationAnswered(t) \/ FinishCreate(t)
    PROVE  DeliveryInv'
<1>1. TypeInv /\ UNCHANGED sent /\ power = "on"
  BY DEF DeliveryInv, TreeInv, RefuseCreate, RefuseCreateAfterId, VerifySubscription,
         VerificationAnswered, VerificationFails, InsertRow, HangInPathQuery, InsertRowFails,
         InsertDetailFails, NotificationAnswered, FinishCreate, Runs, Scheduled, history
<1>2. Stored(resources, typeRows) \subseteq Stored(resources', typeRows')
  BY <1>1, StoredStays DEF DeliveryInv
<1>3. CASE \/ \E q \in CreateRequests : RefuseCreate(t, q) \/ RefuseCreateAfterId(t, q)
           \/ VerificationFails(t) \/ InsertRowFails(t) \/ InsertDetailFails(t)
           \/ FinishCreate(t)
  <2>1. \E q, code, n : Reply(t, q, code, n)
    BY <1>3 DEF RefuseCreate, RefuseCreateAfterId, VerificationFails, InsertRowFails,
                InsertDetailFails, FinishCreate
  <2> QED  BY <1>1, <1>2, <2>1, ReplyKeepsOn, KeepOnStep
<1>4. CASE VerifySubscription(t)
  <2>1. \/ Resume(t, "insert", << >>)
        \/ Resume(t, "verify", Tail(task[t].agenda))
        \/ Resume(t, "awaitVerification", Tail(task[t].agenda))
    BY <1>4 DEF VerifySubscription
  <2>2. task[t].pc # "idle"
    BY <1>4 DEF VerifySubscription, Runs
  <2> QED  BY <1>1, <1>2, <2>1, <2>2, ResumeKeepsOn, KeepOnStep
<1>5. CASE VerificationAnswered(t)
  <2>1. Resume(t, "insert", << >>) \/ Resume(t, "verify", task[t].agenda)
    BY <1>5 DEF VerificationAnswered
  <2>2. task[t].pc # "idle"
    BY <1>5 DEF VerificationAnswered
  <2> QED  BY <1>1, <1>2, <2>1, <2>2, ResumeKeepsOn, KeepOnStep
<1>6. CASE InsertRow(t) \/ HangInPathQuery(t)
  <2>1. \E pc \in {"detail", "hung"} : Resume(t, pc, << >>)
    BY <1>6 DEF InsertRow, HangInPathQuery
  <2>2. task[t].pc # "idle"
    BY <1>6 DEF InsertRow, HangInPathQuery, Runs
  <2> QED  BY <1>1, <1>2, <2>1, <2>2, ResumeKeepsOn, KeepOnStep
<1>7. CASE NotificationAnswered(t)
  <2>1. Resume(t, "notify", task[t].agenda) /\ Delivers(t) /\ task[t].pc # "idle"
    BY <1>7 DEF NotificationAnswered, Delivers
  <2> QED  BY <1>1, <1>2, <2>1, ResumeKeepsOn, KeepOnStep
<1> QED  BY <1>3, <1>4, <1>5, <1>6, <1>7

LEMMA AcceptDelivery ==
    ASSUME NoIdClash, Reliable, "id" \notin Faults, DeliveryInv, [Next]_vars,
           NEW t \in Task, NEW q \in CreateRequests, AcceptCreate(t, q)
    PROVE  DeliveryInv'
<1>1. TreeInv' /\ UNCHANGED <<resources, typeRows, sent>> /\ nextId \in 1 .. MaxId
  <2>1. nextId <= MaxId /\ UNCHANGED sent /\ \E id : GetId(id)
    BY DEF AcceptCreate, history
  <2>2. UNCHANGED <<resources, typeRows>>
    BY <2>1, GetIdReliable DEF DeliveryInv
  <2> QED  BY <2>1, <2>2, TreeInvStep, GeneratedIdAssumption
           DEF DeliveryInv, TreeInv, TypeInv, TypeOK
<1>2. PICK p \in Parent(q), id \in {ResourceId[nextId], Null} :
        /\ GetId(id)
        /\ task' = [task EXCEPT ![t] =
              [req |-> q, node |-> NewNode(q, p, id),
               pc |-> IF q.ty = "Subscription" THEN "verify" ELSE "insert",
               agenda |-> IF q.ty = "Subscription" THEN UriItems(NewNode(q, p, id))
                                                   ELSE << >>]]
  BY DEF AcceptCreate
<1>3. NewNode(q, p, id).ri # Null
  <2>1. id = ResourceId[nextId] /\ id # Null
    BY <1>1, <1>2, GeneratedIdAssumption, NullAssumption DEF GetId, Reliable
  <2>2. OwnStem(q) => q.from # Null
    BY RequestAssumption, NullAssumption DEF OwnStem, CreateRequest, CreateRequestOf
  <2> QED  BY <2>1, <2>2 DEF NewNode
<1>4. /\ task'[t].node = NewNode(q, p, id) /\ ~ Delivers(t)'
      /\ \A u \in Task : u # t => task'[u] = task[u]
  BY <1>2 DEF DeliveryInv, TreeInv, TypeInv, TypeOK, Delivers
<1>5. BusyHasId'
  BY <1>3, <1>4 DEF DeliveryInv, BusyHasId
<1>6. Seq(Deliverable) \subseteq Seq(Deliverable') /\ \A i : StoredId(i) => StoredId(i)'
  BY <1>1, Monotone
<1>7. DeliversStored'
  <2> SUFFICES ASSUME NEW u \in Task, Delivers(u)'
               PROVE  StoredId(task[u].node.ri)' /\ (task[u].agenda \in Seq(Deliverable))'
    BY DEF DeliversStored
  <2>1. Delivers(u) /\ task'[u] = task[u]
    BY <1>4 DEF Delivers
  <2>2. StoredId(task[u].node.ri) /\ task[u].agenda \in Seq(Deliverable)
    BY <2>1 DEF DeliveryInv, DeliversStored
  <2>3. StoredId(task[u].node.ri)'
    BY <1>1, <2>1, <2>2 DEF StoredId
  <2> QED  BY <1>6, <2>1, <2>2, <2>3
<1>8. NotifiedIsStored'
  BY <1>1, NotifiedStays DEF DeliveryInv
<1> QED  BY <1>1, <1>5, <1>7, <1>8 DEF DeliveryInv

(* A task starts or continues its deliveries.                              *)
LEMMA DeliverStep ==
    ASSUME NoIdClash, Reliable, DeliveryInv, [Next]_vars,
           Stored(resources, typeRows) \subseteq Stored(resources', typeRows'),
           NEW t \in Task, task[t].pc # "idle", NEW pc, NEW agenda, Resume(t, pc, agenda),
           \E m \in Stored(resources', typeRows') : m.ri = task[t].node.ri,
           agenda \in Seq(Deliverable'), NotifiedIsStored'
    PROVE  DeliveryInv'
<1>1. task' = [task EXCEPT ![t] = [task[t] EXCEPT !.pc = pc, !.agenda = agenda]]
      /\ task \in [Task -> TaskState]
  BY DEF Resume, DeliveryInv, TreeInv, TypeInv, TypeOK
<1>2. task'[t].node = task[t].node /\ task'[t].agenda = agenda
  BY <1>1 DEF TaskState
<1>3. \A u \in Task : u # t => task'[u] = task[u]
  BY <1>1
<1>4. BusyHasId'
  BY <1>2, <1>3 DEF DeliveryInv, BusyHasId
<1>5. DeliversStored'
  <2> SUFFICES ASSUME NEW u \in Task, Delivers(u)'
               PROVE  StoredId(task[u].node.ri)' /\ (task[u].agenda \in Seq(Deliverable))'
    BY DEF DeliversStored
  <2>1. CASE u = t
    BY <1>2, <2>1 DEF StoredId
  <2>2. CASE u # t
    <3>1. Delivers(u) /\ task'[u] = task[u]
      BY <1>3, <2>2 DEF Delivers
    <3>2. StoredId(task[u].node.ri) /\ task[u].agenda \in Seq(Deliverable)
      BY <3>1 DEF DeliveryInv, DeliversStored
    <3>3. StoredId(task[u].node.ri)'
      BY <3>1, <3>2 DEF StoredId
    <3> QED  BY <3>1, <3>2, <3>3, Monotone
  <2> QED  BY <2>1, <2>2
<1> QED  BY <1>4, <1>5, TreeInvStep DEF DeliveryInv

(* The second row is saved, and the subscriptions are to be loaded.        *)
LEMMA DetailDelivery ==
    ASSUME NoIdClash, Reliable, DeliveryInv, [Next]_vars, NEW t \in Task, InsertDetail(t)
    PROVE  DeliveryInv'
<1> DEFINE n == task[t].node
<1>1. UNCHANGED sent /\ power = "on" /\ task[t].pc = "detail" /\ UNCHANGED resources
  BY DEF InsertDetail, Runs
<1>2. Stored(resources, typeRows) \subseteq Stored(resources', typeRows')
  BY <1>1, StoredStays DEF DeliveryInv
<1>3. CASE n.ty = "Subscription"
  <2>1. Reply(t, task[t].req, "CREATED", n)
    BY <1>3 DEF InsertDetail
  <2> QED  BY <1>1, <1>2, <2>1, ReplyKeepsOn, KeepOnStep DEF DeliveryInv, TreeInv
<1>4. CASE n.ty # "Subscription"
  <2>1. PICK items \in SubscriptionItems(n) : Resume(t, "notify", items)
    BY <1>4 DEF InsertDetail
  <2>2. items \in Seq(Deliverable')
    <3>1. items \in Agenda
      BY <2>1, SubscriptionItemsType DEF DeliveryInv, TreeInv
    <3>2. \A k \in DOMAIN items : items[k].what = "sub"
      BY <2>1 DEF SubscriptionItems
    <3>3. items \in Seq(Deliverable)
      BY <3>1, <3>2, AgendaDeliverable
    <3> QED  BY <1>2, <3>3, Monotone
  <2>3. \E m \in Stored(resources', typeRows') : m.ri = n.ri
    <3>1. n \in Node /\ Unused(typeRows, n.ri) /\ n.ri # Null
      BY <1>1 DEF DeliveryInv, BusyHasId, TreeInv, TypeInv, BusyHasNode, PendingFresh, Pending
    <3>2. PICK r \in resources : IsRowOf(r, n)
      BY <1>1 DEF DeliveryInv, TreeInv, PendingFresh, Pending
    <3>3. typeRows' = InsertTypeRow(typeRows, n)
      BY DEF InsertDetail
    <3>4. n \in Stored(resources', typeRows')
      BY <1>1, <3>1, <3>2, <3>3, SecondRowSaved DEF DeliveryInv, TreeInv
    <3> QED  BY <3>4
  <2>4. NotifiedIsStored'
    BY <1>1, <1>2, NotifiedStays DEF DeliveryInv
  <2> QED  BY <1>1, <1>2, <2>1, <2>2, <2>3, <2>4, DeliverStep
<1> QED  BY <1>3, <1>4

(* A delivery: work is replaced by the work it stands for, or posted.      *)
LEMMA SendDelivery ==
    ASSUME NoIdClash, Reliable, DeliveryInv, [Next]_vars, NEW t \in Task, SendNotification(t)
    PROVE  DeliveryInv'
<1> DEFINE n == task[t].node
           item == Head(task[t].agenda)
           rest == Tail(task[t].agenda)
<1>1. /\ task[t].pc = "notify" /\ task[t].agenda # << >>
      /\ UNCHANGED <<resources, typeRows>>
  BY DEF SendNotification, Runs, db
<1>2. StoredId(n.ri) /\ task[t].agenda \in Seq(Deliverable)
  BY <1>1 DEF DeliveryInv, DeliversStored, Delivers
<1>3. item \in Deliverable /\ rest \in Seq(Deliverable)
  BY <1>1, <1>2
<1>4. /\ Deliverable' = Deliverable
      /\ \E m \in Stored(resources', typeRows') : m.ri = n.ri
  BY <1>1, <1>2 DEF Deliverable, StoredSub, StoredId
<1>5. ASSUME NEW work \in Seq(Deliverable), Resume(t, "notify", work \o rest), UNCHANGED sent
      PROVE  DeliveryInv'
  <2>1. work \o rest \in Seq(Deliverable)
    BY <1>3, ConcatProperties
  <2>2. NotifiedIsStored'
    BY <1>1, <1>5, NotifiedStays DEF DeliveryInv
  <2> QED  BY <1>1, <1>4, <1>5, <2>1, <2>2, DeliverStep
<1>6. CASE ExpandSubscription(t, item)
  <2> DEFINE wanted == {s \in Load(<<item.sub>>) :
                          s.ty = "Subscription" /\ MatchesCriteria(s, n)}
             work == IF wanted = {} THEN << >> ELSE UriItems(CHOOSE s \in wanted : TRUE)
  <2>1. work \in Seq(Deliverable)
    <3>1. CASE wanted = {}
      BY <3>1
    <3>2. CASE wanted # {}
      <4>1. PICK s \in wanted : work = UriItems(s)
        BY <3>2
      <4>2. s \in Stored(resources, typeRows) /\ s.ty = "Subscription" /\ s \in Node
        BY LoadType DEF Load, LoadPrimitiveContentByTarget, FirstMatch, Stored,
                        DeliveryInv, TreeInv, TypeInv, TypeOK
      <4>3. StoredSub(s.ri) /\ UriItems(s) \in Agenda
        BY <4>2, UriItemsType DEF StoredSub
      <4>4. \A i \in DOMAIN UriItems(s) : UriItems(s)[i].sub = s.ri
        BY DEF UriItems
      <4> QED  BY <4>1, <4>3, <4>4, AgendaDeliverable
    <3> QED  BY <3>1, <3>2
  <2>2. Resume(t, "notify", work \o rest) /\ UNCHANGED sent
    BY <1>6 DEF ExpandSubscription
  <2> HIDE DEF work
  <2> QED  BY <1>5, <2>1, <2>2
<1>7. CASE item.what = "uri" /\ ExpandUri(t, item)
  <2> DEFINE poas == PointsOfAccess(item.arg, task[t].req.from)
             work == [i \in DOMAIN poas |->
                        [what |-> "post", sub |-> item.sub, arg |-> poas[i]]]
  <2>1. StoredSub(item.sub) /\ item.sub \in Ident \cup {Null}
    BY <1>3, <1>7 DEF Deliverable, Item
  <2>2. work \in Agenda
    BY <2>1, PostItemsType DEF DeliveryInv, TreeInv
  <2>3. \A i \in DOMAIN work : work[i].sub = item.sub
    OBVIOUS
  <2>4. Resume(t, "notify", work \o rest) /\ UNCHANGED sent
    BY <1>7 DEF ExpandUri
  <2> HIDE DEF work
  <2>5. work \in Seq(Deliverable)
    BY <2>1, <2>2, <2>3, AgendaDeliverable
  <2> QED  BY <1>5, <2>4, <2>5
<1>8. CASE item.what = "post" /\ Post(t, item)
  <2>1. StoredSub(item.sub)
    BY <1>3, <1>8 DEF Deliverable
  <2>2. sent' = sent \cup {[about |-> n.ri, sub |-> item.sub, to |-> item.arg]}
        /\ Resume(t, "awaitPeer", rest)
    BY <1>8 DEF Post
  <2>3. NotifiedIsStored'
    BY <1>1, <1>2, <2>1, <2>2 DEF DeliveryInv, NotifiedIsStored, StoredSub, StoredId
  <2> QED  BY <1>1, <1>3, <1>4, <2>2, <2>3, DeliverStep
<1> QED  BY <1>6, <1>7, <1>8 DEF SendNotification

(* A delivery that is left out leaves the others as they were.             *)
LEMMA SkipKeeps ==
    ASSUME NoIdClash, Reliable, DeliveryInv, [Next]_vars, NEW t \in Task, SkipDelivery(t)
    PROVE  DeliveryInv'
<1>1. /\ task[t].pc = "notify" /\ task[t].agenda # << >>
      /\ Resume(t, "notify", Tail(task[t].agenda))
      /\ UNCHANGED <<resources, typeRows, sent>>
  BY DEF SkipDelivery, Runs, db, history
<1>2. StoredId(task[t].node.ri) /\ task[t].agenda \in Seq(Deliverable)
  BY <1>1 DEF DeliveryInv, DeliversStored, Delivers
<1>3. Tail(task[t].agenda) \in Seq(Deliverable)
  BY <1>1, <1>2
<1>4. /\ Deliverable' = Deliverable
      /\ \E m \in Stored(resources', typeRows') : m.ri = task[t].node.ri
  BY <1>1, <1>2 DEF Deliverable, StoredSub, StoredId
<1>5. NotifiedIsStored'
  BY <1>1, NotifiedStays DEF DeliveryInv
<1> QED  BY <1>1, <1>3, <1>4, <1>5, DeliverStep

-----------------------------------------------------------------------------
(* Starting, stopping, and the invariant as a whole.                       *)

LEMMA BootDelivery ==
    ASSUME NoIdClash, Reliable, DeliveryInv, [Next]_vars, NEW clean \in CleanOnBoot, Boot(clean)
    PROVE  DeliveryInv'
<1>1. UNCHANGED task /\ \A t \in Task : task[t].pc = "idle"
  BY DEF Boot, DeliveryInv, TreeInv, PowerOffIdle
<1>2. BusyHasId' /\ DeliversStored'
  BY <1>1 DEF BusyHasId, DeliversStored, Delivers
<1>3. NotifiedIsStored'
  <2>1. CASE clean
    <3>1. sent' = {}
      BY <2>1 DEF Boot, Forget
    <3> QED  BY <3>1 DEF NotifiedIsStored
  <2>2. CASE ~ clean
    <3>1. \/ UNCHANGED <<resources, typeRows>>
          \/ CSEBases(resources, typeRows) = {}
      BY <2>2 DEF Boot, Initialize, Reliable
    <3>2. CSEBases(resources, typeRows) = {} => Stored(resources, typeRows) = {}
      BY RootFound DEF DeliveryInv, Stored
    <3>3. Stored(resources, typeRows) \subseteq Stored(resources', typeRows')
      BY <3>1, <3>2
    <3>4. UNCHANGED sent
      BY <2>2 DEF Boot, Forget
    <3> QED  BY <3>3, <3>4, NotifiedStays DEF DeliveryInv
  <2> QED  BY <2>1, <2>2
<1> QED  BY <1>2, <1>3, TreeInvStep DEF DeliveryInv

LEMMA DeliveryInvStep ==
    ASSUME NoIdClash, Reliable, "id" \notin Faults, DeliveryInv, [Next]_vars
    PROVE  DeliveryInv'
<1>1. CASE \E t \in Task : Create(t)
  <2>1. PICK t \in Task : Create(t)
    BY <1>1
  <2> QED  BY <2>1, OtherCreateSteps, AcceptDelivery, DetailDelivery, SendDelivery, SkipKeeps
           DEF Create
<1>2. CASE (\E t \in Task, q \in RetrieveRequests : Retrieve(t, q)) \/ UNCHANGED vars
  <2>1. UNCHANGED <<resources, typeRows, task, sent>>
    BY <1>2 DEF Retrieve, vars, db, ram, history
  <2>2. \A t \in Task : KeepsOn(t)
    BY <2>1 DEF KeepsOn, Delivers
  <2> QED  BY <2>1, <2>2, KeepOnStep
<1>3. CASE \E clean \in CleanOnBoot : Boot(clean)
  BY <1>3, BootDelivery
<1>4. CASE PowerLoss
  <2>1. UNCHANGED <<resources, typeRows, sent>> /\ task' = [t \in Task |-> Idle]
    BY <1>4, RollbackNothing DEF PowerLoss, DeliveryInv, db
  <2>2. \A t \in Task : KeepsOn(t)
    BY <2>1 DEF KeepsOn, Delivers, Idle
  <2> QED  BY <2>1, <2>2, KeepOnStep
<1> QED  BY <1>1, <1>2, <1>3, <1>4 DEF Next

(* A subscriber is told only of resources that both rows of are committed, *)
(* so that no power failure takes them back, and only through subscriptions*)
(* that are stored: whatever tasks do while SendNotification waits for a   *)
(* peer, the list of work it keeps does not go stale.                      *)
THEOREM NotificationsStored ==
    ASSUME NoIdClash, Reliable, "id" \notin Faults
    PROVE  Spec => []NotifiedIsStored
<1>1. Init => DeliveryInv
  <2> SUFFICES ASSUME Init PROVE DeliveryInv
    OBVIOUS
  <2>1. \A t \in Task : task[t].pc = "idle" /\ ~ Delivers(t)
    BY DEF Init, Idle, Delivers
  <2>2. BusyHasId /\ DeliversStored
    BY <2>1 DEF BusyHasId, DeliversStored
  <2>3. NotifiedIsStored
    BY DEF Init, NotifiedIsStored
  <2> QED  BY <2>2, <2>3, TreeInvInit DEF DeliveryInv
<1>2. DeliveryInv /\ [Next]_vars => DeliveryInv'
  BY DeliveryInvStep
<1>3. DeliveryInv => NotifiedIsStored
  BY DEF DeliveryInv
<1> QED  BY <1>1, <1>2, <1>3, PTL DEF Spec

-----------------------------------------------------------------------------
(* Every subscriber is notified.  A third provision: no resource has the   *)
(* name of an ID, which would be looked up in its place, as the run        *)
(* id_named_container shows of another lookup.                             *)

(* The identifiers that IDs are taken from, and the names of resources.    *)
Ids == Stems \cup GeneratedIds(MaxId)

Names ==
    ({q.rn : q \in CreateRequests} \ {NoName})
    \cup {DefaultName(ty, i) : ty \in ResourceType, i \in Ids}

NoNameClash ==
    /\ Names \cap (Ids \cup {CseRi}) = {}
    /\ CseName \notin Ids

(* A row is found by its own ID alone.                                     *)
RowsNamed ==
    \A r \in resources :
        \/ r.ri = CseRi /\ r.rn = CseName /\ r.path = <<CseName>>
        \/ r.rn \in Names /\ Len(r.path) > 1

BusyNamed ==
    \A t \in Task : task[t].pc # "idle" =>
        task[t].node.rn \in Names /\ task[t].node.ty = task[t].req.ty

PowerOffSilent == power = "off" => reply = NoReply

(* The row a task has saved the first half of is the last one, because the *)
(* task keeps the CPU until it has saved the other half.                   *)
SavesLast ==
    \A t \in Task : task[t].pc = "detail" =>
        /\ cpu = t
        /\ \E r \in resources : IsRowOf(r, task[t].node)
                                /\ \A q \in resources : q.rowid <= r.rowid

(* The subscriptions that were there before n and ask for it.              *)
Subscribers(n) ==
    {s \in Stored(resources, typeRows) :
        /\ s.ty = "Subscription" /\ s.pi = n.pi
        /\ RowidOf(s) < RowidOf(n) /\ MatchesCriteria(s, n)}

(* An item of the agenda leads to a post to the address.                   *)
LeadsTo(item, s, uri, to) ==
    /\ item.sub = s.ri
    /\ \/ item.what = "sub"
       \/ item.what = "uri" /\ item.arg = uri
       \/ item.what = "post" /\ item.arg = to

(* Each notification n is owed was sent or is on the agenda.               *)
Promised(n, from, agenda) ==
    \A s \in Subscribers(n) : \A i \in DOMAIN s.attr.nu :
        \A to \in Addresses(s.attr.nu[i], from, n) :
            \/ [about |-> n.ri, sub |-> s.ri, to |-> to] \in sent
            \/ \E k \in DOMAIN agenda : LeadsTo(agenda[k], s, s.attr.nu[i], to)

DeliversAll ==
    \A t \in Task : Delivers(t) =>
        /\ task[t].node \in Stored(resources, typeRows)
        /\ Promised(task[t].node, task[t].req.from, task[t].agenda)

AckedAll ==
    (Answered("CREATED") /\ reply.req.ty # "Subscription" /\ reply.ri # Null) =>
        \E n \in Stored(resources, typeRows) :
            n.ri = reply.ri /\ Promised(n, reply.req.from, << >>)

LookupInv == DeliveryInv /\ RowsNamed /\ BusyNamed /\ PowerOffSilent /\ SavesLast

NotifyInv == LookupInv /\ DeliversAll /\ AckedAll

-----------------------------------------------------------------------------
(* Looking up an ID finds the resource that has it.                        *)

(* A stored resource has one row, whatever the tables are.                 *)
LEMMA RowOfStored ==
    ASSUME NEW rs \in SUBSET Row, RowKeys(rs), NEW ts, NEW m \in Stored(rs, ts)
    PROVE  /\ m.ri # Null /\ RowOf(rs, m.ri) \in rs /\ RowOf(rs, m.ri).ri = m.ri
           /\ RowOf(rs, m.ri).rowid \in Nat
           /\ \A r \in rs : r.ri = m.ri => r = RowOf(rs, m.ri)
           /\ HasTypeRow(ts, RowOf(rs, m.ri)) /\ NodeOf(ts, RowOf(rs, m.ri)) = m
<1>1. PICK r \in rs : HasTypeRow(ts, r) /\ m = NodeOf(ts, r)
  BY DEF Stored
<1>2. m.ri = r.ri /\ r.ri # Null
  BY <1>1 DEF NodeOf, HasTypeRow
<1>3. \A q \in rs : q.ri = m.ri => q = r
  BY <1>2 DEF RowKeys
<1>4. RowOf(rs, m.ri) = r
  BY <1>2, <1>3 DEF RowOf
<1> QED  BY <1>1, <1>2, <1>3, <1>4 DEF Row

(* Nothing is stored but under the IDs that exist.                         *)
LEMMA StoredIds ==
    ASSUME TreeInv, NEW m \in Stored(resources, typeRows)
    PROVE  m.ri \in Ids \cup {CseRi}
<1>1. PICK r \in resources : HasTypeRow(typeRows, r) /\ m = NodeOf(typeRows, r)
  BY DEF Stored
<1>2. GeneratedIds(nextId - 1) \subseteq GeneratedIds(MaxId)
  BY MoreIds, GeneratedIdAssumption DEF TreeInv, TypeInv, TypeOK
<1>3. m.ri # Null /\ \E d \in typeRows : d.ri = m.ri
  BY <1>1 DEF HasTypeRow, NodeOf
<1> QED  BY <1>2, <1>3 DEF TreeInv, KnownIds, Ids

LEMMA FoundByRow ==
    ASSUME NoNameClash, TreeInv, RowsNamed, NEW m \in Stored(resources, typeRows)
    PROVE  FirstMatch(resources, <<m.ri>>) = {RowOf(resources, m.ri)}
<1> DEFINE r == RowOf(resources, m.ri)
<1>1. /\ m.ri # Null /\ m.ri \in Ids \cup {CseRi} /\ r \in resources /\ r.ri = m.ri
      /\ r.rowid \in Nat /\ \A q \in resources : q.ri = m.ri => q = r
  BY RowOfStored, StoredIds DEF TreeInv, TypeInv, TypeOK
<1> HIDE DEF r
<1>2. ASSUME NEW q \in resources, Matches(q, <<m.ri>>) PROVE q = r
  <2>1. CASE q.ri = CseRi /\ q.rn = CseName /\ q.path = <<CseName>>
    <3>1. m.ri = q.ri \/ m.ri = CseName
      BY <1>2, <2>1 DEF Matches
    <3>2. m.ri = CseName => m.ri = CseRi
      BY <1>1 DEF NoNameClash
    <3> QED  BY <1>1, <2>1, <3>1, <3>2
  <2>2. CASE q.rn \in Names /\ Len(q.path) > 1
    <3>1. <<m.ri>> # <<q.rn>>
      BY <1>1, <2>2 DEF NoNameClash
    <3>2. \A path : path = <<m.ri>> => ~ Len(path) > 1
      OBVIOUS
    <3>3. <<m.ri>> # q.path
      BY <2>2, <3>2, Zenon
    <3> QED  BY <1>1, <1>2, <3>1, <3>3 DEF Matches
  <2> QED  BY <2>1, <2>2 DEF RowsNamed
<1>3. Matches(r, <<m.ri>>) /\ r.rowid <= r.rowid
  BY <1>1 DEF Matches
<1> QED  BY <1>1, <1>2, <1>3 DEF FirstMatch, r

LEMMA FoundById ==
    ASSUME NoNameClash, TreeInv, RowsNamed, NEW m \in Stored(resources, typeRows)
    PROVE  Load(<<m.ri>>) = {m}
<1>1. /\ HasTypeRow(typeRows, RowOf(resources, m.ri))
      /\ NodeOf(typeRows, RowOf(resources, m.ri)) = m
  BY RowOfStored DEF TreeInv, TypeInv, TypeOK
<1> QED  BY <1>1, FoundByRow DEF Load, LoadPrimitiveContentByTarget

-----------------------------------------------------------------------------
(* What a notification is owed to does not change while it is delivered.   *)

LEMMA StorageSteps ==
    ASSUME Reliable, TreeInv, [Next]_vars
    PROVE  \/ UNCHANGED <<resources, typeRows>>
           \/ \E t \in Task : InsertRow(t) \/ InsertDetail(t)
           \/ \E clean \in CleanOnBoot : Boot(clean)
<1>1. Rollback => UNCHANGED <<resources, typeRows>>
  BY RollbackNothing DEF db
<1>2. ASSUME NEW t \in Task, NEW q \in CreateRequests,
             RefuseCreateAfterId(t, q) \/ AcceptCreate(t, q)
      PROVE  UNCHANGED <<resources, typeRows>>
  BY <1>2, GetIdReliable DEF RefuseCreateAfterId, AcceptCreate
<1>3. ASSUME NEW t \in Task, VerifySubscription(t)
      PROVE  UNCHANGED <<resources, typeRows>>
  BY <1>3 DEF VerifySubscription, db
<1> QED  BY <1>1, <1>2, <1>3
  DEF Next, Create, RefuseCreate, VerificationAnswered, VerificationFails, HangInPathQuery,
      InsertRowFails, InsertDetailFails, SendNotification, SkipDelivery,
      NotificationAnswered, FinishCreate, Retrieve, PowerLoss, vars, db

(* What is stored keeps its place in the scan, and what is stored anew     *)
(* comes after it.                                                         *)
LEMMA RowidsStay ==
    ASSUME NoIdClash, Reliable, TreeInv, SavesLast, [Next]_vars, power = "on"
    PROVE  /\ \A m \in Stored(resources, typeRows) :
                 m \in Stored(resources', typeRows') /\ RowidOf(m)' = RowidOf(m)
           /\ \A m \in Stored(resources', typeRows') :
                 \/ m \in Stored(resources, typeRows)
                 \/ \A n \in Stored(resources, typeRows) : RowidOf(n) <= RowidOf(m)'
<1>1. TreeInv' /\ Stored(resources, typeRows) \subseteq Stored(resources', typeRows')
  BY TreeInvStep, StoredStays
<1>2. /\ resources \in SUBSET Row /\ RowKeys(resources) /\ TypeKeys(typeRows)
      /\ resources' \in SUBSET Row /\ RowKeys(resources') /\ TypeKeys(typeRows')
  BY <1>1 DEF TreeInv, TypeInv, TypeOK
<1>3. CASE UNCHANGED <<resources, typeRows>>
  BY <1>3 DEF RowidOf
<1>4. ASSUME NEW t \in Task, InsertRow(t)
      PROVE  /\ Stored(resources', typeRows') = Stored(resources, typeRows)
             /\ \A m \in Stored(resources, typeRows) : RowidOf(m)' = RowidOf(m)
  <2> DEFINE n == task[t].node
  <2>1. PICK path : resources' = InsertResources(resources, n, path)
    BY <1>4 DEF InsertRow
  <2>2. Unused(typeRows, n.ri) /\ UNCHANGED typeRows
    BY <1>4 DEF TreeInv, PendingFresh, Pending, InsertRow, Runs
  <2>3. Stored(resources', typeRows') = Stored(resources, typeRows)
    BY <1>2, <2>1, <2>2, FirstRowSaved
  <2>4. ASSUME NEW m \in Stored(resources, typeRows)
        PROVE  RowidOf(m)' = RowidOf(m)
    <3>1. /\ RowOf(resources, m.ri) \in resources /\ RowOf(resources, m.ri).ri = m.ri
          /\ HasTypeRow(typeRows, RowOf(resources, m.ri)) /\ m.ri # Null
      BY <1>2, RowOfStored
    <3>2. m.ri # n.ri
      BY <2>2, <3>1 DEF HasTypeRow, Unused
    <3>3. RowOf(resources, m.ri) \in resources'
      BY <2>1, <3>1, <3>2 DEF InsertResources
    <3>4. RowOf(resources', m.ri) = RowOf(resources, m.ri)
      BY <1>2, <2>3, <3>1, <3>3, RowOfStored
    <3> QED  BY <3>4 DEF RowidOf
  <2> QED  BY <2>3, <2>4
<1>5. ASSUME NEW t \in Task, InsertDetail(t)
      PROVE  /\ UNCHANGED resources
             /\ \A m \in Stored(resources', typeRows') :
                   \/ m \in Stored(resources, typeRows)
                   \/ \A n \in Stored(resources, typeRows) : RowidOf(n) <= RowidOf(m)'
  <2> DEFINE n == task[t].node
  <2>1. task[t].pc = "detail" /\ UNCHANGED resources
        /\ typeRows' = InsertTypeRow(typeRows, n)
    BY <1>5 DEF InsertDetail, Runs
  <2>2. n \in Node /\ Unused(typeRows, n.ri)
    BY <2>1 DEF TreeInv, TypeInv, BusyHasNode, PendingFresh, Pending
  <2>3. PICK r \in resources : IsRowOf(r, n) /\ \A q \in resources : q.rowid <= r.rowid
    BY <2>1 DEF SavesLast
  <2>4. \A m \in Stored(resources', typeRows') :
           m \in Stored(resources, typeRows) \/ (m = n /\ n.ri # Null)
    BY <1>2, <2>1, <2>2, <2>3, SecondRowSaved
  <2>5. ASSUME NEW k \in Stored(resources', typeRows'), k = n,
               NEW m \in Stored(resources, typeRows)
        PROVE  RowidOf(m) <= RowidOf(k)'
    <3>1. RowOf(resources', k.ri) = r
      BY <1>2, <2>1, <2>3, <2>5, RowOfStored DEF IsRowOf
    <3>2. RowOf(resources, m.ri) \in resources
      BY <1>2, RowOfStored
    <3> QED  BY <2>3, <3>1, <3>2 DEF RowidOf
  <2> QED  BY <2>1, <2>4, <2>5
<1>6. \A clean : ~ Boot(clean)
  BY DEF Boot
<1>7. CASE \E t \in Task : InsertDetail(t)
  <2>1. \A m : RowidOf(m)' = RowidOf(m)
    BY <1>5, <1>7 DEF RowidOf
  <2> QED  BY <1>1, <1>5, <1>7, <2>1
<1> QED  BY <1>3, <1>4, <1>6, <1>7, StorageSteps

LEMMA SubscribersStay ==
    ASSUME NoIdClash, Reliable, TreeInv, SavesLast, [Next]_vars, power = "on",
           NEW n \in Stored(resources, typeRows)
    PROVE  /\ Subscribers(n)' \subseteq Subscribers(n)
           /\ \A uri, from : Addresses(uri, from, n)' \subseteq Addresses(uri, from, n)
<1>1. TreeInv'
  BY TreeInvStep
<1>2. /\ resources \in SUBSET Row /\ RowKeys(resources)
      /\ resources' \in SUBSET Row /\ RowKeys(resources')
  BY <1>1 DEF TreeInv, TypeInv, TypeOK
<1>3. ASSUME NEW m \in Stored(resources', typeRows'), RowidOf(m)' < RowidOf(n)'
      PROVE  m \in Stored(resources, typeRows) /\ RowidOf(m) < RowidOf(n)
  <2>1. n \in Stored(resources', typeRows') /\ RowidOf(n)' = RowidOf(n)
    BY RowidsStay
  <2>2. RowidOf(n) \in Nat /\ RowidOf(m)' \in Nat
    BY <1>2, RowOfStored DEF RowidOf
  <2>3. m \in Stored(resources, typeRows)
    BY <1>3, <2>1, <2>2, RowidsStay
  <2> QED  BY <1>3, <2>1, <2>3, RowidsStay
<1>4. Subscribers(n)' \subseteq Subscribers(n)
  BY <1>3 DEF Subscribers, MatchesCriteria, MatchesSizeFilter
<1>5. ASSUME NEW uri, NEW from
      PROVE  Addresses(uri, from, n)' \subseteq Addresses(uri, from, n)
  BY <1>3 DEF Addresses
<1> QED  BY <1>4, <1>5

LEMMA PromisedStays ==
    ASSUME NoIdClash, Reliable, TreeInv, SavesLast, [Next]_vars, power = "on", sent \subseteq sent',
           NEW n \in Stored(resources, typeRows), NEW from, NEW agenda,
           Promised(n, from, agenda)
    PROVE  n \in Stored(resources', typeRows') /\ Promised(n, from, agenda)'
  BY SubscribersStay, RowidsStay DEF Promised, LeadsTo

(* The task delivers what it delivered before.                             *)
Continues(t) ==
    Delivers(t)' => /\ Delivers(t) /\ task'[t].node = task[t].node
                    /\ task'[t].req = task[t].req /\ task'[t].agenda = task[t].agenda

LEMMA ContinuesStep ==
    ASSUME NoIdClash, Reliable, TreeInv, SavesLast, [Next]_vars, power = "on", sent \subseteq sent',
           DeliversAll, NEW t \in Task, Continues(t), Delivers(t)'
    PROVE  /\ task'[t].node \in Stored(resources', typeRows')
           /\ Promised(task[t].node, task[t].req.from, task[t].agenda)'
<1>1. Delivers(t)
  BY DEF Continues
<1>2. PICK n, from, agenda :
        /\ n = task[t].node /\ from = task[t].req.from /\ agenda = task[t].agenda
        /\ n \in Stored(resources, typeRows) /\ Promised(n, from, agenda)
  BY <1>1 DEF DeliversAll
<1>3. n \in Stored(resources', typeRows') /\ Promised(n, from, agenda)'
  BY <1>2, PromisedStays
<1>4. n = task'[t].node /\ from = task'[t].req.from /\ agenda = task'[t].agenda
  BY <1>2 DEF Continues
<1> QED  BY <1>3, <1>4

LEMMA AckedStays ==
    ASSUME NoIdClash, Reliable, TreeInv, SavesLast, [Next]_vars, power = "on", sent \subseteq sent',
           AckedAll, UNCHANGED reply
    PROVE  AckedAll'
<1> SUFFICES ASSUME Answered("CREATED")', reply'.req.ty # "Subscription", reply'.ri # Null
             PROVE  (\E n \in Stored(resources, typeRows) :
                        n.ri = reply.ri /\ Promised(n, reply.req.from, << >>))'
  BY DEF AckedAll
<1>1. PICK n, from :
        /\ n \in Stored(resources, typeRows) /\ n.ri = reply.ri
        /\ from = reply.req.from /\ Promised(n, from, << >>)
  BY DEF AckedAll, Answered
<1>2. n \in Stored(resources', typeRows') /\ Promised(n, from, << >>)'
  BY <1>1, PromisedStays
<1>3. n.ri = reply'.ri /\ from = reply'.req.from
  BY <1>1
<1> QED  BY <1>2, <1>3

-----------------------------------------------------------------------------
(* The tasks, the names and the first rows.                                *)

LEMMA ReplyTask ==
    ASSUME TypeInv, NEW t \in Task, NEW q, NEW code, NEW n, Reply(t, q, code, n)
    PROVE  task'[t].pc = "idle" /\ \A u \in Task : u # t => task'[u] = task[u]
  BY DEF Reply, Idle, TypeInv, TypeOK

LEMMA ResumeTask ==
    ASSUME TypeInv, NEW t \in Task, NEW pc, NEW agenda, Resume(t, pc, agenda)
    PROVE  /\ task'[t].pc = pc /\ task'[t].agenda = agenda
           /\ task'[t].node = task[t].node /\ task'[t].req = task[t].req
           /\ \A u \in Task : u # t => task'[u] = task[u]
<1>1. task' = [task EXCEPT ![t] = [task[t] EXCEPT !.pc = pc, !.agenda = agenda]]
      /\ task \in [Task -> TaskState]
  BY DEF Resume, TypeInv, TypeOK
<1>2. \A u \in Task : u # t => task'[u] = task[u]
  BY <1>1
<1>3. task'[t] = [task[t] EXCEPT !.pc = pc, !.agenda = agenda] /\ task[t] \in TaskState
  BY <1>1
<1> QED  BY <1>2, <1>3 DEF TaskState

(* What a step of a create does to its task.                               *)
LEMMA CreateShape ==
    ASSUME NEW t \in Task, Create(t)
    PROVE  \/ \E q, code, n : Reply(t, q, code, n)
           \/ \E q \in CreateRequests : AcceptCreate(t, q)
           \/ InsertRow(t) /\ Resume(t, "detail", << >>)
           \/ /\ task[t].pc # "idle"
              /\ \E pc, agenda : pc # "detail" /\ Resume(t, pc, agenda)
<1>1. CASE \/ \E q \in CreateRequests : RefuseCreate(t, q) \/ RefuseCreateAfterId(t, q)
           \/ VerificationFails(t) \/ InsertRowFails(t) \/ InsertDetailFails(t)
           \/ FinishCreate(t)
  BY <1>1 DEF RefuseCreate, RefuseCreateAfterId, VerificationFails, InsertRowFails,
              InsertDetailFails, FinishCreate
<1>2. CASE \E q \in CreateRequests : AcceptCreate(t, q)
  BY <1>2
<1>3. CASE VerifySubscription(t)
  <2>1. \/ Resume(t, "insert", << >>)
        \/ Resume(t, "verify", Tail(task[t].agenda))
        \/ Resume(t, "awaitVerification", Tail(task[t].agenda))
    BY <1>3 DEF VerifySubscription
  <2>2. task[t].pc # "idle"
    BY <1>3 DEF VerifySubscription, Runs
  <2> QED  BY <2>1, <2>2
<1>4. CASE VerificationAnswered(t)
  BY <1>4 DEF VerificationAnswered
<1>5. CASE InsertRow(t)
  BY <1>5 DEF InsertRow
<1>6. CASE HangInPathQuery(t)
  BY <1>6 DEF HangInPathQuery, Runs
<1>7. CASE InsertDetail(t)
  <2>1. CASE task[t].node.ty = "Subscription"
    BY <1>7, <2>1 DEF InsertDetail
  <2>2. CASE task[t].node.ty # "Subscription"
    <3>1. \E items : Resume(t, "notify", items)
      BY <1>7, <2>2 DEF InsertDetail
    <3> QED  BY <1>7, <3>1 DEF InsertDetail, Runs
  <2> QED  BY <2>1, <2>2
<1>8. CASE SendNotification(t)
  <2>1. task[t].pc # "idle"
    BY <1>8 DEF SendNotification, Runs
  <2>2. \E pc, agenda : pc # "detail" /\ Resume(t, pc, agenda)
    BY <1>8 DEF SendNotification, ExpandSubscription, ExpandUri, Post
  <2> QED  BY <2>1, <2>2
<1>9. CASE NotificationAnswered(t) \/ SkipDelivery(t)
  BY <1>9 DEF NotificationAnswered, SkipDelivery, Runs
<1> QED  BY <1>1, <1>2, <1>3, <1>4, <1>5, <1>6, <1>7, <1>8, <1>9 DEF Create

(* A task that is busy after a step was so before, with the same request   *)
(* and resource, or has just accepted the request.                         *)
LEMMA BusyTask ==
    ASSUME TypeInv, [Next]_vars, NEW u \in Task, task'[u].pc # "idle"
    PROVE  \/ /\ task[u].pc # "idle" /\ task'[u].node = task[u].node
              /\ task'[u].req = task[u].req
           \/ \E q \in CreateRequests : AcceptCreate(u, q)
<1>1. CASE \E t \in Task : Create(t)
  <2>1. PICK t \in Task : Create(t)
    BY <1>1
  <2>2. CASE \E q, code, n : Reply(t, q, code, n)
    BY <2>2, ReplyTask
  <2>3. CASE \E q \in CreateRequests : AcceptCreate(t, q)
    <3>1. u # t => task'[u] = task[u]
      BY <2>3 DEF AcceptCreate, TypeInv, TypeOK
    <3> QED  BY <2>3, <3>1
  <2>4. CASE \E pc, agenda : task[t].pc # "idle" /\ Resume(t, pc, agenda)
    BY <2>4, ResumeTask
  <2>5. InsertRow(t) => task[t].pc # "idle"
    BY DEF InsertRow, Runs
  <2> QED  BY <2>1, <2>2, <2>3, <2>4, <2>5, CreateShape
<1>2. CASE \/ \E t \in Task, q \in RetrieveRequests : Retrieve(t, q)
           \/ \E clean \in CleanOnBoot : Boot(clean)
           \/ UNCHANGED vars
  <2>1. task' = task
    BY <1>2 DEF Retrieve, Boot, vars, ram
  <2> QED  BY <2>1
<1>3. CASE PowerLoss
  BY <1>3 DEF PowerLoss, Idle
<1> QED  BY <1>1, <1>2, <1>3 DEF Next

(* Between the two rows of a resource no step of another task comes.       *)
LEMMA DetailTask ==
    ASSUME TypeInv, PowerOffIdle, SavesLast, [Next]_vars, NEW u \in Task, task'[u].pc = "detail"
    PROVE  InsertRow(u) \/ UNCHANGED vars
<1>1. SUFFICES ASSUME ~ InsertRow(u), ~ UNCHANGED vars PROVE FALSE
  OBVIOUS
<1>2. CASE task[u].pc = "detail"
  <2>1. cpu = u /\ cpu # Free /\ power # "off"
    BY <1>2, TaskAssumption DEF SavesLast, PowerOffIdle
  <2>2. ASSUME NEW t \in Task, Create(t)
        PROVE  t = u /\ (InsertDetail(u) \/ InsertDetailFails(u))
    BY <1>2, <2>1, <2>2
    DEF Create, RefuseCreate, RefuseCreateAfterId, AcceptCreate, VerifySubscription,
        VerificationAnswered, VerificationFails, InsertRow, HangInPathQuery, InsertRowFails,
        InsertDetail, InsertDetailFails, SendNotification, SkipDelivery,
        NotificationAnswered, FinishCreate, Scheduled, Runs
  <2>3. ~ InsertDetail(u)
    <3>1. ASSUME InsertDetail(u)
          PROVE  (\E q, code, n : Reply(u, q, code, n)) \/ \E items : Resume(u, "notify", items)
      BY <3>1 DEF InsertDetail
    <3> QED  BY <3>1, ReplyTask, ResumeTask
  <2>4. ~ InsertDetailFails(u)
    BY ReplyTask DEF InsertDetailFails
  <2>5. ~ PowerLoss
    BY DEF PowerLoss, Idle
  <2>6. \A t \in Task : \A q : ~ Retrieve(t, q)
    BY <2>1 DEF Retrieve, Scheduled
  <2>7. \A clean : ~ Boot(clean)
    BY <2>1 DEF Boot
  <2> QED  BY <1>1, <2>2, <2>3, <2>4, <2>5, <2>6, <2>7 DEF Next
<1>3. CASE task[u].pc # "detail"
  <2>1. CASE \E t \in Task : Create(t)
    <3>1. PICK t \in Task : Create(t)
      BY <2>1
    <3>2. ~ \E q, code, n : Reply(t, q, code, n)
      BY <1>3, ReplyTask
    <3>3. ~ \E q \in CreateRequests : AcceptCreate(t, q)
      BY <1>3 DEF AcceptCreate, TypeInv, TypeOK
    <3>4. ~ \E pc, agenda : pc # "detail" /\ Resume(t, pc, agenda)
      BY <1>3, ResumeTask
    <3>5. InsertRow(t) /\ Resume(t, "detail", << >>)
      BY <3>1, <3>2, <3>3, <3>4, CreateShape
    <3>6. t = u
      BY <1>3, <3>5, ResumeTask
    <3> QED  BY <1>1, <3>5, <3>6
  <2>2. CASE \/ \E t \in Task, q \in RetrieveRequests : Retrieve(t, q)
             \/ \E clean \in CleanOnBoot : Boot(clean)
    <3>1. task' = task
      BY <2>2 DEF Retrieve, Boot, ram
    <3> QED  BY <1>3, <3>1
  <2>3. ~ PowerLoss
    BY DEF PowerLoss, Idle
  <2> QED  BY <1>1, <2>1, <2>2, <2>3 DEF Next
<1> QED  BY <1>2, <1>3

LEMMA SavesLastStep ==
    ASSUME NoIdClash, Reliable, TreeInv, SavesLast, [Next]_vars
    PROVE  SavesLast'
<1> SUFFICES ASSUME NEW u \in Task, task'[u].pc = "detail"
             PROVE  /\ cpu' = u
                    /\ \E r \in resources' : IsRowOf(r, task'[u].node)
                                            /\ \A q \in resources' : q.rowid <= r.rowid
  BY DEF SavesLast
<1>1. InsertRow(u) \/ UNCHANGED vars
  BY DetailTask DEF TreeInv
<1>2. CASE UNCHANGED vars
  BY <1>2 DEF vars, db, ram, SavesLast
<1>3. CASE InsertRow(u)
  <2> DEFINE n == task[u].node
  <2>1. PICK path : resources' = InsertResources(resources, n, path)
    BY <1>3 DEF InsertRow
  <2>2. cpu' = u /\ task'[u].node = n
    BY <1>3, ResumeTask DEF InsertRow, Runs, TreeInv
  <2> DEFINE new == [rowid |-> NextRowid(resources), ri |-> n.ri, rn |-> n.rn,
                     ty |-> n.ty, pi |-> n.pi, path |-> path]
  <2>3. \A r : r \in resources' => r \in resources \/ r = new
    BY <2>1 DEF InsertResources
  <2>4. new \in resources' /\ IsRowOf(new, n) /\ new.rowid = NextRowid(resources)
    BY <2>1 DEF InsertResources, IsRowOf
  <2> HIDE DEF new
  <2>5. /\ NextRowid(resources) \in Nat
        /\ \A r \in resources : r.rowid \in Nat /\ r.rowid < NextRowid(resources)
    BY NextRowidAbove DEF TreeInv, TypeInv, TypeOK, Row
  <2>6. \A q \in resources' : q.rowid <= new.rowid
    BY <2>3, <2>4, <2>5
  <2> QED  BY <2>2, <2>4, <2>6
<1> QED  BY <1>1, <1>2, <1>3

(* Every path but that of the CSEBase has more than one segment.           *)
LEMMA PathLength ==
    ASSUME NEW rs \in SUBSET Row, IsFiniteSet(rs), NEW pi, pi # Null, NEW rn \in Ident,
           NEW path \in PathsFor(rs, pi, rn)
    PROVE  Len(path) > 1
<1> DEFINE up == Ancestor(rs, pi)
           prefix(k) == [j \in 1 .. k + 1 |-> RowOf(rs, up[k + 1 - j]).rn]
<1>1. PICK k \in Depth(rs, pi) : path = Append(prefix(k), rn)
  BY DEF PathsFor, GetFullPathByRI
<1>2. k \in Nat /\ \A j \in 0 .. k : HasRow(rs, up[j])
  BY FS_CardinalityType DEF Depth
<1>3. \A j \in 1 .. k + 1 : RowOf(rs, up[k + 1 - j]).rn \in Ident
  <2> SUFFICES ASSUME NEW j \in 1 .. k + 1 PROVE RowOf(rs, up[k + 1 - j]).rn \in Ident
    OBVIOUS
  <2>1. k + 1 - j \in 0 .. k
    BY <1>2
  <2>2. HasRow(rs, up[k + 1 - j])
    BY <1>2, <2>1
  <2>3. RowOf(rs, up[k + 1 - j]) \in rs
    BY <2>2 DEF HasRow, RowOf
  <2> QED  BY <2>3 DEF Row
<1> HIDE DEF up
<1>4. prefix(k) \in Seq(Ident) /\ Len(prefix(k)) = k + 1
  BY <1>2, <1>3
<1> HIDE DEF prefix
<1>5. Len(path) = k + 2
  BY <1>1, <1>2, <1>4
<1> QED  BY <1>2, <1>5

LEMMA RowsNamedStep ==
    ASSUME NoIdClash, Reliable, TreeInv, RowsNamed, BusyNamed, [Next]_vars
    PROVE  RowsNamed'
<1>1. CASE UNCHANGED <<resources, typeRows>>
  BY <1>1 DEF RowsNamed
<1>2. ASSUME NEW t \in Task, InsertRow(t)
      PROVE  RowsNamed'
  <2> DEFINE n == task[t].node
  <2>1. PICK path \in PathsFor(resources, n.pi, n.rn) :
          resources' = InsertResources(resources, n, path)
    BY <1>2 DEF InsertRow
  <2>2. n.rn \in Names /\ n \in Node /\ HasParent(n)
    BY <1>2 DEF InsertRow, Runs, BusyNamed, TreeInv, TypeInv, BusyHasNode, PendingFresh,
                Pending
  <2>3. n.pi # Null /\ n.rn \in Ident
    BY <2>2, RowOfStored DEF HasParent, TreeInv, TypeInv, TypeOK, Node, NodeOfType
  <2>4. Len(path) > 1
    BY <2>1, <2>3, PathLength DEF TreeInv, TypeInv, TypeOK
  <2> QED  BY <2>1, <2>2, <2>4 DEF RowsNamed, InsertResources
<1>3. ASSUME NEW t \in Task, InsertDetail(t)
      PROVE  RowsNamed'
  BY <1>3 DEF InsertDetail, RowsNamed
<1>4. ASSUME NEW clean \in CleanOnBoot, Boot(clean)
      PROVE  RowsNamed'
  <2>1. \A r \in resources' : \/ r \in resources
                              \/ r.ri = CseRi /\ r.rn = CseName /\ r.path = <<CseName>>
    BY <1>4 DEF Boot, Initialize, InsertResources, CSEBaseNode
  <2> QED  BY <2>1 DEF RowsNamed
<1> QED  BY <1>1, <1>2, <1>3, <1>4, StorageSteps

LEMMA BusyNamedStep ==
    ASSUME NoIdClash, Reliable, "id" \notin Faults, TreeInv, BusyNamed, [Next]_vars
    PROVE  BusyNamed'
<1> SUFFICES ASSUME NEW u \in Task, task'[u].pc # "idle"
             PROVE  task'[u].node.rn \in Names /\ task'[u].node.ty = task'[u].req.ty
  BY DEF BusyNamed
<1>1. CASE /\ task[u].pc # "idle" /\ task'[u].node = task[u].node
           /\ task'[u].req = task[u].req
  BY <1>1 DEF BusyNamed
<1>2. ASSUME NEW q \in CreateRequests, AcceptCreate(u, q)
      PROVE  task'[u].node.rn \in Names /\ task'[u].node.ty = task'[u].req.ty
  <2>1. PICK failed \in Failing, p \in Parent(q), id \in {ResourceId[nextId]} :
          /\ id = ResourceId[nextId] /\ nextId \in 1 .. MaxId
          /\ ~ Refused(ChecksBeforeId(q, failed))
          /\ ~ Refused(ChecksAfterId(q, failed, resources', typeRows'))
          /\ task'[u].req = q /\ task'[u].node = NewNode(q, p, id)
    BY <1>2 DEF AcceptCreate, GetId, Reliable, TreeInv, TypeInv, TypeOK
  <2> DEFINE ri == IF OwnStem(q) THEN q.from ELSE id
  <2>2. ri \in Ids
    <3>1. id \in GeneratedIds(MaxId)
      BY <2>1 DEF GeneratedIds
    <3>2. OwnStem(q) => q.from \in Stems
      <4>1. "aei" \notin failed
        BY DEF Failing, Reliable
      <4> QED  BY <2>1, <4>1, AcceptedStem DEF Stems
    <3> QED  BY <3>1, <3>2 DEF Ids
  <2>3. q.ty \in ResourceType
    BY RequestAssumption DEF CreateRequest, CreateRequestOf, ResourceType
  <2>4. NameOf(q, ri) \in Names
    BY <2>2, <2>3 DEF NameOf, Names
  <2> QED  BY <2>1, <2>4 DEF NewNode
<1> QED  BY <1>1, <1>2, BusyTask DEF TreeInv

LEMMA PowerOffSilentStep ==
    ASSUME PowerOffSilent, [Next]_vars
    PROVE  PowerOffSilent'
<1> SUFFICES ASSUME power' = "off" PROVE reply' = NoReply
  BY DEF PowerOffSilent
<1>1. \A t \in Task : ~ Create(t)
  BY DEF Create, RefuseCreate, RefuseCreateAfterId, AcceptCreate, VerifySubscription,
         VerificationAnswered, VerificationFails, InsertRow, HangInPathQuery, InsertRowFails,
         InsertDetail, InsertDetailFails, SendNotification, SkipDelivery,
         NotificationAnswered, FinishCreate, Scheduled, Runs
<1>2. \A t \in Task : \A q : ~ Retrieve(t, q)
  BY DEF Retrieve, Scheduled, ram
<1>3. \A clean : ~ Boot(clean)
  BY DEF Boot
<1>4. CASE PowerLoss
  BY <1>4 DEF PowerLoss
<1>5. CASE UNCHANGED vars
  BY <1>5 DEF vars, ram, history, PowerOffSilent
<1> QED  BY <1>1, <1>2, <1>3, <1>4, <1>5 DEF Next

LEMMA LookupInvStep ==
    ASSUME NoIdClash, Reliable, "id" \notin Faults, LookupInv, [Next]_vars
    PROVE  LookupInv'
  BY DeliveryInvStep, RowsNamedStep, BusyNamedStep, PowerOffSilentStep, SavesLastStep
  DEF LookupInv, DeliveryInv

-----------------------------------------------------------------------------
(* The deliveries.                                                         *)

(* A list in scan order leaves out no row.                                 *)
LEMMA InRowOrderAll ==
    ASSUME NEW rows \in SUBSET Row, IsFiniteSet(rows), NEW seq \in InRowOrder(rows)
    PROVE  DOMAIN seq = 1 .. Cardinality(rows) /\ \A c \in rows : \E k \in DOMAIN seq : seq[k] = c
<1> DEFINE m == Cardinality(rows)
<1>1. /\ m \in Nat /\ seq \in [1 .. m -> rows]
      /\ \A j, k \in 1 .. m : j < k => seq[j].rowid < seq[k].rowid
  BY FS_CardinalityType DEF InRowOrder
<1>2. \A r \in rows : r.rowid \in Nat
  BY DEF Row
<1> HIDE DEF m
<1>3. ASSUME NEW j \in 1 .. m, NEW k \in 1 .. m, seq[j] = seq[k]
      PROVE  j = k
  <2>1. ~ (j < k) /\ ~ (k < j)
    BY <1>1, <1>2, <1>3
  <2> QED  BY <1>1, <2>1
<1>4. seq \in Injection(1 .. m, rows)
  BY <1>1, <1>3 DEF Injection, IsInjective
<1>5. Cardinality(1 .. m) = m
  <2>1. m \in Nat /\ m \in Int /\ 1 \in Int
    BY <1>1
  <2>2. Cardinality(1 .. m) = IF 1 > m THEN 0 ELSE m - 1 + 1
    BY <2>1, FS_Interval, Zenon
  <2> QED  BY <2>1, <2>2
<1>6. seq \in Surjection(1 .. m, rows)
  BY <1>4, <1>5, FS_Injection DEF m
<1> QED  BY <1>1, <1>6 DEF Surjection, m

(* Every stored subscription to the parent is on the list to be loaded,    *)
(* unless the list cannot be had.                                          *)
LEMMA AllListed ==
    ASSUME NoNameClash, "deliver" \notin Faults, TreeInv, RowsNamed, NEW n, HasParent(n),
           NEW items \in SubscriptionItems(n),
           NEW s \in Stored(resources, typeRows), s.ty = "Subscription", s.pi = n.pi
    PROVE  \E k \in DOMAIN items : items[k].what = "sub" /\ items[k].sub = s.ri
<1> DEFINE rows == LoadPrimitiveContentChildren(resources, <<n.pi>>, "Subscription")
           c == RowOf(resources, s.ri)
<1>1. resources \in SUBSET Row /\ RowKeys(resources) /\ IsFiniteSet(resources)
  BY DEF TreeInv, TypeInv, TypeOK
<1>2. PICK p \in Stored(resources, typeRows) : p.ri = n.pi
  BY DEF HasParent
<1>3. FirstMatch(resources, <<n.pi>>) = {RowOf(resources, n.pi)}
  BY <1>2, FoundByRow
<1>4. RowOf(resources, n.pi).ri = n.pi /\ n.pi # Null
  BY <1>1, <1>2, RowOfStored
<1>5. c \in resources /\ c.ri = s.ri /\ c.ri # Null /\ NodeOf(typeRows, c) = s
  BY <1>1, RowOfStored
<1>6. c.ty = "Subscription" /\ c.pi = n.pi
  BY <1>5 DEF NodeOf
<1> HIDE DEF c
<1>7. c \in rows
  BY <1>3, <1>4, <1>5, <1>6 DEF LoadPrimitiveContentChildren, ChildRows
<1>8. rows \subseteq resources
  BY DEF LoadPrimitiveContentChildren, ChildRows
<1>9. rows \in SUBSET Row /\ IsFiniteSet(rows)
  BY <1>1, <1>8, FS_Subset
<1>10. PICK seq \in InRowOrder(rows) :
         items = [k \in DOMAIN seq |-> [what |-> "sub", sub |-> seq[k].ri, arg |-> Null]]
  BY DEF SubscriptionItems
<1> HIDE DEF rows
<1>11. PICK k \in DOMAIN seq : seq[k] = c
  BY <1>7, <1>9, <1>10, InRowOrderAll
<1> QED  BY <1>5, <1>10, <1>11

(* When the resource is saved, each notification it is owed is on the      *)
(* agenda.                                                                 *)
LEMMA DetailPromised ==
    ASSUME NoIdClash, Reliable, NoNameClash, "deliver" \notin Faults, LookupInv, [Next]_vars,
           NEW t \in Task, InsertDetail(t), Delivers(t)'
    PROVE  /\ task'[t].node \in Stored(resources', typeRows')
           /\ Promised(task[t].node, task[t].req.from, task[t].agenda)'
<1> DEFINE n == task[t].node
<1>1. TypeInv /\ TreeInv /\ task[t].pc = "detail" /\ UNCHANGED resources
      /\ typeRows' = InsertTypeRow(typeRows, n)
  BY DEF InsertDetail, Runs, LookupInv, DeliveryInv, TreeInv
<1>2. n.ty # "Subscription"
  <2>1. n.ty = "Subscription" => task'[t].pc = "idle"
    BY <1>1, ReplyTask DEF InsertDetail
  <2> QED  BY <2>1 DEF Delivers
<1>3. PICK items \in SubscriptionItems(n) : Resume(t, "notify", items)
  BY <1>2 DEF InsertDetail
<1>4. task'[t].node = n /\ task'[t].req = task[t].req /\ task'[t].agenda = items
  BY <1>1, <1>3, ResumeTask
<1>5. /\ n \in Node /\ n.ri # Null /\ Unused(typeRows, n.ri) /\ HasParent(n)
      /\ \E r \in resources : IsRowOf(r, n)
  BY <1>1 DEF LookupInv, DeliveryInv, BusyHasId, TreeInv, TypeInv, BusyHasNode, PendingFresh,
              Pending
<1>6. Stored(resources', typeRows') = Stored(resources, typeRows) \cup {n}
  BY <1>1, <1>5, SecondRowSaved DEF TreeInv
<1>7. PICK m, from, agenda : m = n /\ from = task[t].req.from /\ agenda = items
  OBVIOUS
<1>8. Promised(m, from, agenda)'
  <2> SUFFICES ASSUME NEW s \in Subscribers(m)', NEW i \in DOMAIN s.attr.nu, NEW to
               PROVE  \E k \in DOMAIN agenda : LeadsTo(agenda[k], s, s.attr.nu[i], to)
    BY DEF Promised, LeadsTo
  <2>1. s \in Stored(resources', typeRows') /\ s.ty = "Subscription" /\ s.pi = m.pi
    BY DEF Subscribers
  <2>2. s \in Stored(resources, typeRows)
    BY <1>2, <1>6, <2>1
  <2>3. \E k \in DOMAIN items : items[k].what = "sub" /\ items[k].sub = s.ri
    BY <1>1, <1>5, <1>7, <2>1, <2>2, AllListed DEF LookupInv
  <2> QED  BY <1>7, <2>3 DEF LeadsTo
<1> QED  BY <1>4, <1>6, <1>7, <1>8

(* Every item of one agenda but the given one is an item of the other.     *)
CoveredBut(a, item, all) ==
    \A k \in DOMAIN a : a[k] = item \/ \E j \in DOMAIN all : all[j] = a[k]

Covered(a, all) == \A k \in DOMAIN a : \E j \in DOMAIN all : all[j] = a[k]

(* Work that is put in front of the rest of an agenda.                     *)
LEMMA WorkAndRest ==
    ASSUME NEW agenda \in Agenda, agenda # << >>, NEW work \in Agenda,
           NEW all, all = work \o Tail(agenda)
    PROVE  Covered(work, all) /\ CoveredBut(agenda, Head(agenda), all)
<1>0. agenda \in Seq(Item) /\ work \in Seq(Item)
  BY DEF Agenda, Item
<1> DEFINE rest == Tail(agenda)
           next == work \o rest
<1>1. /\ rest \in Seq(Item) /\ Len(rest) = Len(agenda) - 1
      /\ \A k \in 1 .. Len(rest) : rest[k] = agenda[k + 1]
  BY <1>0, HeadTailProperties
<1>2. agenda[1] = Head(agenda) /\ Len(agenda) \in Nat /\ DOMAIN agenda = 1 .. Len(agenda)
  BY <1>0
<1> HIDE DEF rest
<1>3. /\ next \in Seq(Item) /\ Len(next) = Len(work) + Len(rest)
      /\ \A j \in 1 .. Len(work) + Len(rest) :
           next[j] = IF j <= Len(work) THEN work[j] ELSE rest[j - Len(work)]
  BY <1>0, <1>1, ConcatProperties
<1>4. /\ DOMAIN next = 1 .. Len(work) + Len(rest) /\ DOMAIN work = 1 .. Len(work)
      /\ Len(work) \in Nat /\ Len(rest) \in Nat
  BY <1>0, <1>1, <1>3
<1> HIDE DEF next
<1>5. ASSUME NEW k \in DOMAIN work PROVE \E j \in DOMAIN next : next[j] = work[k]
  <2>1. k \in DOMAIN next /\ next[k] = work[k]
    BY <1>3, <1>4
  <2> QED  BY <2>1
<1>6. ASSUME NEW k \in DOMAIN agenda, k # 1
      PROVE  \E j \in DOMAIN next : next[j] = agenda[k]
  <2> DEFINE j == Len(work) + k - 1
  <2>1. j \in DOMAIN next /\ j > Len(work) /\ j - Len(work) = k - 1 /\ k - 1 \in 1 .. Len(rest)
    BY <1>1, <1>2, <1>4, <1>6
  <2>2. next[j] = rest[k - 1]
    BY <1>3, <1>4, <2>1
  <2>3. rest[k - 1] = agenda[k]
    BY <1>1, <1>2, <2>1
  <2> QED  BY <2>1, <2>2, <2>3
<1> QED  BY <1>2, <1>5, <1>6 DEF next, rest, Covered, CoveredBut

(* When a subscription is loaded, its URIs replace it.                     *)
LEMMA SubscriptionExpanded ==
    ASSUME NoNameClash, LookupInv, NEW t \in Task, NEW n, NEW from, n = task[t].node,
           task[t].agenda # << >>, Promised(n, from, task[t].agenda),
           Head(task[t].agenda).what = "sub",
           ExpandSubscription(t, Head(task[t].agenda))
    PROVE  Promised(n, from, task'[t].agenda)
<1> DEFINE item == Head(task[t].agenda)
           wanted == {s \in Load(<<item.sub>>) : s.ty = "Subscription" /\ MatchesCriteria(s, n)}
           work == IF wanted = {} THEN << >> ELSE UriItems(CHOOSE s \in wanted : TRUE)
           next == work \o Tail(task[t].agenda)
<1>1. TypeInv /\ TreeInv /\ task[t].agenda \in Agenda
  BY DEF LookupInv, DeliveryInv, TreeInv, TypeInv, TypeOK, TaskState
<1>2. task'[t].agenda = next
  <2>1. PICK all : all = next /\ Resume(t, "notify", all)
    BY DEF ExpandSubscription
  <2> HIDE DEF next
  <2>2. task'[t].agenda = all
    BY <1>1, <2>1, ResumeTask
  <2> QED  BY <2>1, <2>2
<1>3. work \in Agenda
  <2>1. << >> \in Agenda
    BY DEF Agenda
  <2>2. ASSUME wanted # {} PROVE work \in Agenda
    <3>1. PICK s \in wanted : work = UriItems(s)
      BY <2>2
    <3>2. s \in Node
      BY <1>1, LoadType DEF Load, TypeInv, TypeOK
    <3> QED  BY <3>1, <3>2, UriItemsType
  <2> QED  BY <2>1, <2>2
<1>4. ASSUME NEW s \in Subscribers(n), item.sub = s.ri
      PROVE  work = UriItems(s)
  <2>1. s \in Stored(resources, typeRows) /\ s.ty = "Subscription" /\ MatchesCriteria(s, n)
    BY DEF Subscribers
  <2>2. Load(<<item.sub>>) = {s}
    BY <1>1, <1>4, <2>1, FoundById DEF LookupInv
  <2>3. wanted = {s}
    BY <2>1, <2>2
  <2> QED  BY <2>3
<1> HIDE DEF work
<1>5. /\ \A k \in DOMAIN work : \E j \in DOMAIN next : next[j] = work[k]
      /\ \A k \in DOMAIN task[t].agenda :
            task[t].agenda[k] = item \/ \E j \in DOMAIN next : next[j] = task[t].agenda[k]
  <2>1. next = work \o Tail(task[t].agenda) /\ item = Head(task[t].agenda)
    OBVIOUS
  <2> HIDE DEF work, next, item
  <2>2. Covered(work, next) /\ CoveredBut(task[t].agenda, item, next)
    BY <1>1, <1>3, <2>1, WorkAndRest
  <2> QED  BY <2>2 DEF Covered, CoveredBut
<1> HIDE DEF next
<1>6. ASSUME NEW s \in Subscribers(n), NEW i \in DOMAIN s.attr.nu,
             NEW to \in Addresses(s.attr.nu[i], from, n),
             [about |-> n.ri, sub |-> s.ri, to |-> to] \notin sent
      PROVE  \E j \in DOMAIN next : LeadsTo(next[j], s, s.attr.nu[i], to)
  <2>1. PICK k \in DOMAIN task[t].agenda : LeadsTo(task[t].agenda[k], s, s.attr.nu[i], to)
    BY <1>6 DEF Promised
  <2>2. CASE task[t].agenda[k] = item
    <3>1. item.sub = s.ri
      BY <2>1, <2>2 DEF LeadsTo
    <3>2. i \in DOMAIN work /\ work[i] = [what |-> "uri", sub |-> s.ri, arg |-> s.attr.nu[i]]
      BY <1>4, <3>1 DEF UriItems
    <3>3. LeadsTo(work[i], s, s.attr.nu[i], to)
      BY <3>2 DEF LeadsTo
    <3> QED  BY <1>5, <3>2, <3>3
  <2>3. CASE \E j \in DOMAIN next : next[j] = task[t].agenda[k]
    BY <2>1, <2>3
  <2> QED  BY <1>5, <2>2, <2>3
<1> QED  BY <1>2, <1>6 DEF Promised

(* When a URI is looked up, the addresses it stands for replace it.        *)
LEMMA UriExpanded ==
    ASSUME NoNameClash, LookupInv, NEW t \in Task, NEW n, NEW from,
           n = task[t].node, from = task[t].req.from,
           task[t].agenda # << >>, Promised(n, from, task[t].agenda),
           Head(task[t].agenda).what = "uri", ExpandUri(t, Head(task[t].agenda))
    PROVE  Promised(n, from, task'[t].agenda)
<1> DEFINE item == Head(task[t].agenda)
           poas == PointsOfAccess(item.arg, from)
           work == [i \in DOMAIN poas |->
                      [what |-> "post", sub |-> item.sub, arg |-> poas[i]]]
           next == work \o Tail(task[t].agenda)
<1>1. TypeInv /\ TreeInv /\ task[t].agenda \in Agenda
  BY DEF LookupInv, DeliveryInv, TreeInv, TypeInv, TypeOK, TaskState
<1>2. task'[t].agenda = next
  BY <1>1, ResumeTask DEF ExpandUri
<1>3. work \in Agenda
  <2>1. item.sub \in Ident \cup {Null}
    BY <1>1, TailType
  <2> QED  BY <1>1, <2>1, PostItemsType
<1>4. ASSUME NEW to \in Addresses(item.arg, from, n)
      PROVE  \E j \in DOMAIN poas : poas[j] = to
  <2> DEFINE ae == {a \in Load(<<item.arg>>) : /\ item.arg \in StemIds /\ a.ty = "AE"
                                                /\ a.attr.rr /\ a.attr.aei = from}
  <2>1. CASE item.arg \in HttpUri
    <3>1. to = item.arg /\ poas = <<item.arg>>
      BY <1>4, <2>1 DEF Addresses, PointsOfAccess
    <3> QED  BY <3>1
  <2>2. CASE item.arg \notin HttpUri
    <3>1. PICK b \in Stored(resources, typeRows) :
            /\ b.ty = "AE" /\ b.attr.rr /\ b.ri = item.arg /\ b.attr.aei = from
            /\ item.arg \in StemIds /\ \E i \in DOMAIN b.attr.poa : to = b.attr.poa[i]
      BY <1>4, <2>2 DEF Addresses
    <3>2. Load(<<item.arg>>) = {b}
      BY <1>1, <3>1, FoundById DEF LookupInv
    <3>3. ae = {b}
      BY <3>1, <3>2
    <3>4. poas = b.attr.poa
      BY <2>2, <3>3 DEF PointsOfAccess
    <3> QED  BY <3>1, <3>4
  <2> QED  BY <2>1, <2>2
<1> HIDE DEF poas
<1>5. /\ \A k \in DOMAIN work : \E j \in DOMAIN next : next[j] = work[k]
      /\ \A k \in DOMAIN task[t].agenda :
            task[t].agenda[k] = item \/ \E j \in DOMAIN next : next[j] = task[t].agenda[k]
  <2>1. next = work \o Tail(task[t].agenda) /\ item = Head(task[t].agenda)
    OBVIOUS
  <2> HIDE DEF work, next, item
  <2>2. Covered(work, next) /\ CoveredBut(task[t].agenda, item, next)
    BY <1>1, <1>3, <2>1, WorkAndRest
  <2> QED  BY <2>2 DEF Covered, CoveredBut
<1> HIDE DEF next
<1>6. ASSUME NEW s \in Subscribers(n), NEW i \in DOMAIN s.attr.nu,
             NEW to \in Addresses(s.attr.nu[i], from, n),
             [about |-> n.ri, sub |-> s.ri, to |-> to] \notin sent
      PROVE  \E j \in DOMAIN next : LeadsTo(next[j], s, s.attr.nu[i], to)
  <2>1. PICK k \in DOMAIN task[t].agenda : LeadsTo(task[t].agenda[k], s, s.attr.nu[i], to)
    BY <1>6 DEF Promised
  <2>2. CASE task[t].agenda[k] = item
    <3>1. item.sub = s.ri /\ item.arg = s.attr.nu[i]
      BY <2>1, <2>2 DEF LeadsTo
    <3>2. PICK j \in DOMAIN poas : poas[j] = to
      BY <1>4, <3>1
    <3>3. j \in DOMAIN work /\ work[j] = [what |-> "post", sub |-> s.ri, arg |-> to]
      BY <3>1, <3>2
    <3>4. LeadsTo(work[j], s, s.attr.nu[i], to)
      BY <3>3 DEF LeadsTo
    <3> QED  BY <1>5, <3>3, <3>4
  <2>3. CASE \E j \in DOMAIN next : next[j] = task[t].agenda[k]
    BY <2>1, <2>3
  <2> QED  BY <1>5, <2>2, <2>3
<1> QED  BY <1>2, <1>6 DEF Promised

(* When an address is posted to, the notification is sent.                 *)
LEMMA AddressPosted ==
    ASSUME NEW n, NEW from, NEW agenda \in Agenda, agenda # << >>,
           Head(agenda).what = "post", Promised(n, from, agenda)',
           [about |-> n.ri, sub |-> Head(agenda).sub, to |-> Head(agenda).arg] \in sent'
    PROVE  Promised(n, from, Tail(agenda))'
<1>1. \A k \in DOMAIN agenda :
         \/ agenda[k] = Head(agenda)
         \/ \E j \in DOMAIN Tail(agenda) : Tail(agenda)[j] = agenda[k]
  <2>1. Agenda = Seq(Item)
    BY DEF Agenda, Item
  <2>2. /\ agenda[1] = Head(agenda) /\ DOMAIN agenda = 1 .. Len(agenda)
        /\ Len(agenda) \in Nat
    BY <2>1
  <2>3. /\ Tail(agenda) \in Seq(Item) /\ Len(Tail(agenda)) = Len(agenda) - 1
        /\ \A k \in 1 .. Len(Tail(agenda)) : Tail(agenda)[k] = agenda[k + 1]
    BY <2>1, HeadTailProperties
  <2>4. DOMAIN Tail(agenda) = 1 .. Len(Tail(agenda))
    BY <2>3
  <2>5. ASSUME NEW k \in DOMAIN agenda, k # 1
        PROVE  k - 1 \in DOMAIN Tail(agenda) /\ Tail(agenda)[k - 1] = agenda[k]
    <3>1. k - 1 \in 1 .. Len(Tail(agenda)) /\ (k - 1) + 1 = k
      BY <2>2, <2>3, <2>5
    <3> QED  BY <2>3, <2>4, <3>1
  <2> QED  BY <2>2, <2>5
<1>2. ASSUME NEW s \in Subscribers(n)', NEW i \in DOMAIN s.attr.nu,
             NEW to \in Addresses(s.attr.nu[i], from, n)',
             [about |-> n.ri, sub |-> s.ri, to |-> to] \notin sent'
      PROVE  \E j \in DOMAIN Tail(agenda) : LeadsTo(Tail(agenda)[j], s, s.attr.nu[i], to)
  <2>1. PICK k \in DOMAIN agenda : LeadsTo(agenda[k], s, s.attr.nu[i], to)
    BY <1>2 DEF Promised, LeadsTo
  <2>2. agenda[k] # Head(agenda)
    BY <1>2, <2>1 DEF LeadsTo
  <2> QED  BY <1>1, <2>1, <2>2
<1> QED  BY <1>2 DEF Promised, LeadsTo

(* A step of the deliveries keeps the promise.                             *)
LEMMA SendPromised ==
    ASSUME NoIdClash, Reliable, NoNameClash, LookupInv, DeliversAll, [Next]_vars,
           NEW t \in Task, SendNotification(t)
    PROVE  /\ task'[t].node \in Stored(resources', typeRows')
           /\ Promised(task[t].node, task[t].req.from, task[t].agenda)'
<1> DEFINE item == Head(task[t].agenda)
<1>1. /\ TypeInv /\ TreeInv /\ SavesLast /\ task[t].agenda \in Agenda
  BY DEF LookupInv, DeliveryInv, TreeInv, TypeInv, TypeOK, TaskState
<1>2. /\ task[t].pc = "notify" /\ task[t].agenda # << >> /\ Delivers(t) /\ power = "on"
  BY DEF SendNotification, Runs, Delivers
<1>3. PICK n, from, agenda :
        /\ n = task[t].node /\ from = task[t].req.from /\ agenda = task[t].agenda
        /\ n \in Stored(resources, typeRows) /\ Promised(n, from, agenda)
  BY <1>2 DEF DeliversAll
<1>4. sent \subseteq sent'
  BY DEF SendNotification, ExpandSubscription, ExpandUri, Post
<1>5. task'[t].node = n /\ task'[t].req = task[t].req
  <2>1. \E pc, rest : Resume(t, pc, rest)
    BY DEF SendNotification, ExpandSubscription, ExpandUri, Post
  <2> QED  BY <1>1, <1>3, <2>1, ResumeTask
<1>6. ASSUME NEW next, next = task'[t].agenda, Promised(n, from, next)'
      PROVE  Promised(task[t].node, task[t].req.from, task[t].agenda)'
  BY <1>3, <1>5, <1>6
<1>7. n \in Stored(resources', typeRows')
  BY <1>1, <1>2, <1>3, RowidsStay
<1>8. CASE \/ item.what = "sub" /\ ExpandSubscription(t, item)
           \/ item.what = "uri" /\ ExpandUri(t, item)
  <2>1. PICK next : next = task'[t].agenda
    OBVIOUS
  <2>2. Promised(n, from, next)
    BY <1>2, <1>3, <1>8, <2>1, SubscriptionExpanded, UriExpanded
  <2>3. Promised(n, from, next)'
    BY <1>1, <1>2, <1>3, <1>4, <2>2, PromisedStays
  <2> QED  BY <1>5, <1>6, <1>7, <2>1, <2>3
<1>9. CASE item.what = "post" /\ Post(t, item)
  <2>1. Promised(n, from, agenda)'
    BY <1>1, <1>2, <1>3, <1>4, PromisedStays
  <2>2. /\ [about |-> n.ri, sub |-> Head(agenda).sub, to |-> Head(agenda).arg] \in sent'
        /\ Resume(t, "awaitPeer", Tail(agenda))
    BY <1>3, <1>9 DEF Post
  <2>3. Promised(n, from, Tail(agenda))'
    BY <1>1, <1>2, <1>3, <1>9, <2>1, <2>2, AddressPosted
  <2>4. task'[t].agenda = Tail(agenda)
    BY <1>1, <2>2, ResumeTask
  <2> QED  BY <1>5, <1>6, <1>7, <2>3, <2>4
<1> QED  BY <1>8, <1>9 DEF SendNotification

-----------------------------------------------------------------------------
(* Every step keeps the promises.                                          *)

(* A notification that was handed to the HTTP client stays so.             *)
LEMMA SentStays ==
    ASSUME [Next]_vars, power = "on"
    PROVE  sent \subseteq sent'
<1>1. CASE \E t \in Task : Create(t)
  BY <1>1
  DEF Create, RefuseCreate, RefuseCreateAfterId, AcceptCreate, VerifySubscription,
      VerificationAnswered, VerificationFails, InsertRow, HangInPathQuery, InsertRowFails,
      InsertDetail, InsertDetailFails, SendNotification, SkipDelivery, NotificationAnswered,
      FinishCreate, ExpandSubscription, ExpandUri, Post, history
<1>2. CASE \/ \E t \in Task, q \in RetrieveRequests : Retrieve(t, q)
           \/ PowerLoss \/ UNCHANGED vars
  BY <1>2 DEF Retrieve, PowerLoss, vars, history
<1>3. \A clean : ~ Boot(clean)
  BY DEF Boot
<1> QED  BY <1>1, <1>2, <1>3 DEF Next

(* Power that is off stays off, or a boot changes neither the tasks nor    *)
(* the last answer.                                                        *)
LEMMA OffStep ==
    ASSUME [Next]_vars, power = "off"
    PROVE  UNCHANGED <<task, reply>>
<1>1. \A t \in Task : ~ Create(t)
  BY DEF Create, RefuseCreate, RefuseCreateAfterId, AcceptCreate, VerifySubscription,
         VerificationAnswered, VerificationFails, InsertRow, HangInPathQuery, InsertRowFails,
         InsertDetail, InsertDetailFails, SendNotification, SkipDelivery,
         NotificationAnswered, FinishCreate, Scheduled, Runs
<1>2. (\A t \in Task : \A q : ~ Retrieve(t, q)) /\ ~ PowerLoss
  BY DEF Retrieve, PowerLoss, Scheduled
<1>3. ASSUME NEW clean, Boot(clean) PROVE UNCHANGED <<task, reply>>
  BY <1>3 DEF Boot
<1>4. CASE UNCHANGED vars
  BY <1>4 DEF vars, ram, history
<1> QED  BY <1>1, <1>2, <1>3, <1>4 DEF Next

(* A task that delivers after a step delivered before it, has just saved   *)
(* its resource, or has done a piece of the delivery.                      *)
LEMMA DeliveringTask ==
    ASSUME TypeInv, [Next]_vars, power = "on", NEW u \in Task
    PROVE  Continues(u) \/ InsertDetail(u) \/ SendNotification(u) \/ SkipDelivery(u)
<1>1. ASSUME NEW t \in Task, NEW q, NEW code, NEW n, Reply(t, q, code, n)
      PROVE  Continues(u)
  BY <1>1, ReplyTask DEF Continues, Delivers
<1>2. ASSUME NEW t \in Task, NEW pc, NEW agenda, Resume(t, pc, agenda),
             \/ pc \notin {"notify", "awaitPeer"}
             \/ Delivers(t) /\ agenda = task[t].agenda
             \/ t # u
      PROVE  Continues(u)
  BY <1>2, ResumeTask DEF Continues, Delivers
<1>3. ASSUME NEW t \in Task, Create(t)
      PROVE  Continues(u) \/ InsertDetail(u) \/ SendNotification(u) \/ SkipDelivery(u)
  <2>1. CASE \/ \E q \in CreateRequests : RefuseCreate(t, q) \/ RefuseCreateAfterId(t, q)
             \/ VerificationFails(t) \/ InsertRowFails(t) \/ InsertDetailFails(t)
             \/ FinishCreate(t)
    <3>1. \E q, code, n : Reply(t, q, code, n)
      BY <2>1 DEF RefuseCreate, RefuseCreateAfterId, VerificationFails, InsertRowFails,
                  InsertDetailFails, FinishCreate
    <3> QED  BY <1>1, <3>1
  <2>2. CASE \E q \in CreateRequests : AcceptCreate(t, q)
    BY <2>2 DEF AcceptCreate, Continues, Delivers, TypeInv, TypeOK
  <2>3. CASE VerifySubscription(t) \/ VerificationAnswered(t) \/ HangInPathQuery(t)
             \/ InsertRow(t)
    <3>1. \E pc, agenda : Resume(t, pc, agenda) /\ pc \notin {"notify", "awaitPeer"}
      <4>1. CASE VerifySubscription(t)
        <5>1. \/ Resume(t, "insert", << >>)
              \/ Resume(t, "verify", Tail(task[t].agenda))
              \/ Resume(t, "awaitVerification", Tail(task[t].agenda))
          BY <4>1 DEF VerifySubscription
        <5> QED  BY <5>1
      <4>2. CASE VerificationAnswered(t) \/ HangInPathQuery(t) \/ InsertRow(t)
        BY <4>2 DEF VerificationAnswered, HangInPathQuery, InsertRow
      <4> QED  BY <2>3, <4>1, <4>2
    <3> QED  BY <1>2, <3>1
  <2>4. CASE NotificationAnswered(t)
    BY <1>2, <2>4 DEF NotificationAnswered, Delivers
  <2>5. CASE InsertDetail(t) /\ t # u
    <3>1. (\E q, code, n : Reply(t, q, code, n)) \/ \E items : Resume(t, "notify", items)
      BY <2>5 DEF InsertDetail
    <3> QED  BY <1>1, <1>2, <2>5, <3>1
  <2>6. CASE (SendNotification(t) \/ SkipDelivery(t)) /\ t # u
    <3>1. \E pc, rest : Resume(t, pc, rest)
      BY <2>6 DEF SendNotification, SkipDelivery, ExpandSubscription, ExpandUri, Post
    <3> QED  BY <1>2, <2>6, <3>1
  <2> QED  BY <1>3, <2>1, <2>2, <2>3, <2>4, <2>5, <2>6 DEF Create
<1>4. CASE \/ \E t \in Task, q \in RetrieveRequests : Retrieve(t, q)
           \/ \E clean \in CleanOnBoot : Boot(clean)
           \/ UNCHANGED vars
  <2>1. task' = task
    BY <1>4 DEF Retrieve, Boot, vars, ram
  <2> QED  BY <2>1 DEF Continues, Delivers
<1>5. CASE PowerLoss
  BY <1>5 DEF PowerLoss, Idle, Continues, Delivers
<1> QED  BY <1>3, <1>4, <1>5 DEF Next

LEMMA DeliversAllStep ==
    ASSUME NoIdClash, Reliable, NoNameClash, "deliver" \notin Faults,
           LookupInv, DeliversAll, [Next]_vars
    PROVE  DeliversAll'
<1> SUFFICES ASSUME NEW u \in Task, Delivers(u)'
             PROVE  /\ task'[u].node \in Stored(resources', typeRows')
                    /\ Promised(task[u].node, task[u].req.from, task[u].agenda)'
  BY DEF DeliversAll
<1>1. TypeInv /\ TreeInv /\ SavesLast /\ PowerOffIdle /\ power \in {"on", "off"}
  BY DEF LookupInv, DeliveryInv, TreeInv, TypeInv, TypeOK
<1>2. CASE power = "off"
  <2>1. task'[u].pc = "idle"
    BY <1>1, <1>2, OffStep DEF PowerOffIdle
  <2> QED  BY <2>1 DEF Delivers
<1>3. CASE power = "on"
  <2>1. sent \subseteq sent'
    BY <1>3, SentStays
  <2>2. CASE Continues(u)
    BY <1>1, <1>3, <2>1, <2>2, ContinuesStep
  <2>3. CASE InsertDetail(u)
    BY <2>3, DetailPromised
  <2>4. CASE SendNotification(u)
    BY <2>4, SendPromised
  <2>5. ~ SkipDelivery(u)
    BY DEF SkipDelivery
  <2> QED  BY <1>1, <1>3, <2>2, <2>3, <2>4, <2>5, DeliveringTask
<1> QED  BY <1>1, <1>2, <1>3

(* A step answers no one, refuses, or answers a retrieve or a create.      *)
LEMMA ReplyShape ==
    ASSUME [Next]_vars
    PROVE  \/ UNCHANGED reply
           \/ reply' = NoReply
           \/ reply'.ri = Null \/ reply'.code # "CREATED"
           \/ \E t \in Task : FinishCreate(t)
           \/ \E t \in Task : InsertDetail(t) /\ task[t].node.ty = "Subscription"
<1>1. ASSUME NEW t \in Task, Create(t)
      PROVE  \/ UNCHANGED reply
             \/ reply'.ri = Null
             \/ FinishCreate(t)
             \/ InsertDetail(t) /\ task[t].node.ty = "Subscription"
  <2>1. CASE \/ \E q \in CreateRequests : RefuseCreate(t, q) \/ RefuseCreateAfterId(t, q)
             \/ VerificationFails(t) \/ InsertRowFails(t) \/ InsertDetailFails(t)
    <3>1. \E q, code : Reply(t, q, code, NoNode)
      BY <2>1 DEF RefuseCreate, RefuseCreateAfterId, VerificationFails, InsertRowFails,
                  InsertDetailFails
    <3> QED  BY <3>1 DEF Reply
  <2>2. CASE \/ \E q \in CreateRequests : AcceptCreate(t, q)
             \/ VerifySubscription(t) \/ VerificationAnswered(t)
             \/ InsertRow(t) \/ HangInPathQuery(t)
             \/ SendNotification(t) \/ SkipDelivery(t) \/ NotificationAnswered(t)
    BY <2>2 DEF AcceptCreate, VerifySubscription, VerificationAnswered, InsertRow,
                HangInPathQuery, SendNotification, SkipDelivery, NotificationAnswered, history
  <2>3. CASE InsertDetail(t)
    BY <2>3 DEF InsertDetail
  <2> QED  BY <1>1, <2>1, <2>2, <2>3 DEF Create
<1>2. ASSUME NEW t \in Task, NEW q \in RetrieveRequests, Retrieve(t, q)
      PROVE  reply'.ri = Null \/ reply'.code # "CREATED"
  BY <1>2 DEF Retrieve, RetrieveAnswers, ReadFailures, Answer
<1>3. CASE (\E clean \in CleanOnBoot : Boot(clean)) \/ PowerLoss \/ UNCHANGED vars
  BY <1>3 DEF Boot, PowerLoss, vars, history
<1> QED  BY <1>1, <1>2, <1>3 DEF Next

LEMMA AckedAllStep ==
    ASSUME NoIdClash, Reliable, NoNameClash, LookupInv, DeliversAll, AckedAll, [Next]_vars
    PROVE  AckedAll'
<1>1. /\ TypeInv /\ TreeInv /\ SavesLast /\ PowerOffSilent /\ BusyNamed
      /\ power \in {"on", "off"}
  BY DEF LookupInv, DeliveryInv, TreeInv, TypeInv, TypeOK
<1>2. CASE power = "off"
  <2>1. reply' = NoReply
    BY <1>1, <1>2, OffStep DEF PowerOffSilent
  <2> QED  BY <2>1 DEF AckedAll, Answered
<1>3. CASE power = "on" /\ UNCHANGED reply
  BY <1>1, <1>3, SentStays, AckedStays
<1>4. CASE reply' = NoReply \/ reply'.ri = Null \/ reply'.code # "CREATED"
  BY <1>4 DEF AckedAll, Answered
<1>5. ASSUME NEW t \in Task, InsertDetail(t), task[t].node.ty = "Subscription"
      PROVE  AckedAll'
  <2>1. reply'.req = task[t].req /\ task[t].pc # "idle"
    BY <1>5 DEF InsertDetail, Reply, Runs
  <2>2. reply'.req.ty = "Subscription"
    BY <1>1, <1>5, <2>1 DEF BusyNamed
  <2> QED  BY <2>2 DEF AckedAll
<1>6. ASSUME NEW t \in Task, FinishCreate(t), power = "on"
      PROVE  AckedAll'
  <2>1. PICK n, from, agenda :
          /\ n = task[t].node /\ from = task[t].req.from /\ agenda = task[t].agenda
          /\ n \in Stored(resources, typeRows) /\ Promised(n, from, agenda)
    BY <1>6 DEF DeliversAll, Delivers, FinishCreate, Runs
  <2>2. agenda = << >> /\ task[t].pc # "idle"
    BY <1>6, <2>1 DEF FinishCreate, Runs
  <2>3. n \in Stored(resources', typeRows') /\ Promised(n, from, agenda)'
    BY <1>1, <1>6, <2>1, SentStays, PromisedStays
  <2>4. n # NoNode
    BY <1>1, <2>1, <2>2, RequestAssumption DEF TypeInv, BusyHasNode
  <2>5. reply'.ri = n.ri /\ reply'.req.from = from
    BY <1>6, <2>1, <2>4 DEF FinishCreate, Reply
  <2> QED  BY <2>2, <2>3, <2>5 DEF AckedAll
<1> QED  BY <1>1, <1>2, <1>3, <1>4, <1>5, <1>6, ReplyShape

LEMMA NotifyInvInit ==
    ASSUME Init
    PROVE  NotifyInv
<1>1. \A t \in Task : task[t].pc = "idle" /\ ~ Delivers(t)
  BY DEF Init, Idle, Delivers
<1>2. DeliveryInv
  BY <1>1, TreeInvInit DEF DeliveryInv, BusyHasId, DeliversStored, NotifiedIsStored, Init
<1>3. RowsNamed /\ PowerOffSilent /\ AckedAll
  BY DEF Init, RowsNamed, PowerOffSilent, AckedAll, Answered
<1>4. BusyNamed /\ SavesLast /\ DeliversAll
  BY <1>1 DEF BusyNamed, SavesLast, DeliversAll
<1> QED  BY <1>2, <1>3, <1>4 DEF NotifyInv, LookupInv

LEMMA AckedAllNotified ==
    ASSUME NotifyInv
    PROVE  AckedIsNotified
<1> SUFFICES ASSUME Answered("CREATED"), reply.req.ty # "Subscription",
                    NEW n \in Stored(resources, typeRows),
                    NEW s \in Stored(resources, typeRows),
                    n.ri = reply.ri, s.ty = "Subscription", s.pi = n.pi,
                    RowidOf(s) < RowidOf(n), MatchesCriteria(s, n),
                    NEW i \in DOMAIN s.attr.nu,
                    NEW to \in Addresses(s.attr.nu[i], reply.req.from, n)
             PROVE  [about |-> n.ri, sub |-> s.ri, to |-> to] \in sent
  BY DEF AckedIsNotified
<1>1. resources \in SUBSET Row /\ RowKeys(resources)
  BY DEF NotifyInv, LookupInv, DeliveryInv, TreeInv, TypeInv, TypeOK
<1>2. n.ri # Null
  BY <1>1, RowOfStored
<1>3. PICK m \in Stored(resources, typeRows) :
        m.ri = reply.ri /\ Promised(m, reply.req.from, << >>)
  BY <1>2 DEF NotifyInv, AckedAll
<1>4. m = n
  BY <1>1, <1>3, RowOfStored
<1>5. s \in Subscribers(n)
  BY DEF Subscribers
<1> QED  BY <1>3, <1>4, <1>5 DEF Promised

(* When a create is answered, every subscriber that asked for the resource *)
(* has had a notification posted to each of its addresses, whatever other  *)
(* tasks created during the deliveries and however many tasks, resources   *)
(* and subscriptions there are: SendNotification loads the list of         *)
(* subscriptions once, and loses nothing on it while it waits for peers.   *)
(* Provided that what the deliveries load can be loaded: the code leaves   *)
(* out what cannot, and answers CREATED all the same.                      *)
THEOREM SubscribersNotified ==
    ASSUME NoIdClash, Reliable, NoNameClash, Faults \cap {"id", "deliver"} = {}
    PROVE  Spec => []AckedIsNotified
<1>1. Init => NotifyInv
  BY NotifyInvInit
<1>2. NotifyInv /\ [Next]_vars => NotifyInv'
  BY LookupInvStep, DeliversAllStep, AckedAllStep DEF NotifyInv
<1>3. NotifyInv => AckedIsNotified
  BY AckedAllNotified
<1> QED  BY <1>1, <1>2, <1>3, PTL DEF Spec

-----------------------------------------------------------------------------
(* What a client was told is CREATED stays, and is found.                  *)

(* The second row makes the resource a stored one.                         *)
LEMMA DetailSaves ==
    ASSUME TreeInv, BusyHasId, NEW t \in Task, InsertDetail(t)
    PROVE  /\ task[t].node \in Stored(resources', typeRows')
           /\ Delivers(t)' => task'[t].node = task[t].node
<1> DEFINE n == task[t].node
<1>1. task[t].pc = "detail" /\ UNCHANGED resources /\ typeRows' = InsertTypeRow(typeRows, n)
  BY DEF InsertDetail, Runs
<1>2. /\ n \in Node /\ n.ri # Null /\ Unused(typeRows, n.ri)
      /\ \E r \in resources : IsRowOf(r, n)
  BY <1>1 DEF BusyHasId, TreeInv, TypeInv, BusyHasNode, PendingFresh, Pending
<1>3. n \in Stored(resources', typeRows')
  BY <1>1, <1>2, SecondRowSaved DEF TreeInv
<1>4. (\E q, code, m : Reply(t, q, code, m)) \/ \E items : Resume(t, "notify", items)
  BY DEF InsertDetail
<1>5. Delivers(t)' => task'[t].node = n
  BY <1>4, ReplyTask, ResumeTask DEF Delivers, TreeInv
<1> QED  BY <1>3, <1>5

AckedStored == acked \subseteq Stored(resources, typeRows)

(* A resource is stored when its notifications begin, and while they last. *)
DeliversSaved ==
    \A t \in Task : Delivers(t) => task[t].node \in Stored(resources, typeRows)

SavedInv == LookupInv /\ DeliversSaved

LEMMA SavedInvInit == Init => SavedInv
  BY NotifyInvInit DEF NotifyInv, SavedInv, DeliversAll, DeliversSaved

LEMMA DeliversSavedStep ==
    ASSUME NoIdClash, Reliable, LookupInv, DeliversSaved, [Next]_vars
    PROVE  DeliversSaved'
<1> SUFFICES ASSUME NEW u \in Task, Delivers(u)'
             PROVE  task'[u].node \in Stored(resources', typeRows')
  BY DEF DeliversSaved
<1>1. /\ TypeInv /\ TreeInv /\ BusyHasId /\ PowerOffIdle /\ power \in {"on", "off"}
  BY DEF LookupInv, DeliveryInv, TreeInv, TypeInv, TypeOK
<1>2. CASE power = "off"
  <2>1. task'[u].pc = "idle"
    BY <1>1, <1>2, OffStep DEF PowerOffIdle
  <2> QED  BY <2>1 DEF Delivers
<1>3. CASE power = "on"
  <2>1. Stored(resources, typeRows) \subseteq Stored(resources', typeRows')
    BY <1>1, <1>3, StoredStays
  <2>2. ASSUME Delivers(u), task'[u].node = task[u].node
        PROVE  task'[u].node \in Stored(resources', typeRows')
    BY <2>1, <2>2 DEF DeliversSaved
  <2>3. CASE InsertDetail(u)
    BY <1>1, <2>3, DetailSaves
  <2>4. CASE SendNotification(u) \/ SkipDelivery(u)
    <3>1. Delivers(u) /\ \E pc, rest : Resume(u, pc, rest)
      BY <2>4 DEF SendNotification, SkipDelivery, ExpandSubscription, ExpandUri, Post, Runs,
                  Delivers
    <3> QED  BY <1>1, <2>2, <3>1, ResumeTask
  <2> QED  BY <1>1, <1>3, <2>2, <2>3, <2>4, DeliveringTask DEF Continues
<1> QED  BY <1>1, <1>2, <1>3

LEMMA AckedShape ==
    ASSUME [Next]_vars, power = "on"
    PROVE  \/ UNCHANGED acked
           \/ \E t \in Task : /\ acked' \subseteq acked \cup {task[t].node}
                              /\ FinishCreate(t) \/ InsertDetail(t)
<1>1. ASSUME NEW t \in Task, Create(t)
      PROVE  \/ UNCHANGED acked
             \/ /\ acked' \subseteq acked \cup {task[t].node}
                /\ FinishCreate(t) \/ InsertDetail(t)
  <2>1. CASE \/ \E q \in CreateRequests : RefuseCreate(t, q) \/ RefuseCreateAfterId(t, q)
             \/ VerificationFails(t) \/ InsertRowFails(t) \/ InsertDetailFails(t)
    <3>1. \E q, code : Reply(t, q, code, NoNode)
      BY <2>1 DEF RefuseCreate, RefuseCreateAfterId, VerificationFails, InsertRowFails,
                  InsertDetailFails
    <3> QED  BY <3>1 DEF Reply
  <2>2. CASE \/ \E q \in CreateRequests : AcceptCreate(t, q)
             \/ VerifySubscription(t) \/ VerificationAnswered(t)
             \/ InsertRow(t) \/ HangInPathQuery(t)
             \/ SendNotification(t) \/ SkipDelivery(t) \/ NotificationAnswered(t)
    BY <2>2 DEF AcceptCreate, VerifySubscription, VerificationAnswered, InsertRow,
                HangInPathQuery, SendNotification, SkipDelivery, NotificationAnswered, history
  <2>3. CASE FinishCreate(t) \/ InsertDetail(t)
    BY <2>3 DEF FinishCreate, InsertDetail, Reply
  <2> QED  BY <1>1, <2>1, <2>2, <2>3 DEF Create
<1>2. CASE \/ \E t \in Task, q \in RetrieveRequests : Retrieve(t, q)
           \/ PowerLoss \/ UNCHANGED vars
  BY <1>2 DEF Retrieve, PowerLoss, vars, history
<1>3. \A clean : ~ Boot(clean)
  BY DEF Boot
<1> QED  BY <1>1, <1>2, <1>3 DEF Next

LEMMA AckedStoredStep ==
    ASSUME NoIdClash, Reliable, SavedInv, AckedStored, [Next]_vars
    PROVE  AckedStored'
<1>1. /\ LookupInv /\ DeliveryInv /\ TreeInv /\ TypeInv /\ BusyHasId
      /\ DeliversSaved /\ power \in {"on", "off"}
  BY DEF SavedInv, LookupInv, DeliveryInv, TreeInv, TypeInv, TypeOK
<1>2. CASE power = "on"
  <2>1. Stored(resources, typeRows) \subseteq Stored(resources', typeRows')
    BY <1>1, <1>2, StoredStays
  <2>2. ASSUME NEW t \in Task, FinishCreate(t)
        PROVE  task[t].node \in Stored(resources', typeRows')
    BY <1>1, <2>1, <2>2 DEF DeliversSaved, Delivers, FinishCreate, Runs
  <2>3. ASSUME NEW t \in Task, InsertDetail(t)
        PROVE  task[t].node \in Stored(resources', typeRows')
    BY <1>1, <2>3, DetailSaves
  <2> QED  BY <1>2, <2>1, <2>2, <2>3, AckedShape DEF AckedStored
<1>3. CASE power = "off"
  <2>1. ASSUME NEW clean \in CleanOnBoot, Boot(clean)
        PROVE  AckedStored'
    <3>1. CASE clean
      BY <2>1, <3>1 DEF Boot, Forget, AckedStored
    <3>2. CASE ~ clean
      <4>1. \/ UNCHANGED <<resources, typeRows>>
            \/ CSEBases(resources, typeRows) = {}
        BY <2>1, <3>2 DEF Boot, Initialize, Reliable
      <4>2. CSEBases(resources, typeRows) = {} => Stored(resources, typeRows) = {}
        BY <1>1, RootFound DEF Stored
      <4>3. UNCHANGED acked
        BY <2>1, <3>2 DEF Boot, Forget
      <4> QED  BY <4>1, <4>2, <4>3 DEF AckedStored
    <3> QED  BY <3>1, <3>2
  <2>2. CASE UNCHANGED <<resources, typeRows, acked>>
    BY <2>2 DEF AckedStored
  <2>3. (\E clean \in CleanOnBoot : Boot(clean)) \/ UNCHANGED vars
    BY <1>3
    DEF Next, Create, RefuseCreate, RefuseCreateAfterId, AcceptCreate, VerifySubscription,
        VerificationAnswered, VerificationFails, InsertRow, HangInPathQuery, InsertRowFails,
        InsertDetail, InsertDetailFails, SendNotification, SkipDelivery,
        NotificationAnswered, FinishCreate, Retrieve, PowerLoss, Scheduled, Runs
  <2> QED  BY <2>1, <2>2, <2>3 DEF vars, db, history
<1> QED  BY <1>1, <1>2, <1>3

(* A resource a client was told is CREATED is found by its ID for ever,    *)
(* unchanged, however often power fails between the commits of other tasks *)
(* and whatever is created later: both rows were committed before the      *)
(* answer, and the three-way lookup finds no other row first.              *)
THEOREM AckedIsDurable ==
    ASSUME NoIdClash, Reliable, NoNameClash, "id" \notin Faults
    PROVE  Spec => []AckedRetrievable
<1>1. Init => SavedInv /\ AckedStored
  BY SavedInvInit DEF Init, AckedStored
<1>2. SavedInv /\ AckedStored /\ [Next]_vars => SavedInv' /\ AckedStored'
  BY LookupInvStep, DeliversSavedStep, AckedStoredStep DEF SavedInv
<1>3. SavedInv /\ AckedStored => AckedRetrievable
  <2> SUFFICES ASSUME SavedInv, AckedStored, NEW n \in acked PROVE n \in Load(<<n.ri>>)
    BY DEF AckedRetrievable
  <2>1. n \in Stored(resources, typeRows) /\ TreeInv /\ RowsNamed
    BY DEF AckedStored, SavedInv, LookupInv, DeliveryInv
  <2>2. Load(<<n.ri>>) = {n}
    BY <2>1, FoundById
  <2> QED  BY <2>2
<1> QED  BY <1>1, <1>2, <1>3, PTL DEF Spec

=============================================================================
