----------------------------- MODULE CseService -----------------------------
(***************************************************************************)
(* The resource service of the CSE (zerom2m/src/onem2m/onem2m_service.cpp) *)
(* on top of its database: booting, creating and retrieving resources,     *)
(* verifying subscriptions and notifying subscribers.                      *)
(*                                                                         *)
(* Requests are served by tasks (HTTP workers, the P2P task) of Circle's   *)
(* cooperative scheduler.  A task keeps the CPU until it waits for the     *)
(* network, which a create does only while a notification or a             *)
(* verification is on its way; SD card and SQLite calls do not yield.      *)
(* Power may fail between any two database commits.                        *)
(***************************************************************************)
EXTENDS ResourceStore

CONSTANTS
    Task,           \* tasks that call the service
    Free,           \* no task holds the CPU
    CreateRequests, \* the creates clients may send
    RetrieveRequests, \* the retrieves clients may send
    NoRequest, NoNode, NoReply,
    CseName,        \* rn of the CSEBase, cse.resource_name in system.cfg
    CseRi,          \* ri of the CSEBase, cse.resource_id
    CseId,          \* cse.cse_id, with its leading slash
    CseStem,        \* the same without the slash
    SpId,           \* cse.sp_id
    NoFrom,         \* no X-M2M-Origin: an empty originator
    StemC,          \* the originator "C" that asks the CSE for an AE-ID
    CAdmin,         \* the originator that may retrieve everything
    NoName,         \* the request leaves the name to the CSE
    La, Ol,         \* the virtual children "la" and "ol"
    OneChar,        \* the names that have one character
    TwoChar,        \* the names that have two characters
    StemIds,        \* the identifiers that start with C or S
    ResourceId,     \* the n-th generated ID, "C<n>"
    DefaultName(_, _), \* the name made from a type and an ID, "cntC<n>"
    MaxId,          \* bound: resource IDs generated
    MaxRows,        \* bound: rowids, which grow without a new ID too
    MaxBoots,       \* bound: power-ups
    CleanOnBoot,    \* the values of system.clean_db_on_boot
    Faults          \* the database calls that may fail

(* A create: where to, in which form of address, from whom, under which    *)
(* name, and what is wrong with it: nothing, the request itself (no valid  *)
(* target, no content), an attribute, or the name.                         *)
CreateRequestOf(ty) ==
    [ty : {ty}, to : Seq(Ident), form : {"csRelative", "absolute"},
     from : Ident \cup {NoFrom}, rn : Ident \cup {NoName},
     flaw : {"none", "request", "content", "name"}, attr : Attr[ty]]

CreateRequest ==
    CreateRequestOf("AE") \cup CreateRequestOf("Container")
    \cup CreateRequestOf("ContentInstance") \cup CreateRequestOf("Subscription")

RetrieveRequest ==
    [to : Seq(Ident), form : {"csRelative", "absolute"}, from : Ident \cup {NoFrom}]

ASSUME TaskAssumption == Free \notin Task

ASSUME RequestAssumption ==
    /\ CreateRequests \subseteq CreateRequest
    /\ RetrieveRequests \subseteq RetrieveRequest
    /\ NoRequest \notin CreateRequests
    /\ NoNode \notin Node

ASSUME IdentAssumption ==
    /\ {CseName, CseRi, CseId, CseStem, StemC, CAdmin, La, Ol} \subseteq Ident
    /\ {La, Ol} \subseteq TwoChar
    /\ CseName \notin OneChar
    /\ NoFrom \notin Ident
    /\ NoName \notin Ident
    /\ SpId # Null

ASSUME GeneratedIdAssumption ==
    /\ MaxId \in Nat
    /\ \A n \in 1 .. MaxId : ResourceId[n] \in Ident
    /\ \A m, n \in 1 .. MaxId : ResourceId[m] = ResourceId[n] => m = n
    /\ \A ty \in ResourceType :
         \A i \in ({q.from : q \in CreateRequests} \ {NoFrom})
                 \cup {ResourceId[n] : n \in 1 .. MaxId} \cup {Null} :
            DefaultName(ty, i) \in Ident

(* The reads a create makes in its checks: the CSEBase, the parent, the    *)
(* size of a container, the parent's path; and three whose failure the     *)
(* code does not tell from a good answer: is the name taken, is the AE-ID  *)
(* taken, how many instances are there.                                    *)
CheckReads == {"base", "parent", "size", "path", "name", "aei", "count"}

(* The other calls: opening the database and looking for the CSEBase at    *)
(* boot; the statements and the COMMIT of a transaction; the two inserts;  *)
(* what a notification loads; what a retrieve loads.                       *)
ASSUME BootAssumption ==
    /\ MaxRows \in Nat
    /\ MaxBoots \in Nat
    /\ CleanOnBoot \subseteq BOOLEAN
    /\ Faults \subseteq CheckReads \cup
          {"open", "seed", "id", "prepare", "commit", "row", "detail", "deliver", "retrieve"}

VARIABLES
    nextId,     \* resource_id_sequence.next_id (on the SD card)
    resources,  \* the table "resources" (on the SD card)
    typeRows,   \* the rows of the type tables (on the SD card)
    backup,     \* what ROLLBACK brings back while a transaction is left open
    power,      \* "on" or "off"
    ready,      \* OneM2MService::initialized_
    spId,       \* OneM2MService::spId_, Null while it is empty
    cpu,        \* the task that runs, Free when none is inside the service
    task,       \* where each task is
    boots,      \* power-ups so far
    reply,      \* the last response a task returned
    acked,      \* the resources a client was told are CREATED
    sent        \* the notifications handed to the HTTP client

db == <<nextId, resources, typeRows, backup>>
ram == <<power, ready, spId, cpu, task>>
history == <<boots, reply, acked, sent>>
vars == <<db, ram, history>>

Idle == [pc |-> "idle", req |-> NoRequest, node |-> NoNode, agenda |-> <<>>]

(* What a task still has to do on the network: load a subscription, look   *)
(* up a notification URI, post to an address.                              *)
Agenda == Seq([what : {"sub", "uri", "post"}, sub : Ident \cup {Null},
               arg : Ident \cup HttpUri \cup {Null}])

TaskState ==
    [pc : {"idle", "verify", "awaitVerification", "insert", "detail",
           "notify", "awaitPeer", "hung"},
     req : CreateRequests \cup {NoRequest}, node : Node \cup {NoNode},
     agenda : Agenda]

-----------------------------------------------------------------------------
(* Looking things up.                                                      *)

Load(target) == LoadPrimitiveContentByTarget(resources, typeRows, target)

CSEBases(rs, ts) == {n \in LoadPrimitiveContentByTarget(rs, ts, <<CseRi>>) : n.ty = "CSEBase"}

GetCSEBase == CSEBases(resources, typeRows)

(* CanonicalizeAddressingPath compares the SP-ID of an absolute address    *)
(* with the one the service holds in memory.                               *)
WrongSpId(q) == q.form = "absolute" /\ spId # SpId

(* A handler is a list of early returns in the order of the code.          *)
Refused(checks) == \E i \in DOMAIN checks : checks[i].when

RefusalCode(checks) ==
    checks[CHOOSE i \in DOMAIN checks :
              checks[i].when /\ \A j \in 1 .. i - 1 : ~ checks[j].when].code

-----------------------------------------------------------------------------
(* Creating: the checks of Create and of CreateAE, CreateContainer,        *)
(* CreateContentInstance and CreateSubscription.                           *)

Parent(q) == Load(q.to)

ParentTypes(ty) ==
    CASE ty = "AE"              -> {"CSEBase"}
      [] ty = "ContentInstance" -> {"Container"}
      [] OTHER                  -> {"CSEBase", "AE", "Container"}

TargetChecks(q, failed) ==
    << [when |-> ~ ready \/ GetCSEBase = {} \/ "base" \in failed,
        code |-> "INTERNAL_SERVER_ERROR"],
       [when |-> WrongSpId(q), code |-> "NOT_FOUND"],
       [when |-> (q.from = NoFrom /\ q.ty # "AE") \/ q.flaw = "request",
        code |-> "BAD_REQUEST"],
       [when |-> Parent(q) = {} \/ "parent" \in failed, code |-> "NOT_FOUND"],
       [when |-> \E p \in Parent(q) : p.ty \notin ParentTypes(q.ty),
        code |-> "INVALID_CHILD_RESOURCE_TYPE"] >>

(* The container is over its limits with one more content instance.  Its   *)
(* size is summed by resource ID; its children are counted by looking the  *)
(* resource ID up as a target.  Children that cannot be loaded, or not     *)
(* all of them, are not counted, and the create goes on.                   *)
OverByteSize(q, p) ==
    /\ p.attr.mbs # 0
    /\ GetContainerCurrentSize(resources, typeRows, p.ri) + q.attr.cs > p.attr.mbs

Instances(p, failed) ==
    IF "count" \in failed THEN {}
    ELSE LoadPrimitiveContentChildren(resources, <<p.ri>>, "ContentInstance")

(* Faulty variant of OverInstances: the new instance is not counted.       *)
OverInstancesOffByOne(p, failed) ==
    p.attr.mni # 0 /\ Cardinality(Instances(p, failed)) > p.attr.mni

OverInstances(p, failed) ==
    p.attr.mni # 0 /\ Cardinality(Instances(p, failed)) + 1 > p.attr.mni

(* The checks a handler makes before it asks for a resource ID ...         *)
ChecksBeforeId(q, failed) ==
    LET containers == {p \in Parent(q) : p.ty = "Container"}
    IN  TargetChecks(q, failed) \o
        CASE q.ty = "AE" ->
               << [when |-> q.flaw = "content", code |-> "BAD_REQUEST"],
                  [when |-> /\ "name" \notin failed
                            /\ \E p \in Parent(q) :
                                  ExistsResourceByParentAndName(resources, p.ri, q.rn),
                   code |-> "CONFLICT"],
                  [when |-> q.from = CseStem, code |-> "SECURITY_ASSOCIATION_REQUIRED"] >>
          [] q.ty = "ContentInstance" ->
               << [when |-> q.flaw = "content", code |-> "BAD_REQUEST"],
                  [when |-> "size" \in failed /\ \E p \in containers : p.attr.mbs # 0,
                   code |-> "INTERNAL_SERVER_ERROR"],
                  [when |-> \E p \in containers : OverByteSize(q, p),
                   code |-> "NOT_ACCEPTABLE"],
                  [when |-> \E p \in containers : OverInstances(p, failed),
                   code |-> "NOT_ACCEPTABLE"] >>
          [] OTHER -> << >>

OwnStem(q) == q.ty = "AE" /\ q.from \notin {NoFrom, StemC}

(* ... and after it, when the ID is already used up, of the tables rs and  *)
(* ts that generating the ID has left.                                     *)
ChecksAfterId(q, failed, rs, ts) ==
    << [when |-> OwnStem(q) /\ "aei" \notin failed /\ ExistsAEbyAEID(ts, q.from),
        code |-> "ORIGINATOR_HAS_ALREADY_REGISTERED"],
       [when |-> q.flaw # "none", code |-> "BAD_REQUEST"],
       [when |-> q.ty = "Subscription" /\
                 ("path" \in failed \/ \A p \in Parent(q) : GetPathByRI(rs, p.ri) = {}),
        code |-> "NOT_FOUND"] >>

(* Faulty variant of NameOf: the CSE does not make up a name.              *)
NameAsGiven(q, ri) == q.rn

NameOf(q, ri) == IF q.rn = NoName THEN DefaultName(q.ty, ri) ELSE q.rn

(* An AE registers under the originator it brings; its AE-ID is its ri.    *)
NewNode(q, p, id) ==
    LET ri == IF OwnStem(q) THEN q.from ELSE id
    IN  [ri |-> ri, ty |-> q.ty, pi |-> p.ri,
         rn |-> NameOf(q, ri),
         attr |-> CASE q.ty = "AE" -> [q.attr EXCEPT !.aei = ri]
                    [] q.ty = "Subscription" ->
                         [q.attr EXCEPT !.cr =
                            IF @ # Null \/ \E i \in DOMAIN q.attr.nu : q.attr.nu[i] # q.from
                              THEN q.from ELSE Null]
                    [] OTHER -> q.attr]

(* The notification URIs of a subscription as work for the network.        *)
UriItems(n) ==
    [i \in DOMAIN n.attr.nu |-> [what |-> "uri", sub |-> n.ri, arg |-> n.attr.nu[i]]]

(* The end of a create: n is the resource that was CREATED, or NoNode.     *)
Reply(t, q, code, n) ==
    /\ task' = [task EXCEPT ![t] = Idle]
    /\ cpu' = Free
    /\ reply' = [req |-> q, code |-> code, ri |-> IF n = NoNode THEN Null ELSE n.ri]
    /\ acked' = IF n = NoNode THEN acked ELSE acked \cup {n}

Scheduled(t) == power = "on" /\ cpu = Free /\ task[t].pc = "idle"

(* Any of the reads of a create may fail, each by itself.                  *)
Failing == SUBSET (Faults \cap CheckReads)

RefuseCreate(t, q) ==
    /\ Scheduled(t)
    /\ \E failed \in Failing :
         /\ Refused(ChecksBeforeId(q, failed))
         /\ Reply(t, q, RefusalCode(ChecksBeforeId(q, failed)), NoNode)
    /\ UNCHANGED <<db, power, ready, spId, boots, sent>>

(* A transaction that is begun and not ended: the statements that follow,  *)
(* of whatever request, belong to it.  ROLLBACK takes them all back.       *)
Tables(id, rs, ts) == [nextId |-> id, resources |-> rs, typeRows |-> ts]

Begun == IF backup = {} THEN {Tables(nextId, resources, typeRows)} ELSE backup

Rollback ==
    /\ backup' = {}
    /\ \E b \in Begun : /\ nextId' = b.nextId
                        /\ resources' = b.resources
                        /\ typeRows' = b.typeRows

(* GenerateResourceId: next_id is read and advanced in a transaction, and  *)
(* COMMIT also ends one that an earlier call left open.  When the update   *)
(* fails it is rolled back; when it cannot be prepared, BEGIN stays        *)
(* without an end.  Both give an empty ID, and the caller goes on with it. *)
(* The result of COMMIT is not looked at: when it fails, the ID is handed  *)
(* out, and SQLite has rolled back or keeps the transaction open.          *)
GetId(id) ==
    \/ /\ id = ResourceId[nextId]
       /\ nextId' = nextId + 1 /\ backup' = {}
       /\ UNCHANGED <<resources, typeRows>>
    \/ "id" \in Faults /\ id = Null /\ Rollback
    \/ /\ "prepare" \in Faults /\ id = Null
       /\ backup' = Begun
       /\ UNCHANGED <<nextId, resources, typeRows>>
    \/ /\ "commit" \in Faults /\ id = ResourceId[nextId]
       /\ \/ Rollback
          \/ /\ nextId' = nextId + 1 /\ backup' = Begun
             /\ UNCHANGED <<resources, typeRows>>

RefuseCreateAfterId(t, q) ==
    /\ Scheduled(t) /\ nextId <= MaxId
    /\ \E id \in {ResourceId[nextId], Null} : GetId(id)
    /\ \E failed \in Failing :
         /\ ~ Refused(ChecksBeforeId(q, failed))
         /\ Refused(ChecksAfterId(q, failed, resources', typeRows'))
         /\ Reply(t, q, RefusalCode(ChecksAfterId(q, failed, resources', typeRows')), NoNode)
    /\ UNCHANGED <<power, ready, spId, boots, sent>>

AcceptCreate(t, q) ==
    /\ Scheduled(t) /\ nextId <= MaxId /\ NextRowid(resources) <= MaxRows
    /\ \E failed \in Failing, p \in Parent(q), id \in {ResourceId[nextId], Null} :
         /\ ~ Refused(ChecksBeforeId(q, failed))
         /\ GetId(id)
         /\ ~ Refused(ChecksAfterId(q, failed, resources', typeRows'))
         /\ LET n == NewNode(q, p, id) IN
            task' = [task EXCEPT ![t] =
                [req |-> q, node |-> n,
                 pc |-> IF q.ty = "Subscription" THEN "verify" ELSE "insert",
                 agenda |-> IF q.ty = "Subscription" THEN UriItems(n) ELSE << >>]]
    /\ cpu' = t
    /\ UNCHANGED <<power, ready, spId, history>>

-----------------------------------------------------------------------------
(* SendSubscriptionVerification asks one notification URI after the other  *)
(* until one agrees.  An AE-ID agrees when the resource subscribed to is   *)
(* an AE with a point of access, and can be loaded; an address agrees when *)
(* its peer answers OK, and the task gives up the CPU while it waits.      *)
Runs(t, pc) == power = "on" /\ cpu = t /\ task[t].pc = pc

ParentHasPoa(n) == \E p \in Load(<<n.pi>>) : p.ty = "AE" /\ p.attr.poa # << >>

Resume(t, pc, agenda) == task' = [task EXCEPT ![t].pc = pc, ![t].agenda = agenda]

VerifySubscription(t) ==
    /\ Runs(t, "verify") /\ task[t].agenda # << >>
    /\ LET uri == Head(task[t].agenda).arg
           rest == Tail(task[t].agenda)
       IN  CASE uri \in StemIds ->
                  /\ \/ ParentHasPoa(task[t].node) /\ Resume(t, "insert", << >>)
                     \/ /\ ~ ParentHasPoa(task[t].node) \/ "parent" \in Faults
                        /\ Resume(t, "verify", rest)
                  /\ cpu' = cpu
             [] uri \in HttpUri ->
                  Resume(t, "awaitVerification", rest) /\ cpu' = Free
             [] OTHER -> Resume(t, "verify", rest) /\ cpu' = cpu
    /\ UNCHANGED <<db, power, ready, spId, history>>

(* Faulty variant of VerificationAnswered: when a peer does not agree, the *)
(* URIs are tried from the first one again.                                *)
VerificationRetried(t) ==
    /\ power = "on" /\ cpu = Free /\ task[t].pc = "awaitVerification"
    /\ \/ Resume(t, "insert", << >>)
       \/ Resume(t, "verify", UriItems(task[t].node))
    /\ cpu' = t
    /\ UNCHANGED <<db, power, ready, spId, history>>

VerificationAnswered(t) ==
    /\ power = "on" /\ cpu = Free /\ task[t].pc = "awaitVerification"
    /\ \/ Resume(t, "insert", << >>)
       \/ Resume(t, "verify", task[t].agenda)
    /\ cpu' = t
    /\ UNCHANGED <<db, power, ready, spId, history>>

VerificationFails(t) ==
    /\ Runs(t, "verify") /\ task[t].agenda = << >>
    /\ Reply(t, task[t].req, "SUBSCRIPTION_VERIFICATION_INITIATION_FAILED", NoNode)
    /\ UNCHANGED <<db, power, ready, spId, boots, sent>>

-----------------------------------------------------------------------------
(* Faulty variant of InsertRow: the path is the address of the request and *)
(* the name, not the path of the parent and the name.                      *)
InsertRowUnderTarget(t) ==
    /\ Runs(t, "insert")
    /\ resources' = InsertResources(resources, task[t].node,
                                    Append(task[t].req.to, task[t].node.rn))
    /\ Resume(t, "detail", << >>)
    /\ UNCHANGED <<nextId, typeRows, backup, power, ready, spId, cpu, history>>

(* Saving: a row in "resources", then a row in the type table.             *)
InsertRow(t) ==
    /\ Runs(t, "insert")
    /\ \E path \in PathsFor(resources, task[t].node.pi, task[t].node.rn) :
          resources' = InsertResources(resources, task[t].node, path)
    /\ Resume(t, "detail", << >>)
    /\ UNCHANGED <<nextId, typeRows, backup, power, ready, spId, cpu, history>>

(* The path query climbs a cycle of parents for ever, with the CPU.        *)
HangInPathQuery(t) ==
    /\ Runs(t, "insert")
    /\ Cyclic(resources, task[t].node.pi)
    /\ Resume(t, "hung", << >>)
    /\ UNCHANGED <<db, power, ready, spId, cpu, history>>

(* There is no path, or the query for it or the insertion fails; an error  *)
(* like a full disk makes SQLite roll back an open transaction.            *)
InsertRowFails(t) ==
    /\ Runs(t, "insert")
    /\ \/ "row" \in Faults /\ (UNCHANGED db \/ Rollback)
       \/ /\ PathsFor(resources, task[t].node.pi, task[t].node.rn) = {}
          /\ ~ Cyclic(resources, task[t].node.pi)
          /\ UNCHANGED db
    /\ Reply(t, task[t].req, "INTERNAL_SERVER_ERROR", NoNode)
    /\ UNCHANGED <<power, ready, spId, boots, sent>>

(* SendNotification loads the subscriptions of the parent at once, by the  *)
(* parent's ID, and keeps their IDs while it delivers; when they cannot be *)
(* loaded nothing is delivered, and the create is answered all the same.   *)
SubscriptionItems(n) ==
    {<< >> : fault \in Faults \cap {"deliver"}} \cup
    {[k \in DOMAIN rows |-> [what |-> "sub", sub |-> rows[k].ri, arg |-> Null]] :
        rows \in InRowOrder(
                    LoadPrimitiveContentChildren(resources, <<n.pi>>, "Subscription"))}

InsertDetail(t) ==
    /\ Runs(t, "detail")
    /\ typeRows' = InsertTypeRow(typeRows, task[t].node)
    /\ IF task[t].node.ty = "Subscription"
         THEN Reply(t, task[t].req, "CREATED", task[t].node)
         ELSE /\ \E items \in SubscriptionItems(task[t].node) : Resume(t, "notify", items)
              /\ UNCHANGED <<cpu, reply, acked>>
    /\ UNCHANGED <<nextId, resources, backup, power, ready, spId, boots, sent>>

(* Faulty variant of InsertDetailFails: the error is not looked at.        *)
InsertDetailIgnoresError(t) ==
    /\ "detail" \in Faults /\ Runs(t, "detail")
    /\ \E items \in SubscriptionItems(task[t].node) : Resume(t, "notify", items)
    /\ UNCHANGED <<db, power, ready, spId, cpu, history>>

InsertDetailFails(t) ==
    /\ "detail" \in Faults /\ Runs(t, "detail")
    /\ UNCHANGED db \/ Rollback
    /\ Reply(t, task[t].req, "INTERNAL_SERVER_ERROR", NoNode)
    /\ UNCHANGED <<power, ready, spId, boots, sent>>

-----------------------------------------------------------------------------
(* Notifying, before the create is answered.                               *)

MatchesSizeFilter(s, n) ==
    LET size == IF n.ty = "ContentInstance" THEN n.attr.cs ELSE 0
    IN  /\ s.attr.sza # NoBound => size > s.attr.sza
        /\ s.attr.szb # NoBound => size < s.attr.szb

MatchesCriteria(s, n) ==
    /\ s.attr.onCreate
    /\ s.attr.chty = {} \/ n.ty \in s.attr.chty
    /\ s.attr.lbl \subseteq n.attr.lbl
    /\ MatchesSizeFilter(s, n)

(* Faulty variant of PointsOfAccess: the reachability is inverted.         *)
PointsOfUnreachable(uri, originator) ==
    LET ae == {a \in Load(<<uri>>) : /\ uri \in StemIds /\ a.ty = "AE"
                                     /\ ~ a.attr.rr /\ a.attr.aei = originator}
    IN  IF uri \in HttpUri THEN <<uri>>
        ELSE IF ae # {} THEN (CHOOSE a \in ae : TRUE).attr.poa
        ELSE << >>

(* DeliverTarget: an AE-ID stands for the points of access of that AE, if  *)
(* it is reachable and made the request itself.                            *)
PointsOfAccess(uri, originator) ==
    LET ae == {a \in Load(<<uri>>) : /\ uri \in StemIds /\ a.ty = "AE"
                                     /\ a.attr.rr /\ a.attr.aei = originator}
    IN  IF uri \in HttpUri THEN <<uri>>
        ELSE IF ae # {} THEN (CHOOSE a \in ae : TRUE).attr.poa
        ELSE << >>

ExpandSubscription(t, item) ==
    LET wanted == {s \in Load(<<item.sub>>) :
                     s.ty = "Subscription" /\ MatchesCriteria(s, task[t].node)}
        work == IF wanted = {} THEN << >> ELSE UriItems(CHOOSE s \in wanted : TRUE)
    IN  Resume(t, "notify", work \o Tail(task[t].agenda)) /\ UNCHANGED <<cpu, sent>>

ExpandUri(t, item) ==
    LET poas == PointsOfAccess(item.arg, task[t].req.from)
        work == [i \in DOMAIN poas |-> [what |-> "post", sub |-> item.sub, arg |-> poas[i]]]
    IN  Resume(t, "notify", work \o Tail(task[t].agenda)) /\ UNCHANGED <<cpu, sent>>

(* Faulty variant of Post: the first address ends the deliveries, as the   *)
(* first one that agrees ends a verification.                              *)
PostToFirst(t, item) ==
    /\ sent' = sent \cup {[about |-> task[t].node.ri, sub |-> item.sub, to |-> item.arg]}
    /\ Resume(t, "awaitPeer", << >>)
    /\ cpu' = Free

(* The answer, and whether there is one, is not looked at.                 *)
Post(t, item) ==
    /\ sent' = sent \cup {[about |-> task[t].node.ri, sub |-> item.sub, to |-> item.arg]}
    /\ Resume(t, "awaitPeer", Tail(task[t].agenda))
    /\ cpu' = Free

SendNotification(t) ==
    /\ Runs(t, "notify") /\ task[t].agenda # << >>
    /\ LET item == Head(task[t].agenda)
       IN  \/ item.what = "sub" /\ ExpandSubscription(t, item)
           \/ item.what = "uri" /\ ExpandUri(t, item)
           \/ item.what = "post" /\ Post(t, item)
    /\ UNCHANGED <<db, power, ready, spId, boots, reply, acked>>

(* A subscription, or the AE behind a URI, that cannot be loaded is left   *)
(* out of the deliveries.                                                  *)
SkipDelivery(t) ==
    /\ "deliver" \in Faults /\ Runs(t, "notify") /\ task[t].agenda # << >>
    /\ LET item == Head(task[t].agenda)
       IN  item.what = "sub" \/ (item.what = "uri" /\ item.arg \in StemIds)
    /\ Resume(t, "notify", Tail(task[t].agenda))
    /\ UNCHANGED <<db, power, ready, spId, cpu, history>>

NotificationAnswered(t) ==
    /\ power = "on" /\ cpu = Free /\ task[t].pc = "awaitPeer"
    /\ Resume(t, "notify", task[t].agenda)
    /\ cpu' = t
    /\ UNCHANGED <<db, power, ready, spId, history>>

FinishCreate(t) ==
    /\ Runs(t, "notify") /\ task[t].agenda = << >>
    /\ Reply(t, task[t].req, "CREATED", task[t].node)
    /\ UNCHANGED <<db, power, ready, spId, boots, sent>>

-----------------------------------------------------------------------------
(* Retrieving changes nothing; the answer is kept for the properties.      *)

Last(target) == target[Len(target)]
Front(target) == SubSeq(target, 1, Len(target) - 1)

(* A target whose last segment has two characters is taken for .../la or   *)
(* .../ol: what is looked up is its parent.                                *)
LookupTarget(target) ==
    IF Len(target) > 1 /\ Last(target) \in TwoChar THEN Front(target) ELSE target

RetrieveFound(q) == IF q.to = <<CseName>> THEN GetCSEBase ELSE Load(LookupTarget(q.to))

MatchesResourceTarget(n, target) ==
    \E path \in GetPathByRI(resources, n.ri) :
        target \in {path, <<n.ri>>, <<n.rn>>, Append(path, La), Append(path, Ol)}

(* Faulty variant of IsAllowedForContainer: every AE may, below any AE.    *)
IsAllowedForAnyone(from, cnt) ==
    LET may[k \in 0 .. 32] == [i \in Ident \cup {Null} |->
          \E p \in IF k = 0 \/ i = Null THEN {} ELSE Load(<<i>>) :
              \/ p.ty = "AE"
              \/ p.ty = "Container" /\ may[k - 1][p.pi]
              \/ p.ty = "CSEBase" /\ from = p.attr.csi]
    IN  from = CAdmin \/ may[32][cnt.pi]

(* The first AE or CSEBase above the container decides.                    *)
IsAllowedForContainer(from, cnt) ==
    LET may[k \in 0 .. 32] == [i \in Ident \cup {Null} |->
          \E p \in IF k = 0 \/ i = Null THEN {} ELSE Load(<<i>>) :
              \/ p.ty = "AE" /\ from = p.attr.aei
              \/ p.ty = "Container" /\ may[k - 1][p.pi]
              \/ p.ty = "CSEBase" /\ from = p.attr.csi]
    IN  from = CAdmin \/ may[32][cnt.pi]

CinChecks(from, cin, target) ==
    LET parents == IF cin.pi = Null THEN {} ELSE Load(<<cin.pi>>)
    IN  << [when |-> ~ MatchesResourceTarget(cin, target), code |-> "NOT_FOUND"],
           [when |-> parents = {}, code |-> "NOT_FOUND"],
           [when |-> \E p \in parents : p.ty # "Container",
            code |-> "INTERNAL_SERVER_ERROR"],
           [when |-> \E p \in parents : p.ty = "Container" /\ p.attr.disr,
            code |-> "OPERATION_NOT_ALLOWED"],
           [when |-> \E p \in parents : ~ IsAllowedForContainer(from, p),
            code |-> "ORIGINATOR_HAS_NO_PRIVILEGE"] >>

(* The content instance a container target ending in la or ol stands for.  *)
VirtualChild(cnt, target) ==
    LET at(v) == \E path \in GetPathByRI(resources, cnt.ri) : target = Append(path, v)
    IN  IF at(La) THEN LoadLatestChild(resources, <<cnt.ri>>, "ContentInstance")
        ELSE IF at(Ol) THEN LoadOldestChild(resources, <<cnt.ri>>, "ContentInstance")
        ELSE {}

IsVirtual(cnt, target) ==
    \E path \in GetPathByRI(resources, cnt.ri), v \in {La, Ol} : target = Append(path, v)

ContainerChecks(from, cnt, target) ==
    << [when |-> ~ MatchesResourceTarget(cnt, target), code |-> "NOT_FOUND"],
       [when |-> ~ IsAllowedForContainer(from, cnt), code |-> "ORIGINATOR_HAS_NO_PRIVILEGE"],
       [when |-> cnt.attr.disr, code |-> "OPERATION_NOT_ALLOWED"],
       [when |-> IsVirtual(cnt, target) /\
                 \A c \in VirtualChild(cnt, target) : Load(<<c.ri>>) = {},
        code |-> "NOT_FOUND"] >>

(* The resource a retrieve that passes its checks returns.                 *)
Returned(n, target) ==
    IF n.ty = "Container" /\ IsVirtual(n, target)
      THEN UNION {Load(<<c.ri>>) : c \in VirtualChild(n, target)}
      ELSE {n}

RetrieveChecks(q, n) ==
    CASE n.ty = "CSEBase" ->
           << [when |-> q.to # <<n.rn>>, code |-> "NOT_FOUND"],
              [when |-> q.from # CAdmin, code |-> "ORIGINATOR_HAS_NO_PRIVILEGE"] >>
      [] n.ty = "AE" ->
           << [when |-> ~ MatchesResourceTarget(n, q.to), code |-> "NOT_FOUND"],
              [when |-> q.from # n.attr.aei, code |-> "ORIGINATOR_HAS_NO_PRIVILEGE"] >>
      [] n.ty = "Container" ->
           ContainerChecks(q.from, n, q.to) \o
           IF Refused(ContainerChecks(q.from, n, q.to)) \/ ~ IsVirtual(n, q.to) THEN << >>
           ELSE LET cin == CHOOSE c \in Returned(n, q.to) : TRUE
                IN  CinChecks(q.from, cin, <<cin.ri>>)
      [] n.ty = "ContentInstance" -> CinChecks(q.from, n, q.to)
      [] OTHER ->
           << [when |-> ~ MatchesResourceTarget(n, q.to), code |-> "NOT_FOUND"],
              [when |-> n.attr.cr = Null \/ q.from # n.attr.cr,
               code |-> "ORIGINATOR_HAS_NO_PRIVILEGE"] >>

Answer(q, code, ri) == [req |-> q, code |-> code, ri |-> ri]

RetrieveAnswers(q) ==
    IF ~ ready \/ GetCSEBase = {} THEN {Answer(q, "BAD_REQUEST", Null)}
    ELSE IF WrongSpId(q) \/ RetrieveFound(q) = {} THEN {Answer(q, "NOT_FOUND", Null)}
    ELSE {IF Refused(RetrieveChecks(q, n))
            THEN Answer(q, RefusalCode(RetrieveChecks(q, n)), Null)
            ELSE Answer(q, "OK", (CHOOSE c \in Returned(n, q.to) : TRUE).ri)
          : n \in RetrieveFound(q)}

(* A read that fails on the way ends every retrieve with a refusal.        *)
ReadFailures(q) ==
    {Answer(q, code, Null) : code \in
        IF q.to = <<CseName>> \/ ~ ready THEN {"BAD_REQUEST"}
        ELSE {"BAD_REQUEST", "NOT_FOUND", "ORIGINATOR_HAS_NO_PRIVILEGE",
              "INTERNAL_SERVER_ERROR"}}

Retrieve(t, q) ==
    /\ Scheduled(t)
    /\ \/ reply' \in RetrieveAnswers(q)
       \/ "retrieve" \in Faults /\ reply' \in ReadFailures(q)
    /\ UNCHANGED <<db, ram, boots, acked, sent>>

-----------------------------------------------------------------------------
(* Booting: Initialize opens the database, deleting it first when the      *)
(* configuration says so, and seeds the CSEBase in one transaction unless  *)
(* it is already there.                                                    *)

CSEBaseNode == [ri |-> CseRi, rn |-> CseName, ty |-> "CSEBase", pi |-> Null,
                attr |-> [csi |-> CseId]]

(* Faulty variant of Initialize: the IDs start at 1 after every boot, as   *)
(* they would if they were counted in memory.                              *)
InitializeRestartsIds(clean) ==
    LET rs  == IF clean THEN {} ELSE resources
        ts  == IF clean THEN {} ELSE typeRows
    IN  /\ nextId' = 1 /\ backup' = {}
        /\ ready' = TRUE /\ spId' = SpId
        /\ resources' = IF CSEBases(rs, ts) # {} THEN rs
                        ELSE InsertResources(rs, CSEBaseNode, <<CseName>>)
        /\ typeRows' = IF CSEBases(rs, ts) # {} THEN ts ELSE InsertTypeRow(ts, CSEBaseNode)

(* The CSEBase that cannot be loaded is taken for missing, and stored once *)
(* more.  The COMMIT of the seed is not looked at either.                  *)
Initialize(clean) ==
    LET ids == IF clean THEN 1 ELSE nextId
        rs  == IF clean THEN {} ELSE resources
        ts  == IF clean THEN {} ELSE typeRows
        Kept == resources' = rs /\ typeRows' = ts
        Seeded == /\ resources' = InsertResources(rs, CSEBaseNode, <<CseName>>)
                  /\ typeRows' = InsertTypeRow(ts, CSEBaseNode)
        missing == CSEBases(rs, ts) = {} \/ "seed" \in Faults
    IN  /\ nextId' = ids
        /\ \/ /\ CSEBases(rs, ts) # {}
              /\ Kept /\ backup' = {}
              /\ ready' = TRUE /\ spId' = spId
           \/ /\ missing
              /\ \/ Seeded /\ backup' = {}
                 \/ "commit" \in Faults /\ Kept /\ backup' = {}
                 \/ "commit" \in Faults /\ Seeded /\ backup' = {Tables(ids, rs, ts)}
              /\ ready' = TRUE /\ spId' = SpId
           \/ /\ "open" \in Faults
              /\ Kept /\ backup' = {}
              /\ ready' = FALSE
              /\ spId' \in IF missing THEN {spId, SpId} ELSE {spId}

Forget(clean) ==
    /\ acked' = IF clean THEN {} ELSE acked
    /\ sent' = IF clean THEN {} ELSE sent

Boot(clean) ==
    /\ power = "off" /\ boots < MaxBoots
    /\ Initialize(clean) /\ Forget(clean)
    /\ power' = "on" /\ boots' = boots + 1
    /\ UNCHANGED <<cpu, task, reply>>

(* What is in memory is gone, and a transaction that was open never was.   *)
PowerLoss ==
    /\ power = "on" /\ boots < MaxBoots
    /\ power' = "off" /\ ready' = FALSE /\ spId' = Null
    /\ cpu' = Free /\ task' = [t \in Task |-> Idle]
    /\ reply' = NoReply
    /\ Rollback
    /\ UNCHANGED <<boots, acked, sent>>

Init ==
    /\ nextId = 1 /\ resources = {} /\ typeRows = {} /\ backup = {}
    /\ power = "off" /\ ready = FALSE /\ spId = Null
    /\ cpu = Free /\ task = [t \in Task |-> Idle]
    /\ boots = 0 /\ reply = NoReply /\ acked = {} /\ sent = {}

Create(t) ==
    \/ \E q \in CreateRequests : \/ RefuseCreate(t, q)
                                 \/ RefuseCreateAfterId(t, q)
                                 \/ AcceptCreate(t, q)
    \/ VerifySubscription(t) \/ VerificationAnswered(t) \/ VerificationFails(t)
    \/ InsertRow(t) \/ HangInPathQuery(t) \/ InsertRowFails(t)
    \/ InsertDetail(t) \/ InsertDetailFails(t)
    \/ SendNotification(t) \/ SkipDelivery(t) \/ NotificationAnswered(t) \/ FinishCreate(t)

Next ==
    \/ \E t \in Task : Create(t)
    \/ \E t \in Task, q \in RetrieveRequests : Retrieve(t, q)
    \/ \E clean \in CleanOnBoot : Boot(clean)
    \/ PowerLoss

Spec == Init /\ [][Next]_vars

-----------------------------------------------------------------------------
(* Fairness.  Circle's scheduler is round-robin, so a task that waits for  *)
(* the network is resumed again and again among the others; it always has  *)
(* an answer to resume with, because the HTTP client gives up after its    *)
(* timeout.  Nothing makes clients send requests or the power fail.        *)

HoldsCpu(t) ==
    \/ VerifySubscription(t) \/ VerificationFails(t)
    \/ InsertRow(t) \/ InsertRowFails(t) \/ InsertDetail(t) \/ InsertDetailFails(t)
    \/ SendNotification(t) \/ SkipDelivery(t) \/ FinishCreate(t)

Resumed(t) == VerificationAnswered(t) \/ NotificationAnswered(t)

FairSpec == Spec /\ \A t \in Task : WF_vars(HoldsCpu(t)) /\ SF_vars(Resumed(t))

-----------------------------------------------------------------------------
(* Properties of every state.                                              *)

(* Every variable has its type; reply, which only the properties read, is  *)
(* left out.                                                               *)
TypeOK ==
    /\ nextId \in 1 .. MaxId + 1
    /\ resources \subseteq Row
    /\ typeRows \subseteq TypeRow
    /\ backup \subseteq [nextId : 1 .. MaxId + 1, resources : SUBSET Row,
                         typeRows : SUBSET TypeRow]
    /\ power \in {"on", "off"}
    /\ ready \in BOOLEAN
    /\ spId \in {Null, SpId}
    /\ cpu \in Task \cup {Free}
    /\ task \in [Task -> TaskState]
    /\ boots \in 0 .. MaxBoots
    /\ acked \subseteq Node
    /\ sent \subseteq [about : Ident \cup {Null}, sub : Ident \cup {Null},
                       to : Ident \cup HttpUri \cup {Null}]

(* A resource the client was told is CREATED can be retrieved by the ID it *)
(* was given, unchanged, however often power fails afterwards: both of its *)
(* rows were committed before the answer, and no other row hides it from   *)
(* the three-way lookup or replaces it.                                    *)
AckedRetrievable == \A n \in acked : n \in Load(<<n.ri>>)

(* A subscriber is never told of a resource that a power failure could     *)
(* still take back, nor through a subscription that is not stored.         *)
NotifiedIsStored ==
    \A s \in sent : /\ \E n \in Stored(resources, typeRows) : n.ri = s.about
                    /\ \E n \in Stored(resources, typeRows) :
                          n.ri = s.sub /\ n.ty = "Subscription"

RowidOf(n) == RowOf(resources, n.ri).rowid

(* A container never holds more instances, nor more bytes, than its limits *)
(* allow ("Enforce max number of instances", onem2m_service.cpp), although *)
(* the limits are checked before the instance is stored and other tasks    *)
(* are served in between.  (Unless the children cannot be counted: "count" *)
(* among the Faults breaks it.)                                            *)
LimitsRespected ==
    \A c \in Stored(resources, typeRows) : c.ty = "Container" =>
        /\ c.attr.mni # 0 =>
             Cardinality({r \in resources : r.pi = c.ri /\ r.ty = "ContentInstance"})
                <= c.attr.mni
        /\ c.attr.mbs # 0 =>
             GetContainerCurrentSize(resources, typeRows, c.ri) <= c.attr.mbs

(* No two AEs of the CSE share a name, and no two share an AE-ID, although *)
(* the name is only checked before the AE gets its ID and its rows.        *)
(* (Unless the query for the name fails, which reads as "not taken": with  *)
(* "name" among the Faults two AEs get the same name.)                     *)
AEsDistinct ==
    \A m, n \in Stored(resources, typeRows) :
        (m.ty = "AE" /\ n.ty = "AE" /\ m # n) => m.rn # n.rn /\ m.attr.aei # n.attr.aei

(* The path a row was stored with is the path its ancestors spell: nothing *)
(* above a resource changes after the resource was stored.                 *)
PathsCurrent ==
    \A r \in resources : HasTypeRow(typeRows, r) =>
        r.path \in PathsFor(resources, r.pi, r.rn)

-----------------------------------------------------------------------------
(* Properties of the last answer.                                          *)

Answered(code) == reply # NoReply /\ reply.code = code

(* The addresses a notification URI stands for: itself, or the points of   *)
(* access of the reachable AE that made the request and was there before.  *)
Addresses(uri, from, n) ==
    IF uri \in HttpUri THEN {uri}
    ELSE UNION {{a.attr.poa[i] : i \in DOMAIN a.attr.poa} :
                a \in {b \in Stored(resources, typeRows) :
                          /\ b.ty = "AE" /\ b.attr.rr /\ b.ri = uri /\ b.attr.aei = from
                          /\ uri \in StemIds /\ RowidOf(b) < RowidOf(n)}}

(* When a create is answered, every subscription to the parent that was    *)
(* stored before the resource, and that asks for it, has had a             *)
(* notification posted to each address behind each of its URIs, also when  *)
(* other tasks created resources or subscriptions during the deliveries.   *)
(* (Unless a load of a notification fails, which passes over it silently:  *)
(* "deliver" among the Faults breaks it.)                                  *)
AckedIsNotified ==
    (Answered("CREATED") /\ reply.req.ty # "Subscription") =>
    \A n, s \in Stored(resources, typeRows) :
        ( /\ n.ri = reply.ri /\ n.ty = reply.req.ty
          /\ s.ty = "Subscription" /\ s.pi = n.pi
          /\ RowidOf(s) < RowidOf(n) /\ MatchesCriteria(s, n) )
        => \A i \in DOMAIN s.attr.nu : \A to \in Addresses(s.attr.nu[i], reply.req.from, n) :
              [about |-> n.ri, sub |-> s.ri, to |-> to] \in sent

NamedResource(q) == Load(Append(q.to, q.rn))

(* A container that was created under a name is found under the path of    *)
(* its parent and that name: "We expect to the Container to exists later"  *)
(* (p2p_node.cpp, CreateContainer).                                        *)
CreatedIsReachable ==
    (Answered("CREATED") /\ reply.req.ty = "Container" /\ reply.req.rn # NoName)
    => \E n \in NamedResource(reply.req) : n.ty = "Container"

(* CONFLICT is the answer to an AE that is registered already: the AE is   *)
(* there.  "We expect to the AE to exists later, so we dont get this rsc   *)
(* we halt" (p2p_node.cpp, CreateAE).                                      *)
ConflictMeansRegistered ==
    Answered("CONFLICT") => \E n \in NamedResource(reply.req) : n.ty = "AE"

(* The AE or CSEBase that governs a resource, by the IDs of its ancestors. *)
Owners(i) ==
    LET up == Ancestor(resources, i)
        governs(k) == \E n \in Stored(resources, typeRows) :
                         n.ri = up[k] /\ n.ty \in {"AE", "CSEBase"}
    IN  {n \in Stored(resources, typeRows) :
           \E k \in DOMAIN up : /\ n.ri = up[k] /\ governs(k)
                               /\ \A j \in 0 .. k - 1 : ~ governs(j)}

(* What an originator may retrieve of the containers and their instances   *)
(* is what lies below its own AE, whatever form of address it uses; the    *)
(* administrator alone may retrieve the rest.                              *)
RetrievedByOwner ==
    (Answered("OK") /\ reply.req.from # CAdmin) =>
        \A n \in Stored(resources, typeRows) :
            (n.ri = reply.ri /\ n.ty \in {"AE", "Container", "ContentInstance"}) =>
                \E o \in Owners(n.ri) :
                    reply.req.from = IF o.ty = "AE" THEN o.attr.aei ELSE o.attr.csi

(* Whenever a request can be served, the latest instance of a container    *)
(* can be retrieved, and it is no older than any instance a client was     *)
(* told is CREATED (a retrieve that a failing read refuses aside).         *)
LatestAvailable ==
    (cpu = Free /\ ready) =>
    \A r \in resources, c \in acked :
        (/\ r.ty = "Container" /\ r \in FirstMatch(resources, r.path)
         /\ c.ty = "ContentInstance" /\ c.pi = r.ri) =>
        \A a \in RetrieveAnswers([to |-> Append(r.path, La), form |-> "csRelative",
                                  from |-> CAdmin]) :
           /\ a.code = "OK"
           /\ \E n \in Stored(resources, typeRows) :
                 /\ n.ri = a.ri /\ n.ty = "ContentInstance" /\ n.pi = r.ri
                 /\ RowidOf(c) <= RowidOf(n)

(* The SP-ID of the configuration is known while the CSE is running ("set  *)
(* global SPID for addressing validation", onem2m_service.cpp, Initialize):*)
(* no absolute address with it is taken for one of another provider.       *)
AbsoluteAddressesWork == (power = "on" /\ ready) => spId = SpId

-----------------------------------------------------------------------------
(* Properties of behaviours.                                               *)

(* A lookup that finds a resource finds the same one for ever, until the   *)
(* database is cleaned: resources created later never take its place.      *)
LookupStable ==
    [][(\E clean \in CleanOnBoot : Boot(clean)) \/
       \A target \in {r.path : r \in resources} \cup {<<i>> : i \in Ident} :
          Load(target) \subseteq
            LoadPrimitiveContentByTarget(resources', typeRows', target)]_vars

(* The database, seen as the resources it holds completely, is a tree that *)
(* only grows while the CSE runs, and that outlives a power failure.       *)
Tree == INSTANCE ResourceTree WITH
            tree <- Stored(resources, typeRows), open <- (power = "on"), NoParent <- Null

TreeSpec == Tree!Spec

(* Every create is answered, unless power fails first: no wait for a peer  *)
(* and no statement of the database stops a task for good.                 *)
EveryCreateAnswered ==
    \A t \in Task : (task[t].pc # "idle") ~> (task[t].pc = "idle")
=============================================================================
