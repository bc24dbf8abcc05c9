------------------------------ MODULE Messages ------------------------------
(***************************************************************************)
(* The way of one request through a node: built as a primitive, encoded,   *)
(* serialised, parsed, decoded, checked, dispatched by OneM2MService,      *)
(* answered, and the answer read.  A creation may set off a notification,  *)
(* or a verification, which then goes the same way to another node.        *)
(*                                                                         *)
(* What the service decides on its database is left open here and modelled *)
(* in CseService; how messages travel in pieces is modelled in HttpDaemon. *)
(***************************************************************************)
EXTENDS HttpBinding, Addressing

CONSTANTS
    Cses,           \* the names the CSE may be configured with
    Requests,       \* what is asked for: a primitive with its style, and the
                    \* path (or the address) and the text its author means
    Subscriptions,  \* the subscriptions that may be there, [nu, nct]
    Reachable       \* notification URLs with an IPv4 address in them

(* What can be written: a resource of a kind there is a deserialiser for,  *)
(* or a notification, which alone holds the representation of another one. *)
IsContent(c) ==
    \/ c = NoContent
    \/ /\ c \in [kind : Kind, has : SUBSET Attribute, text : Text, rep : SUBSET Resource]
       /\ IsReadable(c) /\ \A r \in c.rep : IsReadable(r)
       /\ c.rep # {} => c.kind = "sgn"

ASSUME MessagesAssumption ==
    /\ Cses \subseteq CseNames
    /\ \A q \in Requests :
         /\ q.path \in Seq(Segment)
         /\ q.op \in Operation /\ q.ty \in Kind \cup {NoType}
         /\ q.params \subseteq ReadParameters \cup QueryParameters
         /\ IsContent(q.content)
         /\ q.style.method \in Methods \cup {"", "Unknown"}

VARIABLES
    cse,            \* the configuration of the node
    meant,          \* what the author of the request means: the path and text
    style,          \* how the message is put together, see Node
    prim,           \* the sender's primitive
    stage,
    wire,           \* the message
    decoded,        \* the receiver's primitive
    handled,        \* the contents given to the notification handler
    answer,         \* the service's response
    verdict         \* the HTTP status the sender is left with, "" before

vars == <<cse, meant, style, prim, stage, wire, decoded, handled, answer, verdict>>

(* Nodes use encodeRequest; other clients choose the spelling of their     *)
(* headers, the media types and the place of the resource type, and may    *)
(* send queries and methods of their own.                                  *)
Node ==
    [client |-> FALSE, accept |-> "application/json", mime |-> "application/json",
     typeInHeader |-> FALSE, length |-> "exact", query |-> {}, wellFormed |-> TRUE,
     method |-> ""]

Stage ==
    {"built", "sent", "parsed", "decoded", "answering", "unparsed", "returned"}

NoPrimitive ==
    [op |-> "Notify", to |-> <<>>, from |-> "", rqi |-> "", ty |-> NoType,
     params |-> {}, filters |-> {}, vendor |-> "none", content |-> NoContent]

Status ==
    {"", "OK", "Created", "BadRequest", "Forbidden", "NotFound", "MethodNotAllowed",
     "NotAcceptable", "Conflict", "NotImplemented", "InternalServerError",
     "BadGateway", "GatewayTimeout", "ServiceUnavailable"}

IsPrimitive(p) ==
    /\ p.op \in Operation
    /\ p.ty \in Kind \cup {NoType}
    /\ p.params \subseteq ReadParameters \cup QueryParameters
    /\ p.filters \subseteq FilterKeys
    /\ p.content.kind \in Kind \cup {"none"}
    /\ p.content.has \subseteq Attribute
    /\ p.content.text \in Text
    /\ \A r \in p.content.rep : r \in Resource

TypeOK ==
    /\ cse \in CseNames
    /\ stage \in Stage
    /\ IsPrimitive(prim) /\ IsPrimitive(decoded)
    /\ wire.method \in Methods \cup {"Unknown"}
    /\ \A c \in handled : c.kind = "sgn"
    /\ answer.rsc \in StatusCode
    /\ verdict \in Status

Init ==
    /\ cse \in Cses
    /\ \E q \in Requests :
         /\ meant = [path |-> q.path, text |-> q.text]
         /\ style = q.style
         /\ \E to \in IF q.path = <<>> THEN {q.to} ELSE AddressesOf(q.path, cse) :
              prim = [op |-> q.op, to |-> to, from |-> q.from, rqi |-> q.rqi, ty |-> q.ty,
                      params |-> q.params, filters |-> {}, vendor |-> "none",
                      content |-> q.content]
    /\ stage = "built"
    /\ wire = EmptyRequest
    /\ decoded = NoPrimitive
    /\ handled = {}
    /\ answer = BareResponse("OK")
    /\ verdict = ""

-----------------------------------------------------------------------------
(* The sender.                                                             *)

(* A message put together by a client that is not one of these nodes.      *)
ClientMessage(p) ==
    [encodeRequest(p) EXCEPT
       !.accept = style.accept,
       !.mime = IF @ = "" THEN @ ELSE style.mime,
       !.method = IF style.method = "" THEN @ ELSE style.method,
       !.mimeType = IF style.typeInHeader THEN NoType ELSE @,
       !.typeHeader = IF style.typeInHeader THEN p.ty ELSE NoType,
       !.params = p.params,
       !.query = style.query,
       !.length = IF p.content = NoContent THEN "none" ELSE style.length,
       !.wellFormed = style.wellFormed]

Send ==
    /\ stage = "built"
    /\ stage' = "sent"
    /\ wire' = IF style.client THEN ClientMessage(prim)
               ELSE SerializeRequest(encodeRequest(prim))
    /\ UNCHANGED <<cse, meant, style, prim, decoded, handled, answer, verdict>>

(* ParseNotificationUrl finds no address to send the notification to; its  *)
(* result is not looked at, and the connection fails.                      *)
SendNowhere ==
    /\ stage = "built" /\ prim.op = "Notify" /\ prim.to \notin Reachable
    /\ stage' = "returned"
    /\ verdict' = "ServiceUnavailable"
    /\ UNCHANGED <<cse, meant, style, prim, wire, decoded, handled, answer>>

(* The message, or the answer, does not come through.                      *)
Lose ==
    /\ stage \in {"sent", "answering", "unparsed"}
    /\ stage' = "returned"
    /\ verdict' \in {"BadGateway", "GatewayTimeout"}
    /\ UNCHANGED <<cse, meant, style, prim, wire, decoded, handled, answer>>

-----------------------------------------------------------------------------
(* The receiver.                                                           *)

Parse ==
    /\ stage = "sent" /\ ParsesRequest(wire)
    /\ stage' = "parsed"
    /\ wire' = ParseRequest(wire)
    /\ UNCHANGED <<cse, meant, style, prim, decoded, handled, answer, verdict>>

RefuseToParse ==
    /\ stage = "sent" /\ ~ ParsesRequest(wire)
    /\ stage' = "unparsed"
    /\ UNCHANGED <<cse, meant, style, prim, wire, decoded, handled, answer, verdict>>

Decode ==
    /\ stage = "parsed"
    /\ stage' = "decoded"
    /\ decoded' = decodeRequest(wire)
    /\ UNCHANGED <<cse, meant, style, prim, wire, handled, answer, verdict>>

Answer(response) ==
    /\ stage' = "answering"
    /\ answer' = response
    /\ UNCHANGED <<cse, meant, style, prim, wire, decoded, verdict>>

RefuseInvalid ==
    /\ stage = "decoded" /\ ~ isValidRequest(decoded)
    /\ Answer(makeResponse(decoded, "BAD_REQUEST", NoContent))
    /\ UNCHANGED handled

Dispatched(op) == stage = "decoded" /\ isValidRequest(decoded) /\ decoded.op = op

HasTarget == IsLocal(decoded.to, cse)

(* The CSE's own row cannot be read.                                       *)
DatabaseFails ==
    /\ \/ Dispatched("Create") /\ Answer(BareResponse("INTERNAL_SERVER_ERROR"))
       \/ Dispatched("Retrieve") /\ Answer(BareResponse("BAD_REQUEST"))
    /\ UNCHANGED handled

(* The refusals Create and Retrieve decide on the address alone.           *)
RefuseTarget ==
    /\ Dispatched("Create") \/ Dispatched("Retrieve")
    /\ ~ HasTarget
    /\ Answer(BareResponse(IF HasWrongSpId(decoded.to, cse) THEN "NOT_FOUND"
                           ELSE "BAD_REQUEST"))
    /\ UNCHANGED handled

(* Create decides on the primitive alone: an originator is needed but for  *)
(* an AE, the content must be of a kind that can be created, and must not  *)
(* bring attributes that only the CSE gives.                               *)
MayBeCreated(p) ==
    /\ p.from # "" \/ p.ty = "ae"
    /\ p.content.kind \in {"ae", "cnt", "cin", "sub"}
    /\ p.vendor \notin {"has_creator", "cin_has_acpi", "creator_present"}
    /\ p.vendor = "creator_null" => p.from # ""

CreateRefusals ==
    StatusCode \ {"OK", "CREATED", "OPERATION_NOT_ALLOWED", "ORIGINATOR_HAS_NO_PRIVILEGE"}

RefuseCreate ==
    /\ Dispatched("Create") /\ HasTarget
    /\ \E rsc \in CreateRefusals : Answer(BareResponse(rsc))
    /\ UNCHANGED handled

(* The resource as it is stored, answered and notified.                    *)
Created(p) ==
    [p.content EXCEPT
       !.has = @ \cup {"rn", "ri", "pi", "ct", "lt", "ty", "et"}
                 \cup (CASE p.content.kind = "ae" -> {"aei", "rr"}
                        [] p.content.kind = "sub" -> {"cr", "nct"}
                        [] OTHER -> {"st"})
                 \cup (IF p.vendor = "creator_null" THEN {"cr"} ELSE {})]

Create ==
    /\ Dispatched("Create") /\ HasTarget /\ MayBeCreated(decoded)
    /\ Answer(makeResponse(decoded, "CREATED", Created(decoded)))
    /\ UNCHANGED handled

Retrieve ==
    /\ Dispatched("Retrieve") /\ HasTarget
    /\ \/ \E kind \in {"cb", "ae", "cnt", "cin", "sub"} :
            Answer(makeResponse(decoded, "OK",
                     [NoContent EXCEPT !.kind = kind, !.has = {"rn", "ri", "ty"}]))
       \/ \E rsc \in {"NOT_FOUND", "OPERATION_NOT_ALLOWED", "NOT_IMPLEMENTED",
                      "ORIGINATOR_HAS_NO_PRIVILEGE", "INTERNAL_SERVER_ERROR"} :
            Answer(BareResponse(rsc))
    /\ UNCHANGED handled

UpdateOrDelete ==
    /\ Dispatched("Update") \/ Dispatched("Delete")
    /\ Answer(BareResponse("NOT_IMPLEMENTED"))
    /\ UNCHANGED handled

(* A notification event that came without a representation keeps whatever  *)
(* its pointer happens to be.                                              *)
HasStrayPointer(sgn) == "nev" \in sgn.has /\ sgn.rep = {}

(* OnVerification agrees, OnData takes the representation of an instance.  *)
HandlerAnswers(sgn) ==
    IF "vrq" \in sgn.has \/ \E r \in sgn.rep : r.kind = "cin" THEN {"OK"}
    ELSE IF HasStrayPointer(sgn) THEN {"OK", "BAD_REQUEST"}
    ELSE {"BAD_REQUEST"}

Notify ==
    /\ Dispatched("Notify")
    /\ IF decoded.content.kind = "sgn"
       THEN /\ \E rsc \in HandlerAnswers(decoded.content) :
                  Answer([BareResponse(rsc) EXCEPT
                             !.to = decoded.from, !.rqi = decoded.rqi])
            /\ handled' = handled \cup {decoded.content}
       ELSE Answer(BareResponse("BAD_REQUEST")) /\ UNCHANGED handled

(* The handler follows the pointer, or Notify frees it: the node is gone.  *)
NotifyCrashes ==
    /\ Dispatched("Notify") /\ HasStrayPointer(decoded.content)
    /\ stage' = "returned"
    /\ verdict' \in {"BadGateway", "GatewayTimeout"}
    /\ UNCHANGED <<cse, meant, style, prim, wire, decoded, handled, answer>>

-----------------------------------------------------------------------------
(* A creation makes the CSE notify; it goes on with the answer whatever    *)
(* becomes of the notification, which this module follows instead.         *)

BuildNotification(sub, resource) ==
    [kind |-> "sgn", has |-> {"sur", "nev"}, text |-> NoText,
     rep |-> IF sub.nct = "AllAttributes" THEN {resource} ELSE {}]

Verification ==
    [kind |-> "sgn", has |-> {"sur", "vrq", "cr"}, text |-> NoText, rep |-> {}]

Sends(content, to, rqi) ==
    /\ stage' = "built"
    /\ style' = Node
    /\ prim' = [NoPrimitive EXCEPT !.to = to, !.from = decoded.from, !.rqi = rqi,
                                   !.content = content]
    /\ wire' = EmptyRequest
    /\ decoded' = NoPrimitive
    /\ answer' = BareResponse("OK")
    /\ UNCHANGED <<cse, meant, handled, verdict>>

SendNotification ==
    /\ stage = "answering" /\ answer.rsc = "CREATED" /\ answer.content.kind # "sub"
    /\ \E sub \in Subscriptions :
         Sends(BuildNotification(sub, answer.content), sub.nu, "ntf")

SendSubscriptionVerification ==
    /\ Dispatched("Create") /\ HasTarget /\ MayBeCreated(decoded)
    /\ decoded.content.kind = "sub"
    /\ \E sub \in Subscriptions : Sends(Verification, sub.nu, "sub")

-----------------------------------------------------------------------------
(* The sender again.                                                       *)

HttpAnswer ==
    IF stage = "unparsed" THEN [EmptyResponse EXCEPT !.status = "BadRequest"]
    ELSE IF isValidRequest(decoded) THEN encodeResponse(answer, AnswerMime(wire))
    ELSE encodeResponse(answer, "application/json")

(* The parts of the answer that arrive, and what HttpClient makes of them. *)
Return ==
    /\ stage \in {"answering", "unparsed"}
    /\ stage' = "returned"
    /\ \E arrived \in 0 .. 2 :
         verdict' = IF ParsesResponse(SerializeResponse(HttpAnswer), arrived)
                    THEN HttpAnswer.status ELSE "BadGateway"
    /\ UNCHANGED <<cse, meant, style, prim, wire, decoded, handled, answer>>

Next ==
    \/ Send \/ SendNowhere \/ Lose
    \/ Parse \/ RefuseToParse \/ Decode
    \/ RefuseInvalid \/ DatabaseFails \/ RefuseTarget
    \/ RefuseCreate \/ Create \/ Retrieve \/ UpdateOrDelete
    \/ Notify \/ NotifyCrashes
    \/ SendNotification \/ SendSubscriptionVerification
    \/ Return

Spec == Init /\ [][Next]_vars

-----------------------------------------------------------------------------
(* Properties.                                                             *)

(* A message put together the way HTTP and this CSE's binding have it; the *)
(* type of what is created goes with the content.                          *)
IsPlain ==
    /\ style.length = "exact" /\ style.wellFormed
    /\ style.mime \in JsonMimes /\ style.method = ""
    /\ prim.op = "Create" => prim.ty # NoType /\ prim.content # NoContent

IsDecoded == stage \in {"decoded", "answering"}

(* What the receiver decodes is what the sender had in its primitive: the  *)
(* operation, although creations and notifications are both POST, the      *)
(* originator, the identifier, the resource type, the parameters that are  *)
(* sent, and every attribute the receiver reads but the creator, which the *)
(* receiver gives (HttpAdapter::encodeRequest, decodeRequest, JsonCodec).  *)
RequestSurvives ==
    IsDecoded /\ IsPlain =>
      /\ decoded.op = prim.op /\ decoded.from = prim.from /\ decoded.rqi = prim.rqi
      /\ prim.op = "Create" => decoded.ty = prim.ty
      /\ prim.params \cap SentParameters \subseteq decoded.params
      /\ decoded.content.kind = prim.content.kind
      /\ prim.content # NoContent =>
           (prim.content.has \cap Read(prim.content)) \ Creator
             \subseteq decoded.content.has
      /\ {r.kind : r \in prim.content.rep} = {r.kind : r \in decoded.content.rep}

(* However its author spells the address of a resource, and with whatever  *)
(* query, the service looks up the one path of the resource, for paths and *)
(* CSE names that prefixes cannot be mistaken for                          *)
(* (CanonicalizeAddressingPath, HttpCodec::ParseRequest).                  *)
AddressesAgree ==
    (/\ IsDecoded /\ IsPlain /\ decoded.op \in {"Create", "Retrieve"}
     /\ AreDistinctive(cse) /\ IsPlainPath(meant.path, cse))
      => IsLocal(decoded.to, cse) /\ Canonical(decoded.to, cse) = meant.path

(* A sender takes for done what the receiver did, and nothing else; only   *)
(* an answer that is lost, or that the sender asked for in a media type    *)
(* there is no codec for, leaves it in doubt.  The loop that subscribes    *)
(* relies on it (P2PNode::SendSubscription, HttpAdapter::SendNotification, *)
(* rscToHttpStatus).                                                       *)
SuccessAgrees ==
    stage = "returned" =>
      /\ NotificationDone(verdict) =>
           decoded # NoPrimitive /\ answer.rsc \in {"OK", "CREATED"}
      /\ SubscriptionDone(verdict) =>
           decoded # NoPrimitive /\ answer.rsc \in {"OK", "CREATED", "CONFLICT"}
      /\ (/\ decoded # NoPrimitive /\ answer.rsc \in {"OK", "CREATED"}
          /\ AnswerMime(wire) \in JsonMimes
          /\ verdict \notin {"BadGateway", "GatewayTimeout"})
           => NotificationDone(verdict)

(* The text of an instance is the same for its author, for the CSE that    *)
(* stores and answers it, and for the peer whose handler acts on it,       *)
(* although it is written as the JSON value it may spell and spelled anew  *)
(* at each hop; for texts without quotes and backslashes that are words or *)
(* canonical values (SerializeContentInstance, DeserializeContentInstance).*)
Faithful(t) ==
    t.shape \in {"word", "number", "literal", "document"} /\ ~ t.marks

ContentSurvives ==
    Faithful(meant.text) =>
      /\ \A c \in handled : \A r \in c.rep : r.kind = "cin" => r.text = meant.text
      /\ stage = "answering" /\ answer.content.kind = "cin" /\ decoded.op = "Create"
           => answer.content.text = meant.text

(* Whatever a CSE posts to a subscriber reaches the subscriber's handler   *)
(* and is agreed to, unless it is about an originator without a name or    *)
(* carries nothing a handler takes (isValidRequest, OneM2MService::Notify, *)
(* LightExample::OnData).                                                  *)
NotificationsAccepted ==
    prim.op = "Notify" /\ ~ style.client /\ prim.from # ""
      /\ HandlerAnswers(prim.content) = {"OK"} =>
      /\ stage # "unparsed"
      /\ stage = "answering" =>
           answer.rsc = "OK" /\ \E c \in handled : c.has = prim.content.has
=============================================================================
