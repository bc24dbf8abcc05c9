----------------------------- MODULE HttpBinding -----------------------------
(***************************************************************************)
(* oneM2M primitives as HTTP messages and back: HttpAdapter                *)
(* (zerom2m/src/onem2m/bindings/http/http_adapter.cpp) with the choice of  *)
(* a codec by media type (zerom2m/src/serde/serde.cpp).                    *)
(***************************************************************************)
EXTENDS JsonCodec, HttpCodec

Operation == {"Create", "Retrieve", "Update", "Delete", "Notify"}

(* Optional parameters that are sent as headers, and those that are read.  *)
SentParameters == {"rvi", "ot", "rqet", "rset", "oet", "gid"}

ReadParameters ==
    SentParameters \cup {"rp", "vsi", "usr", "ppi", "tkns", "tids", "da", "asi",
                         "sqi", "rcn", "rt", "ec"}

FilterKeys ==
    {"crb", "cra", "ms", "us", "sts", "stb", "exb", "exa", "lbq", "sza", "szb",
     "cty", "lim", "lvl", "ofst", "cfs", "cfq", "smf", "lbl", "ty", "fu", "fo",
     "chty"}

QueryParameters == {"rcn", "drt"}

(* CodecForMime knows JSON only; what follows a ';' is cut off before.     *)
JsonMimes == {"application/json", "application/vnd.onem2m-res+json"}

-----------------------------------------------------------------------------
(* Requests.                                                               *)

operationToMethod ==
    [op \in Operation |->
        CASE op \in {"Create", "Notify"} -> "POST"
          [] op = "Retrieve" -> "GET"
          [] op = "Update" -> "PUT"
          [] op = "Delete" -> "DELETE"]

(* Faulty variant of methodToOperation: every POST is a creation.          *)
methodToOperationByMethod(method, hasResourceType) ==
    CASE method = "POST" -> "Create"
      [] method = "PUT" -> "Update"
      [] method = "DELETE" -> "Delete"
      [] OTHER -> "Retrieve"

(* A method without an operation is taken for a retrieval by decodeRequest.*)
methodToOperation(method, hasResourceType) ==
    CASE method = "POST" -> IF hasResourceType THEN "Create" ELSE "Notify"
      [] method = "PUT" -> "Update"
      [] method = "DELETE" -> "Delete"
      [] OTHER -> "Retrieve"

(* Faulty variant of encodeRequest: the type is left out of Content-Type.  *)
encodeRequestWithoutType(prim) ==
    [EmptyRequest EXCEPT
       !.method = operationToMethod[prim.op],
       !.path = prim.to,
       !.from = prim.from,
       !.rqi = prim.rqi,
       !.params = prim.params \cap SentParameters,
       !.accept = "application/json",
       !.mime = IF prim.content = NoContent THEN "" ELSE "application/json",
       !.body = IF prim.content = NoContent THEN {}
                ELSE {SerializePrimitiveContent(prim.content)}]

(* Content-Type carries the type of what is created, and is sent only with *)
(* a body.                                                                 *)
encodeRequest(prim) ==
    [EmptyRequest EXCEPT
       !.method = operationToMethod[prim.op],
       !.path = prim.to,
       !.from = prim.from,
       !.rqi = prim.rqi,
       !.params = prim.params \cap SentParameters,
       !.accept = "application/json",
       !.mime = IF prim.content = NoContent THEN "" ELSE "application/json",
       !.mimeType = IF prim.op = "Create" /\ prim.content # NoContent
                    THEN prim.ty ELSE NoType,
       !.body = IF prim.content = NoContent THEN {}
                ELSE {SerializePrimitiveContent(prim.content)}]

(* The type, from Content-Type or else from its own header.                *)
ResourceTypeOf(r) == IF r.mimeType # NoType THEN r.mimeType ELSE r.typeHeader

(* Faulty variant of filterCriteriaFromQuery: the whole query is taken.    *)
filterCriteriaUnchecked(r) == r.query

(* Filters and query parameters are looked up among names of the query.    *)
filterCriteriaFromQuery(r) == r.queryNames \cap FilterKeys

decodeQueryParams(r) == r.queryNames \cap QueryParameters

BodyIsRead(r) == r.body # {} /\ r.mime \in JsonMimes

DecodedContent(r) ==
    IF BodyIsRead(r) THEN DeserializeRequestBody(CHOOSE doc \in r.body : TRUE)
    ELSE NoContent

(* Vendor information is how the deserialiser reports as well; its report  *)
(* takes the place of the header.                                          *)
VendorInformation(r) ==
    LET header == IF "vsi" \in r.params THEN "given" ELSE "none"
        reports == IF BodyIsRead(r) THEN {Marker(doc) : doc \in r.body} \ {"none"} ELSE {}
    IN  IF reports = {} THEN header ELSE CHOOSE marker \in reports : TRUE

decodeRequest(r) ==
    LET op == methodToOperation(r.method, ResourceTypeOf(r) # NoType)
    IN  [op |-> op, to |-> r.path, from |-> r.from, rqi |-> r.rqi,
         ty |-> ResourceTypeOf(r),
         params |-> (r.params \cap ReadParameters) \cup decodeQueryParams(r),
         filters |-> IF op = "Retrieve" THEN filterCriteriaFromQuery(r) ELSE {},
         vendor |-> VendorInformation(r),
         content |-> DecodedContent(r)]

isValidRequest(prim) ==
    /\ prim.from # "" \/ prim.op = "Create"
    /\ prim.rqi # ""
    /\ prim.op = "Create" => prim.ty # NoType

-----------------------------------------------------------------------------
(* Answers.                                                                *)

(* The status codes the service uses.                                      *)
ForbiddenCodes ==
    {"ORIGINATOR_HAS_NO_PRIVILEGE", "SECURITY_ASSOCIATION_REQUIRED",
     "INVALID_CHILD_RESOURCE_TYPE", "ORIGINATOR_HAS_ALREADY_REGISTERED"}

StatusCode ==
    {"OK", "CREATED", "BAD_REQUEST", "NOT_FOUND", "CONFLICT", "NOT_IMPLEMENTED",
     "OPERATION_NOT_ALLOWED", "NOT_ACCEPTABLE", "INTERNAL_SERVER_ERROR",
     "SUBSCRIPTION_VERIFICATION_INITIATION_FAILED"} \cup ForbiddenCodes

(* Faulty variant of rscToHttpStatus: what is not listed is a conflict.    *)
rscToHttpStatusByDefaultConflict(rsc) ==
    CASE rsc = "OK" -> "OK"
      [] rsc = "CREATED" -> "Created"
      [] rsc = "BAD_REQUEST" -> "BadRequest"
      [] rsc \in ForbiddenCodes -> "Forbidden"
      [] rsc = "NOT_FOUND" -> "NotFound"
      [] OTHER -> "Conflict"

rscToHttpStatus(rsc) ==
    CASE rsc = "OK" -> "OK"
      [] rsc = "CREATED" -> "Created"
      [] rsc = "BAD_REQUEST" -> "BadRequest"
      [] rsc \in ForbiddenCodes -> "Forbidden"
      [] rsc = "NOT_FOUND" -> "NotFound"
      [] rsc = "OPERATION_NOT_ALLOWED" -> "MethodNotAllowed"
      [] rsc = "NOT_ACCEPTABLE" -> "NotAcceptable"
      [] rsc = "CONFLICT" -> "Conflict"
      [] rsc = "NOT_IMPLEMENTED" -> "NotImplemented"
      [] OTHER -> "InternalServerError"

(* The media type of an answer is the one asked for, or the request's.     *)
AnswerMime(r) ==
    IF r.accept # "" THEN r.accept
    ELSE IF r.mime # "" THEN r.mime
    ELSE "application/json"

(* An answer to the primitive prim, without content or with one; to is the *)
(* originator, which becomes the location of what was created.             *)
makeResponse(prim, rsc, content) ==
    [rsc |-> rsc, to |-> prim.from, rqi |-> prim.rqi, content |-> content]

(* What the service answers where it sets no more than the status code.    *)
BareResponse(rsc) == [rsc |-> rsc, to |-> "", rqi |-> "", content |-> NoContent]

(* A content no codec can write turns any outcome into an error.           *)
encodeResponse(rsp, mime) ==
    [EmptyResponse EXCEPT
       !.status = IF rsp.content # NoContent /\ mime \notin JsonMimes
                  THEN "InternalServerError" ELSE rscToHttpStatus(rsp.rsc),
       !.rsc = rsp.rsc,
       !.rqi = rsp.rqi,
       !.location = IF rsp.rsc = "CREATED" THEN rsp.to ELSE "",
       !.mime = IF rsp.content # NoContent /\ mime \in JsonMimes THEN mime ELSE "",
       !.body = IF rsp.content # NoContent /\ mime \in JsonMimes
                THEN {SerializePrimitiveContent(rsp.content)} ELSE {}]

(* What a sender of notifications, and one of subscriptions, takes for     *)
(* success.                                                                *)
NotificationDone(status) == status \in {"OK", "Created"}

SubscriptionDone(status) == status \in {"OK", "Created", "Conflict"}
=============================================================================
