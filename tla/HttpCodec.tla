------------------------------ MODULE HttpCodec ------------------------------
(***************************************************************************)
(* HTTP messages and their structures (zerom2m/src/http/http_codec.cpp).   *)
(*                                                                         *)
(* A message keeps the headers somebody looks at as fields, "" or NoType   *)
(* standing for a header that is missing or empty, which GetHeader does    *)
(* not tell apart; params are the names of the optional oneM2M headers.    *)
(* The bodies are JSON documents, in a set of none or one.                 *)
(***************************************************************************)
EXTENDS Naturals, Sequences

NoType == "none"

(* wellFormed: the lines can be parsed and the header block does not end   *)
(* at the position the parser takes for none.  length: how Content-Length  *)
(* is spelled, "exact", "other" or "none".                                 *)
EmptyRequest ==
    [method |-> "Unknown", path |-> <<>>, query |-> {}, queryNames |-> {},
     from |-> "", rqi |-> "", params |-> {}, accept |-> "", mime |-> "",
     mimeType |-> NoType, typeHeader |-> NoType, length |-> "none",
     wellFormed |-> TRUE, body |-> {}]

Methods ==
    {"GET", "HEAD", "POST", "PUT", "DELETE", "PATCH", "OPTIONS", "TRACE", "CONNECT"}

(* An unknown method is sent as GET; Content-Length is the codec's own.    *)
SerializeRequest(request) ==
    [request EXCEPT
       !.method = IF @ \in Methods THEN @ ELSE "GET",
       !.length = IF request.body = {} THEN "none" ELSE "exact"]

ParsesRequest(message) == message.method \in Methods /\ message.wellFormed

(* The body is read only under a Content-Length spelled like that; the     *)
(* query is split off the path and left as it is, its names are not filled *)
(* in.                                                                     *)
ParseRequest(message) ==
    [message EXCEPT !.body = IF message.length = "exact" THEN @ ELSE {}]

-----------------------------------------------------------------------------

EmptyResponse ==
    [status |-> "OK", rsc |-> "", rqi |-> "", location |-> "",
     mime |-> "", body |-> {}]

(* Every answer carries the length of its body.                            *)
SerializeResponse(response) ==
    [response |-> response, length |-> IF response.body = {} THEN 0 ELSE 1]

(* An answer that ends before its header does, or before its length is     *)
(* reached, is none: arrived counts the parts that came, of a header and a *)
(* body.                                                                   *)
ParsesResponse(message, arrived) == arrived >= 1 + message.length
=============================================================================
