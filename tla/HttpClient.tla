----------------------------- MODULE HttpClient -----------------------------
(***************************************************************************)
(* HttpClient::Request (zerom2m/src/http/http_client.cpp) and the TCP      *)
(* connection it opens: one connection per request, the whole request in   *)
(* one Send, and an answer that is read until the server closes, the       *)
(* buffer is full or the receive timeout passes.                           *)
(*                                                                         *)
(* The network delivers in order and in pieces of any size, or not at all. *)
(* Message sizes are small numbers.                                        *)
(***************************************************************************)
EXTENDS Integers, FiniteSets

CONSTANTS
    Conn,       \* connections, one for each request
    NoConn,
    RequestsOn, \* the requests the client of each connection may send
    NoRequest,
    InnerOf,    \* the connection on which the handler of a connection's
                \* request may notify this very node, or NoConn
    Backlog,    \* connections the listening socket queues
    MaxInt,     \* the greatest int
    SizeMod     \* a size_t holds 0 .. SizeMod - 1

(* How a Content-Length is spelled: "exact" the way this project writes    *)
(* it, "Content-Length: n"; "lower" with a small c and l; "tight" with no  *)
(* space after the colon.                                                  *)
Spelling == {"exact", "lower", "tight"}

(* hdr: bytes of the header block; body: bytes of the body; declared: the  *)
(* int that atoi makes of Content-Length, 0 when there is none; formed:    *)
(* request line and header lines parse; head: the method is HEAD; ok: what *)
(* the handler will answer; answer: bytes of the answer's body; inner: the *)
(* handler notifies this very node.                                        *)
Request ==
    [hdr : Nat \ {0}, body : Nat, declared : (- MaxInt - 1) .. MaxInt,
     spelling : Spelling, formed : BOOLEAN,
     head : BOOLEAN, ok : BOOLEAN, answer : Nat, inner : BOOLEAN]

ASSUME RequestAssumption ==
    /\ MaxInt \in Nat
    /\ SizeMod \in Nat
    /\ MaxInt < SizeMod
    /\ RequestsOn \in [Conn -> SUBSET Request]
    /\ \A c \in Conn : \A q \in RequestsOn[c] : q.inner => InnerOf[c] \in Conn
    /\ NoRequest \notin Request
    /\ NoConn \notin Conn
    /\ InnerOf \in [Conn -> Conn \cup {NoConn}]
    /\ Backlog \in Nat

VARIABLES
    listening,  \* the daemon's socket accepts connections
    request,    \* what the client of a connection sends
    client,     \* where the client is
    server,     \* the server's end of the connection
    up,         \* bytes of the request: on their way, and arrived but unread
    down,       \* the answer on its way to the client
    received    \* the answer as the client has it

connectionVars == <<request, client, up, down, received>>

Status == {"OK", "NotFound", "BadRequest", "InternalServerError"}
Unserved == {"ServiceUnavailable", "BadGateway", "GatewayTimeout"}

NoAnswer == [header |-> FALSE, status |-> "OK", declared |-> 0, body |-> 0]

Answer ==
    [header : BOOLEAN, status : Status, declared : Nat, body : Nat]

ClientTypeOK ==
    /\ listening \in BOOLEAN
    /\ request \in [Conn -> Request \cup {NoRequest}]
    /\ client \in [Conn -> {"idle", "waiting"} \cup Status \cup Unserved]
    /\ server \in [Conn -> {"none", "queued", "open", "closed"}]
    /\ up \in [Conn -> [flying : Nat, arrived : Nat]]
    /\ down \in [Conn -> Answer]
    /\ received \in [Conn -> Answer]

ClientInit ==
    /\ listening = FALSE
    /\ request = [c \in Conn |-> NoRequest]
    /\ client = [c \in Conn |-> "idle"]
    /\ server = [c \in Conn |-> "none"]
    /\ up = [c \in Conn |-> [flying |-> 0, arrived |-> 0]]
    /\ down = [c \in Conn |-> NoAnswer]
    /\ received = [c \in Conn |-> NoAnswer]

-----------------------------------------------------------------------------
(* Sending a request.                                                      *)

(* Connect fails for want of a listener or of room in its queue, and       *)
(* whenever the network loses the handshake.                               *)
ConnectFails(c) ==
    /\ client[c] = "idle"
    /\ client' = [client EXCEPT ![c] = "ServiceUnavailable"]
    /\ UNCHANGED <<listening, server, request, up, down, received>>

Queued == {c \in Conn : server[c] = "queued"}

Connect(c, q) ==
    /\ client[c] = "idle"
    /\ listening
    /\ Cardinality(Queued) < Backlog
    /\ request' = [request EXCEPT ![c] = q]
    /\ server' = [server EXCEPT ![c] = "queued"]
    /\ \/ /\ client' = [client EXCEPT ![c] = "waiting"]
          /\ up' = [up EXCEPT ![c] = [flying |-> q.hdr + q.body, arrived |-> 0]]
       \/ /\ client' = [client EXCEPT ![c] = "BadGateway"]     \* Send fails
          /\ UNCHANGED up
    /\ UNCHANGED <<listening, down, received>>

(* The network hands a piece of the request to the server ...              *)
RequestArrives(c) ==
    /\ server[c] \in {"queued", "open"}
    /\ \E n \in 1 .. up[c].flying :
          up' = [up EXCEPT ![c] = [flying |-> @.flying - n, arrived |-> @.arrived + n]]
    /\ UNCHANGED <<listening, request, client, server, down, received>>

(* ... and the answer to the client, its header first.                     *)
AnswerArrives(c) ==
    /\ client[c] = "waiting"
    /\ \/ /\ down[c].header /\ ~ received[c].header
          /\ received' = [received EXCEPT ![c] = [down[c] EXCEPT !.body = 0]]
       \/ /\ received[c].header /\ received[c].body < down[c].body
          /\ received' = [received EXCEPT ![c].body = @ + 1]
    /\ UNCHANGED <<listening, request, client, server, up, down>>

-----------------------------------------------------------------------------
(* Receiving the answer.                                                   *)

(* Faulty variant of ParseResponse: a body that was cut short is taken.    *)
ParseResponseTakesPart(a) == a.header

(* The header is there, and as much of a body as its Content-Length says.  *)
ParseResponse(a) == a.header /\ a.declared <= a.body

(* The client stops reading: because the server closed (n = 0) and nothing *)
(* is left, or because the receive timeout has passed (n < 0).             *)
EndOfAnswer(c) ==
    server[c] = "closed" /\ received[c] = down[c]

Outcome(c, timeout) ==
    IF timeout /\ ~ received[c].header THEN "GatewayTimeout"
    ELSE IF ParseResponse(received[c]) THEN received[c].status
    ELSE "BadGateway"

ClientReturns(c) ==
    /\ client[c] = "waiting"
    /\ \/ /\ EndOfAnswer(c)
          /\ client' = [client EXCEPT ![c] = Outcome(c, FALSE)]
       \/ client' = [client EXCEPT ![c] = Outcome(c, TRUE)]
    /\ UNCHANGED <<listening, request, server, up, down, received>>

Returned(c) == client[c] \in Status \cup Unserved
=============================================================================
