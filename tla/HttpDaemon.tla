----------------------------- MODULE HttpDaemon -----------------------------
(***************************************************************************)
(* HttpDaemon (zerom2m/src/http/http_daemon.cpp): a listener task that     *)
(* accepts connections, and a worker task for each, which receives a       *)
(* request piece by piece into a buffer, has it parsed and handled, and    *)
(* sends the answer.  Objects are counted in instanceCount_, the listener  *)
(* among them; a task's object is deleted by the scheduler some time after *)
(* its Run has returned.                                                   *)
(*                                                                         *)
(* Circle's tasks are cooperative: a worker is interrupted only where it   *)
(* waits, which is in Receive and in its handler.                          *)
(***************************************************************************)
EXTENDS HttpClient

CONSTANTS
    MaxClients,     \* http.max_clients
    BufSize,        \* http.max_content_size, the size of a worker's buffer
    Terminator      \* the length of a header block the parser cannot end

ASSUME DaemonAssumption ==
    /\ IsFiniteSet(Conn)
    /\ MaxClients \in Nat
    /\ BufSize \in Nat
    /\ BufSize + MaxInt < SizeMod     \* no sum with a natural length wraps
    /\ Terminator \in Nat

VARIABLES
    listener,       \* the listener task: "new", "listening", "ended", "deleted"
    worker,         \* the worker task of each connection
    instanceCount

daemonVars == <<listener, worker, instanceCount>>
vars == <<listening, server, connectionVars, daemonVars>>

(* pc "first", "body" and "again" wait in Receive: for the first bytes,    *)
(* for the rest of the body, and for it once more after that failed.       *)
(* A worker that has "crashed" has taken the node down with it.            *)
(* got: bytes received; body: bytes of the body handed to the handler;     *)
(* refusal: the worker itself answered, or closed without an answer.       *)
NoWorker == [pc |-> "none", got |-> 0, body |-> 0, refusal |-> "none"]

WorkerState ==
    [pc : {"none", "first", "body", "again", "handle", "nested", "respond",
           "crashed", "ended", "deleted"},
     got : 0 .. BufSize, body : Nat,
     refusal : {"none", "incomplete", "noHeader", "tooLarge", "unparsed"}]

Live == {c \in Conn : worker[c].pc \notin {"none", "deleted"}}

(* Nothing runs on a node that has crashed.                                *)
Running == \A c \in Conn : worker[c].pc # "crashed"

TypeOK ==
    /\ ClientTypeOK
    /\ listener \in {"new", "listening", "ended", "deleted"}
    /\ worker \in [Conn -> WorkerState]
    /\ instanceCount \in Int

Init ==
    /\ ClientInit
    /\ listener = "new"
    /\ worker = [c \in Conn |-> NoWorker]
    /\ instanceCount = 1

-----------------------------------------------------------------------------
(* The listener.                                                           *)

Listen ==
    /\ listener = "new"
    /\ listener' = "listening"
    /\ listening' = TRUE
    /\ UNCHANGED <<server, connectionVars, worker, instanceCount>>

ListenFails ==
    /\ listener = "new"
    /\ listener' = "ended"
    /\ UNCHANGED <<listening, server, connectionVars, worker, instanceCount>>

(* Faulty variant of TooManyClients: the listener forgets that it counts   *)
(* itself.                                                                 *)
TooManyClientsOffByOne == instanceCount > MaxClients + 1

TooManyClients == instanceCount >= MaxClients + 1

TurnAway(c) ==
    /\ listener = "listening" /\ server[c] = "queued"
    /\ TooManyClients
    /\ server' = [server EXCEPT ![c] = "closed"]
    /\ UNCHANGED <<listening, connectionVars, daemonVars>>

Accept(c) ==
    /\ listener = "listening" /\ server[c] = "queued"
    /\ ~ TooManyClients
    /\ server' = [server EXCEPT ![c] = "open"]
    /\ worker' = [worker EXCEPT ![c].pc = "first"]
    /\ instanceCount' = instanceCount + 1
    /\ UNCHANGED <<listening, connectionVars, listener>>

(* The scheduler deletes the objects of tasks that have ended.             *)
DeleteWorker(c) ==
    /\ worker[c].pc = "ended"
    /\ worker' = [worker EXCEPT ![c].pc = "deleted"]
    /\ instanceCount' = instanceCount - 1
    /\ UNCHANGED <<listening, server, connectionVars, listener>>

DeleteListener ==
    /\ listener = "ended"
    /\ listener' = "deleted"
    /\ instanceCount' = instanceCount - 1
    /\ UNCHANGED <<listening, server, connectionVars, worker>>

-----------------------------------------------------------------------------
(* A worker receives a request.                                            *)

Least(m, n) == IF m < n THEN m ELSE n

(* An int as a size_t, and the sum of two of these.                        *)
SizeOf(n) == IF n < 0 THEN n + SizeMod ELSE n

WrappedSum(m, n) == IF m + n < SizeMod THEN m + n ELSE m + n - SizeMod

(* The worker searches the header block for "Content-Length: " and         *)
(* "content-length: ", each with its space.                                *)
DeclaredToWorker(q) == IF q.spelling = "tight" THEN 0 ELSE SizeOf(q.declared)

(* What the loops wait for: they compare lengths of bodies, so that no sum *)
(* of theirs wraps.                                                        *)
BodyNeeded(c) == request[c].hdr + DeclaredToWorker(request[c])

Close(c, refusal) ==
    /\ worker' = [worker EXCEPT ![c].pc = "ended", ![c].refusal = refusal]
    /\ server' = [server EXCEPT ![c] = "closed"]
    /\ UNCHANGED <<listening, connectionVars, listener, instanceCount>>

SendStatus(c, status, size) ==
    down' = [down EXCEPT ![c] = [header |-> TRUE, status |-> status, declared |-> size,
                                 body |-> IF request[c].head THEN 0 ELSE size]]

Refuse(c, got, refusal) ==
    /\ worker' = [worker EXCEPT ![c].pc = "ended", ![c].got = got, ![c].refusal = refusal]
    /\ server' = [server EXCEPT ![c] = "closed"]
    /\ SendStatus(c, "BadRequest", 0)

(* Faulty variant of Receive: the room is taken to be filled.              *)
ReceiveFillsRoom(c, n, room) ==
    /\ n = room
    /\ up[c].arrived > 0
    /\ up' = [up EXCEPT ![c].arrived = @ - n]

(* Receive returns what has arrived, at least a byte and no more than      *)
(* asked for.                                                              *)
Receive(c, n, room) ==
    /\ n \in 1 .. Least(room, up[c].arrived)
    /\ up' = [up EXCEPT ![c].arrived = @ - n]

(* Faulty variant of ReceiveFails: no timeout is set, only a client that   *)
(* has closed ends the wait.                                               *)
ReceiveFailsWhenClosed(c) == up[c] = [flying |-> 0, arrived |-> 0] /\ Returned(c)

(* It fails when nothing arrives in time, or the client has closed.        *)
ReceiveFails(c) == up[c].arrived = 0

(* Only the first piece is searched for the end of the header block.       *)
ReceiveFirst(c) ==
    /\ worker[c].pc = "first"
    /\ \E n \in 1 .. BufSize :
         /\ Receive(c, n, BufSize)
         /\ \/ /\ n < request[c].hdr
               /\ Refuse(c, n, "noHeader")
            \/ /\ n >= request[c].hdr
               /\ worker' = [worker EXCEPT ![c].pc = "body", ![c].got = n]
               /\ UNCHANGED <<server, down>>
    /\ UNCHANGED <<listening, request, client, received, listener, instanceCount>>

ReceiveFirstFails(c) ==
    /\ worker[c].pc = "first"
    /\ ReceiveFails(c)
    /\ Close(c, "incomplete")

ReceiveBody(c) ==
    /\ worker[c].pc \in {"body", "again"}
    /\ worker[c].got < Least(BodyNeeded(c), BufSize)
    /\ \E n \in 1 .. BufSize :
         /\ Receive(c, n, Least(BodyNeeded(c), BufSize) - worker[c].got)
         /\ worker' = [worker EXCEPT ![c].got = @ + n]
    /\ UNCHANGED <<listening, server, request, client, down, received, listener,
                   instanceCount>>

(* Faulty variant of TooLarge: a request that just fits is refused.        *)
TooLargeByOne(c) ==
    WrappedSum(request[c].hdr, DeclaredToWorker(request[c])) >= BufSize

(* A length just below SizeMod, that is a small negative one, passes.      *)
TooLarge(c) ==
    WrappedSum(request[c].hdr, DeclaredToWorker(request[c])) > BufSize

(* The first loop ends without the whole body: a request that cannot fit   *)
(* is closed without an answer, any other is waited for once more.         *)
ReceiveBodyFails(c) ==
    /\ worker[c].pc = "body"
    /\ worker[c].got < Least(BodyNeeded(c), BufSize)
    /\ ReceiveFails(c)
    /\ IF TooLarge(c) THEN Close(c, "tooLarge")
       ELSE /\ worker' = [worker EXCEPT ![c].pc = "again"]
            /\ UNCHANGED <<listening, server, connectionVars, listener, instanceCount>>

CloseTooLarge(c) ==
    /\ worker[c].pc = "body"
    /\ worker[c].got >= Least(BodyNeeded(c), BufSize)
    /\ TooLarge(c)
    /\ Close(c, "tooLarge")

(* HttpCodec::ParseRequest on what was received.  It takes the position 16 *)
(* (MAX_HEADERS) of the end of the header block for not found, and looks   *)
(* for a header of the name Content-Length.                                *)
DeclaredToParser(q) == IF q.spelling = "lower" THEN 0 ELSE SizeOf(q.declared)

(* Faulty variant of Parses: the body may be shorter than declared.        *)
ParsesShortBody(q, got) == q.formed /\ q.hdr # Terminator /\ q.hdr <= got

Parses(q, got) ==
    /\ q.formed
    /\ q.hdr # Terminator
    /\ q.hdr <= got
    /\ DeclaredToParser(q) = 0 \/ WrappedSum(q.hdr, DeclaredToParser(q)) <= got

(* The body that is copied ends behind the buffer.                         *)
CopiesTooMuch(q) == q.hdr + DeclaredToParser(q) > BufSize

(* Both loops are over: with the body whole, with the buffer full, or not. *)
BodyOver(c) ==
    LET filled == worker[c].got >= Least(BodyNeeded(c), BufSize) IN
    \/ worker[c].pc = "body" /\ filled /\ ~ TooLarge(c)
    \/ worker[c].pc = "again" /\ (filled \/ ReceiveFails(c))

ParseRequest(c) ==
    /\ BodyOver(c)
    /\ \/ /\ Parses(request[c], worker[c].got)
          /\ ~ CopiesTooMuch(request[c])
          /\ worker' = [worker EXCEPT ![c].pc = "handle",
                                      ![c].body = DeclaredToParser(request[c])]
          /\ UNCHANGED <<server, down>>
       \/ /\ ~ Parses(request[c], worker[c].got)
          /\ Refuse(c, worker[c].got, "unparsed")
    /\ UNCHANGED <<listening, request, client, up, received, listener, instanceCount>>

(* A length that wrapped passes the parser's check as it passed the        *)
(* worker's: new is asked for that much, memcpy copies it, and the fault   *)
(* halts the node.                                                         *)
ParseRequestCrashes(c) ==
    /\ BodyOver(c)
    /\ Parses(request[c], worker[c].got)
    /\ CopiesTooMuch(request[c])
    /\ worker' = [worker EXCEPT ![c].pc = "crashed"]
    /\ listening' = FALSE
    /\ UNCHANGED <<server, connectionVars, listener, instanceCount>>

-----------------------------------------------------------------------------
(* A worker handles a request and answers.                                 *)

HandleRequest(c) ==
    /\ worker[c].pc = "handle"
    /\ worker' = [worker EXCEPT ![c].pc =
                    IF request[c].inner THEN "nested" ELSE "respond"]
    /\ UNCHANGED <<listening, server, connectionVars, listener, instanceCount>>

(* The handler waits for its own request to end, however it ends.          *)
NestedReturns(c) ==
    /\ worker[c].pc = "nested"
    /\ Returned(InnerOf[c])
    /\ worker' = [worker EXCEPT ![c].pc = "respond"]
    /\ UNCHANGED <<listening, server, connectionVars, listener, instanceCount>>

(* Sending to a client that has closed may fail.  Header and body are sent *)
(* without waiting; when the header cannot be sent the body is not tried.  *)
Respond(c) ==
    /\ worker[c].pc = "respond"
    /\ worker' = [worker EXCEPT ![c].pc = "ended"]
    /\ server' = [server EXCEPT ![c] = "closed"]
    /\ \/ SendStatus(c, IF request[c].ok THEN "OK" ELSE "NotFound", request[c].answer)
       \/ client[c] # "waiting" /\ UNCHANGED down
    /\ UNCHANGED <<listening, request, client, up, received, listener, instanceCount>>

-----------------------------------------------------------------------------

(* A connection that belongs to a handler is opened by that handler.       *)
Inner == {InnerOf[c] : c \in Conn}

MayConnect(c) ==
    c \in Inner => \E d \in Conn : InnerOf[d] = c /\ worker[d].pc = "nested"

ClientReads(c) ==
    /\ c \in Inner => Running
    /\ ClientReturns(c)
    /\ UNCHANGED daemonVars

ClientConnects(c) ==
    /\ c \in Inner => Running
    /\ MayConnect(c)
    /\ \/ ConnectFails(c)
       \/ \E q \in RequestsOn[c] : Connect(c, q)
    /\ UNCHANGED daemonVars

WorkerNext(c) ==
    /\ Running
    /\ \/ ReceiveFirst(c) \/ ReceiveFirstFails(c)
       \/ ReceiveBody(c) \/ ReceiveBodyFails(c) \/ CloseTooLarge(c)
       \/ ParseRequest(c) \/ ParseRequestCrashes(c)
       \/ HandleRequest(c) \/ NestedReturns(c)
       \/ Respond(c)

ListenerNext(c) == Running /\ (TurnAway(c) \/ Accept(c))

Deletes(c) == Running /\ DeleteWorker(c)

ListenerEnds == Running /\ DeleteListener

Next ==
    \/ Running /\ (Listen \/ ListenFails)
    \/ ListenerEnds
    \/ \E c \in Conn :
          \/ ClientConnects(c) \/ ClientReads(c)
          \/ (RequestArrives(c) \/ AnswerArrives(c)) /\ UNCHANGED daemonVars
          \/ WorkerNext(c)
          \/ ListenerNext(c)
          \/ Deletes(c)

(* Every task that can run is run in its turn, and every wait ends by its  *)
(* timeout at the latest.  Nothing is assumed of the network, nor of when  *)
(* clients connect, but a handler whose turn it is sends its request.      *)
Fairness ==
    /\ WF_vars(ListenerEnds)
    /\ \A c \in Conn :
         /\ WF_vars(WorkerNext(c))
         /\ WF_vars(ListenerNext(c))
         /\ WF_vars(Deletes(c))
         /\ WF_vars(ClientReads(c))
         /\ WF_vars(c \in Inner /\ ClientConnects(c))

Spec == Init /\ [][Next]_vars

FairSpec == Spec /\ Fairness

-----------------------------------------------------------------------------
(* Properties.                                                             *)

(* instanceCount_ is the number of daemon objects alive, the listener's    *)
(* and the workers', from their construction to their deletion long after  *)
(* Run has returned, and never exceeds max_clients and the listener        *)
(* (HttpDaemon::HttpDaemon, ~HttpDaemon, Listener).                        *)
CountIsExact ==
    /\ instanceCount = Cardinality(Live) + (IF listener = "deleted" THEN 0 ELSE 1)
    /\ Cardinality(Live) <= MaxClients

(* Whatever pieces a request arrives in, the handler is called with the    *)
(* whole body the client declared, if it spells Content-Length with        *)
(* capitals, as this project's own client does; in small letters it makes  *)
(* the worker wait for a body that the parser then leaves out (Worker,     *)
(* HttpCodec::ParseRequest).                                               *)
HandlerSeesWholeBody ==
    \A c \in Conn :
        worker[c].pc \in {"handle", "nested", "respond"} /\ request[c].spelling # "lower"
          => /\ worker[c].body = request[c].declared
             /\ worker[c].got >= request[c].hdr + request[c].declared

(* A client is told OK only after the handler was given its whole request, *)
(* and has then received the whole answer: neither an answer cut short nor *)
(* a refusal passes for one (HttpClient::Request, ParseResponse).          *)
OkMeansHandled ==
    \A c \in Conn :
        client[c] = "OK" =>
          /\ worker[c].pc \in {"ended", "deleted"} /\ worker[c].refusal = "none"
          /\ request[c].spelling # "lower" => worker[c].body = request[c].declared
          /\ received[c].body = request[c].answer

(* A worker refuses a request, or closes without an answer, only for a     *)
(* reason: less than the client declared came in time (or in one piece, if *)
(* the worker does not see the length), the header block came in pieces,   *)
(* the request exceeds the buffer, declares a negative length, or does not *)
(* parse.  A request that fills the buffer to the last byte is served      *)
(* (HttpDaemon::Worker).                                                   *)
RefusedForAReason ==
    \A c \in Conn :
        worker[c].refusal # "none" =>
          \/ worker[c].got < request[c].hdr + request[c].declared
          \/ request[c].hdr + request[c].declared > BufSize
          \/ request[c].declared < 0
          \/ ~ request[c].formed
          \/ request[c].hdr = Terminator

(* Worker and parser each find Content-Length in their own way and check   *)
(* it against the buffer in their own way; still, between the two no       *)
(* request that declares a natural number, whatever its spelling and       *)
(* however large, makes the parser copy more than there is.  A small       *)
(* negative number passes both checks (http_daemon.cpp:293,                *)
(* http_codec.cpp:353) and brings the node down.                           *)
CrashOnlyByNegativeLength ==
    \A c \in Conn : worker[c].pc = "crashed" => request[c].declared < 0

(* Every connection the daemon accepts gives its slot back, although       *)
(* clients fall silent and handlers call this very daemon: no set of       *)
(* workers waits for a slot that only they could free.  Only a crash of    *)
(* the node keeps it.                                                      *)
SlotsAreReturned ==
    \A c \in Conn : worker[c].pc # "none" ~> (worker[c].pc = "deleted" \/ ~ Running)
=============================================================================
