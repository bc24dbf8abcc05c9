-------------------------- MODULE HttpDaemonProofs --------------------------
(***************************************************************************)
(* Proofs about the HTTP daemon and its clients, for any number of         *)
(* connections, whatever requests are made on them, and any limits.        *)
(***************************************************************************)
EXTENDS HttpDaemon, FiniteSetTheorems, TLAPS

(* What is known of one connection besides the types: in the order of a    *)
(* request's life.                                                         *)

(* A worker belongs to a connection that was accepted, and works on the    *)
(* request of its client.                                                  *)
Accepted(c) ==
    /\ client[c] = "idle" => server[c] = "none"
    /\ server[c] \in {"none", "queued"} => worker[c].pc = "none"
    /\ server[c] # "none" => request[c] \in Request
    /\ worker[c].pc \in {"none", "first"} => worker[c].got = 0

(* A handler was given what the parser made of what was received.          *)
WasParsed(c) ==
    /\ Parses(request[c], worker[c].got)
    /\ ~ CopiesTooMuch(request[c])
    /\ worker[c].body = DeclaredToParser(request[c])

HasReason(c) ==
    \/ worker[c].got < request[c].hdr + request[c].declared
    \/ request[c].hdr + request[c].declared > BufSize
    \/ request[c].declared < 0
    \/ ~ request[c].formed
    \/ request[c].hdr = Terminator

Handled(c) ==
    /\ worker[c].pc \in {"handle", "nested", "respond"} => WasParsed(c)
    /\ worker[c].pc \in {"ended", "deleted"} /\ worker[c].refusal = "none" =>
         WasParsed(c)
    /\ worker[c].pc \notin {"ended", "deleted"} => worker[c].refusal = "none"
    /\ worker[c].refusal # "none" => HasReason(c)
    /\ worker[c].pc = "crashed" => request[c].declared < 0

(* An answer comes from a worker that has ended, and a success is the      *)
(* handler's.                                                              *)
Answered(c) ==
    /\ worker[c].pc \notin {"ended", "deleted"} => ~ down[c].header
    /\ ~ down[c].header => down[c].body = 0
    /\ down[c].header /\ down[c].status = "OK" =>
         worker[c].refusal = "none" /\ down[c].declared = request[c].answer
    /\ down[c].body <= down[c].declared

(* What the client has is a part of the answer.                            *)
Arrives(c) ==
    /\ received[c].header =>
         /\ down[c].header
         /\ received[c].status = down[c].status
         /\ received[c].declared = down[c].declared
    /\ received[c].body <= down[c].body
    /\ client[c] = "OK" =>
         /\ received[c].header /\ received[c].status = "OK"
         /\ received[c].declared <= received[c].body

ConnInv(c) == Accepted(c) /\ Handled(c) /\ Answered(c) /\ Arrives(c)

DaemonInv ==
    /\ TypeOK
    /\ \A c \in Conn : ConnInv(c)
    /\ CountIsExact

(* A step on behalf of c leaves the other connections alone.               *)
Only(c) ==
    \A d \in Conn \ {c} :
      /\ request'[d] = request[d] /\ client'[d] = client[d] /\ server'[d] = server[d]
      /\ worker'[d] = worker[d] /\ down'[d] = down[d] /\ received'[d] = received[d]

-----------------------------------------------------------------------------
(* The initial state.                                                      *)

LEMMA NoRequestsYet ==
  Init => DaemonInv
<1> SUFFICES ASSUME Init PROVE DaemonInv
  OBVIOUS
<1> USE RequestAssumption, DaemonAssumption DEF Init, ClientInit
<1>1. TypeOK
  <2>1. NoAnswer \in Answer
    BY DEF NoAnswer, Answer, Status
  <2>2. NoWorker \in WorkerState
    BY DEF NoWorker, WorkerState
  <2>3. up \in [Conn -> [flying : Nat, arrived : Nat]]
    OBVIOUS
  <2>4. client \in [Conn -> {"idle", "waiting"} \cup Status \cup Unserved]
    OBVIOUS
  <2>5. request \in [Conn -> Request \cup {NoRequest}]
    OBVIOUS
  <2>6. down \in [Conn -> Answer] /\ received \in [Conn -> Answer]
    BY <2>1
  <2>7. worker \in [Conn -> WorkerState]
    BY <2>2
  <2>8. listening \in BOOLEAN /\ server \in [Conn -> {"none", "queued", "open", "closed"}]
    OBVIOUS
  <2>9. ClientTypeOK
    BY <2>3, <2>4, <2>5, <2>6, <2>8, Zenon DEF ClientTypeOK
  <2>10. listener = "new" /\ instanceCount \in Int
    OBVIOUS
  <2>11. QED
    BY <2>7, <2>9, <2>10 DEF TypeOK
<1>2. ASSUME NEW c \in Conn PROVE ConnInv(c)
  <2>1. worker[c] = NoWorker /\ down[c] = NoAnswer /\ received[c] = NoAnswer
    OBVIOUS
  <2>2. QED
    BY <2>1 DEF ConnInv, Accepted, Handled, Answered, Arrives, NoWorker, NoAnswer
<1>3. CountIsExact
  <2>1. Live = {}
    BY DEF Live, NoWorker
  <2>2. QED
    BY <2>1, FS_EmptySet DEF CountIsExact
<1>4. QED
  BY <1>1, <1>2, <1>3 DEF DaemonInv

-----------------------------------------------------------------------------
(* Frames.                                                                 *)

LEMMA OthersKeep ==
  ASSUME NEW c \in Conn, NEW d \in Conn \ {c}, Only(c), ConnInv(d)
  PROVE  ConnInv(d)'
BY DEF Only, ConnInv, Accepted, Handled, Answered, Arrives, WasParsed, HasReason

(* A step that neither starts nor deletes a daemon object.                 *)
LEMMA CountFrame ==
  ASSUME CountIsExact, UNCHANGED instanceCount, listener' = "deleted" <=> listener = "deleted",
         \A d \in Conn : worker'[d].pc \in {"none", "deleted"}
                           <=> worker[d].pc \in {"none", "deleted"}
  PROVE  CountIsExact'
<1>1. Live' = Live
  BY DEF Live
<1>2. QED
  BY <1>1 DEF CountIsExact

(* What is left to show of a step on behalf of c.                          *)
LEMMA Frame ==
  ASSUME DaemonInv, NEW c \in Conn, Only(c), TypeOK', ConnInv(c)', CountIsExact'
  PROVE  DaemonInv'
BY OthersKeep DEF DaemonInv

-----------------------------------------------------------------------------
(* The client and the network.                                             *)

(* What is left to show of a step that leaves the daemon alone.            *)
LEMMA ClientFrame ==
  ASSUME DaemonInv, UNCHANGED daemonVars, NEW c \in Conn, Only(c), ClientTypeOK',
         ConnInv(c)'
  PROVE  DaemonInv'
<1>1. TypeOK'
  BY DEF DaemonInv, TypeOK, daemonVars
<1>2. CountIsExact'
  BY CountFrame DEF DaemonInv, daemonVars
<1>3. QED
  BY <1>1, <1>2, Frame

LEMMA ConnectFailsStep ==
  ASSUME DaemonInv, NEW c \in Conn, ConnectFails(c), UNCHANGED daemonVars
  PROVE  DaemonInv'
<1> USE DEF ConnectFails, daemonVars
<1>1. ClientTypeOK'
  BY DEF DaemonInv, TypeOK, ClientTypeOK, Unserved
<1>2. Only(c)
  BY DEF Only, DaemonInv, TypeOK, ClientTypeOK
<1>3. client'[c] = "ServiceUnavailable"
  BY DEF DaemonInv, TypeOK, ClientTypeOK
<1>4. ConnInv(c)'
  BY <1>3 DEF DaemonInv, ConnInv, Accepted, Handled, Answered, Arrives, WasParsed,
     HasReason
<1>5. QED
  BY <1>1, <1>2, <1>4, ClientFrame

LEMMA ConnectStep ==
  ASSUME DaemonInv, NEW c \in Conn, NEW q \in RequestsOn[c], Connect(c, q),
         UNCHANGED daemonVars
  PROVE  DaemonInv'
<1> USE DEF Connect, daemonVars
<1>1. q \in Request
  BY RequestAssumption
<1>2. q.hdr + q.body \in Nat
  BY <1>1 DEF Request
<1>3. request' \in [Conn -> Request \cup {NoRequest}] /\ request'[c] = q
  BY <1>1 DEF DaemonInv, TypeOK, ClientTypeOK
<1>4. /\ server' \in [Conn -> {"none", "queued", "open", "closed"}]
      /\ server'[c] = "queued"
  BY DEF DaemonInv, TypeOK, ClientTypeOK
<1>5. /\ client' \in [Conn -> {"idle", "waiting"} \cup Status \cup Unserved]
      /\ client'[c] \in {"waiting", "BadGateway"}
  BY DEF DaemonInv, TypeOK, ClientTypeOK, Unserved
<1>6. up' \in [Conn -> [flying : Nat, arrived : Nat]]
  BY <1>2 DEF DaemonInv, TypeOK, ClientTypeOK
<1>7. ClientTypeOK'
  BY <1>3, <1>4, <1>5, <1>6 DEF DaemonInv, TypeOK, ClientTypeOK
<1>8. Only(c)
  BY DEF Only, DaemonInv, TypeOK, ClientTypeOK
<1>9. ConnInv(c) /\ server[c] = "none" /\ worker[c].pc = "none"
  BY DEF DaemonInv, ConnInv, Accepted
<1>10. worker[c].refusal = "none" /\ ~ down[c].header
  BY <1>9 DEF ConnInv, Handled, Answered
<1>11. ConnInv(c)'
  BY <1>1, <1>3, <1>4, <1>5, <1>9, <1>10
  DEF ConnInv, Accepted, Handled, Answered, Arrives
<1>12. QED
  BY <1>7, <1>8, <1>11, ClientFrame

(* What the client makes of what it has received.                          *)
LEMMA ClientReturnsStep ==
  ASSUME DaemonInv, NEW c \in Conn, ClientReturns(c), UNCHANGED daemonVars
  PROVE  DaemonInv'
<1> USE DEF ClientReturns, daemonVars
<1>1. PICK timeout \in BOOLEAN : client' = [client EXCEPT ![c] = Outcome(c, timeout)]
  OBVIOUS
<1>2. received[c].status \in Status
  BY DEF DaemonInv, TypeOK, ClientTypeOK, Answer
<1>3. /\ Outcome(c, timeout) \in Status \cup Unserved
      /\ Outcome(c, timeout) = "OK" => ParseResponse(received[c])
                                        /\ received[c].status = "OK"
  BY <1>2 DEF Outcome, Unserved
<1>4. /\ client' \in [Conn -> {"idle", "waiting"} \cup Status \cup Unserved]
      /\ client'[c] = Outcome(c, timeout)
  BY <1>1, <1>3 DEF DaemonInv, TypeOK, ClientTypeOK
<1>5. ClientTypeOK'
  BY <1>4 DEF DaemonInv, TypeOK, ClientTypeOK
<1>6. Only(c)
  BY <1>1 DEF Only, DaemonInv, TypeOK, ClientTypeOK
<1>7. client'[c] # "idle"
  BY <1>3, <1>4 DEF Status, Unserved
<1>8. ConnInv(c)'
  BY <1>3, <1>4, <1>7 DEF DaemonInv, ConnInv, Accepted, Handled, Answered, Arrives,
     WasParsed, HasReason, ParseResponse
<1>9. QED
  BY <1>5, <1>6, <1>8, ClientFrame

LEMMA RequestArrivesStep ==
  ASSUME DaemonInv, NEW c \in Conn, RequestArrives(c), UNCHANGED daemonVars
  PROVE  DaemonInv'
<1> USE DEF RequestArrives, daemonVars
<1>1. up[c] \in [flying : Nat, arrived : Nat]
  BY DEF DaemonInv, TypeOK, ClientTypeOK
<1>2. PICK n \in 1 .. up[c].flying :
        up' = [up EXCEPT ![c] = [flying |-> @.flying - n, arrived |-> @.arrived + n]]
  OBVIOUS
<1>3. [flying |-> up[c].flying - n, arrived |-> up[c].arrived + n]
        \in [flying : Nat, arrived : Nat]
  BY <1>1
<1>4. up' \in [Conn -> [flying : Nat, arrived : Nat]]
  BY <1>2, <1>3 DEF DaemonInv, TypeOK, ClientTypeOK
<1>5. ClientTypeOK'
  BY <1>4 DEF DaemonInv, TypeOK, ClientTypeOK
<1>6. Only(c)
  BY DEF Only
<1>7. ConnInv(c)'
  BY DEF DaemonInv, ConnInv, Accepted, Handled, Answered, Arrives, WasParsed, HasReason
<1>8. QED
  BY <1>5, <1>6, <1>7, ClientFrame

LEMMA AnswerArrivesStep ==
  ASSUME DaemonInv, NEW c \in Conn, AnswerArrives(c), UNCHANGED daemonVars
  PROVE  DaemonInv'
<1> USE DEF AnswerArrives, daemonVars
<1>1. down[c] \in Answer /\ received[c] \in Answer /\ ConnInv(c)
  BY DEF DaemonInv, TypeOK, ClientTypeOK
<1>2. PICK a \in Answer :
        /\ received' = [received EXCEPT ![c] = a]
        /\ a.header /\ down[c].header
        /\ a.status = down[c].status /\ a.declared = down[c].declared
        /\ a.body <= down[c].body
  <2>1. CASE /\ down[c].header /\ ~ received[c].header
             /\ received' = [received EXCEPT ![c] = [down[c] EXCEPT !.body = 0]]
    <3>1. [down[c] EXCEPT !.body = 0] \in Answer
      BY <1>1 DEF Answer
    <3>2. 0 <= down[c].body
      BY <1>1 DEF Answer
    <3>3. QED
      BY <1>1, <2>1, <3>1, <3>2 DEF Answer
  <2>2. CASE /\ received[c].header /\ received[c].body < down[c].body
             /\ received' = [received EXCEPT ![c].body = @ + 1]
    <3> DEFINE b == [received[c] EXCEPT !.body = @ + 1]
    <3>1. /\ b \in Answer /\ b.header = received[c].header
          /\ b.status = received[c].status /\ b.declared = received[c].declared
          /\ b.body = received[c].body + 1
      BY <1>1 DEF Answer
    <3>2. received' = [received EXCEPT ![c] = b]
      BY <2>2
    <3> HIDE DEF b
    <3>3. /\ down[c].header /\ received[c].status = down[c].status
          /\ received[c].declared = down[c].declared
      BY <1>1, <2>2 DEF ConnInv, Arrives
    <3>4. b.header
      BY <2>2, <3>1
    <3>5. b.body <= down[c].body
      BY <1>1, <2>2, <3>1 DEF Answer
    <3>6. QED
      BY <3>1, <3>2, <3>3, <3>4, <3>5
  <2>3. QED
    BY <2>1, <2>2
<1>3. received' \in [Conn -> Answer] /\ received'[c] = a
  BY <1>2 DEF DaemonInv, TypeOK, ClientTypeOK
<1>4. ClientTypeOK'
  BY <1>3 DEF DaemonInv, TypeOK, ClientTypeOK
<1>5. Only(c)
  BY <1>2 DEF Only, DaemonInv, TypeOK, ClientTypeOK
<1>6. ConnInv(c)'
  BY <1>1, <1>2, <1>3 DEF ConnInv, Accepted, Handled, Answered, Arrives, WasParsed,
     HasReason
<1>7. QED
  BY <1>4, <1>5, <1>6, ClientFrame

-----------------------------------------------------------------------------
(* The listener, and the scheduler that deletes objects.                   *)

LEMMA ListenStep ==
  ASSUME DaemonInv, Listen \/ ListenFails
  PROVE  DaemonInv'
<1> USE DEF Listen, ListenFails
<1>1. TypeOK'
  <2>1. listening' \in BOOLEAN /\ listener' \in {"listening", "ended"}
    BY DEF DaemonInv, TypeOK, ClientTypeOK
  <2>2. UNCHANGED <<server, connectionVars, worker, instanceCount>>
    OBVIOUS
  <2>3. QED
    BY <2>1, <2>2 DEF DaemonInv, TypeOK, ClientTypeOK, connectionVars
<1>2. \A c \in Conn : ConnInv(c)'
  BY DEF DaemonInv, ConnInv, Accepted, Handled, Answered, Arrives, WasParsed, HasReason,
     connectionVars
<1>3. CountIsExact'
  BY CountFrame DEF DaemonInv
<1>4. QED
  BY <1>1, <1>2, <1>3 DEF DaemonInv

(* The listener's own object no longer counts.                             *)
LEMMA DeleteListenerStep ==
  ASSUME DaemonInv, DeleteListener
  PROVE  DaemonInv'
<1> USE DEF DeleteListener
<1>1. TypeOK'
  BY DEF DaemonInv, TypeOK, ClientTypeOK, connectionVars
<1>2. \A c \in Conn : ConnInv(c)'
  BY DEF DaemonInv, ConnInv, Accepted, Handled, Answered, Arrives, WasParsed, HasReason,
     connectionVars
<1>3. CountIsExact'
  <2>1. Live' = Live
    BY DEF Live
  <2>2. Cardinality(Live) \in Nat
    BY DaemonAssumption, FS_Subset, FS_CardinalityType DEF Live
  <2>3. QED
    BY <2>1, <2>2 DEF DaemonInv, CountIsExact
<1>4. QED
  BY <1>1, <1>2, <1>3 DEF DaemonInv

LEMMA TurnAwayStep ==
  ASSUME DaemonInv, NEW c \in Conn, TurnAway(c)
  PROVE  DaemonInv'
<1> USE DEF TurnAway, daemonVars, connectionVars
<1>1. /\ server' \in [Conn -> {"none", "queued", "open", "closed"}]
      /\ server'[c] = "closed" /\ server[c] = "queued"
  BY DEF DaemonInv, TypeOK, ClientTypeOK
<1>2. TypeOK'
  BY <1>1 DEF DaemonInv, TypeOK, ClientTypeOK
<1>3. Only(c)
  BY DEF Only, DaemonInv, TypeOK, ClientTypeOK
<1>4. ConnInv(c)'
  BY <1>1 DEF DaemonInv, ConnInv, Accepted, Handled, Answered, Arrives, WasParsed,
     HasReason
<1>5. CountIsExact'
  BY CountFrame DEF DaemonInv
<1>6. QED
  BY <1>2, <1>3, <1>4, <1>5, Frame

(* The limit is checked before the worker is counted.                      *)
LEMMA AcceptStep ==
  ASSUME DaemonInv, NEW c \in Conn, Accept(c)
  PROVE  DaemonInv'
<1> USE DEF Accept, connectionVars
<1>1. worker[c] \in WorkerState /\ ConnInv(c) /\ worker[c].pc = "none"
  BY DEF DaemonInv, TypeOK, ConnInv, Accepted
<1> DEFINE w == [worker[c] EXCEPT !.pc = "first"]
<1>2. /\ w \in WorkerState /\ w.pc = "first" /\ w.got = worker[c].got
      /\ w.refusal = worker[c].refusal
      /\ worker' = [worker EXCEPT ![c] = w]
  BY <1>1 DEF WorkerState
<1> HIDE DEF w
<1>3. /\ worker' \in [Conn -> WorkerState] /\ worker'[c] = w
      /\ \A d \in Conn : d # c => worker'[d] = worker[d]
  BY <1>2 DEF DaemonInv, TypeOK
<1>4. /\ server' \in [Conn -> {"none", "queued", "open", "closed"}]
      /\ server'[c] = "open"
  BY DEF DaemonInv, TypeOK, ClientTypeOK
<1>5. TypeOK'
  BY <1>3, <1>4 DEF DaemonInv, TypeOK, ClientTypeOK
<1>6. Only(c)
  BY <1>3 DEF Only, DaemonInv, TypeOK, ClientTypeOK
<1>7. ConnInv(c)'
  BY <1>1, <1>2, <1>3, <1>4 DEF ConnInv, Accepted, Handled, Answered, Arrives
<1>8. CountIsExact'
  <2>1. IsFiniteSet(Live) /\ Cardinality(Live) \in Nat
    BY DaemonAssumption, FS_Subset, FS_CardinalityType DEF Live
  <2>2. c \notin Live /\ Live' = Live \cup {c}
    BY <1>1, <1>2, <1>3 DEF Live
  <2>3. Cardinality(Live') = Cardinality(Live) + 1
    BY <2>1, <2>2, FS_AddElement
  <2>4. QED
    BY <2>1, <2>3, DaemonAssumption DEF DaemonInv, CountIsExact, TooManyClients
<1>9. QED
  BY <1>5, <1>6, <1>7, <1>8, Frame

LEMMA DeleteWorkerStep ==
  ASSUME DaemonInv, NEW c \in Conn, DeleteWorker(c)
  PROVE  DaemonInv'
<1> USE DEF DeleteWorker, connectionVars
<1>1. worker[c] \in WorkerState /\ ConnInv(c) /\ worker[c].pc = "ended"
  BY DEF DaemonInv, TypeOK
<1> DEFINE w == [worker[c] EXCEPT !.pc = "deleted"]
<1>2. /\ w \in WorkerState /\ w.pc = "deleted" /\ w.got = worker[c].got
      /\ w.refusal = worker[c].refusal /\ w.body = worker[c].body
      /\ worker' = [worker EXCEPT ![c] = w]
  BY <1>1 DEF WorkerState
<1> HIDE DEF w
<1>3. /\ worker' \in [Conn -> WorkerState] /\ worker'[c] = w
      /\ \A d \in Conn : d # c => worker'[d] = worker[d]
  BY <1>2 DEF DaemonInv, TypeOK
<1>4. TypeOK'
  BY <1>3 DEF DaemonInv, TypeOK, ClientTypeOK
<1>5. Only(c)
  BY <1>3 DEF Only
<1>6. ConnInv(c)'
  BY <1>1, <1>2, <1>3 DEF ConnInv, Accepted, Handled, Answered, Arrives, WasParsed,
     HasReason
<1>7. CountIsExact'
  <2>1. IsFiniteSet(Live) /\ Cardinality(Live) \in Nat
    BY DaemonAssumption, FS_Subset, FS_CardinalityType DEF Live
  <2>2. c \in Live /\ Live' = Live \ {c}
    BY <1>1, <1>2, <1>3 DEF Live
  <2>3. Cardinality(Live') = Cardinality(Live) - 1
    BY <2>1, <2>2, FS_RemoveElement
  <2>4. QED
    BY <2>1, <2>3, DaemonAssumption DEF DaemonInv, CountIsExact
<1>8. QED
  BY <1>4, <1>5, <1>6, <1>7, Frame

-----------------------------------------------------------------------------
(* The workers.                                                            *)

Working(c) == worker[c].pc \notin {"none", "crashed", "ended", "deleted"}

LEMMA ListeningIsBoolean ==
  ASSUME DaemonInv
  PROVE  listening \in BOOLEAN
BY DEF DaemonInv, TypeOK, ClientTypeOK

(* What the conversions and sums make of a length.                         *)
LEMMA Lengths ==
  ASSUME NEW q \in Request
  PROVE  /\ q.declared \in Int /\ q.hdr \in Nat \ {0}
         /\ SizeOf(q.declared) \in Nat
         /\ q.declared >= 0 => SizeOf(q.declared) = q.declared
         /\ q.declared < 0 => SizeOf(q.declared) >= BufSize
         /\ q.declared <= MaxInt /\ MaxInt \in Nat /\ SizeMod \in Nat
         /\ DeclaredToParser(q) \in Nat /\ DeclaredToWorker(q) \in Nat
<1>1. q.declared \in (- MaxInt - 1) .. MaxInt /\ q.hdr \in Nat \ {0}
  BY DEF Request
<1>2. /\ MaxInt \in Nat /\ SizeMod \in Nat /\ BufSize \in Nat
      /\ BufSize + MaxInt < SizeMod
  BY RequestAssumption, DaemonAssumption
<1>3. q.declared \in Int /\ q.declared >= - MaxInt - 1 /\ q.declared <= MaxInt
  BY <1>1, <1>2
<1>4. /\ SizeOf(q.declared) \in Nat
      /\ q.declared >= 0 => SizeOf(q.declared) = q.declared
      /\ q.declared < 0 => SizeOf(q.declared) >= BufSize
  BY <1>2, <1>3 DEF SizeOf
<1>5. QED
  BY <1>1, <1>2, <1>3, <1>4 DEF DeclaredToParser, DeclaredToWorker

(* A request that the worker finds too large, or the parser incomplete.    *)
LEMMA LengthReasons ==
  ASSUME NEW q \in Request, NEW got \in 0 .. BufSize
  PROVE  /\ WrappedSum(q.hdr, DeclaredToWorker(q)) > BufSize =>
              q.hdr + q.declared > BufSize \/ q.declared < 0
         /\ ~ Parses(q, got) =>
              \/ got < q.hdr + q.declared
              \/ q.declared < 0
              \/ ~ q.formed
              \/ q.hdr = Terminator
<1>1. BufSize \in Nat /\ got \in Nat /\ got <= BufSize /\ BufSize < SizeMod
  BY Lengths, RequestAssumption, DaemonAssumption
<1>2. CASE q.declared < 0
  BY <1>2
<1>3. CASE q.declared >= 0
  <2>1. /\ DeclaredToWorker(q) \in {0, q.declared}
        /\ DeclaredToParser(q) \in {0, q.declared}
    BY <1>3, Lengths DEF DeclaredToWorker, DeclaredToParser
  <2>2. /\ q.declared \in Nat /\ q.hdr \in Nat /\ SizeMod \in Nat
    BY <1>3, Lengths
  <2>3. WrappedSum(q.hdr, DeclaredToWorker(q)) <= q.hdr + q.declared
    BY <2>1, <2>2 DEF WrappedSum
  <2>4. WrappedSum(q.hdr, DeclaredToParser(q)) <= q.hdr + q.declared
    BY <2>1, <2>2 DEF WrappedSum
  <2>5. WrappedSum(q.hdr, DeclaredToWorker(q)) \in Int
        /\ WrappedSum(q.hdr, DeclaredToParser(q)) \in Int
    BY <2>1, <2>2 DEF WrappedSum
  <2>6. QED
    BY <1>1, <2>2, <2>3, <2>4, <2>5 DEF Parses
<1>4. QED
  BY <1>2, <1>3, Lengths

(* What is parsed, copied within the buffer or not.                        *)
LEMMA LengthsParsed ==
  ASSUME NEW q \in Request, NEW got \in 0 .. BufSize, Parses(q, got)
  PROVE  /\ CopiesTooMuch(q) => q.declared < 0
         /\ ~ CopiesTooMuch(q) /\ q.spelling # "lower" =>
              DeclaredToParser(q) = q.declared /\ got >= q.hdr + q.declared
<1>1. /\ BufSize \in Nat /\ got \in Nat /\ got <= BufSize
      /\ BufSize + MaxInt < SizeMod
  BY RequestAssumption, DaemonAssumption
<1>2. q.hdr <= got
  BY DEF Parses
<1>3. CASE q.declared < 0
  <2>1. q.spelling # "lower" => CopiesTooMuch(q)
    BY <1>1, <1>3, Lengths DEF CopiesTooMuch, DeclaredToParser
  <2>2. QED
    BY <1>3, <2>1
<1>4. CASE q.declared >= 0
  <2>1. /\ DeclaredToParser(q) \in {0, q.declared}
        /\ q.spelling # "lower" => DeclaredToParser(q) = q.declared
    BY <1>4, Lengths DEF DeclaredToParser
  <2>2. /\ q.declared \in Nat /\ q.declared <= MaxInt /\ q.hdr \in Nat
        /\ MaxInt \in Nat /\ SizeMod \in Nat
    BY <1>4, Lengths
  <2>3. WrappedSum(q.hdr, DeclaredToParser(q)) = q.hdr + DeclaredToParser(q)
    BY <1>1, <1>2, <2>1, <2>2 DEF WrappedSum
  <2>4. q.hdr + DeclaredToParser(q) <= got
    BY <1>1, <1>2, <2>1, <2>2, <2>3 DEF Parses
  <2>5. QED
    BY <1>1, <2>1, <2>2, <2>4 DEF CopiesTooMuch
<1>5. QED
  BY <1>3, <1>4, Lengths

LEMMA WorkingFacts ==
  ASSUME DaemonInv, NEW c \in Conn, Working(c)
  PROVE  /\ request[c] \in Request /\ worker[c] \in WorkerState /\ ConnInv(c)
         /\ server[c] \notin {"none", "queued"} /\ client[c] # "idle"
         /\ worker[c].refusal = "none" /\ ~ down[c].header /\ ~ received[c].header
         /\ received[c].body = 0 /\ client[c] # "OK"
<1>1. ConnInv(c) /\ worker[c] \in WorkerState
  BY DEF DaemonInv, TypeOK
<1>2. received[c].body \in Nat
  BY DEF DaemonInv, TypeOK, ClientTypeOK, Answer
<1>3. QED
  BY <1>1, <1>2 DEF Working, ConnInv, Accepted, Handled, Answered, Arrives

(* What is left to show of a step of the worker of c.                      *)
LEMMA WorkerFrame ==
  ASSUME DaemonInv, NEW c \in Conn, Working(c),
         NEW w \in WorkerState, w.pc \notin {"none", "deleted"},
         worker' = [worker EXCEPT ![c] = w], listening' \in BOOLEAN,
         UNCHANGED <<request, client, received, listener, instanceCount>>,
         up' \in [Conn -> [flying : Nat, arrived : Nat]],
         server' \in {server, [server EXCEPT ![c] = "closed"]},
         down' \in [Conn -> Answer], \A d \in Conn : d # c => down'[d] = down[d],
         ConnInv(c)'
  PROVE  DaemonInv'
<1>1. /\ worker' \in [Conn -> WorkerState] /\ worker'[c] = w
      /\ \A d \in Conn : d # c => worker'[d] = worker[d]
  BY DEF DaemonInv, TypeOK
<1>2. /\ server' \in [Conn -> {"none", "queued", "open", "closed"}]
      /\ \A d \in Conn : d # c => server'[d] = server[d]
  BY DEF DaemonInv, TypeOK, ClientTypeOK
<1>3. TypeOK'
  BY <1>1, <1>2 DEF DaemonInv, TypeOK, ClientTypeOK
<1>4. Only(c)
  BY <1>1, <1>2 DEF Only
<1>5. CountIsExact'
  BY <1>1, CountFrame DEF DaemonInv, Working
<1>6. QED
  BY <1>3, <1>4, <1>5, Frame

(* The worker goes on, and no answer is sent.                              *)
LEMMA GoesOnStep ==
  ASSUME DaemonInv, NEW c \in Conn, Working(c),
         NEW w \in WorkerState, w.pc \notin {"none", "first", "ended", "deleted"},
         w.refusal = "none",
         w.pc \in {"handle", "nested", "respond"} =>
           /\ Parses(request[c], w.got) /\ ~ CopiesTooMuch(request[c])
           /\ w.body = DeclaredToParser(request[c]),
         w.pc = "crashed" => request[c].declared < 0,
         worker' = [worker EXCEPT ![c] = w], listening' \in BOOLEAN,
         up' \in [Conn -> [flying : Nat, arrived : Nat]],
         UNCHANGED <<server, request, client, down, received, listener, instanceCount>>
  PROVE  DaemonInv'
<1>1. worker'[c] = w
  BY DEF DaemonInv, TypeOK
<1>2. down' \in [Conn -> Answer]
  BY DEF DaemonInv, TypeOK, ClientTypeOK
<1>3. ConnInv(c)'
  BY <1>1, WorkingFacts DEF ConnInv, Accepted, Handled, Answered, Arrives, WasParsed
<1>4. QED
  BY <1>2, <1>3, WorkerFrame

(* The worker closes without an answer, for a reason.                      *)
LEMMA CloseStep ==
  ASSUME DaemonInv, NEW c \in Conn, Working(c), HasReason(c),
         NEW refusal \in {"incomplete", "tooLarge"}, Close(c, refusal)
  PROVE  DaemonInv'
<1> USE DEF Close, connectionVars
<1>1. worker[c] \in WorkerState
  BY WorkingFacts
<1>2. PICK w \in WorkerState : w = [worker[c] EXCEPT !.pc = "ended", !.refusal = refusal]
  BY <1>1 DEF WorkerState
<1>3. /\ w.pc = "ended" /\ w.refusal = refusal /\ w.got = worker[c].got
      /\ worker' = [worker EXCEPT ![c] = w]
  BY <1>1, <1>2 DEF WorkerState, DaemonInv, TypeOK
<1>4. worker'[c] = w /\ server'[c] = "closed"
  BY <1>3 DEF DaemonInv, TypeOK, ClientTypeOK
<1>5. ConnInv(c)'
  BY <1>3, <1>4, WorkingFacts
  DEF ConnInv, Accepted, Handled, Answered, Arrives, HasReason
<1>6. down' \in [Conn -> Answer] /\ up' \in [Conn -> [flying : Nat, arrived : Nat]]
  BY DEF DaemonInv, TypeOK, ClientTypeOK
<1>7. QED
  BY <1>3, <1>5, <1>6, WorkerFrame, ListeningIsBoolean

(* The answer a worker sends.                                              *)
LEMMA SentStatus ==
  ASSUME DaemonInv, NEW c \in Conn, request[c] \in Request, NEW status \in Status,
         NEW size \in Nat, SendStatus(c, status, size)
  PROVE  /\ down' \in [Conn -> Answer] /\ \A d \in Conn : d # c => down'[d] = down[d]
         /\ down'[c].header /\ down'[c].status = status /\ down'[c].declared = size
         /\ down'[c].body \in {0, size}
<1>0. PICK body \in {0, size} : body = IF request[c].head THEN 0 ELSE size
  OBVIOUS
<1>1. PICK a \in Answer : a = [header |-> TRUE, status |-> status, declared |-> size,
                               body |-> body]
  <2>1. body \in Nat
    OBVIOUS
  <2>2. [header |-> TRUE, status |-> status, declared |-> size, body |-> body] \in Answer
    BY <2>1 DEF Answer
  <2>3. QED
    BY <2>2
<1>2. /\ a.header /\ a.status = status /\ a.declared = size /\ a.body \in {0, size}
  BY <1>1
<1>3. down' = [down EXCEPT ![c] = a]
  BY <1>0, <1>1 DEF SendStatus
<1>4. QED
  BY <1>2, <1>3 DEF DaemonInv, TypeOK, ClientTypeOK

(* The worker refuses, for a reason.                                       *)
LEMMA RefuseStep ==
  ASSUME DaemonInv, NEW c \in Conn, Working(c), NEW got \in 0 .. BufSize,
         NEW refusal \in {"noHeader", "unparsed"}, Refuse(c, got, refusal),
         \/ got < request[c].hdr + request[c].declared
         \/ request[c].declared < 0
         \/ ~ request[c].formed
         \/ request[c].hdr = Terminator,
         up' \in [Conn -> [flying : Nat, arrived : Nat]],
         UNCHANGED <<listening, request, client, received, listener, instanceCount>>
  PROVE  DaemonInv'
<1> USE DEF Refuse
<1>1. worker[c] \in WorkerState /\ request[c] \in Request
  BY WorkingFacts
<1>2. PICK w \in WorkerState :
        w = [worker[c] EXCEPT !.pc = "ended", !.got = got, !.refusal = refusal]
  BY <1>1 DEF WorkerState
<1>3. /\ w.pc = "ended" /\ w.refusal = refusal /\ w.got = got
      /\ worker' = [worker EXCEPT ![c] = w]
  BY <1>1, <1>2 DEF WorkerState, DaemonInv, TypeOK
<1>4. worker'[c] = w /\ server'[c] = "closed"
  BY <1>3 DEF DaemonInv, TypeOK, ClientTypeOK
<1>5. /\ down' \in [Conn -> Answer] /\ \A d \in Conn : d # c => down'[d] = down[d]
      /\ down'[c].header /\ down'[c].status = "BadRequest" /\ down'[c].declared = 0
      /\ down'[c].body = 0
  BY <1>1, SentStatus DEF Status
<1>6. ConnInv(c)'
  BY <1>3, <1>4, <1>5, WorkingFacts
  DEF ConnInv, Accepted, Handled, Answered, Arrives, HasReason
<1>7. QED
  BY <1>3, <1>5, <1>6, WorkerFrame, ListeningIsBoolean

(* Receive takes from what has arrived.                                    *)
LEMMA Received ==
  ASSUME DaemonInv, NEW c \in Conn, NEW n \in Nat, NEW room \in Int,
         Receive(c, n, room)
  PROVE  /\ up' \in [Conn -> [flying : Nat, arrived : Nat]]
         /\ n >= 1 /\ n <= room
<1>1. up[c] \in [flying : Nat, arrived : Nat]
  BY DEF DaemonInv, TypeOK, ClientTypeOK
<1>2. n <= up[c].arrived /\ n >= 1 /\ n <= room
  BY <1>1 DEF Receive, Least
<1> DEFINE p == [up[c] EXCEPT !.arrived = @ - n]
<1>3. p \in [flying : Nat, arrived : Nat]
  BY <1>1, <1>2
<1>4. up' = [up EXCEPT ![c] = p]
  BY DEF Receive
<1> HIDE DEF p
<1>5. QED
  BY <1>2, <1>3, <1>4 DEF DaemonInv, TypeOK, ClientTypeOK

LEMMA ReceiveFirstStep ==
  ASSUME DaemonInv, NEW c \in Conn, ReceiveFirst(c)
  PROVE  DaemonInv'
<1>1. Working(c) /\ worker[c].pc = "first"
  BY DEF ReceiveFirst, Working
<1>2. /\ worker[c] \in WorkerState /\ worker[c].refusal = "none"
      /\ request[c].hdr \in Nat /\ request[c].declared \in Int
  BY <1>1, WorkingFacts, Lengths
<1>3. PICK n \in 1 .. BufSize :
        /\ Receive(c, n, BufSize)
        /\ \/ /\ n < request[c].hdr
              /\ Refuse(c, n, "noHeader")
           \/ /\ n >= request[c].hdr
              /\ worker' = [worker EXCEPT ![c].pc = "body", ![c].got = n]
              /\ UNCHANGED <<server, down>>
  BY DEF ReceiveFirst
<1>4. n \in Nat /\ BufSize \in Int /\ n \in 0 .. BufSize
  BY DaemonAssumption
<1>5. up' \in [Conn -> [flying : Nat, arrived : Nat]]
  BY <1>3, <1>4, Received
<1>6. UNCHANGED <<listening, request, client, received, listener, instanceCount>>
  BY DEF ReceiveFirst
<1>7. CASE n < request[c].hdr /\ Refuse(c, n, "noHeader")
  BY <1>1, <1>2, <1>4, <1>5, <1>6, <1>7, RefuseStep
<1>8. CASE /\ worker' = [worker EXCEPT ![c].pc = "body", ![c].got = n]
           /\ UNCHANGED <<server, down>>
  <2>1. PICK w \in WorkerState : w = [worker[c] EXCEPT !.pc = "body", !.got = n]
    BY <1>2, <1>4 DEF WorkerState
  <2>2. /\ w.pc = "body" /\ w.refusal = "none"
        /\ worker' = [worker EXCEPT ![c] = w]
    BY <1>2, <1>8, <2>1 DEF WorkerState, DaemonInv, TypeOK
  <2>3. QED
    BY <1>1, <1>5, <1>6, <1>8, <2>2, GoesOnStep, ListeningIsBoolean
<1>9. QED
  BY <1>3, <1>7, <1>8

LEMMA ReceiveFirstFailsStep ==
  ASSUME DaemonInv, NEW c \in Conn, ReceiveFirstFails(c)
  PROVE  DaemonInv'
<1>1. Working(c) /\ worker[c].pc = "first" /\ Close(c, "incomplete")
  BY DEF ReceiveFirstFails, Working
<1>2. worker[c].got = 0 /\ request[c].hdr \in Nat \ {0} /\ request[c].declared \in Int
  BY <1>1, WorkingFacts, Lengths DEF ConnInv, Accepted
<1>3. HasReason(c)
  BY <1>2 DEF HasReason
<1>4. QED
  BY <1>1, <1>3, CloseStep

LEMMA ReceiveBodyStep ==
  ASSUME DaemonInv, NEW c \in Conn, ReceiveBody(c)
  PROVE  DaemonInv'
<1>1. Working(c) /\ worker[c].pc \in {"body", "again"}
  BY DEF ReceiveBody, Working
<1>2. /\ worker[c] \in WorkerState /\ worker[c].refusal = "none"
      /\ BodyNeeded(c) \in Nat
  BY <1>1, WorkingFacts, Lengths DEF BodyNeeded
<1>3. /\ worker[c].got \in Nat /\ Least(BodyNeeded(c), BufSize) \in Nat
      /\ Least(BodyNeeded(c), BufSize) <= BufSize
  BY <1>2, DaemonAssumption DEF WorkerState, Least
<1>4. PICK n \in 1 .. BufSize :
        /\ Receive(c, n, Least(BodyNeeded(c), BufSize) - worker[c].got)
        /\ worker' = [worker EXCEPT ![c].got = @ + n]
  BY DEF ReceiveBody
<1>5. n \in Nat /\ BufSize \in Nat
  BY DaemonAssumption
<1>6. /\ up' \in [Conn -> [flying : Nat, arrived : Nat]]
      /\ n <= Least(BodyNeeded(c), BufSize) - worker[c].got
  BY <1>3, <1>4, <1>5, Received
<1>7. PICK w \in WorkerState : w = [worker[c] EXCEPT !.got = @ + n]
  <2>1. worker[c].got + n \in 0 .. BufSize
    BY <1>3, <1>5, <1>6
  <2>2. [worker[c] EXCEPT !.got = worker[c].got + n] \in WorkerState
    BY <1>2, <2>1 DEF WorkerState
  <2>3. QED
    BY <2>2
<1>8. /\ w.pc = worker[c].pc /\ w.refusal = "none"
      /\ worker' = [worker EXCEPT ![c] = w]
  BY <1>2, <1>4, <1>7 DEF WorkerState, DaemonInv, TypeOK
<1>9. UNCHANGED <<listening, server, request, client, down, received, listener,
                  instanceCount>>
  BY DEF ReceiveBody
<1>10. QED
  BY <1>1, <1>6, <1>8, <1>9, GoesOnStep, ListeningIsBoolean

LEMMA ReceiveBodyFailsStep ==
  ASSUME DaemonInv, NEW c \in Conn, ReceiveBodyFails(c) \/ CloseTooLarge(c)
  PROVE  DaemonInv'
<1>1. Working(c) /\ worker[c].pc = "body"
  BY DEF ReceiveBodyFails, CloseTooLarge, Working
<1>2. /\ worker[c] \in WorkerState /\ worker[c].refusal = "none"
      /\ request[c] \in Request
  BY <1>1, WorkingFacts
<1>3. CASE TooLarge(c) /\ Close(c, "tooLarge")
  <2>1. worker[c].got \in 0 .. BufSize
    BY <1>2 DEF WorkerState
  <2>2. HasReason(c)
    BY <1>2, <1>3, <2>1, LengthReasons DEF TooLarge, HasReason
  <2>3. QED
    BY <1>1, <1>3, <2>2, CloseStep
<1>4. CASE /\ worker' = [worker EXCEPT ![c].pc = "again"]
           /\ UNCHANGED <<listening, server, connectionVars, listener, instanceCount>>
  <2>1. PICK w \in WorkerState : w = [worker[c] EXCEPT !.pc = "again"]
    BY <1>2 DEF WorkerState
  <2>2. /\ w.pc = "again" /\ w.refusal = "none"
        /\ worker' = [worker EXCEPT ![c] = w]
    BY <1>2, <1>4, <2>1 DEF WorkerState, DaemonInv, TypeOK
  <2>3. up' \in [Conn -> [flying : Nat, arrived : Nat]]
    BY <1>4 DEF DaemonInv, TypeOK, ClientTypeOK, connectionVars
  <2>4. QED
    BY <1>1, <1>4, <2>2, <2>3, GoesOnStep, ListeningIsBoolean DEF connectionVars
<1>5. QED
  BY <1>3, <1>4 DEF ReceiveBodyFails, CloseTooLarge

(* The parser refuses what is not whole, and says how long the body is.    *)
LEMMA ParseRequestStep ==
  ASSUME DaemonInv, NEW c \in Conn, ParseRequest(c)
  PROVE  DaemonInv'
<1>1. Working(c)
  BY DEF ParseRequest, BodyOver, Working
<1>2. /\ worker[c] \in WorkerState /\ worker[c].refusal = "none"
      /\ request[c] \in Request
  BY <1>1, WorkingFacts
<1>3. /\ worker[c].got \in 0 .. BufSize /\ DeclaredToParser(request[c]) \in Nat
  BY <1>2, Lengths DEF WorkerState
<1>4. UNCHANGED <<listening, request, client, up, received, listener, instanceCount>>
  BY DEF ParseRequest
<1>5. up' \in [Conn -> [flying : Nat, arrived : Nat]]
  BY <1>4 DEF DaemonInv, TypeOK, ClientTypeOK
<1>6. CASE /\ Parses(request[c], worker[c].got)
           /\ ~ CopiesTooMuch(request[c])
           /\ worker' = [worker EXCEPT ![c].pc = "handle",
                                       ![c].body = DeclaredToParser(request[c])]
           /\ UNCHANGED <<server, down>>
  <2>1. PICK w \in WorkerState :
          w = [worker[c] EXCEPT !.pc = "handle", !.body = DeclaredToParser(request[c])]
    BY <1>2, <1>3 DEF WorkerState
  <2>2. /\ w.pc = "handle" /\ w.refusal = "none" /\ w.got = worker[c].got
        /\ w.body = DeclaredToParser(request[c])
        /\ worker' = [worker EXCEPT ![c] = w]
    BY <1>2, <1>6, <2>1 DEF WorkerState, DaemonInv, TypeOK
  <2>3. QED
    BY <1>1, <1>4, <1>5, <1>6, <2>2, GoesOnStep, ListeningIsBoolean
<1>7. CASE /\ ~ Parses(request[c], worker[c].got)
           /\ Refuse(c, worker[c].got, "unparsed")
  <2>1. \/ worker[c].got < request[c].hdr + request[c].declared
        \/ request[c].declared < 0
        \/ ~ request[c].formed
        \/ request[c].hdr = Terminator
    BY <1>2, <1>3, <1>7, LengthReasons
  <2>2. QED
    BY <1>1, <1>3, <1>4, <1>5, <1>7, <2>1, RefuseStep
<1>8. QED
  BY <1>6, <1>7 DEF ParseRequest

(* Only a length that is negative passes the checks and is too long.       *)
LEMMA ParseRequestCrashesStep ==
  ASSUME DaemonInv, NEW c \in Conn, ParseRequestCrashes(c)
  PROVE  DaemonInv'
<1>1. Working(c)
  BY DEF ParseRequestCrashes, BodyOver, Working
<1>2. /\ worker[c] \in WorkerState /\ worker[c].refusal = "none"
      /\ request[c] \in Request /\ worker[c].got \in 0 .. BufSize
  BY <1>1, WorkingFacts DEF WorkerState
<1>3. request[c].declared < 0
  BY <1>2, LengthsParsed DEF ParseRequestCrashes
<1>4. PICK w \in WorkerState : w = [worker[c] EXCEPT !.pc = "crashed"]
  BY <1>2 DEF WorkerState
<1>5. /\ w.pc = "crashed" /\ w.refusal = "none"
      /\ worker' = [worker EXCEPT ![c] = w]
  BY <1>2, <1>4 DEF ParseRequestCrashes, WorkerState, DaemonInv, TypeOK
<1>6. /\ UNCHANGED <<server, request, client, down, received, listener, instanceCount>>
      /\ listening' \in BOOLEAN /\ up' \in [Conn -> [flying : Nat, arrived : Nat]]
  BY DEF ParseRequestCrashes, connectionVars, DaemonInv, TypeOK, ClientTypeOK
<1>7. QED
  BY <1>1, <1>3, <1>5, <1>6, GoesOnStep

LEMMA HandleRequestStep ==
  ASSUME DaemonInv, NEW c \in Conn, HandleRequest(c) \/ NestedReturns(c)
  PROVE  DaemonInv'
<1>1. Working(c) /\ worker[c].pc \in {"handle", "nested"}
  BY DEF HandleRequest, NestedReturns, Working
<1>2. worker[c] \in WorkerState /\ worker[c].refusal = "none" /\ WasParsed(c)
  BY <1>1, WorkingFacts DEF ConnInv, Handled
<1>3. PICK pc \in {"nested", "respond"} : worker' = [worker EXCEPT ![c].pc = pc]
  BY DEF HandleRequest, NestedReturns
<1>4. PICK w \in WorkerState : w = [worker[c] EXCEPT !.pc = pc]
  BY <1>2 DEF WorkerState
<1>5. /\ w.pc = pc /\ w.refusal = "none" /\ w.got = worker[c].got
      /\ w.body = worker[c].body /\ worker' = [worker EXCEPT ![c] = w]
  BY <1>2, <1>3, <1>4 DEF WorkerState, DaemonInv, TypeOK
<1>6. UNCHANGED <<listening, server, connectionVars, listener, instanceCount>>
  BY DEF HandleRequest, NestedReturns
<1>7. up' \in [Conn -> [flying : Nat, arrived : Nat]]
  BY <1>6 DEF DaemonInv, TypeOK, ClientTypeOK, connectionVars
<1>8. QED
  BY <1>1, <1>2, <1>5, <1>6, <1>7, GoesOnStep, ListeningIsBoolean
  DEF WasParsed, connectionVars

(* The answer is the handler's, or is not sent at all.                     *)
LEMMA RespondStep ==
  ASSUME DaemonInv, NEW c \in Conn, Respond(c)
  PROVE  DaemonInv'
<1>1. Working(c) /\ worker[c].pc = "respond"
  BY DEF Respond, Working
<1>2. /\ worker[c] \in WorkerState /\ worker[c].refusal = "none" /\ WasParsed(c)
      /\ request[c] \in Request /\ request[c].answer \in Nat
  BY <1>1, WorkingFacts DEF ConnInv, Handled, Request
<1>3. PICK w \in WorkerState : w = [worker[c] EXCEPT !.pc = "ended"]
  BY <1>2 DEF WorkerState
<1>4. /\ w.pc = "ended" /\ w.refusal = "none" /\ w.got = worker[c].got
      /\ w.body = worker[c].body /\ worker' = [worker EXCEPT ![c] = w]
  BY <1>2, <1>3 DEF WorkerState, DaemonInv, TypeOK, Respond
<1>5. worker'[c] = w /\ server'[c] = "closed"
  BY <1>4 DEF DaemonInv, TypeOK, ClientTypeOK, Respond
<1>6. UNCHANGED <<listening, request, client, up, received, listener, instanceCount>>
  BY DEF Respond
<1>7. up' \in [Conn -> [flying : Nat, arrived : Nat]]
  BY <1>6 DEF DaemonInv, TypeOK, ClientTypeOK
<1>8. /\ down' \in [Conn -> Answer] /\ \A d \in Conn : d # c => down'[d] = down[d]
      /\ \/ /\ down'[c].header /\ down'[c].declared = request[c].answer
            /\ down'[c].body \in {0, request[c].answer}
         \/ down'[c] = down[c]
  <2>1. CASE UNCHANGED down
    BY <2>1 DEF DaemonInv, TypeOK, ClientTypeOK
  <2>2. CASE SendStatus(c, IF request[c].ok THEN "OK" ELSE "NotFound", request[c].answer)
    <3>1. PICK status \in Status : SendStatus(c, status, request[c].answer)
      BY <2>2 DEF Status
    <3>2. QED
      BY <1>2, <3>1, SentStatus
  <2>3. QED
    BY <2>1, <2>2 DEF Respond
<1>9. WasParsed(c)'
  BY <1>2, <1>4, <1>5, <1>6 DEF WasParsed
<1>10. ConnInv(c)'
  BY <1>2, <1>4, <1>5, <1>6, <1>8, <1>9, <1>1, WorkingFacts
  DEF ConnInv, Accepted, Handled, Answered, Arrives
<1>11. server' \in {server, [server EXCEPT ![c] = "closed"]}
  BY DEF Respond
<1>12. QED
  BY <1>1, <1>4, <1>6, <1>7, <1>8, <1>10, <1>11, WorkerFrame, ListeningIsBoolean

-----------------------------------------------------------------------------
(* The invariant, and what follows from it.                                *)

LEMMA DaemonNext == DaemonInv /\ [Next]_vars => DaemonInv'
<1> SUFFICES ASSUME DaemonInv, [Next]_vars PROVE DaemonInv'
  OBVIOUS
<1>1. CASE UNCHANGED vars
  <2> USE <1>1 DEF vars, connectionVars, daemonVars
  <2>1. TypeOK'
    BY DEF DaemonInv, TypeOK, ClientTypeOK
  <2>2. \A c \in Conn : ConnInv(c)'
    BY DEF DaemonInv, ConnInv, Accepted, Handled, Answered, Arrives, WasParsed, HasReason
  <2>3. CountIsExact'
    BY CountFrame DEF DaemonInv
  <2>4. QED
    BY <2>1, <2>2, <2>3 DEF DaemonInv
<1>2. CASE (Running /\ (Listen \/ ListenFails)) \/ ListenerEnds
  BY <1>2, ListenStep, DeleteListenerStep DEF ListenerEnds
<1>3. ASSUME NEW c \in Conn, ClientConnects(c) \/ ClientReads(c)
      PROVE  DaemonInv'
  BY <1>3, ConnectFailsStep, ConnectStep, ClientReturnsStep
  DEF ClientConnects, ClientReads
<1>4. ASSUME NEW c \in Conn, RequestArrives(c) \/ AnswerArrives(c), UNCHANGED daemonVars
      PROVE  DaemonInv'
  BY <1>4, RequestArrivesStep, AnswerArrivesStep
<1>5. ASSUME NEW c \in Conn, WorkerNext(c) PROVE DaemonInv'
  BY <1>5, ReceiveFirstStep, ReceiveFirstFailsStep, ReceiveBodyStep,
     ReceiveBodyFailsStep, ParseRequestStep, ParseRequestCrashesStep, HandleRequestStep,
     RespondStep DEF WorkerNext
<1>6. ASSUME NEW c \in Conn, ListenerNext(c) \/ Deletes(c) PROVE DaemonInv'
  BY <1>6, TurnAwayStep, AcceptStep, DeleteWorkerStep DEF ListenerNext, Deletes
<1>7. QED
  BY <1>1, <1>2, <1>3, <1>4, <1>5, <1>6 DEF Next

LEMMA DaemonInvariant == Spec => []DaemonInv
BY NoRequestsYet, DaemonNext, PTL DEF Spec

(* For any connections, requests and limits every state is well typed: no  *)
(* worker takes more bytes from its socket than have arrived, nor more     *)
(* than its buffer has room for.                                           *)
THEOREM DaemonTypeCorrect == Spec => []TypeOK
<1>1. DaemonInv => TypeOK
  BY DEF DaemonInv
<1>2. QED
  BY <1>1, DaemonInvariant, PTL

(* instanceCount_ counts the daemon's objects exactly and the limit on     *)
(* clients is kept, for any number of connections and any limit.           *)
THEOREM CountStaysExact == Spec => []CountIsExact
<1>1. DaemonInv => CountIsExact
  BY DEF DaemonInv
<1>2. QED
  BY <1>1, DaemonInvariant, PTL

(* However a request is cut into pieces, and for any buffer size, the      *)
(* handler gets the whole body it was promised.                            *)
THEOREM HandlersSeeWholeBodies == Spec => []HandlerSeesWholeBody
<1>1. DaemonInv => HandlerSeesWholeBody
  <2> SUFFICES ASSUME DaemonInv, NEW c \in Conn,
                      worker[c].pc \in {"handle", "nested", "respond"},
                      request[c].spelling # "lower"
               PROVE  /\ worker[c].body = request[c].declared
                      /\ worker[c].got >= request[c].hdr + request[c].declared
    BY DEF HandlerSeesWholeBody
  <2>1. WasParsed(c)
    BY DEF DaemonInv, ConnInv, Handled
  <2>2. worker[c].got \in 0 .. BufSize /\ request[c] \in Request
    BY WorkingFacts DEF Working, WorkerState
  <2>3. QED
    BY <2>1, <2>2, LengthsParsed DEF WasParsed
<1>2. QED
  BY <1>1, DaemonInvariant, PTL

(* A client is told OK only of a request that was handled whole, and has   *)
(* the whole answer, however answers are cut and clients give up.          *)
THEOREM OkIsHandled == Spec => []OkMeansHandled
<1>1. DaemonInv => OkMeansHandled
  <2> SUFFICES ASSUME DaemonInv, NEW c \in Conn, client[c] = "OK"
               PROVE  /\ worker[c].pc \in {"ended", "deleted"}
                      /\ worker[c].refusal = "none"
                      /\ request[c].spelling # "lower" =>
                           worker[c].body = request[c].declared
                      /\ received[c].body = request[c].answer
    BY DEF OkMeansHandled
  <2>1. ConnInv(c) /\ down[c] \in Answer /\ received[c] \in Answer
    BY DEF DaemonInv, TypeOK, ClientTypeOK
  <2>2. /\ down[c].header /\ down[c].status = "OK"
        /\ down[c].declared <= received[c].body /\ received[c].body <= down[c].body
    BY <2>1 DEF ConnInv, Arrives
  <2>3. /\ worker[c].pc \in {"ended", "deleted"} /\ worker[c].refusal = "none"
        /\ down[c].declared = request[c].answer /\ down[c].body <= down[c].declared
    BY <2>1, <2>2 DEF ConnInv, Answered
  <2>4. WasParsed(c)
    BY <2>1, <2>3 DEF ConnInv, Handled
  <2>5. received[c].body = request[c].answer
    BY <2>1, <2>2, <2>3 DEF Answer
  <2>6. worker[c].got \in 0 .. BufSize /\ request[c] \in Request
    <3>1. worker[c] \in WorkerState
      BY DEF DaemonInv, TypeOK
    <3>2. server[c] # "none"
      BY <2>1, <2>3 DEF ConnInv, Accepted
    <3>3. QED
      BY <2>1, <3>1, <3>2 DEF WorkerState, ConnInv, Accepted
  <2>7. QED
    BY <2>3, <2>4, <2>5, <2>6, LengthsParsed DEF WasParsed
<1>2. QED
  BY <1>1, DaemonInvariant, PTL

(* No request that is complete, fits the buffer, declares a natural length *)
(* and parses is refused, for any size of buffer and header.               *)
THEOREM RefusalsHaveReasons == Spec => []RefusedForAReason
<1>1. DaemonInv => RefusedForAReason
  BY DEF DaemonInv, ConnInv, Handled, HasReason, RefusedForAReason
<1>2. QED
  BY <1>1, DaemonInvariant, PTL

(* No natural Content-Length, however large and however spelled, gets past *)
(* both checks of a request's length, for any buffer and any width of a    *)
(* size_t.                                                                 *)
THEOREM CrashesOnlyByNegativeLengths == Spec => []CrashOnlyByNegativeLength
<1>1. DaemonInv => CrashOnlyByNegativeLength
  BY DEF DaemonInv, ConnInv, Handled, CrashOnlyByNegativeLength
<1>2. QED
  BY <1>1, DaemonInvariant, PTL
=============================================================================
