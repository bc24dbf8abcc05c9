--------------------------- MODULE P2PNodesProofs ---------------------------
(***************************************************************************)
(* Proofs about the light and the switch, for every bound on faults and    *)
(* subscriptions and every timeout.                                        *)
(***************************************************************************)
EXTENDS P2PNodes, TLAPS

(* The inductive invariant, besides the types.                             *)

(* Who runs has a handler; who is constructing still has subscribers to    *)
(* tell, and a crash leaves that as it was.                                *)
HandlerInv ==
    \A n \in Node :
      /\ phase[n] \in {"running", "recovering"} => handler[n]
      /\ phase[n] \in {"constructing", "crashed"} =>
           subs[n] > 0 /\ pending[n]["main"].left > 0

(* Of an exchange of n: success means stored, and only subscriptions are   *)
(* verified.  While the light is told all it has to be told, whatever is   *)
(* said to it is the state of the switch, and it has that state as soon as *)
(* something was answered.                                                 *)
Fine(n, e) ==
    /\ e.kind = "subscribe" /\ e.at = "answered" /\ e.ok => subs[Peer(n)] > 0
    /\ e.kind = "notify" => e.at \notin {"verifying", "agreed"}
    /\ inStep /\ n = Switch /\ e.kind = "notify" =>
         /\ e.on = state[Switch]
         /\ e.at = "answered" /\ e.ok => state[Light] = state[Switch]

ExchangesFine == \A n \in Node : \A w \in Place : Fine(n, exchange[n][w])

SaysState ==
    inStep =>
      /\ \A who \in Thread :
           pending[Switch][who].left > 0 => pending[Switch][who].on = state[Switch]
      /\ Quiet(Switch) => state[Light] = state[Switch]

PeersInv ==
    /\ TypeOK
    /\ SubscribedMeansStored
    /\ HandlerInv
    /\ ExchangesFine
    /\ SaysState

-----------------------------------------------------------------------------
(* The names of places and of the two nodes.                               *)
LEMMA Names ==
  /\ Thread \subseteq Place /\ "late" \in Place /\ "late" \notin Thread
  /\ "main" \in Thread /\ "example" \in Thread
  /\ NoExchange \in Exchange
  /\ \A n \in Node : Peer(n) \in Node /\ Peer(n) # n /\ Peer(Peer(n)) = n
  /\ Light \in Node /\ Switch \in Node /\ Light # Switch
BY PeersAssumption DEF Thread, Place, NoExchange, Exchange, Peer

(* Nothing is promised of no exchange.                                     *)
LEMMA NothingIsFine ==
  \A n \in Node : Fine(n, NoExchange) /\ Fine(n, NoExchange)'
BY DEF Fine, NoExchange

-----------------------------------------------------------------------------
(* The initial state.                                                      *)

LEMMA InitInv == Init => PeersInv
<1> SUFFICES ASSUME Init PROVE PeersInv
  OBVIOUS
<1> USE StartupAssumption, PeersAssumption DEF Init, StartupInit
<1>1. TypeOK
  <2>1. StartupTypeOK
    BY DEF StartupTypeOK, Phase
  <2>2. NoExchanges \in [Place -> Exchange]
    BY DEF NoExchanges, NoExchange, Exchange
  <2>3. \A n \in Node : 0 \in 0 .. MaxSubs[n]
    OBVIOUS
  <2>4. \A n \in Node : pending[n] \in [Thread -> [left : 0 .. MaxSubs[n], on : BOOLEAN]]
    BY <2>3 DEF Nothing
  <2>5. QED
    BY <2>1, <2>2, <2>3, <2>4 DEF TypeOK
<1>2. \A n \in Node : \A w \in Place : exchange[n][w] = NoExchange
  BY DEF NoExchanges
<1>3. SubscribedMeansStored
  BY DEF SubscribedMeansStored
<1>4. HandlerInv
  BY DEF HandlerInv
<1>5. ExchangesFine
  BY <1>2, NothingIsFine DEF ExchangesFine
<1>6. SaysState
  BY DEF SaysState
<1>7. QED
  BY <1>1, <1>3, <1>4, <1>5, <1>6 DEF PeersInv

-----------------------------------------------------------------------------
(* Steps of the kernel, which leave everything of the examples alone.      *)

(* What a step that leaves the examples alone has still to show.           *)
LEMMA KernelFrame ==
  ASSUME PeersInv, UNCHANGED <<nodeVars, exchange>>, StartupTypeOK',
         HandlerInv'
  PROVE  PeersInv'
BY DEF PeersInv, TypeOK, SubscribedMeansStored, ExchangesFine, Fine, SaysState,
       Quiet, nodeVars

(* The steps of the kernel keep the phases and counters well typed.        *)
LEMMA KernelTypes ==
  ASSUME StartupTypeOK, NEW n \in Node, Kernel(n)
  PROVE  StartupTypeOK'
<1> USE StartupAssumption DEF StartupTypeOK, Phase, Fault
<1>1. CASE LinkUp(n) \/ LinkDown(n)
  <2>1. link' \in [Node -> BOOLEAN]
    BY <1>1 DEF LinkUp, LinkDown
  <2>2. faults' \in 0 .. MaxFaults
    BY <1>1 DEF LinkUp, LinkDown
  <2>3. UNCHANGED <<phase, waited, reboot>>
    BY <1>1 DEF LinkUp, LinkDown
  <2>4. QED
    BY <2>1, <2>2, <2>3
<1>8. CASE RequestShutdown(n)
  BY <1>8 DEF RequestShutdown
<1>2. CASE PowerOn(n) \/ InitializeFails(n)
  BY <1>2 DEF PowerOn, InitializeFails
<1>3. CASE WaitUntilReady(n)
  BY <1>3 DEF WaitUntilReady
<1>4. CASE NetworkUnavailable(n) \/ NoticeLoss(n)
  BY <1>4 DEF NetworkUnavailable, NoticeLoss
<1>5. CASE Restart(n)
  BY <1>5 DEF Restart
<1>6. CASE Recovered(n)
  BY <1>6 DEF Recovered
<1>7. QED
  BY <1>1, <1>2, <1>3, <1>4, <1>5, <1>6, <1>8 DEF Kernel

(* A node recovers with the handler it ran with.                           *)
LEMMA KernelHandler ==
  ASSUME StartupTypeOK, HandlerInv, NEW n \in Node, Kernel(n)
  PROVE  HandlerInv'
<1> USE DEF StartupTypeOK, HandlerInv, Kernel, nodeVars
<1>1. CASE LinkUp(n) \/ LinkDown(n) \/ RequestShutdown(n)
  BY <1>1 DEF LinkUp, LinkDown, RequestShutdown
<1>2. CASE PowerOn(n) \/ InitializeFails(n)
  BY <1>2 DEF PowerOn, InitializeFails
<1>3. CASE WaitUntilReady(n) \/ NetworkUnavailable(n)
  BY <1>3 DEF WaitUntilReady, NetworkUnavailable
<1>4. CASE NoticeLoss(n) \/ Restart(n) \/ Recovered(n)
  BY <1>4 DEF NoticeLoss, Restart, Recovered
<1>5. QED
  BY <1>1, <1>2, <1>3, <1>4

LEMMA KernelStep ==
  ASSUME PeersInv, NEW n \in Node, Kernel(n)
  PROVE  PeersInv'
BY KernelTypes, KernelHandler, KernelFrame DEF PeersInv, TypeOK, Kernel

-----------------------------------------------------------------------------
(* Steps that touch exchanges.                                             *)

(* A step that changes one exchange.                                       *)
LEMMA PutExchange ==
  ASSUME exchange \in [Node -> [Place -> Exchange]],
         NEW n \in Node, NEW w \in Place, NEW e \in Exchange,
         exchange' = [exchange EXCEPT ![n][w] = e]
  PROVE  /\ exchange' \in [Node -> [Place -> Exchange]]
         /\ exchange'[n][w] = e
         /\ \A m \in Node : \A v \in Place :
              m # n \/ v # w => exchange'[m][v] = exchange[m][v]
OBVIOUS

(* A client that gives up leaves nothing behind but a late request.        *)
LEMMA GivesUpExchange ==
  ASSUME exchange \in [Node -> [Place -> Exchange]],
         NEW n \in Node, NEW who \in Thread, NEW kind, GivesUp(n, who, kind)
  PROVE  /\ exchange' \in [Node -> [Place -> Exchange]]
         /\ \A m \in Node : \A v \in Place :
              \/ exchange'[m][v] = NoExchange
              \/ \E u \in Place : exchange'[m][v] = exchange[m][u]
<1> USE Names
<1>1. PICK late \in {exchange[n]["late"]}
                    \cup {e \in {exchange[n][who]} : InService(e)} :
        exchange' = [exchange EXCEPT ![n] = [@ EXCEPT ![who] = NoExchange,
                                                      !["late"] = late]]
  BY DEF GivesUp
<1>2. exchange[n] \in [Place -> Exchange]
  OBVIOUS
<1>3. late \in Exchange /\ \E u \in Place : late = exchange[n][u]
  BY <1>1, <1>2
<1> DEFINE entry == [exchange[n] EXCEPT ![who] = NoExchange, !["late"] = late]
<1>4. /\ entry \in [Place -> Exchange]
      /\ \A v \in Place : entry[v] = IF v = "late" THEN late
                                    ELSE IF v = who THEN NoExchange ELSE exchange[n][v]
  BY <1>2, <1>3
<1> HIDE DEF entry
<1>5. exchange' = [exchange EXCEPT ![n] = entry]
  BY <1>1 DEF entry
<1>6. exchange' \in [Node -> [Place -> Exchange]]
  BY <1>4, <1>5
<1>7. \A m \in Node : \A v \in Place :
        exchange'[m][v] = IF m = n THEN entry[v] ELSE exchange[m][v]
  BY <1>5
<1>8. QED
  BY <1>3, <1>4, <1>6, <1>7

(* The end of a node's tasks leaves an exchange as it was, drops it or     *)
(* loses it.                                                               *)
LEMMA DroppedExchange ==
  ASSUME exchange \in [Node -> [Place -> Exchange]], NEW n \in Node
  PROVE  /\ Dropped(n) \in [Node -> [Place -> Exchange]]
         /\ \A m \in Node : \A v \in Place :
              \/ Dropped(n)[m][v] \in {NoExchange, exchange[m][v]}
              \/ Dropped(n)[m][v] = [exchange[m][v] EXCEPT !.at = "lost"]
<1> USE Names
<1> DEFINE own == [NoExchanges EXCEPT
                     !["late"] = IF exchange[n]["late"].at = "verifying" THEN NoExchange
                                 ELSE exchange[n]["late"]]
           others(m) == [w \in Place |->
                           LET e == exchange[m][w]
                           IN  IF ~ InService(e) THEN e
                               ELSE IF w = "late" THEN NoExchange
                               ELSE [e EXCEPT !.at = "lost"]]
<1>1. \A m \in Node : \A w \in Place :
        exchange[m][w] \in Exchange /\ [exchange[m][w] EXCEPT !.at = "lost"] \in Exchange
  <2>1. \A e \in Exchange : [e EXCEPT !.at = "lost"] \in Exchange
    BY DEF Exchange
  <2>2. QED
    BY <2>1
<1>2. /\ own \in [Place -> Exchange]
      /\ \A v \in Place : own[v] \in {NoExchange, exchange[n][v]}
  BY <1>1 DEF NoExchanges
<1>3. \A m \in Node :
        /\ others(m) \in [Place -> Exchange]
        /\ \A v \in Place :
             \/ others(m)[v] \in {NoExchange, exchange[m][v]}
             \/ others(m)[v] = [exchange[m][v] EXCEPT !.at = "lost"]
  BY <1>1
<1>4. Dropped(n) = [m \in Node |-> IF m = n THEN own ELSE others(m)]
  BY DEF Dropped
<1> HIDE DEF own, others
<1>5. QED
  BY <1>2, <1>3, <1>4

-----------------------------------------------------------------------------
(* The end of a node's tasks, by a stop or by a missing handler.           *)

(* Fine exchanges stay fine when tasks end.                                *)
LEMMA DroppedIsFine ==
  ASSUME TypeOK, ExchangesFine, NEW n \in Node, exchange' = Dropped(n),
         UNCHANGED subs, inStep' = FALSE
  PROVE  exchange' \in [Node -> [Place -> Exchange]] /\ ExchangesFine'
<1>1. exchange \in [Node -> [Place -> Exchange]]
  BY DEF TypeOK
<1>2. exchange' \in [Node -> [Place -> Exchange]]
  BY <1>1, DroppedExchange
<1>3. ASSUME NEW m \in Node, NEW v \in Place PROVE Fine(m, exchange[m][v])
  BY DEF ExchangesFine
<1>4. ASSUME NEW m \in Node, NEW v \in Place PROVE Fine(m, exchange[m][v])'
  <2>1. CASE exchange'[m][v] = NoExchange
    BY <2>1 DEF Fine, NoExchange
  <2>2. CASE exchange'[m][v] = exchange[m][v]
    BY <2>2, <1>3 DEF Fine
  <2>3. CASE exchange'[m][v] = [exchange[m][v] EXCEPT !.at = "lost"]
    <3>1. exchange[m][v] \in Exchange
      BY <1>1
    <3>2. exchange'[m][v].at = "lost"
      BY <2>3, <3>1 DEF Exchange
    <3>3. QED
      BY <3>2 DEF Fine
  <2>4. QED
    BY <1>1, <2>1, <2>2, <2>3, DroppedExchange
<1>5. QED
  BY <1>2, <1>4 DEF ExchangesFine

LEMMA StopStep ==
  ASSUME PeersInv, NEW n \in Node, Stop(n)
  PROVE  PeersInv'
<1> USE StartupAssumption, PeersAssumption DEF PeersInv, Stop, Stopped
<1>1. StartupTypeOK' /\ phase'[n] \in {"off", "halted"}
                     /\ \A m \in Node : m # n => phase'[m] = phase[m]
  <2> USE DEF TypeOK, StartupTypeOK, Phase
  <2>1. CASE Reboot(n)
    BY <2>1 DEF Reboot, GoesOff
  <2>2. CASE PowerLoss(n)
    BY <2>2 DEF PowerLoss, GoesOff, Fault
  <2>3. CASE Unrecoverable(n)
    BY <2>3 DEF Unrecoverable
  <2>4. QED
    BY <2>1, <2>2, <2>3
<1>2. exchange' \in [Node -> [Place -> Exchange]] /\ ExchangesFine'
  BY DroppedIsFine
<1>3. TypeOK'
  <2>1. Nothing \in [Thread -> [left : 0 .. MaxSubs[n], on : BOOLEAN]]
    BY DEF Nothing
  <2>2. \A m \in Node :
          pending'[m] \in [Thread -> [left : 0 .. MaxSubs[m], on : BOOLEAN]]
    BY <2>1 DEF TypeOK
  <2>3. QED
    BY <1>1, <1>2, <2>2 DEF TypeOK
<1>4. SubscribedMeansStored'
  BY DEF SubscribedMeansStored, TypeOK
<1>5. HandlerInv'
  BY <1>1 DEF HandlerInv, TypeOK
<1>6. SaysState'
  BY DEF SaysState
<1>7. QED
  BY <1>2, <1>3, <1>4, <1>5, <1>6

(* A node without a handler that is asked something is being constructed.  *)
LEMMA NoHandlerStep ==
  ASSUME PeersInv, NEW n \in Node, NoHandler(n)
  PROVE  PeersInv'
<1> USE StartupAssumption, PeersAssumption DEF PeersInv, NoHandler
<1>1. HasTasks(n)
  BY Names DEF Arrived, Asked
<1>2. phase[n] = "constructing"
  BY <1>1 DEF HasTasks, HandlerInv
<1>3. exchange' \in [Node -> [Place -> Exchange]] /\ ExchangesFine'
  BY DroppedIsFine
<1>4. StartupTypeOK'
  BY DEF TypeOK, StartupTypeOK, Phase
<1>5. TypeOK'
  BY <1>3, <1>4 DEF TypeOK
<1>6. SubscribedMeansStored'
  BY DEF SubscribedMeansStored, TypeOK
<1>7. HandlerInv'
  BY <1>2 DEF HandlerInv, TypeOK, StartupTypeOK
<1>8. SaysState'
  BY DEF SaysState
<1>9. QED
  BY <1>3, <1>5, <1>6, <1>7, <1>8

-----------------------------------------------------------------------------
(* The start of a node.                                                    *)

LEMMA StartServicesFailsStep ==
  ASSUME PeersInv, NEW n \in Node, StartServicesFails(n)
  PROVE  PeersInv'
<1> USE StartupAssumption DEF PeersInv, StartServicesFails, Started
<1>1. StartupTypeOK'
  BY DEF TypeOK, StartupTypeOK, Phase
<1>2. HandlerInv'
  BY DEF HandlerInv, TypeOK, StartupTypeOK, nodeVars
<1>3. QED
  BY <1>1, <1>2, KernelFrame

(* Who publishes when nothing is on its way says nothing but its state.    *)
LEMMA PublishesFacts ==
  ASSUME TypeOK, ExchangesFine, NEW n \in Node, NEW who \in Thread,
         NEW on \in BOOLEAN, NEW created \in BOOLEAN,
         Publishes(n, who, on, created), UNCHANGED <<subs, exchange>>
  PROVE  /\ state' \in [Node -> BOOLEAN] /\ inStep' \in BOOLEAN
         /\ DOMAIN pending' = Node
         /\ \A m \in Node :
              pending'[m] \in [Thread -> [left : 0 .. MaxSubs[m], on : BOOLEAN]]
         /\ pending'[n][who].left = IF created THEN subs[n] ELSE 0
         /\ \A m \in Node : \A t \in Thread :
              m # n \/ t # who => pending'[m][t] = pending[m][t]
         /\ ExchangesFine' /\ SaysState'
<1> USE PeersAssumption DEF Publishes
<1> DEFINE told == [left |-> IF created THEN subs[n] ELSE 0, on |-> on]
<1>1. /\ told \in [left : 0 .. MaxSubs[n], on : BOOLEAN]
      /\ pending' = [pending EXCEPT ![n][who] = told]
      /\ told.left = IF created THEN subs[n] ELSE 0
      /\ told.on = on
  BY DEF TypeOK
<1> HIDE DEF told
<1>2. /\ \A m \in Node : pending'[m] \in [Thread -> [left : 0 .. MaxSubs[m], on : BOOLEAN]]
      /\ DOMAIN pending' = Node
      /\ pending'[n][who] = told
      /\ \A m \in Node : \A t \in Thread :
           m # n \/ t # who => pending'[m][t] = pending[m][t]
  BY <1>1, Names DEF TypeOK
<1>3. state' \in [Node -> BOOLEAN] /\ inStep' \in BOOLEAN
  BY DEF TypeOK
<1>4. ASSUME inStep'
      PROVE  /\ n = Switch /\ created /\ subs[n] > 0 /\ Quiet(n) /\ NoneLate
             /\ state'[Switch] = on
  BY <1>4 DEF TypeOK
<1>5. ExchangesFine'
  BY <1>4 DEF ExchangesFine, Fine, NoneLate
<1>6. SaysState'
  <2>1. SUFFICES ASSUME inStep' PROVE SaysState'
    BY DEF SaysState
  <2>2. n = Switch /\ created /\ subs[n] > 0 /\ Quiet(n) /\ state'[Switch] = on
    BY <1>4, <2>1
  <2>3. told.on = state'[Switch]
    BY <1>1, <2>2
  <2>4. \A t \in Thread : t # who => pending'[Switch][t].left = 0
    BY <1>2, <2>2 DEF Quiet
  <2>5. ~ Quiet(Switch)'
    BY <1>1, <1>2, <2>2, Names DEF TypeOK, Quiet
  <2>6. ASSUME NEW t \in Thread, pending'[Switch][t].left > 0
        PROVE  pending'[Switch][t] = told
    BY <1>2, <2>2, <2>4, <2>6
  <2>7. \A t \in Thread :
          pending'[Switch][t].left > 0 => pending'[Switch][t].on = state'[Switch]
    BY <2>3, <2>6
  <2>8. QED
    BY <2>5, <2>7 DEF SaysState
<1>7. QED
  BY <1>1, <1>2, <1>3, <1>5, <1>6

(* The example publishes its initial state, to those who subscribed        *)
(* earlier.                                                                *)
LEMMA StartServicesStep ==
  ASSUME PeersInv, NEW n \in Node, StartServices(n)
  PROVE  PeersInv'
<1> USE StartupAssumption, PeersAssumption DEF PeersInv, StartServices, Started
<1>1. StartupTypeOK'
  BY DEF TypeOK, StartupTypeOK, Phase
<1>2. /\ state' \in [Node -> BOOLEAN] /\ inStep' \in BOOLEAN
      /\ DOMAIN pending' = Node
      /\ \A m \in Node :
           pending'[m] \in [Thread -> [left : 0 .. MaxSubs[m], on : BOOLEAN]]
      /\ pending'[n]["main"].left = subs[n]
      /\ \A m \in Node : \A t \in Thread :
           m # n \/ t # "main" => pending'[m][t] = pending[m][t]
      /\ ExchangesFine' /\ SaysState'
  <2>1. /\ "main" \in Thread /\ FALSE \in BOOLEAN /\ TRUE \in BOOLEAN
        /\ Publishes(n, "main", FALSE, TRUE) /\ UNCHANGED <<subs, exchange>>
        /\ TypeOK /\ ExchangesFine
    BY Names
  <2>2. QED
    BY ONLY <2>1, PublishesFacts, Zenon
<1>3. TypeOK'
  BY <1>1, <1>2 DEF TypeOK
<1>4. SubscribedMeansStored'
  BY DEF SubscribedMeansStored, TypeOK
<1>5. HandlerInv'
  BY <1>2, Names DEF HandlerInv, TypeOK, StartupTypeOK
<1>6. QED
  BY <1>2, <1>3, <1>4, <1>5

-----------------------------------------------------------------------------
(* The examples.                                                           *)

(* What a step needs that changes one exchange.                            *)
LEMMA PutIsFine ==
  ASSUME TypeOK, ExchangesFine,
         \A m \in Node : \A d \in Exchange : Fine(m, d) => Fine(m, d)',
         NEW n \in Node, NEW w \in Place, NEW e \in Exchange, Fine(n, e)',
         exchange' = [exchange EXCEPT ![n][w] = e]
  PROVE  exchange' \in [Node -> [Place -> Exchange]] /\ ExchangesFine'
<1>1. exchange \in [Node -> [Place -> Exchange]]
  BY DEF TypeOK
<1>2. /\ exchange' \in [Node -> [Place -> Exchange]]
      /\ exchange'[n][w] = e
      /\ \A m \in Node : \A v \in Place :
           m # n \/ v # w => exchange'[m][v] = exchange[m][v]
  BY <1>1, PutExchange
<1>3. ASSUME NEW m \in Node, NEW v \in Place PROVE Fine(m, exchange[m][v])'
  <2>1. CASE m = n /\ v = w
    BY <1>2, <2>1 DEF Fine
  <2>2. CASE m # n \/ v # w
    <3>1. exchange[m][v] \in Exchange /\ Fine(m, exchange[m][v])
      BY <1>1 DEF ExchangesFine
    <3>2. exchange'[m][v] = exchange[m][v]
      BY <1>2, <2>2
    <3>3. QED
      BY <3>1, <3>2 DEF Fine
  <2>3. QED
    BY <2>1, <2>2
<1>4. QED
  BY <1>2, <1>3 DEF ExchangesFine

(* What a step needs that gives up waiting.                                *)
LEMMA GivesUpIsFine ==
  ASSUME TypeOK, ExchangesFine,
         \A m \in Node : \A d \in Exchange : Fine(m, d) => Fine(m, d)',
         NEW n \in Node, NEW who \in Thread, NEW kind, GivesUp(n, who, kind)
  PROVE  exchange' \in [Node -> [Place -> Exchange]] /\ ExchangesFine'
<1>1. exchange \in [Node -> [Place -> Exchange]]
  BY DEF TypeOK
<1>2. /\ exchange' \in [Node -> [Place -> Exchange]]
      /\ \A m \in Node : \A v \in Place :
           \/ exchange'[m][v] = NoExchange
           \/ \E u \in Place : exchange'[m][v] = exchange[m][u]
  BY <1>1, GivesUpExchange
<1>3. ASSUME NEW m \in Node, NEW v \in Place PROVE Fine(m, exchange[m][v])'
  <2>1. CASE exchange'[m][v] = NoExchange
    BY <2>1 DEF Fine, NoExchange
  <2>2. ASSUME NEW u \in Place, exchange'[m][v] = exchange[m][u]
        PROVE  Fine(m, exchange[m][v])'
    <3>1. exchange[m][u] \in Exchange /\ Fine(m, exchange[m][u])
      BY <1>1 DEF ExchangesFine
    <3>2. QED
      BY <2>2, <3>1 DEF Fine
  <2>3. QED
    BY <1>2, <2>1, <2>2
<1>4. QED
  BY <1>2, <1>3 DEF ExchangesFine

(* Nothing that Fine speaks of changes.                                    *)
LEMMA FineStays ==
  ASSUME UNCHANGED <<subs, state, inStep>>
  PROVE  \A m \in Node : \A d \in Exchange : Fine(m, d) => Fine(m, d)'
BY DEF Fine

(* What a step needs of the subscribing task.                              *)
LEMMA TaskFrame ==
  ASSUME PeersInv, NEW n \in Node, NEW from, NEW to, Goes(n, from, to),
         to \in {"none", "subscribing", "awaiting", "subscribed"},
         to = "subscribed" => subs[Peer(n)] > 0,
         exchange' \in [Node -> [Place -> Exchange]], ExchangesFine'
  PROVE  PeersInv'
<1> USE DEF PeersInv, Goes
<1>1. TypeOK'
  BY DEF TypeOK, StartupTypeOK, startupVars
<1>2. SubscribedMeansStored'
  BY DEF SubscribedMeansStored, TypeOK
<1>3. HandlerInv'
  BY DEF HandlerInv, startupVars
<1>4. SaysState'
  BY DEF SaysState, Quiet
<1>5. QED
  BY <1>1, <1>2, <1>3, <1>4

LEMMA SendSubscriptionStep ==
  ASSUME PeersInv, NEW n \in Node, SendSubscription(n)
  PROVE  PeersInv'
<1> DEFINE e == [kind |-> "subscribe", at |-> "flying", ok |-> FALSE, on |-> FALSE]
<1>1. e \in Exchange /\ exchange' = [exchange EXCEPT ![n]["example"] = e]
  BY DEF SendSubscription, Sends, Exchange
<1>2. Fine(n, e)'
  BY DEF Fine
<1>3. \A m \in Node : \A d \in Exchange : Fine(m, d) => Fine(m, d)'
  BY FineStays DEF SendSubscription, Goes
<1> HIDE DEF e
<1>4. exchange' \in [Node -> [Place -> Exchange]] /\ ExchangesFine'
  BY <1>1, <1>2, <1>3, PutIsFine, Names DEF PeersInv
<1>5. QED
  BY <1>4, TaskFrame DEF SendSubscription

(* Success is believed only when the subscription is stored.               *)
LEMMA SubscriptionAnsweredStep ==
  ASSUME PeersInv, NEW n \in Node, SubscriptionAnswered(n)
  PROVE  PeersInv'
<1>1. exchange' = [exchange EXCEPT ![n]["example"] = NoExchange]
  BY DEF SubscriptionAnswered, IsAnswered
<1>2. Fine(n, NoExchange)'
  BY NothingIsFine
<1>3. \A m \in Node : \A d \in Exchange : Fine(m, d) => Fine(m, d)'
  BY FineStays DEF SubscriptionAnswered, Goes
<1>4. exchange' \in [Node -> [Place -> Exchange]] /\ ExchangesFine'
  BY <1>1, <1>2, <1>3, PutIsFine, Names DEF PeersInv
<1>5. exchange[n]["example"].ok => subs[Peer(n)] > 0
  BY Names DEF PeersInv, ExchangesFine, Fine, SubscriptionAnswered, IsAnswered
<1>6. CASE exchange[n]["example"].ok
  BY <1>4, <1>5, <1>6, TaskFrame DEF SubscriptionAnswered
<1>7. CASE ~ exchange[n]["example"].ok
  BY <1>4, <1>7, TaskFrame DEF SubscriptionAnswered
<1>8. QED
  BY <1>6, <1>7

LEMMA SubscriptionTimesOutStep ==
  ASSUME PeersInv, NEW n \in Node, SubscriptionTimesOut(n)
  PROVE  PeersInv'
<1>1. \A m \in Node : \A d \in Exchange : Fine(m, d) => Fine(m, d)'
  BY FineStays DEF SubscriptionTimesOut, Goes
<1>2. exchange' \in [Node -> [Place -> Exchange]] /\ ExchangesFine'
  BY <1>1, GivesUpIsFine, Names DEF PeersInv, SubscriptionTimesOut
<1>3. QED
  BY <1>2, TaskFrame DEF SubscriptionTimesOut

LEMMA ToggleStep ==
  ASSUME PeersInv, NEW n \in Node, Toggle(n)
  PROVE  PeersInv'
<1> USE PeersAssumption DEF PeersInv, Toggle
<1>1. PICK created \in BOOLEAN : Publishes(n, "example", ~ state[n], created)
  OBVIOUS
<1>2. (~ state[n]) \in BOOLEAN
  OBVIOUS
<1>3. /\ state' \in [Node -> BOOLEAN] /\ inStep' \in BOOLEAN
      /\ DOMAIN pending' = Node
      /\ \A m \in Node :
           pending'[m] \in [Thread -> [left : 0 .. MaxSubs[m], on : BOOLEAN]]
      /\ \A m \in Node : \A t \in Thread :
           m # n \/ t # "example" => pending'[m][t] = pending[m][t]
      /\ ExchangesFine' /\ SaysState'
  <2>1. "example" \in Thread /\ TypeOK /\ ExchangesFine /\ UNCHANGED <<subs, exchange>>
    BY Names
  <2>2. QED
    BY ONLY <1>1, <1>2, <2>1, PublishesFacts, Zenon
<1>4. TypeOK'
  BY <1>3 DEF TypeOK, StartupTypeOK, startupVars
<1>5. SubscribedMeansStored'
  BY DEF SubscribedMeansStored
<1>6. HandlerInv'
  BY <1>3, Names DEF HandlerInv, startupVars
<1>7. QED
  BY <1>3, <1>4, <1>5, <1>6

-----------------------------------------------------------------------------
(* Notifying.                                                              *)

LEMMA StartNotifyingStep ==
  ASSUME PeersInv, NEW n \in Node, NEW who \in Thread, StartNotifying(n, who)
  PROVE  PeersInv'
<1> USE DEF PeersInv
<1>1. pending[n][who].on \in BOOLEAN
  BY DEF TypeOK
<1>2. PICK e \in Exchange : e = [kind |-> "notify", at |-> "flying", ok |-> FALSE,
                               on |-> pending[n][who].on]
  BY <1>1 DEF Exchange
<1>3. exchange' = [exchange EXCEPT ![n][who] = e]
  BY <1>2 DEF StartNotifying, Sends
<1>4. Fine(n, e)'
  BY <1>2 DEF Fine, SaysState, StartNotifying, nodeVars
<1>5. \A m \in Node : \A d \in Exchange : Fine(m, d) => Fine(m, d)'
  BY FineStays DEF StartNotifying, nodeVars
<1>6. exchange' \in [Node -> [Place -> Exchange]] /\ ExchangesFine'
  BY <1>3, <1>4, <1>5, PutIsFine, Names
<1>7. UNCHANGED <<startupVars, nodeVars>>
  BY DEF StartNotifying
<1>8. TypeOK'
  BY <1>6, <1>7 DEF TypeOK, StartupTypeOK, startupVars, nodeVars
<1>9. QED
  BY <1>6, <1>7, <1>8 DEF SubscribedMeansStored, HandlerInv, SaysState, Quiet,
     startupVars, nodeVars

(* What a step needs with which a notification is over.                    *)
LEMMA OverFrame ==
  ASSUME PeersInv, NEW n \in Node, NEW who \in Thread, NEW ok \in BOOLEAN,
         HasTasks(n), NotificationIsOver(n, who, ok),
         inStep /\ n = Switch /\ ok => state[Light] = state[Switch],
         exchange' \in [Node -> [Place -> Exchange]], ExchangesFine'
  PROVE  PeersInv'
<1> USE PeersAssumption DEF PeersInv, NotificationIsOver
<1> DEFINE p == [pending[n][who] EXCEPT !.left = @ - 1]
<1>1. pending[n][who] \in [left : 0 .. MaxSubs[n], on : BOOLEAN]
  BY DEF TypeOK
<1>2. /\ p \in [left : 0 .. MaxSubs[n], on : BOOLEAN]
      /\ p.left = pending[n][who].left - 1
      /\ p.on = pending[n][who].on
  BY <1>1
<1>3. pending' = [pending EXCEPT ![n][who] = p]
  BY <1>1
<1> HIDE DEF p
<1>4. /\ \A m \in Node : pending'[m] \in [Thread -> [left : 0 .. MaxSubs[m], on : BOOLEAN]]
      /\ DOMAIN pending' = Node
      /\ pending'[n][who] = p
      /\ \A m \in Node : \A t \in Thread :
           m # n \/ t # who => pending'[m][t] = pending[m][t]
  BY <1>2, <1>3 DEF TypeOK
<1>5. /\ phase' \in [Node -> Phase] /\ handler' \in [Node -> BOOLEAN]
      /\ \A m \in Node : m # n => phase'[m] = phase[m] /\ handler'[m] = handler[m]
      /\ \/ phase'[n] = "running" /\ handler'[n]
         \/ /\ phase'[n] = phase[n] /\ handler'[n] = handler[n]
            /\ ~ (who = "main" /\ pending[n][who].left = 1)
  BY DEF ConstructorGoesOn, TypeOK, StartupTypeOK, Phase
<1>6. inStep' \in BOOLEAN /\ (inStep' => inStep /\ (n = Switch => ok))
  BY DEF TypeOK
<1>7. TypeOK'
  BY <1>4, <1>5, <1>6 DEF TypeOK, StartupTypeOK
<1>8. SubscribedMeansStored'
  BY DEF SubscribedMeansStored
<1>9. HandlerInv'
  <2>1. ASSUME NEW m \in Node, m # n
        PROVE  /\ phase'[m] \in {"running", "recovering"} => handler'[m]
               /\ phase'[m] \in {"constructing", "crashed"} =>
                    subs'[m] > 0 /\ pending'[m]["main"].left > 0
    BY <1>4, <1>5, <2>1, Names DEF HandlerInv
  <2>2. CASE phase'[n] = "running" /\ handler'[n]
    BY <2>1, <2>2 DEF HandlerInv
  <2>3. CASE /\ phase'[n] = phase[n] /\ handler'[n] = handler[n]
             /\ ~ (who = "main" /\ pending[n][who].left = 1)
    <3>1. phase[n] \in {"running", "recovering"} => handler'[n]
      BY <2>3 DEF HandlerInv
    <3>2. phase[n] # "crashed"
      BY DEF HasTasks
    <3>3. CASE phase[n] = "constructing"
      <4>1. subs[n] > 0 /\ pending[n]["main"].left > 0
        BY <3>3 DEF HandlerInv
      <4>2. pending[n]["main"].left \in Nat
        BY Names DEF TypeOK
      <4>3. pending'[n]["main"].left > 0
        BY <1>2, <1>4, <2>3, <4>1, <4>2, Names
      <4>4. QED
        BY <2>1, <2>3, <3>3, <4>1, <4>3 DEF HandlerInv
    <3>4. CASE phase[n] # "constructing"
      BY <2>1, <2>3, <3>1, <3>2, <3>4 DEF HandlerInv
    <3>5. QED
      BY <3>3, <3>4
  <2>4. QED
    BY <1>5, <2>2, <2>3
<1>10. SaysState'
  <2>1. SUFFICES ASSUME inStep' PROVE SaysState'
    BY DEF SaysState
  <2>2. inStep /\ (n = Switch => ok)
    BY <1>6, <2>1
  <2>3. \A t \in Thread :
          pending'[Switch][t].left > 0 => pending'[Switch][t].on = state[Switch]
    <3>1. ASSUME NEW t \in Thread, pending'[Switch][t].left > 0
          PROVE  /\ pending[Switch][t].left > 0
                 /\ pending'[Switch][t].on = pending[Switch][t].on
      <4>1. pending[Switch][t].left \in Nat /\ pending[n][who].left \in Nat
        BY Names DEF TypeOK
      <4>2. QED
        BY <1>2, <1>4, <3>1, <4>1, Names
    <3>2. QED
      BY <2>2, <3>1 DEF SaysState
  <2>4. Quiet(Switch)' => state[Light] = state[Switch]
    BY <1>4, <2>2, Names DEF SaysState, Quiet
  <2>5. QED
    BY <2>3, <2>4 DEF SaysState
<1>11. QED
  BY <1>7, <1>8, <1>9, <1>10

(* Exchanges stay fine when one notification of n is over.                 *)
LEMMA FineWhenOver ==
  ASSUME UNCHANGED <<subs, state>>, inStep' => inStep
  PROVE  \A m \in Node : \A d \in Exchange : Fine(m, d) => Fine(m, d)'
BY DEF Fine

LEMMA NotifierStep ==
  ASSUME PeersInv, NEW n \in Node, NEW who \in Thread, Notifier(n, who)
  PROVE  PeersInv'
<1> HasTasks(n)
  BY DEF Notifier
<1>1. CASE StartNotifying(n, who)
  BY <1>1, StartNotifyingStep
<1>2. CASE NotifyingFails(n, who)
  <2>1. \A m \in Node : \A d \in Exchange : Fine(m, d) => Fine(m, d)'
    BY <1>2, FineWhenOver DEF NotifyingFails, NotificationIsOver
  <2>2. exchange' \in [Node -> [Place -> Exchange]] /\ ExchangesFine'
    <3>1. \A m \in Node : \A v \in Place :
            exchange[m][v] \in Exchange /\ Fine(m, exchange[m][v])
      BY DEF PeersInv, TypeOK, ExchangesFine
    <3>2. exchange' = exchange
      BY <1>2 DEF NotifyingFails
    <3>3. QED
      BY <2>1, <3>1, <3>2 DEF PeersInv, TypeOK, ExchangesFine, Fine
  <2>3. QED
    BY <1>2, <2>2, OverFrame DEF NotifyingFails
<1>3. CASE NotificationAnswered(n, who)
  <2>1. exchange' = [exchange EXCEPT ![n][who] = NoExchange]
    BY <1>3 DEF NotificationAnswered, IsAnswered
  <2>2. \A m \in Node : \A d \in Exchange : Fine(m, d) => Fine(m, d)'
    BY <1>3, FineWhenOver DEF NotificationAnswered, NotificationIsOver
  <2>3. exchange' \in [Node -> [Place -> Exchange]] /\ ExchangesFine'
    BY <2>1, <2>2, NothingIsFine, PutIsFine, Names DEF PeersInv
  <2>4. exchange[n][who].ok \in BOOLEAN
    BY Names DEF PeersInv, TypeOK, Exchange
  <2>5. inStep /\ n = Switch /\ exchange[n][who].ok => state[Light] = state[Switch]
    BY <1>3, Names DEF PeersInv, ExchangesFine, Fine, NotificationAnswered, IsAnswered
  <2>6. QED
    BY <1>3, <2>3, <2>4, <2>5, OverFrame DEF NotificationAnswered
<1>4. CASE NotificationTimesOut(n, who)
  <2>1. \A m \in Node : \A d \in Exchange : Fine(m, d) => Fine(m, d)'
    BY <1>4, FineWhenOver DEF NotificationTimesOut, NotificationIsOver
  <2>2. exchange' \in [Node -> [Place -> Exchange]] /\ ExchangesFine'
    BY <1>4, <2>1, GivesUpIsFine DEF PeersInv, NotificationTimesOut
  <2>3. QED
    BY <1>4, <2>2, OverFrame DEF NotificationTimesOut
<1>5. QED
  BY <1>1, <1>2, <1>3, <1>4 DEF Notifier

-----------------------------------------------------------------------------
(* The workers.                                                            *)

(* What a step needs that answers.                                         *)
LEMMA AnswerIsFine ==
  ASSUME TypeOK, ExchangesFine,
         \A m \in Node : \A d \in Exchange : Fine(m, d) => Fine(m, d)',
         NEW n \in Node, NEW w \in Place, NEW ok \in BOOLEAN, Answer(n, w, ok),
         exchange[n][w].kind = "subscribe" /\ ok => subs'[Peer(n)] > 0,
         inStep' /\ n = Switch /\ exchange[n][w].kind = "notify" =>
           exchange[n][w].on = state'[Switch] /\ state'[Light] = state'[Switch]
  PROVE  exchange' \in [Node -> [Place -> Exchange]] /\ ExchangesFine'
<1>1. CASE w = "late"
  <2>1. exchange' = [exchange EXCEPT ![n][w] = NoExchange]
    BY <1>1 DEF Answer
  <2>2. QED
    BY <2>1, NothingIsFine, PutIsFine, Names
<1>2. CASE w # "late"
  <2>1. exchange[n][w] \in Exchange
    BY DEF TypeOK
  <2>2. PICK e \in Exchange : e = [exchange[n][w] EXCEPT !.at = "answered", !.ok = ok]
    BY <2>1 DEF Exchange
  <2>3. exchange' = [exchange EXCEPT ![n][w] = e]
    BY <1>2, <2>2 DEF Answer, TypeOK
  <2>4. /\ e.kind = exchange[n][w].kind /\ e.on = exchange[n][w].on
        /\ e.at = "answered" /\ e.ok = ok
    BY <2>1, <2>2 DEF Exchange
  <2>5. Fine(n, e)'
    BY <2>4 DEF Fine
  <2>6. QED
    BY <2>3, <2>5, PutIsFine
<1>3. QED
  BY <1>1, <1>2

(* A notification makes the light show what it says.                       *)
LEMMA OnNotificationStep ==
  ASSUME PeersInv, NEW n \in Node, NEW w \in Place, OnNotification(n, w)
  PROVE  PeersInv'
<1> USE PeersAssumption DEF PeersInv, OnNotification
<1>1. exchange[n][w] \in Exchange /\ Fine(n, exchange[n][w])
  BY DEF TypeOK, ExchangesFine
<1>2. state' \in [Node -> BOOLEAN] /\ state'[Switch] = state[Switch]
  BY <1>1, Names DEF TypeOK, OnData, Exchange
<1>3. CASE n = Light
  <2>1. state' = state
    BY <1>2, <1>3, Names DEF TypeOK, OnData, Peer
  <2>2. \A m \in Node : \A d \in Exchange : Fine(m, d) => Fine(m, d)'
    BY <2>1, FineStays
  <2>3. exchange' \in [Node -> [Place -> Exchange]] /\ ExchangesFine'
    BY <1>3, <2>2, AnswerIsFine DEF Arrived
  <2>4. QED
    BY <2>1, <2>3 DEF TypeOK, StartupTypeOK, SubscribedMeansStored, HandlerInv,
       SaysState, Quiet, startupVars
<1>4. CASE n = Switch
  <2>1. state'[Light] = exchange[n][w].on
    BY <1>4, Names DEF TypeOK, OnData, Peer
  <2>2. inStep => exchange[n][w].on = state[Switch]
    BY <1>1, <1>4 DEF Fine, Arrived
  <2>3. inStep => state'[Light] = state'[Switch]
    BY <1>2, <2>1, <2>2
  <2>4. \A m \in Node : \A d \in Exchange : Fine(m, d) => Fine(m, d)'
    BY <1>2, <2>3 DEF Fine
  <2>5. exchange' \in [Node -> [Place -> Exchange]] /\ ExchangesFine'
    BY <1>2, <2>2, <2>3, <2>4, AnswerIsFine DEF Arrived
  <2>6. TypeOK'
    BY <1>2, <2>5 DEF TypeOK, StartupTypeOK, startupVars
  <2>7. SaysState'
    BY <1>2, <2>3 DEF SaysState
  <2>8. QED
    BY <2>5, <2>6, <2>7 DEF SubscribedMeansStored, HandlerInv, startupVars
<1>5. QED
  BY <1>3, <1>4

(* A step that only moves an exchange on.                                  *)
LEMMA ExchangeFrame ==
  ASSUME PeersInv, UNCHANGED <<startupVars, nodeVars>>,
         exchange' \in [Node -> [Place -> Exchange]], ExchangesFine'
  PROVE  PeersInv'
BY DEF PeersInv, TypeOK, StartupTypeOK, SubscribedMeansStored, HandlerInv, SaysState,
   Quiet, startupVars, nodeVars

LEMMA VerificationStep ==
  ASSUME PeersInv, NEW n \in Node, NEW w \in Place,
         OnVerification(n, w) \/ VerifySubscription(n, w)
  PROVE  PeersInv'
<1> USE DEF PeersInv
<1>1. exchange[n][w] \in Exchange /\ Fine(n, exchange[n][w])
  BY DEF TypeOK, ExchangesFine
<1>2. exchange[n][w].kind # "notify"
  BY <1>1 DEF Fine, OnVerification, VerifySubscription, Asked, Arrived
<1>3. PICK at \in {"verifying", "agreed"} :
        exchange' = [exchange EXCEPT ![n][w].at = at]
  BY DEF OnVerification, VerifySubscription
<1>4. PICK e \in Exchange : e = [exchange[n][w] EXCEPT !.at = at]
  BY <1>1, <1>3 DEF Exchange
<1>5. exchange' = [exchange EXCEPT ![n][w] = e]
  BY <1>3, <1>4 DEF TypeOK
<1>6. e.kind = exchange[n][w].kind /\ e.at = at
  BY <1>1, <1>4 DEF Exchange
<1>7. Fine(n, e)'
  BY <1>2, <1>3, <1>6 DEF Fine
<1>8. UNCHANGED <<startupVars, nodeVars>>
  BY DEF OnVerification, VerifySubscription
<1>9. \A m \in Node : \A d \in Exchange : Fine(m, d) => Fine(m, d)'
  BY <1>8, FineStays DEF nodeVars
<1>10. exchange' \in [Node -> [Place -> Exchange]] /\ ExchangesFine'
  BY <1>5, <1>7, <1>9, PutIsFine
<1>11. QED
  BY <1>8, <1>10, ExchangeFrame

LEMMA RefuseSubscriptionStep ==
  ASSUME PeersInv, NEW n \in Node, NEW w \in Place, RefuseSubscription(n, w)
  PROVE  PeersInv'
<1> USE DEF PeersInv
<1>1. exchange[n][w].kind # "notify"
  BY DEF RefuseSubscription, ExchangesFine, Fine, Arrived
<1>2. UNCHANGED <<startupVars, nodeVars>> /\ Answer(n, w, FALSE)
  BY DEF RefuseSubscription
<1>3. \A m \in Node : \A d \in Exchange : Fine(m, d) => Fine(m, d)'
  BY <1>2, FineStays DEF nodeVars
<1>4. exchange' \in [Node -> [Place -> Exchange]] /\ ExchangesFine'
  BY <1>1, <1>2, <1>3, AnswerIsFine
<1>5. QED
  BY <1>2, <1>4, ExchangeFrame

(* Subscriptions are only added.                                           *)
LEMMA SaveSubscriptionStep ==
  ASSUME PeersInv, NEW n \in Node, NEW w \in Place, SaveSubscription(n, w)
  PROVE  PeersInv'
<1> USE PeersAssumption DEF PeersInv, SaveSubscription
<1>1. /\ DOMAIN subs' = Node /\ \A m \in Node : subs'[m] \in 0 .. MaxSubs[m]
      /\ \A m \in Node : subs[m] > 0 => subs'[m] > 0
      /\ subs'[Peer(n)] > 0
  BY Names DEF TypeOK
<1>2. exchange[n][w].kind # "notify"
  BY DEF ExchangesFine, Fine
<1>3. \A m \in Node : \A d \in Exchange : Fine(m, d) => Fine(m, d)'
  BY <1>1, Names DEF Fine
<1>4. exchange' \in [Node -> [Place -> Exchange]] /\ ExchangesFine'
  BY <1>1, <1>2, <1>3, AnswerIsFine
<1>5. TypeOK'
  BY <1>1, <1>4 DEF TypeOK, StartupTypeOK, startupVars
<1>6. SubscribedMeansStored'
  BY <1>1, Names DEF SubscribedMeansStored
<1>7. HandlerInv'
  BY <1>1 DEF HandlerInv, startupVars
<1>8. SaysState'
  BY DEF SaysState, Quiet
<1>9. QED
  BY <1>4, <1>5, <1>6, <1>7, <1>8

LEMMA DiscardStep ==
  ASSUME PeersInv, NEW n \in Node, Discard(n)
  PROVE  PeersInv'
<1>1. UNCHANGED <<startupVars, nodeVars>>
  BY DEF Discard
<1>2. \A m \in Node : \A d \in Exchange : Fine(m, d) => Fine(m, d)'
  BY <1>1, FineStays DEF nodeVars
<1>3. exchange' = [exchange EXCEPT ![n]["late"] = NoExchange]
  BY DEF Discard
<1>4. exchange' \in [Node -> [Place -> Exchange]] /\ ExchangesFine'
  BY <1>2, <1>3, NothingIsFine, PutIsFine, Names DEF PeersInv
<1>5. QED
  BY <1>1, <1>4, ExchangeFrame

-----------------------------------------------------------------------------
(* The invariant, and what follows from it.                                *)

LEMMA NextInv == PeersInv /\ [Next]_vars => PeersInv'
<1> SUFFICES ASSUME PeersInv, [Next]_vars PROVE PeersInv'
  OBVIOUS
<1>1. CASE UNCHANGED vars
  <2>1. UNCHANGED <<startupVars, nodeVars>> /\ exchange' = exchange
    BY <1>1 DEF vars
  <2>2. exchange' \in [Node -> [Place -> Exchange]] /\ ExchangesFine'
    BY <2>1 DEF PeersInv, TypeOK, ExchangesFine, Fine, nodeVars
  <2>3. QED
    BY <2>1, <2>2, ExchangeFrame
<1>2. ASSUME NEW n \in Node, Kernel(n) PROVE PeersInv'
  BY <1>2, KernelStep
<1>3. ASSUME NEW n \in Node, StartServices(n) \/ StartServicesFails(n) PROVE PeersInv'
  BY <1>3, StartServicesStep, StartServicesFailsStep
<1>4. ASSUME NEW n \in Node, Stop(n) PROVE PeersInv'
  BY <1>4, StopStep
<1>5. ASSUME NEW n \in Node, Example(n) PROVE PeersInv'
  BY <1>5, SendSubscriptionStep, SubscriptionAnsweredStep, SubscriptionTimesOutStep,
     ToggleStep DEF Example
<1>6. ASSUME NEW n \in Node, NEW who \in Thread, Notifier(n, who) PROVE PeersInv'
  BY <1>6, NotifierStep
<1>7. ASSUME NEW n \in Node, NEW w \in Place, Worker(n, w) PROVE PeersInv'
  BY <1>7, OnNotificationStep, VerificationStep, RefuseSubscriptionStep,
     SaveSubscriptionStep DEF Worker
<1>8. ASSUME NEW n \in Node, NoHandler(n) \/ Discard(n) PROVE PeersInv'
  BY <1>8, NoHandlerStep, DiscardStep
<1>9. QED
  BY <1>1, <1>2, <1>3, <1>4, <1>5, <1>6, <1>7, <1>8 DEF Next

LEMMA PeersInvariant == Spec => []PeersInv
BY InitInv, NextInv, PTL DEF Spec

(* For all timeouts and any number of faults, every state of the two nodes *)
(* is well typed: the counters of WaitUntilReady and Restart stay bounded, *)
(* and no exchange is in a state its worker does not know.                 *)
THEOREM PeersTypeCorrect == Spec => []TypeOK
<1>1. PeersInv => TypeOK
  BY DEF PeersInv
<1>2. QED
  BY <1>1, PeersInvariant, PTL

(* However many requests are lost, late or repeated, and however often the *)
(* nodes fail and start anew, a node whose SendSubscription has ended has  *)
(* its subscription stored with its peer.                                  *)
THEOREM SubscribedIsStored == Spec => []SubscribedMeansStored
<1>1. PeersInv => SubscribedMeansStored
  BY DEF PeersInv
<1>2. QED
  BY <1>1, PeersInvariant, PTL

(* The null notification handler is called in no other circumstances than  *)
(* while a restarted example still tells its subscribers its state.        *)
THEOREM CrashesOnlyWhileConstructing == Spec => []CrashOnlyWhileConstructing
<1>1. PeersInv => CrashOnlyWhileConstructing
  BY DEF PeersInv, HandlerInv, CrashOnlyWhileConstructing
<1>2. QED
  BY <1>1, PeersInvariant, PTL

(* A light that was told all it had to be told shows the switch's state,   *)
(* however many times it is subscribed.                                    *)
THEOREM LightStaysInStep == Spec => []LightInStep
<1>1. PeersInv => LightInStep
  BY DEF PeersInv, SaysState, LightInStep
<1>2. QED
  BY <1>1, PeersInvariant, PTL
=============================================================================
