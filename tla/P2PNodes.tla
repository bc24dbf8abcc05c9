------------------------------ MODULE P2PNodes ------------------------------
(***************************************************************************)
(* The light and the switch (zerom2m/src/tasks): two nodes that subscribe  *)
(* to each other's state, each by a task that repeats its request until it *)
(* is answered, and the switch that publishes a state for the light to     *)
(* follow.  Of the CSE of each node only the subscriptions of the other    *)
(* one are kept; CseService has the rest.                                  *)
(*                                                                         *)
(* An exchange is an HTTP request and its answer, between one client that  *)
(* may give up, and one worker of the other node's daemon that does not    *)
(* notice it does.  Requests may be lost, and may be late.  To serve a     *)
(* subscription the worker asks the subscriber's node to agree, which is   *)
(* part of the exchange here.                                              *)
(***************************************************************************)
EXTENDS NodeStartup

CONSTANTS
    Light, Switch,
    MaxSubs         \* bound: this many subscriptions at a node stand for more

ASSUME PeersAssumption ==
    /\ Node = {Light, Switch} /\ Light # Switch
    /\ MaxSubs \in [Node -> Nat \ {0}]

VARIABLES
    task,       \* where the Run of the node's example is
    handler,    \* the service has a notification handler
    state,      \* state_ of the examples: the light is on, or the switch is
    subs,       \* subscriptions of the other node at this one, on its card
    pending,    \* notifications a thread has left to send, and what they say
    exchange,
    inStep      \* the light was told all it had to be told, see LightInStep

nodeVars == <<task, handler, state, subs, pending, inStep>>
vars == <<startupVars, nodeVars, exchange>>

Peer(n) == IF n = Light THEN Switch ELSE Light

(* The constructor runs in the task of the SystemManager.                  *)
Thread == {"main", "example"}

NoExchange == [kind |-> "none", at |-> "lost", ok |-> FALSE, on |-> FALSE]

(* "verifying": the worker has asked the subscriber; "agreed": it has      *)
(* agreed; ok: how the client is answered.                                 *)
Exchange ==
    [kind : {"none", "subscribe", "notify"},
     at : {"flying", "verifying", "agreed", "answered", "lost"},
     ok : BOOLEAN, on : BOOLEAN]

(* Where a client waits for an answer, and where one has given up.  Bound: *)
(* of the requests of a node that are late one may still arrive.           *)
Place == Thread \cup {"late"}

TypeOK ==
    /\ StartupTypeOK
    /\ task \in [Node -> {"none", "subscribing", "awaiting", "subscribed"}]
    /\ handler \in [Node -> BOOLEAN]
    /\ state \in [Node -> BOOLEAN]
    /\ \A n \in Node : subs[n] \in 0 .. MaxSubs[n]
    /\ DOMAIN subs = Node /\ DOMAIN pending = Node
    /\ \A n \in Node : pending[n] \in [Thread -> [left : 0 .. MaxSubs[n], on : BOOLEAN]]
    /\ exchange \in [Node -> [Place -> Exchange]]
    /\ inStep \in BOOLEAN

NoExchanges == [w \in Place |-> NoExchange]

Nothing == [who \in Thread |-> [left |-> 0, on |-> FALSE]]

Init ==
    /\ StartupInit
    /\ task = [n \in Node |-> "none"]
    /\ handler = [n \in Node |-> FALSE]
    /\ state = [n \in Node |-> FALSE]
    /\ subs = [n \in Node |-> 0]
    /\ pending = [n \in Node |-> Nothing]
    /\ exchange = [n \in Node |-> NoExchanges]
    /\ inStep = FALSE

-----------------------------------------------------------------------------
(* Exchanges.                                                              *)

CanSend(n) == link[n] /\ link[Peer(n)] /\ HasTasks(Peer(n))

Idle(n, who) == exchange[n][who] = NoExchange

Sends(n, who, kind, on) ==
    /\ CanSend(n) /\ Idle(n, who)
    /\ exchange' = [exchange EXCEPT ![n][who] =
                       [kind |-> kind, at |-> "flying", ok |-> FALSE, on |-> on]]

IsAnswered(n, who, kind) ==
    /\ exchange[n][who].kind = kind /\ exchange[n][who].at = "answered"
    /\ exchange' = [exchange EXCEPT ![n][who] = NoExchange]

InService(e) == e.at \in {"flying", "verifying", "agreed"}

(* The client gives up; the request may arrive, or be served, all the same.*)
GivesUp(n, who, kind) ==
    /\ exchange[n][who].kind = kind
    /\ \E late \in {exchange[n]["late"]}
                   \cup {e \in {exchange[n][who]} : InService(e)} :
          exchange' = [exchange EXCEPT ![n] = [@ EXCEPT ![who] = NoExchange,
                                                        !["late"] = late]]

(* The worker answers; nobody may be there to listen.                      *)
Answer(n, w, ok) ==
    exchange' = [exchange EXCEPT ![n][w] =
                    IF w = "late" THEN NoExchange
                    ELSE [@ EXCEPT !.at = "answered", !.ok = ok]]

Discard(n) ==
    /\ exchange[n]["late"].at = "flying"
    /\ exchange' = [exchange EXCEPT ![n]["late"] = NoExchange]
    /\ UNCHANGED <<startupVars, nodeVars>>

(* The tasks of a node have ended: its clients are gone, and what it should*)
(* serve or agree to is lost.                                              *)
Dropped(n) ==
    [m \in Node |->
        IF m = n
        THEN [NoExchanges EXCEPT
                !["late"] = IF exchange[n]["late"].at = "verifying" THEN NoExchange
                            ELSE exchange[n]["late"]]
        ELSE [w \in Place |->
                LET e == exchange[m][w]
                IN  IF ~ InService(e) THEN e
                    ELSE IF w = "late" THEN NoExchange
                    ELSE [e EXCEPT !.at = "lost"]]]

-----------------------------------------------------------------------------
(* Publishing: an instance is created, and each subscription found then is *)
(* notified, one after the other.                                          *)

Quiet(n) == \A who \in Thread : pending[n][who].left = 0

(* No earlier notification of the light can arrive any more.               *)
NoneLate ==
    \A w \in Place : exchange[Switch][w].kind # "notify"

Publishes(n, who, on, created) ==
    /\ state' = [state EXCEPT ![n] = IF n = Switch THEN on ELSE FALSE]
    /\ pending' = [pending EXCEPT ![n][who] =
                      [left |-> IF created THEN subs[n] ELSE 0, on |-> on]]
    /\ inStep' = IF n = Switch
                 THEN created /\ subs[n] > 0 /\ Quiet(n) /\ NoneLate
                 ELSE FALSE

StartNotifying(n, who) ==
    /\ pending[n][who].left > 0
    /\ Sends(n, who, "notify", pending[n][who].on)
    /\ UNCHANGED <<startupVars, nodeVars>>

(* Faulty variant of ConstructorGoesOn: the handler is not set.            *)
ConstructorGoesOnUnhandled(n, who) ==
    /\ phase' = IF who = "main" /\ pending[n][who].left = 1
                THEN [phase EXCEPT ![n] = "running"] ELSE phase
    /\ UNCHANGED handler

(* When its last subscriber has been told the constructor returns, and     *)
(* StartServices sets the handler.                                         *)
ConstructorGoesOn(n, who) ==
    IF who = "main" /\ pending[n][who].left = 1
    THEN /\ phase' = [phase EXCEPT ![n] = "running"]
         /\ handler' = [handler EXCEPT ![n] = TRUE]
    ELSE UNCHANGED <<phase, handler>>

(* One notification is over, whatever became of it.                        *)
NotificationIsOver(n, who, ok) ==
    /\ pending[n][who].left > 0
    /\ pending' = [pending EXCEPT ![n][who].left = @ - 1]
    /\ inStep' = (inStep /\ (n = Switch => ok))
    /\ ConstructorGoesOn(n, who)
    /\ UNCHANGED <<link, waited, reboot, faults, task, state, subs>>

NotifyingFails(n, who) ==
    /\ Idle(n, who)
    /\ NotificationIsOver(n, who, FALSE)
    /\ UNCHANGED exchange

NotificationAnswered(n, who) ==
    /\ IsAnswered(n, who, "notify")
    /\ NotificationIsOver(n, who, exchange[n][who].ok)

NotificationTimesOut(n, who) ==
    /\ GivesUp(n, who, "notify")
    /\ NotificationIsOver(n, who, FALSE)

-----------------------------------------------------------------------------
(* P2PNode::SendSubscription.                                              *)

Goes(n, from, to) ==
    /\ task[n] = from
    /\ task' = [task EXCEPT ![n] = to]
    /\ UNCHANGED <<startupVars, handler, state, subs, pending, inStep>>

(* From a first sleep on; where nothing can be sent it sleeps again.       *)
SendSubscription(n) ==
    /\ Goes(n, "subscribing", "awaiting")
    /\ Sends(n, "example", "subscribe", FALSE)

(* Faulty variant of SubscriptionAnswered: a refusal ends the loop.        *)
SubscriptionAnsweredOnce(n) ==
    /\ IsAnswered(n, "example", "subscribe")
    /\ Goes(n, "awaiting", IF exchange[n]["example"].ok THEN "subscribed" ELSE "none")

SubscriptionAnswered(n) ==
    /\ IsAnswered(n, "example", "subscribe")
    /\ Goes(n, "awaiting", IF exchange[n]["example"].ok THEN "subscribed"
                           ELSE "subscribing")

(* Faulty variant of SubscriptionTimesOut: what was sent is taken for done.*)
SubscriptionTimesOutAsDone(n) ==
    /\ GivesUp(n, "example", "subscribe")
    /\ Goes(n, "awaiting", "subscribed")

SubscriptionTimesOut(n) ==
    /\ GivesUp(n, "example", "subscribe")
    /\ Goes(n, "awaiting", "subscribing")

(* The switch goes on from there; what becomes of the creation is ignored. *)
Toggle(n) ==
    /\ n = Switch /\ task[n] = "subscribed" /\ pending[n]["example"].left = 0
    /\ \E created \in BOOLEAN : Publishes(n, "example", ~ state[n], created)
    /\ UNCHANGED <<startupVars, task, handler, subs, exchange>>

-----------------------------------------------------------------------------
(* The workers of the node that is asked.                                  *)

(* A request of the kind from n stands before the other node.              *)
Arrived(n, w, kind) ==
    /\ exchange[n][w].kind = kind /\ exchange[n][w].at = "flying"
    /\ HasTasks(Peer(n)) /\ link[Peer(n)]

(* The question of a verification stands before the subscriber.            *)
Asked(n, w) == exchange[n][w].at = "verifying" /\ HasTasks(n) /\ link[n]

(* Faulty variant of OnData: a notification is taken for a push of the     *)
(* switch.                                                                 *)
OnDataToggles(n, on) == IF n = Light THEN ~ state[n] ELSE state[n]

(* The light takes over the state, the switch only logs it.                *)
OnData(n, on) == IF n = Light THEN on ELSE state[n]

OnNotification(n, w) ==
    /\ Arrived(n, w, "notify") /\ handler[Peer(n)]
    /\ state' = [state EXCEPT ![Peer(n)] = OnData(Peer(n), exchange[n][w].on)]
    /\ Answer(n, w, TRUE)
    /\ UNCHANGED <<startupVars, task, handler, subs, pending, inStep>>

OnVerification(n, w) ==
    /\ Asked(n, w) /\ handler[n]
    /\ exchange' = [exchange EXCEPT ![n][w].at = "agreed"]
    /\ UNCHANGED <<startupVars, nodeVars>>

(* The service calls its handler without looking whether there is one.     *)
NoHandler(m) ==
    /\ \E w \in Place : Arrived(Peer(m), w, "notify") \/ Asked(m, w)
    /\ ~ handler[m]
    /\ phase' = [phase EXCEPT ![m] = "crashed"]
    /\ task' = [task EXCEPT ![m] = "none"]
    /\ exchange' = Dropped(m)
    /\ inStep' = FALSE
    /\ UNCHANGED <<link, waited, reboot, faults, handler, state, subs, pending>>

(* CreateSubscription checks, and asks the subscriber to agree.            *)
VerifySubscription(n, w) ==
    /\ Arrived(n, w, "subscribe") /\ CanSend(Peer(n))
    /\ exchange' = [exchange EXCEPT ![n][w].at = "verifying"]
    /\ UNCHANGED <<startupVars, nodeVars>>

(* It may not be created for another reason, or nobody can be asked, or    *)
(* does not answer in time.                                                *)
RefuseSubscription(n, w) ==
    /\ \/ Arrived(n, w, "subscribe")
       \/ exchange[n][w].at \in {"verifying", "agreed"}
    /\ Answer(n, w, FALSE)
    /\ UNCHANGED <<startupVars, nodeVars>>

(* Agreed to, it is saved.                                                 *)
SaveSubscription(n, w) ==
    /\ exchange[n][w].at = "agreed"
    /\ Answer(n, w, TRUE)
    /\ subs' = [subs EXCEPT ![Peer(n)] = IF @ < MaxSubs[Peer(n)] THEN @ + 1 ELSE @]
    /\ UNCHANGED <<startupVars, task, handler, state, pending, inStep>>

-----------------------------------------------------------------------------
(* Starting and stopping.                                                  *)

(* StartServices: the example registers itself and publishes its initial   *)
(* state.  Its constructor waits only for subscribers, and the handler is  *)
(* set when it has returned.                                               *)
StartServices(n) ==
    /\ Started(n, IF subs[n] = 0 THEN "running" ELSE "constructing")
    /\ handler' = [handler EXCEPT ![n] = (subs[n] = 0)]
    /\ task' = [task EXCEPT ![n] = "subscribing"]
    /\ Publishes(n, "main", FALSE, TRUE)
    /\ UNCHANGED <<subs, exchange>>

(* The service is not initialised, and the scheduler runs an example half  *)
(* constructed; or a resource it needs cannot be created.                  *)
StartServicesFails(n) ==
    /\ Started(n, "stuck")
    /\ faults < MaxFaults
    /\ UNCHANGED <<nodeVars, exchange>>

(* Nothing is left of a node but its card.                                 *)
Stopped(n) ==
    /\ task' = [task EXCEPT ![n] = "none"]
    /\ handler' = [handler EXCEPT ![n] = FALSE]
    /\ state' = [state EXCEPT ![n] = FALSE]
    /\ pending' = [pending EXCEPT ![n] = Nothing]
    /\ exchange' = Dropped(n)
    /\ inStep' = FALSE
    /\ UNCHANGED subs

Stop(n) == (Reboot(n) \/ PowerLoss(n) \/ Unrecoverable(n)) /\ Stopped(n)

Kernel(n) ==
    /\ \/ LinkUp(n) \/ LinkDown(n) \/ RequestShutdown(n)
       \/ PowerOn(n) \/ InitializeFails(n)
       \/ WaitUntilReady(n) \/ NetworkUnavailable(n)
       \/ NoticeLoss(n) \/ Restart(n) \/ Recovered(n)
    /\ UNCHANGED <<nodeVars, exchange>>

Example(n) ==
    \/ SendSubscription(n) \/ SubscriptionAnswered(n) \/ SubscriptionTimesOut(n)
    \/ Toggle(n)

Notifier(n, who) ==
    /\ HasTasks(n)
    /\ \/ StartNotifying(n, who) \/ NotifyingFails(n, who)
       \/ NotificationAnswered(n, who) \/ NotificationTimesOut(n, who)

Worker(n, w) ==
    \/ OnNotification(n, w) \/ OnVerification(n, w)
    \/ VerifySubscription(n, w) \/ RefuseSubscription(n, w) \/ SaveSubscription(n, w)

Next ==
    \E n \in Node :
      \/ Kernel(n) \/ StartServices(n) \/ StartServicesFails(n) \/ Stop(n)
      \/ Example(n)
      \/ \E who \in Thread : Notifier(n, who)
      \/ \E w \in Place : Worker(n, w)
      \/ NoHandler(n) \/ Discard(n)

Spec == Init /\ [][Next]_vars

-----------------------------------------------------------------------------
(* Fairness.  The tasks of a node are served in turn, and every sleep and  *)
(* every wait of theirs ends.  Of the network no more is asked than that   *)
(* it lets the subscriber's request, the question of the verification and  *)
(* both answers through in time if they are tried again and again.         *)

(* The steps of the task of the SystemManager.                             *)
MainTask(n) ==
    \/ /\ \/ PowerOn(n) \/ WaitUntilReady(n) \/ NetworkUnavailable(n)
          \/ NoticeLoss(n) \/ Restart(n) \/ Recovered(n)
       /\ UNCHANGED <<nodeVars, exchange>>
    \/ StartServices(n)
    \/ Notifier(n, "main")
    \/ (Unrecoverable(n) \/ Reboot(n)) /\ Stopped(n)

Fairness ==
    /\ \A n \in Node : WF_vars(MainTask(n))
    /\ WF_vars(Example(Light))
    /\ SF_vars(VerifySubscription(Light, "example"))
    /\ SF_vars(OnVerification(Light, "example"))
    /\ SF_vars(SaveSubscription(Light, "example"))
    /\ SF_vars(SubscriptionAnswered(Light) /\ task'[Light] = "subscribed")

FairSpec == Spec /\ Fairness

-----------------------------------------------------------------------------
(* Properties.                                                             *)

(* A task that has left the loop of SendSubscription has its subscription  *)
(* on the other node's card, whatever was lost, late or repeated before,   *)
(* and whatever that node has been through since (P2PNode::                *)
(* SendSubscription, OneM2MService::CreateSubscription).                   *)
SubscribedMeansStored ==
    \A n \in Node : task[n] = "subscribed" => subs[Peer(n)] > 0

(* The notification handler is missing only in a node that had subscribers *)
(* when it started, and only while its example is still telling them its   *)
(* initial state (SystemManager::StartServices, OneM2MService::Notify).    *)
CrashOnlyWhileConstructing ==
    \A n \in Node :
      phase[n] = "crashed" => subs[n] > 0 /\ pending[n]["main"].left > 0

(* The light shows the state of the switch whenever every notification of  *)
(* that state was answered and none of an earlier state could still come:  *)
(* duplicated subscriptions do not harm it, nor does the order of the      *)
(* notifications (SwitchExample::Run, LightExample::OnData,                *)
(* OneM2MService::SendNotification).                                       *)
LightInStep ==
    inStep /\ Quiet(Switch) => state[Light] = state[Switch]

(* Waiting for the network, constructing an example and recovering the     *)
(* network come to an end: again and again both nodes run, have halted or  *)
(* failed, or are about to be started anew (SystemManager::Run,            *)
(* NetworkManager::WaitUntilReady, Restart).                               *)
PhasesPass ==
    []<>(\A n \in Node :
            phase[n] \notin {"waiting", "constructing", "recovering"})

BothUp == \A n \in Node : phase[n] = "running" /\ link[n]

(* If both nodes run from some time on and can reach each other, the light *)
(* is subscribed, although each attempt may time out while the switch      *)
(* still works on it; the switch runs the same code                        *)
(* (P2PNode::SendSubscription).                                            *)
EventuallySubscribed ==
    <>[]BothUp => <>[](task[Light] = "subscribed")
=============================================================================
