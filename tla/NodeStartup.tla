---------------------------- MODULE NodeStartup ----------------------------
(***************************************************************************)
(* How a node starts and how it goes on: Kernel::Initialize,               *)
(* SystemManager::Run and NetworkManager (zerom2m/src/kernel).  The device *)
(* that carries the network, and the fallback from WLAN to Ethernet, are   *)
(* abstracted to a link that is up or not.                                 *)
(***************************************************************************)
EXTENDS Naturals

CONSTANTS
    Node,
    MsPerSleep,         \* what WaitUntilReady adds for each sleep
    ReadyTimeoutMs,     \* the timeout given to WaitUntilReady
    RestartTimeoutMs,   \* and to Restart
    MaxFaults           \* bound: failures and interventions from outside

ASSUME StartupAssumption ==
    /\ {MsPerSleep, ReadyTimeoutMs, RestartTimeoutMs} \subseteq Nat \ {0}
    /\ MaxFaults \in Nat

VARIABLES
    phase,
    link,       \* net_->IsRunning()
    waited,     \* the counter of WaitUntilReady, and of Restart
    reboot,     \* shutdownRequest_
    faults

startupVars == <<phase, link, waited, reboot, faults>>

(* "constructing": the example's constructor waits; "stuck": the services  *)
(* cannot be started; "crashed": a call through a null pointer.            *)
Phase ==
    {"off", "waiting", "constructing", "running", "recovering", "halted", "stuck",
     "crashed"}

StartupTypeOK ==
    /\ phase \in [Node -> Phase]
    /\ link \in [Node -> BOOLEAN]
    /\ waited \in [Node -> 0 .. ReadyTimeoutMs + RestartTimeoutMs + MsPerSleep]
    /\ reboot \in [Node -> BOOLEAN]
    /\ faults \in 0 .. MaxFaults

StartupInit ==
    /\ phase = [n \in Node |-> "off"]
    /\ link = [n \in Node |-> FALSE]
    /\ waited = [n \in Node |-> 0]
    /\ reboot = [n \in Node |-> FALSE]
    /\ faults = 0

(* Tasks run and the HTTP server listens.                                  *)
HasTasks(n) == phase[n] \in {"constructing", "running", "recovering"}

(* A node that has halted, or got stuck, does not notice any more.         *)
IsAlive(n) == phase[n] = "waiting" \/ HasTasks(n)

Fault == faults < MaxFaults /\ faults' = faults + 1

-----------------------------------------------------------------------------
(* The surroundings.                                                       *)

LinkUp(n) ==
    /\ IsAlive(n) /\ ~ link[n]
    /\ link' = [link EXCEPT ![n] = TRUE]
    /\ UNCHANGED <<phase, waited, reboot, faults>>

LinkDown(n) ==
    /\ IsAlive(n) /\ link[n]
    /\ Fault
    /\ link' = [link EXCEPT ![n] = FALSE]
    /\ UNCHANGED <<phase, waited, reboot>>

(* The reboot magic arrives on the serial line.                            *)
RequestShutdown(n) ==
    /\ IsAlive(n) /\ ~ reboot[n]
    /\ Fault
    /\ reboot' = [reboot EXCEPT ![n] = TRUE]
    /\ UNCHANGED <<phase, link, waited>>

-----------------------------------------------------------------------------
(* Starting.                                                               *)

PowerOn(n) ==
    /\ phase[n] = "off"
    /\ phase' = [phase EXCEPT ![n] = "waiting"]
    /\ waited' = [waited EXCEPT ![n] = 0]
    /\ UNCHANGED <<link, reboot, faults>>

InitializeFails(n) ==
    /\ phase[n] = "off"
    /\ Fault
    /\ phase' = [phase EXCEPT ![n] = "halted"]
    /\ UNCHANGED <<link, waited, reboot>>

(* Faulty variant of WaitUntilReady: it waits for ever.                    *)
WaitUntilReadyForEver(n) ==
    /\ phase[n] = "waiting" /\ ~ link[n]
    /\ waited' = [waited EXCEPT ![n] = @ + MsPerSleep]
    /\ UNCHANGED <<phase, link, reboot, faults>>

WaitUntilReady(n) ==
    /\ phase[n] = "waiting" /\ ~ link[n] /\ waited[n] < ReadyTimeoutMs
    /\ waited' = [waited EXCEPT ![n] = @ + MsPerSleep]
    /\ UNCHANGED <<phase, link, reboot, faults>>

NetworkUnavailable(n) ==
    /\ phase[n] = "waiting" /\ ~ link[n] /\ waited[n] >= ReadyTimeoutMs
    /\ phase' = [phase EXCEPT ![n] = "halted"]
    /\ waited' = [waited EXCEPT ![n] = 0]
    /\ UNCHANGED <<link, reboot, faults>>

(* The outcome of StartServices.                                           *)
Started(n, outcome) ==
    /\ phase[n] = "waiting" /\ link[n]
    /\ phase' = [phase EXCEPT ![n] = outcome]
    /\ waited' = [waited EXCEPT ![n] = 0]
    /\ UNCHANGED <<link, reboot, faults>>

-----------------------------------------------------------------------------
(* The main loop.                                                          *)

(* The network is looked at after the sleep, whatever was requested since. *)
NoticeLoss(n) ==
    /\ phase[n] = "running" /\ ~ link[n]
    /\ phase' = [phase EXCEPT ![n] = "recovering"]
    /\ waited' = [waited EXCEPT ![n] = 0]
    /\ UNCHANGED <<link, reboot, faults>>

(* Faulty variant of Restart: the counter stays as it is.                  *)
RestartUncounted(n) ==
    /\ phase[n] = "recovering" /\ ~ link[n] /\ waited[n] < RestartTimeoutMs
    /\ UNCHANGED startupVars

(* Each sleep counts one, whatever its length.                             *)
Restart(n) ==
    /\ phase[n] = "recovering" /\ ~ link[n] /\ waited[n] < RestartTimeoutMs
    /\ waited' = [waited EXCEPT ![n] = @ + 1]
    /\ UNCHANGED <<phase, link, reboot, faults>>

Recovered(n) ==
    /\ phase[n] = "recovering" /\ link[n]
    /\ phase' = [phase EXCEPT ![n] = "running"]
    /\ waited' = [waited EXCEPT ![n] = 0]
    /\ UNCHANGED <<link, reboot, faults>>

(* Ends: every task ends with it.                                          *)
Unrecoverable(n) ==
    /\ phase[n] = "recovering" /\ ~ link[n] /\ waited[n] >= RestartTimeoutMs
    /\ phase' = [phase EXCEPT ![n] = "halted"]
    /\ waited' = [waited EXCEPT ![n] = 0]
    /\ UNCHANGED <<link, reboot, faults>>

GoesOff(n) ==
    /\ phase' = [phase EXCEPT ![n] = "off"]
    /\ link' = [link EXCEPT ![n] = FALSE]
    /\ waited' = [waited EXCEPT ![n] = 0]
    /\ reboot' = [reboot EXCEPT ![n] = FALSE]

Reboot(n) ==
    /\ phase[n] = "running" /\ reboot[n]
    /\ GoesOff(n)
    /\ UNCHANGED faults

PowerLoss(n) ==
    /\ phase[n] # "off"
    /\ Fault
    /\ GoesOff(n)
=============================================================================
