# A verification of zerom2m

zerom2m is a oneM2M Common Services Entity (CSE) that runs on a bare-metal
Raspberry Pi: the Circle framework, SQLite on an SD card, HTTP, and example
nodes (a switch and a light) that talk to one another through the CSE of each.
This directory holds TLA+ modules of its core, the TLC configurations that check
them on small instances, and theorems about them with proofs that TLAPS checks.

Paths below are relative to `src/zerom2m/src` unless they start with `src/`.

## 1. Inventory

| Part | Code | State | Operations | Talks to |
|---|---|---|---|---|
| Resource database | `sqlite/database.cpp` | tables `resources`, `cse`, `ae`, `container`, `content_instance`, `subscription`, `resource_id_sequence`, on the SD card | `Open`, `InitSchema`, `GenerateResourceId`, `Save...`, `Load...`, `Exists...`, `GetPathByRI`, `GetContainerCurrentSize` | SQLite, the file layer |
| Resource service | `onem2m/onem2m_service.cpp` | `initialized_`, `spId_`, the configuration, the notification handler | `Initialize`, `HandleRequest` (create, retrieve, notify; update and delete answer NOT_IMPLEMENTED) | database, HTTP adapter, P2P nodes |
| Addressing | `ParseAddressingPath`, `CanonicalizeAddressingPath` | none | to/from the canonical form of an address | resource service |
| Subscription rules | `MatchesCriteria` and its helpers, `CreateSubscription` | none | validation and matching of event criteria | resource service |
| HTTP binding | `onem2m/bindings/http`, `onem2m/utils.cpp` | none | primitives to HTTP messages and back, `SendNotification` | service, HTTP client, daemon |
| HTTP codec, router | `http/http_codec.cpp`, `http/router.cpp` | none | messages to structures and back | daemon, client |
| HTTP daemon and client | `http/http_daemon.cpp`, `http/http_client.cpp` | count of instances, sockets, buffers, timeouts | accept, receive in pieces, serve, answer; connect, send, receive | Circle's network, service |
| P2P nodes, examples | `tasks/p2p_node.cpp`, `tasks/light_example.cpp`, `tasks/switch_example.cpp` | registered or not, the state of the light or switch | register AE and container, subscribe to a peer, publish, be notified | service, HTTP client |
| JSON serialisation | `serde` | none | resources and notifications to JSON and back | HTTP binding |
| SQLite file layer | `sqlite/sqlite_vfs.cpp` | open files | read, write, sync | FatFs |
| System and network managers, kernel | `kernel` | start-up stage, network state | start in order, recover the network, reboot | all |
| Configuration parser | `config/config_parser.cpp` | the configuration | parse a file of lines | kernel |
| Other tasks, index page | `tasks/http_server.cpp`, `stats_task.cpp`, `idle_task.cpp`, `handlers` | none to speak of | start the daemon, print statistics, idle | daemon |
| Vendored code | `src/third_party`, `serde/json/jsmn.h`, Circle | | | |

How a create runs through them: an HTTP worker (a task of Circle's cooperative
scheduler) parses the request and calls `HandleRequest`; the service checks the
request against the database, generates an ID, asks the peer behind a
subscription to agree (an HTTP request, while which other tasks run), saves two
rows in two commits, loads the subscriptions of the parent, posts one
notification after the other (again giving up the CPU at each one) and only
then answers.

What is hard in it:

- *Interleaving.* Tasks are cooperative, so races exist only where a task waits
  for the network: in the middle of a subscription's creation, between its
  checks and its save, and in the middle of the deliveries of any other create.
- *Crashes.* Power may fail at any time; the rows of one resource are committed
  one by one. The next boot finds what is there.
- *Ambiguous lookups.* A target is compared with the ID, the name and the path
  of every row, and the first row wins. Names are chosen by clients and need
  not be unique, IDs may be brought along by AEs.
- *Partial failure.* Each database call may fail, and some callers go on: a query
  for a name or an AE-ID that fails reads as "free", instances that cannot be
  loaded count as none, a notification whose subscriptions cannot be loaded is
  dropped and the create answered CREATED, an ID is empty, a transaction stays open.
- *Limits.* Containers have limits on instances and bytes; the daemon has a
  limit on workers.
- *Timeouts and retries.* The HTTP client gives up after 2 s, a node that
  subscribes after 1 s, and it retries what may have been done already. The
  worker that serves the request does not notice that nobody listens.
- *Lengths.* Content-Length is searched for by the worker and by the parser in
  different ways, goes through `atoi` to a `size_t`, and is added to the header's
  length in both places.
- *Pieces.* TCP delivers a request in pieces, or not all of it; a worker decides
  on what it has. A worker that notifies its own node waits for another worker.
- *Start-up.* The HTTP server, the example and the notification handler come up
  one after the other, on a node whose card still holds the subscriptions of its
  last life; the network may go at any time.
- *Spellings.* An address has eleven spellings, an operation is told from a method
  and a media type, and the text of an instance from what it begins with.

The list of hazards, each at its line, is in `PROJECT.json`.

What makes each part correct: the *database* finds, for ever and after every
power failure, what was acknowledged, and spells every path the way the
ancestors do; the *service* keeps a tree that only grows, keeps containers
within their limits, notifies every subscriber that should be notified and
nobody of what is not stored, gives data only to its owner, and answers every
request; the *addressing* maps all forms of one address to one resource; the
*binding* and the *codecs* deliver what was meant, and leave both sides agreed
on whether it was done; the *daemon* gives back every slot, never exceeds its
limit and hands no torn body to a handler; the *P2P nodes* end up subscribed to
each other, and the light follows the switch; the *start-up* reaches its end or
reports why not.

## 2. Composition

| Layer | Modules | What for |
|---|---|---|
| Database and service | `ResourceStore`, `CseService`; `ResourceTree` | the service on its database; the abstract tree it implements |
| Transport | `HttpClient`, `HttpDaemon` | workers, the limit of clients, pieces, timeouts; a node that notifies itself |
| Messages | `JsonCodec`, `HttpCodec`, `HttpBinding`, `Addressing`, `Messages` | one request from primitive to primitive and back, and the notification it sets off |
| Nodes | `NodeStartup`, `P2PNodes` | two nodes that start, subscribe with retries, and publish over a network that loses and delays |
| Proofs | `ResourceStoreProofs`, `CseServiceProofs`, `CseTreeProofs`, `CseDeliveryProofs`, `CseRulesProofs`, `HttpDaemonProofs`, `MessagesProofs`, `P2PNodesProofs` | section 6 |

Each layer leaves open what the one below decides: `Messages` takes any outcome
the service can have, which `CseService` determines; `P2PNodes` takes an exchange
that may be lost, late or refused at each of its steps, which is what `HttpDaemon`
does to a request and `Messages` to its contents, and keeps of each CSE the
number of subscriptions it holds. The daemon's handler is any handler.

## 3. Modules

- `ResourceStore` is `database.cpp` as operators over sets of rows. `resources`
  and `typeRows` are the two kinds of table; a row keeps its rowid because an
  unordered `LIMIT 1` depends on it. `FirstMatch` is the three-way lookup,
  `Stored` the resources both rows of which are there, `GetFullPathByRI` the
  recursive query, written as a function over the number of generations; a
  cycle of parents, where SQLite would not stop, is recognised by `Cyclic`. That an
  existence check answers FALSE when its query fails is in the checks that call it.
- `CseService` is `onem2m_service.cpp`. Variables: `nextId`, `resources`,
  `typeRows` are on the card, and `backup` is what a transaction that was left open
  takes back when it is rolled back (empty while none is); `power`, `ready` (`initialized_`), `spId`, `cpu`
  (the task that holds it) and `task` (where each task is, the resource it
  creates and the deliveries it has left) are in memory; `boots`, `reply`,
  `acked`, `sent` are kept for the properties. A create is a chain of actions:
  one for each stretch of code between two points where another task, or a power
  failure, can come in between. Which database calls may fail is the constant `Faults`, and each
  may fail or not each time it is made:

  | Fault | Call, and what the code does |
  |---|---|
  | `base`, `parent`, `size`, `path` | the lookups of the CSEBase and the parent, the sum of sizes, the parent's path: a refusal |
  | `name`, `aei` | `ExistsResourceByParentAndName`, `ExistsAEbyAEID`: FALSE, `CreateAE` goes on |
  | `count` | the count of a container's instances: none, or too few, are counted |
  | `id` | the update of the sequence: rolled back, and an empty ID |
  | `prepare` | its preparation: an empty ID, and no end of the transaction |
  | `commit` | its COMMIT, and that of the seed: not looked at; SQLite has rolled back, or keeps the transaction open |
  | `row`, `detail` | the two inserts of a resource: INTERNAL_SERVER_ERROR; SQLite may roll back a transaction that is open |
  | `deliver` | the loads of `SendNotification` and `DeliverTarget`: what cannot be loaded is passed over, and the answer is CREATED |
  | `retrieve` | any read of a retrieve: a refusal |
  | `open`, `seed` | the opening of the database; the lookup of the CSEBase at boot, which is then stored once more |

  The actions:

  | Action | Code |
  |---|---|
  | `RefuseCreate`, `RefuseCreateAfterId`, `AcceptCreate` | `Create` and the checks of `CreateAE`, `CreateContainer`, `CreateContentInstance`, `CreateSubscription`, in their order, before and after `GetId` |
  | `VerifySubscription`, `VerificationAnswered`, `VerificationFails` | `SendSubscriptionVerification` |
  | `InsertRow`, `InsertRowFails`, `HangInPathQuery` | `InsertResources` and its path query |
  | `InsertDetail`, `InsertDetailFails` | the second statement of `Save...`, and the loading of the subscriptions |
  | `SendNotification`, `SkipDelivery`, `NotificationAnswered`, `FinishCreate` | `SendNotification`, `DeliverTarget`, `HttpAdapter::SendNotification` |
  | `Retrieve` | `Retrieve` and its five variants |
  | `Boot`, `PowerLoss` | `Initialize` on a new, an existing and a cleaned database; the loss of memory |

- `ResourceTree` is what the service promises: a tree that only grows while the
  CSE runs, and outlives power failures. It knows no rows, tasks or requests.
- `HttpClient` is `http_client.cpp` with the TCP connection under it: what was
  sent and has not arrived (`up`, `down`), what the client has received. The
  network delivers in order, in pieces of any size, or not at all.
- `HttpDaemon` is `http_daemon.cpp`: the listener, the workers with what they have
  in their buffers, and `instanceCount`. The handler of a request may send one to
  its own node (`InnerOf`), on a connection of the same daemon.

  | Action | Code |
  |---|---|
  | `Listen`, `ListenFails`, `Accept`, `TurnAway` | `Run`, `Listener` with the limit of clients |
  | `ReceiveFirst`, `ReceiveBody`, the failures of both, `CloseTooLarge` | the two receptions in `Worker`, of the header and of the rest of the body, and the second wait after the first one timed out |
  | `ParseRequest`, `ParseRequestCrashes` | `HttpCodec::ParseRequest` on what was received, and the copy of a negative length |
  | `HandleRequest`, `NestedReturns`, `Respond` | the rest of `Worker` |
  | `DeleteWorker`, `DeleteListener` | the destructor, when the scheduler gets there |
  | `ClientConnects`, `ClientReads`, `RequestArrives`, `AnswerArrives` | `HttpClient::Request` (`Connect`, `ConnectFails`, `ClientReturns`) and the network |

  A request has a Content-Length that is an int, in one of three spellings: one that
  worker and parser find, one in small letters that only the worker finds, and one
  without a space that only the parser finds. `SizeOf` and `WrappedSum` are the
  conversion to `size_t` and its addition, modulo `SizeMod`.

- `Addressing` is `ParseAddressingPath` and `CanonicalizeAddressingPath` as
  operators on sequences of segments, with the spellings of one address
  (`AddressesOf`) as the reference.
- `JsonCodec` is `json_codec.cpp`: which attributes are written and read, and what
  each hop makes of the text of an instance. `HttpCodec` is `http_codec.cpp`,
  `HttpBinding` is `http_adapter.cpp`, as functions between primitives and
  messages.
- `Messages` sends one request through all of them: `Send`, `Parse`, `Decode`, a
  decision of the service (one action for each operation and kind of refusal),
  `Return`; on the way a creation may go on as the notification, or the
  verification, it sets off (`SendNotification`,
  `SendSubscriptionVerification`), posted to a node that receives it the same way.
- `NodeStartup` is `kernel`: `phase` is how far `SystemManager::Run` is, `waited`
  the counters of `WaitUntilReady` and `Restart`.
- `P2PNodes` is `p2p_node.cpp` and the examples, on two nodes. `exchange` is a
  request and its answer between a client that may give up and a worker that goes
  on; when the client gives up, what is still served moves to the place `"late"`.

  | Action | Code |
  |---|---|
  | `StartServices`, `StartServicesFails` | `StartServices`, the constructors of the examples and their first publication |
  | `SendSubscription`, `SubscriptionAnswered`, `SubscriptionTimesOut` | the loop of `P2PNode::SendSubscription` |
  | `Toggle` | `SwitchExample::Run` |
  | `StartNotifying`, `NotificationAnswered`, `NotificationTimesOut`, `NotifyingFails` | `OneM2MService::SendNotification`, from the publisher's task |
  | `VerifySubscription`, `RefuseSubscription`, `SaveSubscription` | `CreateSubscription` in the peer's worker |
  | `OnVerification`, `OnNotification`, `NoHandler` | `OneM2MService::Notify` and the handlers of the examples |
  | `Stop`, and the actions of `NodeStartup` | reboot, power, the network |

- `MCCseService`, `MCHttpDaemon`, `MCMessages`, `MCP2PNodes` give the constants
  their values for TLC: the identifiers of the switch and the light example and,
  for each run, a set of requests.
- `ResourceStoreProofs`, `CseServiceProofs`, `CseTreeProofs`, `CseDeliveryProofs`,
  `CseRulesProofs` hold the lemmas and theorems about the service, each extending
  the one before; `HttpDaemonProofs`, `P2PNodesProofs` and `MessagesProofs` (with
  the addressing and the codecs) those about the other modules.

What is abstracted. Identifiers and addresses are atoms, a path is a sequence of
names, and the canonical form of an address is what a request carries
(only the comparison with the SP-ID is kept). A refusal that depends on the
value of an attribute alone is the field `flaw` of a request; the refusals that
depend on the state are each modelled, in order. Of the attributes only those are
kept that a later decision reads. Timestamps are left out, and with them the
expiry no code acts on. Updates and deletes answer NOT_IMPLEMENTED and change
nothing; they are left out. A failing schema is part of the fault `open`; a
database file that cannot be deleted is a boot that does not clean. A list of
children that breaks off counts as one that cannot be loaded. `InsertResources`
leaves out the slash behind a parent's path of one character, which would be a
CSE whose name is one character; `IdentAssumption` excludes that (`OneChar`). The
network is a wait that ends, with a verdict chosen freely.

Sizes in `HttpDaemon` are small numbers of bytes; only the sums that are compared
with the buffer matter. `SizeMod` is small too, but larger than any sum of a buffer
and a natural length (`DaemonAssumption`), as 2^64 is. Texts have a shape, and marks if they hold quotes or
backslashes, because nothing else decides what the codec does with them. The link
of a node is up or not; which device carries it, and the fallback from WLAN to
Ethernet, is left out. The committed examples stop in an assertion until a
developer enters the peer's address and port; the model takes them as entered,
and `p2p_task` as naming one of the two examples.

Undefined behaviour: `HttpDaemon` writes a NUL after what it received, one byte
past the buffer when the buffer is full; the model takes the byte as nobody's. A
negative Content-Length wraps past both checks of its size (`http_daemon.cpp:293`,
`http_codec.cpp:353`) when the sum with the header's length does, and the parser
copies that many bytes; the model takes the outcome as a crash of the node
(`ParseRequestCrashes`), and `CrashOnlyByNegativeLength` says that nothing else
leads there.
The notification event into which JSON is read has a pointer that is not
initialised (`json_codec.cpp:908`); when no readable representation comes,
`Messages` lets the handler take it for any resource, refuse, or bring the node
down (`HasStrayPointer`, `NotifyCrashes`). `Retrieve` reads `target[length - 3]` for targets shorter
than three characters. In the build the byte before the string is part of its
length or of the heap's header and is not a slash; the model takes the condition
as false there.

## 4. Runs

| Run | Shows |
|---|---|
| `concurrent` | Two tasks create instances, containers and subscriptions at once; `name`, `size` and `parent` may fail. Limits hold although they are checked before the save, every subscription stored before a resource is delivered to all its addresses (`AckedIsNotified`), what is answered CREATED or CONFLICT can be found under its path |
| `deliveries` | The same promise of delivery when notification URIs are AE-IDs, and that every create is answered, under the fairness of section 5; `count` and `path` may fail |
| `power` | Power fails between any two commits, `open`, `seed`, `row`, `detail` and `deliver` may fail, the database is kept or cleaned at boot: what was acknowledged is found unchanged, what was notified is stored, names and AE-IDs of AEs stay distinct, paths stay current, lookups stay stable, and the database implements `ResourceTree` |
| `retrieval` | Containers in containers, read by path, ID, `la` and `ol`: an originator gets what its own AE governs, and the latest instance is always available and never older than an acknowledged one; `retrieve`, `base` and `count` may fail |
| `requests` | Each early return of the create handlers, with `id`, `prepare`, `commit` and `aei`, that is with transactions left open, committed later or rolled back, and AEs that register under IDs the CSE will generate. Resources are overwritten and a parent cycle may hang the node; rows, tasks and transactions keep their types even so |
| `daemon` | Three connections to a daemon with a limit of two clients, one of them made by the handler of another: requests come in pieces, in part or not at all, clients give up. The count is exact, no handler sees a torn body, success means handled, only what has a defect is refused, only a negative Content-Length brings the node down, and every slot comes back |
| `messages` | What nodes and other clients send, through every conversion: the receiver decodes what was meant, under every spelling of an address; both sides agree on success; a text survives its hops; what a CSE notifies is accepted |
| `peers` | The two nodes start, subscribe to each other and publish, with one failure (link, power, start-up, reboot) in any place: who believes it is subscribed is, the light follows the switch, a node is crashed by a missing handler only while an example is constructed, start-up and recovery end, and the light gets subscribed |

The bounds. `MaxId` 4 or 5 IDs allow an AE, a container, two instances at the
limit and one beyond, or a subscription among them; `MaxBoots` 2 allows one power
failure with a start after it, which is all that matters because nothing
distinguishes the second failure from the first but the contents of the card,
and those are left in every partial state by one. `MaxRows` bounds
the rowids, because a create without an ID and one whose ID is rolled back do not
use up the IDs. `requests` makes do with one task, two IDs, four rows and no power
failure, as transactions that are left open multiply its states; two generated IDs
are enough to overwrite a resource, and to make one its own ancestor. Two tasks are
enough for one to act while the other waits; they are symmetric, and the
properties name no task, so the symmetry is sound for the safety runs and is not
used in `deliveries`. In `requests` and `reused_ids_tree` deadlock is not checked: a task that hangs in
the path query with the CPU stops the node for good, which is what the code does.

In `daemon`, header blocks of one to three bytes and a buffer of three make
requests that fit with room, exactly, and not at all, that come in one piece or
two, that promise more than they bring, that spell Content-Length in each of three
ways, that declare -1 (a `size_t` has four bits, so that the sum wraps), and
that end where the parser takes the
position for a failure; the connection of a handler and two others meet a limit of two
clients. `messages` has one request for each thing a client can vary (media types,
the place of the resource type, the query, Content-Length, the method,
well-formedness), one for each kind of resource and marker, each shape of text,
and three configurations of the CSE, among them one whose CSE-ID looks like a
service provider; every address is tried in each of its spellings. Varying one thing at a
time is enough because the conversions look at each of them on its own. In
`peers` the switch holds up to two subscriptions, so that a repeated one shows; the
timeouts are one or two steps, since only their passing matters; and one fault lets a node
fail once at every step of the other, which then may start again. The proofs of
section 6 have no such bounds. Deadlock is not checked in these three: requests
run out, a request ends, and nodes may halt.

Runs that expect a violation document a disagreement between the code and what
its comments or documents say (`findings` in `PROJECT.json`):

| Run | The code does |
|---|---|
| `resume_spid` | after a restart with an existing database the SP-ID stays empty, so that every absolute address is NOT_FOUND |
| `orphan_ae` | power failing between the two rows of an AE leaves half of it: its registration is in CONFLICT for ever |
| `reused_ids_tree` | a generated ID that equals the originator of an AE overwrites the AE |
| `id_named_container` | a container named like another's ID is counted in its place, so that the limit is exceeded |

More that the modules follow without a run of their own. In `CseService`: a container whose first
row survived a power failure is created again under the same path, which still
leads to the half row (why `CreatedIsReachable` is checked without power
failures); a subscription to a container whose URI is an AE-ID is refused
(`VerifySubscription`); and a container with a name of two characters cannot be
retrieved by its path (`LookupTarget`). In `Messages` and its parts:

- the filter criteria of a query never reach the service, which is given a copy
  without them (`http_adapter.cpp:333`), and the size filters are never filled in;
- a creation whose answer is asked for as `*/*` is done and answered 500
  (`http_adapter.cpp:391`); hence the condition on media types in
  `SuccessAgrees`;
- the location of what was created is given as its originator
  (`http_adapter.cpp:383`);
- a creation without a body loses its resource type and is taken for a
  notification;
- a CSE-ID with a dot, a dash or a colon is taken for a service provider behind
  `/~/`, and a child that is named like the CSE-ID may be skipped
  (`AreDistinctive`, `IsPlainPath`);
- a notification about a resource of an originator without a name is refused by a
  peer of this kind (`isValidRequest`);
- the criteria of a subscription about times and sizes are read from a request but
  never written into an answer or a request (`CriteriaWritten`);
- a text with quotes gains backslashes at each hop, a text that only begins like a
  JSON value is changed ("007" becomes 7), and the empty text becomes "null"
  (`Faithful`).

In `NodeStartup` and `P2PNodes`:

- Circle registers a task in the constructor of its base class, so that the
  scheduler runs a P2P node whose constructor gave up (`p2p_node.cpp:30`); the node is
  stuck (`StartServicesFails`);
- a restarted node that still has subscribers serves notifications before its
  handler is set (`system_manager.cpp:109`); `CrashOnlyWhileConstructing` says that there is
  no other time;
- a subscription repeated after a timeout is stored twice;
- `Restart` counts its sleeps and compares them with milliseconds
  (`network_manager.cpp:135`);
- a lost notification is not repeated (`inStep`), and a node that starts with
  `clean_db_on_boot` forgets a subscription its peer believes in, which the run
  does not include.

## 5. Fairness

`FairSpec` assumes weak fairness of the steps of the task that holds the CPU,
because nothing else runs, and strong fairness of a task's return from a wait.
The latter is what Circle's scheduler gives: it is round-robin, so a
task whose wait has ended runs in each turn, but between two turns another task
may hold the CPU, so the return is enabled again and again rather than for ever. The wait does end,
because `HttpClient` gives up after its timeout. Nothing is assumed of clients,
of the peers' verdicts, or of power.

In `HttpDaemon`, weak fairness of each worker's and client's next step: Circle
serves tasks in turn, and each wait in `Receive` or `Connect` has a timeout. Not
of the network, and not of when clients connect. `SlotsAreReturned` needs that a
handler's own request ends even when the daemon is full, which it does because it
is turned away, or times out in the queue.

In `P2PNodes`, weak fairness of the task that runs `SystemManager::Run` on each
node and of the light's example. Of the network and the switch's workers, strong fairness of the
four steps of a subscription (the request is taken, the question agreed to, the
row saved, the answer read in time): the network need not deliver any
particular attempt, but it must not lose or delay every one of them. That
is what the code's loop relies on, and the reason to have a
loop. `EventuallySubscribed` speaks of the light because both run the same code.

## 6. Proofs

| Theorem | Statement | Provisions |
|---|---|---|
| `TypeCorrect` | `Spec => []TypeOK` | none |
| `TreeImplemented` | `Spec => TreeSpec` | `NoIdClash`, `Reliable` |
| `LookupsStable` | `Spec => LookupStable` | `NoIdClash`, `Reliable` |
| `NotificationsStored` | `Spec => []NotifiedIsStored` | `NoIdClash`, `Reliable`, `"id" \notin Faults` |
| `SubscribersNotified` | `Spec => []AckedIsNotified` | `NoIdClash`, `Reliable`, `NoNameClash`, no fault `id` or `deliver` |
| `AckedIsDurable` | `Spec => []AckedRetrievable` | `NoIdClash`, `Reliable`, `NoNameClash`, `"id" \notin Faults` |
| `StoredPathsCurrent` | `Spec => []PathsCurrent` | `NoIdClash`, `Reliable` |
| `PathQueriesEnd` | `Spec => [][no HangInPathQuery]_vars` | `NoIdClash`, `Reliable` |
| `AEsAreDistinct` | `Spec => []AEsDistinct` | `NoIdClash`, `Reliable`, `"name" \notin Faults`, `DefaultNamesApart` |
| `LimitsAreRespected` | `Spec => []LimitsRespected` | `NoIdClash`, `Reliable`, `NoNameClash`, no fault `id` or `count` |
| `OwnersRetrieve` | `Spec => []RetrievedByOwner` | `NoIdClash`, `Reliable`, `NoNameClash`, `"id" \notin Faults` |
| `LatestIsAvailable` | `Spec => [](Whole => LatestAvailable)` | `NoIdClash`, `Reliable`, `NoNameClash`, `NeverDisabled`, `"id" \notin Faults` |
| `CreatedIsFound`, `ConflictsAreRegistered` | `Spec /\ []Whole => []CreatedIsReachable`, `[]ConflictMeansRegistered` | `NoIdClash`, `Reliable`, `NoNameClash`, `ByPath`, `NamesApart`, `"id" \notin Faults` |
| `RowsStayWhole` | `Spec => []Whole` | `NoIdClash`, `Reliable`, `NoFailures`, `"id" \notin Faults` |
| `CountStaysExact`, `HandlersSeeWholeBodies`, `OkIsHandled`, `RefusalsHaveReasons`, `CrashesOnlyByNegativeLengths`, `DaemonTypeCorrect` | `Spec => []P` for the six invariants of `daemon` | none |
| `SubscribedIsStored`, `CrashesOnlyWhileConstructing`, `LightStaysInStep`, `PeersTypeCorrect` | `Spec => []P` for the four invariants of `peers` | none |
| `AddressesLeadToPath` | every spelling of an address is local and leads to its path | `AreDistinctive`, `IsPlainPath` |
| `AddressesAlwaysAgree`, `SuccessAlwaysAgrees`, `MessagesTypeCorrect` | `Spec => []P` for three invariants of `messages` | none beyond those in the invariants |
| `RequestsAlwaysSurvive` | `Spec => []RequestSurvives` | `OnlyCreatesTyped`, `AllCriteriaSent` |
| `TextsAlwaysSurvive` | `Spec => []ContentSurvives` | `TextsMeant` |
| `NotificationsAlwaysAccepted` | `Spec => []NotificationsAccepted` | `NodesNotify` |

With these every invariant of a passing run is a theorem, and so are the action
property and the refinement. TLC evaluated the provisions for the constants of
the runs in question, and the inductive invariants below on those runs. Two runs go
beyond a theorem: `power` includes the fault `seed`, which `Reliable` excludes, so
that its properties rest on TLC alone where the CSEBase is stored once more; and
`deliveries` is about liveness besides.

The theorems about the service hold for every set of tasks, identifiers, requests, faults and boots
that meets the assumptions named in `ResourceStore` and `CseService`:
that NULL is no identifier, that the generated IDs are distinct, and
that `CreateRequests` are well-formed.

`NoIdClash` says that no AE brings an originator that the CSE uses as an ID or
will generate. It is not a convenience: `reused_ids_tree` is the counterexample
without it. `"id" \notin Faults` is needed because a resource saved without an
ID is notified but can never be looked up.

Some failures break a promise by what the code does about them, and the theorem
excludes them. TLC confirms each: with the fault among the `Faults` of
the run it violates the property.

| Fault | What it breaks | Why |
|---|---|---|
| `name` | `AEsDistinct` | the name of another AE counts as free (`database.cpp:1611`) |
| `count` | `LimitsRespected` | instances that cannot be loaded are not counted (`onem2m_service.cpp:1084`) |
| `deliver` | `AckedIsNotified` | what cannot be loaded is passed over, and the create answered CREATED (`onem2m_service.cpp:1776`, `1794`) |
| `aei` | `AckedRetrievable` | an AE registers a second time under its ID and replaces the first (`database.cpp:1634`) |
| `prepare`, `commit` | `AckedRetrievable`, `LookupStable` | what was answered CREATED in a transaction that stays open is taken back (`database.cpp:211`, `228`) |

`Reliable` says that `prepare`, `commit`, `aei` and `seed` are not among the `Faults`. Of
`seed`, a CSEBase that is there and is not found at boot, TLC finds nothing broken; it is
in `Reliable` because the new row is not the first one, on which the argument
(`RootFirst`) rests. The other provisions are explained with the theorems that need them.

*Type correctness.* `TypeOK` alone is not inductive. `TypeInv` adds that a task
that is not idle has a resource, that the table is finite and that
it has a last row; the last is what makes `NextRowid` a number without an
induction over the table, and each save re-establishes it, because its row is the
new last one.

*The tree.* `TreeInv` relates the three places an ID can be: in the tables, with
a task that has not saved yet (`PendingFresh`, `PendingDistinct`), or not yet
generated (`KnownIds`). An ID an AE brings is checked against the `ae` table only
once, before two commits; that it is still unused at the second one rests on its
task keeping the CPU from the check to the save, which is a conjunct of
`KnownId`. `HasParent` says the parent a waiting task found is still there;
`RootFirst` that the CSEBase is the first row, whence the boot of an existing
database finds it and does not seed it again. From these, each step creates one
whole resource, starts, stops, or leaves `Stored` alone.

*Lookups.* The first row of a new resource gets the highest rowid and replaces at
most a half row, so the first match stays the first.

*Notifications.* `DeliveryInv` adds that a task that delivers has its resource
stored, and that each piece of work it has left was expanded from a stored
subscription. By the tree theorem's step these do not go away while it waits.

*Every subscriber.* `NotifyInv` says, for each task that delivers, that every
notification its resource is owed was sent or has an item on the agenda that leads
to it (`Promised`); each expansion replaces an item by items that lead where it
led (`WorkAndRest`). Who is owed one does not change meanwhile: only
subscriptions with a smaller rowid count, the second row is saved for the last
first row (`SavesLast`, which rests on the task keeping the CPU), so nothing
stored later slips in before it. That an item finds the subscription it is about
needs `NoNameClash`: no resource is named like an ID that exists or will be
generated, since the three-way lookup would find a resource of that name in its place. The run
`id_named_container` shows what such a name does to another lookup.

*Durability.* With the same invariant an acknowledged resource is stored, both rows, when its answer
leaves, stays stored by the tree theorem's step, and is the only row its ID matches.

*Paths.* `PathInv` adds that every row but the CSEBase's lies under a parent both rows
of which are stored, and has the path of that parent with its own name
(`UnderStored`). An induction over the generations, in first-order form (see
below), turns that into what the path query returns, and into the absence of
cycles: the query ends.

*Distinct AEs.* `CheckedInv` says what a task may still rely on: between the
checks of a creation without verification and its first row nothing else happens
(`Uninterrupted`), because the task keeps the CPU. So the name `CreateAE` looked for
in the table is still free when the row is saved, if its query did not fail. A name the CSE makes up is not
looked for; `DefaultNamesApart` says that it is not asked for by an AE either,
and differs for different IDs, which the code leaves to the prefix and the
counter.

*Limits.* They are checked before the save and the sum is over a table that other
tasks change. `PendingFits` says that an accepted instance still fits; with
`Uninterrupted` it does until its second row is saved, and only that row adds to the sum
(`InstanceSize` and the lemmas on folds over sets of rows). `NoNameClash` makes the
container that is counted the one that is stored, as `id_named_container` shows.

*Owners.* Authorisation walks up from the target until it meets an AE or the
CSEBase. By induction over the ancestors, that is the resource the property names
(`Owners`), and a row keeps its ancestors as the tree only grows, so the last
answer stays one to its owner (`ReplyGoverned`).

*Whole resources.* Three properties need that no resource was left with one row
of two: a half container hides what is below it, and a half AE is in CONFLICT with its
own registration (`orphan_ae`). `Whole` is that condition, about the tables
and the one task that may be between its two rows; `RowsStayWhole` proves it from there being
one life and no failing second statement, and `AnswersAreTrue` combines the two.
Where it holds the theorems put no bound on restarts or other faults.

*The latest instance.* `LatestInv` adds that the rowids are distinct and that
containers are stored as asked for, so that `NeverDisabled` (no container is
created with `disr`) keeps retrieval allowed. The lookup of `la` takes the
highest rowid among the instances that are whole, and an acknowledged one is whole.

*What an answer says.* `PlacesInv` relates each row to a request that asked for its
place (`RowsRequested`), each task to the row it is about to acknowledge, and the
last reply to a stored row at the path it speaks of (`ReplyStored`). A request may name its
parent by an ID, under which no child is looked up: `ByPath` leaves those out;
and `NamesApart` that two types compete for one path. For these two, `Whole` at the time of
the answer would not be enough: CONFLICT may be answered because of a half AE, the
half may be replaced later, and only the tables' past tells; hence
`[]Whole` in the hypothesis.

*The daemon.* The theorems hold for any finite set of connections, any requests, and any
limits, backlog, buffer size and modulus of `size_t` that meet `DaemonAssumption`. `LengthsParsed`
is the arithmetic of the two searches and the two sums: a natural length that one of
them does not see is refused, or left out, by the other. A worker never receives more
than its buffer has room for, whatever length it computed, which is in `TypeOK`
(`got`). `DaemonInv` follows each connection on its own (`ConnInv`):
a worker exists only for an accepted connection and works on its client's request
(`Accepted`), what it handles was parsed whole and what it refused has a reason
(`Handled`), an answer is sent only by a worker that has ended and says success
only after the handler (`Answered`), and a client has a part of that answer
(`Arrives`). `CountIsExact` is its only conjunct about several connections; a step
changes the set of live workers by one at most.

*The nodes.* For any timeouts, and any number of faults and subscriptions.
`PeersInv` adds to the properties what an exchange promises (`Fine`): an answer
that says a subscription was created finds it stored, for which the order of save and answer, and
the card surviving failures, are needed; a notification that can still arrive,
while `inStep` holds, says what the switch's state is. `HandlerInv` says that the
handler is missing from a running node only while its constructor waits.

*Addresses and success.* `AddressesLeadToPath` goes through the forms of an
address with lemmas on what stands before and after a prefix, without induction: a
path is only ever cut at its front. `WayInv` carries the address from the sender's
primitive over the message to the receiver's, and says that a notification stays
one. `AnswerInv` says that only a valid, decoded request is answered with success,
and that the two status mappings keep success, conflict and failure apart.

*What arrives.* `CarryInv` says that the message is the sender's primitive encoded,
the receiver's primitive that message parsed and decoded, and what was created the
content of that. The rest is about the conversions themselves: which
fields and attributes each keeps (`NodeFields`, `ClientFields`, `ReceivedFields`,
`RoundTripFields`, `ReadIsWritten`), what becomes of a text (`FaithfulTexts`), and
that it holds again for the notification that a creation sets off, over
any number of hops. `OnlyCreatesTyped` is the rule that a resource type belongs to a
creation; with another method the type in a header would turn a notification
into a creation. `AllCriteriaSent` leaves out subscriptions with criteria of
times and sizes, which are read and stored but never written
(`json_codec.cpp:363`). `TextsMeant` and `NodesNotify` say that the request
carries the text its author means and that what nodes post is made by
`BuildNotification` or is a verification.

*Induction.* The provers have no induction rule that takes a formula. Where one is
needed (the path query, the sum of sizes, the ancestors) it is written first-order:
a set of numbers without a least element is empty (`LeastNumber`), a family of
finite sets has a minimal one (`MinimalSubset`), both from the library's theorem
that strict inclusion of finite sets is well-founded. It costs a set comprehension and
a case in each proof, and works for concrete recursive functions only.

Only model-checked: liveness under fairness (`EveryCreateAnswered`,
`SlotsAreReturned`, `PhasesPass`, `EventuallySubscribed`), since temporal reasoning about
ENABLED is out of the prover's reach; the fault `seed` in `power`; and that the runs which expect a violation
find one.

## 7. Not modelled

- *Configuration parser*: runs once, before anything else, and keeps nothing; its
  results are constants here.
- *SQLite file layer*: passes calls on to FatFs. The atomicity and durability of
  one SQLite statement are assumed, and with them this layer.
- *Router, index page*: nothing registers them.
- *Statistics and idle tasks*: they print and sleep.
- *Validation of a subscription's attributes*: one refusal (`flaw`), as it depends on
  values alone and changes nothing.
- *Kinds of resource no operation takes* (groups, time series, FlexContainers and
  their codecs): the service refuses them before it looks at them.
- *Memory*: allocation does not fail here, and is not counted. Each notification leaks its copy of
  the resource (`onem2m_service.cpp:118`), so that a node that publishes for long
  enough runs out.
- *Vendored code*: SQLite, the ACME test suite, jsmn and Circle.
