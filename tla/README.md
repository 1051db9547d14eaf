# QGroundControl vehicle protocols in TLA+

QGroundControl (QGC) is a ground station for MAVLink vehicles, written in C++
on Qt. Almost all of its 4758 files are user interface, settings, device
drivers, generated message code and assets. What can go wrong without a crash
report, and what a unit test hardly reaches, is in a dozen classes that talk to
a vehicle over links that lose, delay, repeat and reorder messages. This
directory models those classes, checks them with TLC and proves what it can
with TLAPS. Paths below are relative to `src/src/` of the repository.

Everything modelled so far runs on one Qt event loop: a step of a model is a
slot, a handler or a timer that runs to its end, and the interleavings are
those of messages, timers, calls from the user interface, calls from result
handlers, link changes and shutdown.

The `.ts` files under `src/translations` are Qt translation catalogues (data, not
TypeScript); the program is the C++ under `src/src`.

Contents: 1 inventory, 2 modules, 3 runs, 4 what the code does otherwise than
it says, 5 proofs, 6 only checked, 7 not modelled, 8 plan.

## 1. Inventory

| Component | State | Operations | Talks to | What is hard | Correct when |
|---|---|---|---|---|---|
| `Vehicle/MavCommandQueue` | list of pending commands with tries and timers, `_stopped` | `sendCommand*`, `sendWorker`, `handleCommandAck`, `_responseTimeoutCheck`, `stop` | called by nearly everything; sends on the primary link; runs result handlers | an ack names only component and command; retry races ack; handlers call back; stop with work pending | each call is reported once, retried only if safe, always ends |
| `Vehicle/RequestMessageCoordinator` | active request and FIFO per component, ack/message flags, wait timer | `requestMessage`, `_cmdResultHandler`, `handleReceivedMessage`, `stop` | uses MavCommandQueue; sees every inbound message | ack and message in any order; refusals recurse; raw pointers held by the command queue; time-out only on traffic | each request is answered once, in order, with both ack and message |
| `MissionManager/PlanManager` and `MissionManager` | transaction, expected ack, timer, indices left, item lists, resume flag | `loadFromVehicle`, `writeMissionItems`, `removeAll`, `generateResumeMission`, `writeArduPilotGuidedMissionItem`, four message handlers, `_ackTimeout` | mission microservice of the vehicle; signals to the plan controllers | late and repeated messages, refusals, retries per phase | a transfer that succeeds leaves the same plan on both sides; none is partial; all end |
| `MissionManager/GeoFenceManager`, `RallyPointManager` | a PlanManager each, polygons and points | `loadFromVehicle`, `sendToVehicle`, `removeAll` | PlanManager | decoding of partial or foreign plans | the fence shown is the fence flown |
| `MissionManager/PlanMasterController` | chain flags `_loadGeoFence`, `_loadRallyPoints`, `_sendGeoFence`, `_sendRallyPoints`, dirty flags | `loadFromVehicle`, `sendToVehicle`, `removeAllFromVehicle`, vehicle change | the three managers, one after the other | one of three transfers fails; a call comes in mid-chain | not dirty only if the vehicle holds the plan |
| `MissionManager/MissionController` and visual items | editing model | insert, move, delete items | PlanMasterController | large, but local | user interface |
| `Vehicle/VehicleLinkManager` | links of a vehicle, loss flag and heartbeat timer per link, primary link | `mavlinkMessageReceived`, `_commLostCheck`, `_addLink`, `_removeLink`, `_updatePrimaryLink` | LinkManager, every sender | several links lost and regained in turn | the primary link is a live one if there is one; the loss shown is true |
| `Vehicle/FTPManager` | state machine list, session, sequence number, missing blocks, ack timer | download, upload, list, delete, cancel | FTP server of the vehicle; metadata and parameter files | lost and repeated packets, burst reads with holes, cancel races | the file is complete or an error is reported; never busy for ever |
| `MAVLink/Signing/SigningController` and channel | pending operation, key, timer, acceptance policy | `beginEnable`, `beginDisable`, `processFrame`, time-out | link threads and main thread | the confirming frame races the timer on another thread | exactly one outcome per begin |
| `FactSystem/ParameterManager` | indices waited for, batch queue, retry counts, cache | initial load, refresh, write with read-back | vehicle, FTPManager for the packed file | missing indices, retries in batches, stale cache | ready only when all parameters are there |
| `Vehicle/InitialConnectStateMachine` | sequence of connect steps | entry, result, time-out of each step | RequestMessageCoordinator, ParameterManager, the plan managers | late results of a skipped step | the sequence ends |
| `Vehicle/ComponentInformation` | queue of components, download per type | request and translate metadata | FTPManager, HTTP | one of many downloads fails | every type ends |
| `Gimbal`, `Camera` | discovery and settings per device | requests with retries | MavCommandQueue, RequestMessageCoordinator | retries from several timers | discovery ends |
| `Vehicle/TerrainProtocolHandler`, `TerrainQueryCoordinator` | current request, queued queries | answer terrain requests | vehicle, tile cache | answer for a request replaced meanwhile | only the asked tile is sent |
| `Vehicle/MultiVehicleManager` | list of vehicles, active vehicle and its flags, timers of 20 ms | `_vehicleHeartbeatInfo`, `setActiveVehicle`, `_deleteVehiclePhase1`, `_deleteVehiclePhase2` | the link managers of the vehicles, the user interface | two timers with pointers to vehicles that go; late messages of a vehicle being deleted | each vehicle is deleted once; the active one exists and is listed |
| `Vehicle/Vehicle` | the objects above | dispatch, shutdown | all | teardown with callbacks pending | no callback into a destroyed vehicle |
| `Comms` | links with a count of vehicles, channels, framing | open, close, send, receive | sockets, serial ports | closing is asynchronous; the rest is I/O | a link is open while a vehicle uses it |
| `Utilities/StateMachine` | wrapper of Qt state machines | | InitialConnect, FTP users | | |
| GPS, ADSB, video, joystick, maps, log analysis, QML | | | | drivers, files and rendering | |

How they interact. `Vehicle` hands each inbound message to
`MavCommandQueue::handleCommandAck` (for a COMMAND_ACK), to
`RequestMessageCoordinator::handleReceivedMessage` and, by the signal
`mavlinkMessageReceived`, to the managers that are connected at the moment.
`RequestMessageCoordinator` is a client of `MavCommandQueue` and gives it a raw
pointer to the request as handler data. The plan managers share nothing but the
link. On shutdown `Vehicle::_stopCommandProcessing` calls `stop()` of the queue,
then of the coordinator; the result handler of a reboot command does so, too, when the
command is accepted (`Vehicle::_rebootCommandResultHandler`). `PlanMasterController`
runs the three plan managers one after the other by their completion signals, which
other users of the managers (the Fly view, the initial connect) cause as well.
`FTPManager` has one user at a time and tells others that it is busy.
`VehicleLinkManager` sees each message of its vehicle first, adds the link it came on,
and signals `allLinksRemoved` to `MultiVehicleManager`. Every sender looks up the primary link at each send and
quietly sends nothing if it is gone.

The hazards of this code, each at its line and with the properties aimed at it,
are in `PROJECT.json`.

## 2. Modules

    CommandService ........... what a caller of the command queue may rely on
      ^ implemented by
    MavCommandQueue .......... the queue, the link, the vehicle's command server
      MCMavCommandQueue          instances;  MavCommandQueue_proofs   proofs
    RequestMessageCoordinator  on top of the service
      MCRequestMessageCoordinator instances;  RequestMessageCoordinator_proofs   proofs
    PlanTransaction .......... what a plan manager promises the controllers
      ^ implemented by
    PlanManager .............. transfers, with an external vehicle
      MCPlanManager              instances;  PlanManager_proofs   proofs
    PlanMasterController ..... the chain of three such managers and the dirty flags
      MCPlanMasterController     instances;  PlanMasterController_proofs   proofs
    FTPManager ............... files, with the vehicle's FTP server and the link
      MCFTPManager               instances;  FTPManager_proofs, FTPExactness_proofs   proofs
    VehicleLinkManager ....... the links of a vehicle: functions on its state
      ^ extended by
    MultiVehicleManager ...... several vehicles and links, and their events
      MCMultiVehicleManager      instances;  MultiVehicleManager_proofs   proofs

Definitions beginning with a "Fault:" comment are mutated versions of the
definition that follows them; no action uses them. They are what each property
is tried against: each property must fail when its fault is put in.

### MavCommandQueue

| Model | Code |
|---|---|
| `pending`, read in increasing order | `_list` |
| `tries`, `maxTries`, `expired` | `tryCount`, `maxTries`, `elapsedTimer` past `ackTimeoutMSecs` |
| `probing` | entries whose handler is `lambdaFallbackResultHandler` |
| `support` | `FirmwarePluginInstanceData::MAV_CMD_supported` |
| `Call` = `RunLambda`, `Drop`, `Refuse`, `NoLink` or `Enqueue` | `sendCommand*`, the fallback worker and `sendWorker`, by its early returns |
| `StartTimeoutCheck`, then `CheckEntry` from the last entry down | `_responseTimeoutCheck` with `_sendFromList`: `GiveUp` or `Resend` |
| `handleCommandAck` = `IgnoreAck`, `EndByAck`, `NoteProgress`, `EndByProgress` | `handleCommandAck` |
| `stop`, `LinkChanges` | `stop()`, loss and return of the primary link |
| `VehicleAnswers`, `VehicleFinishes` | external: a vehicle that answers commands with a result or with IN_PROGRESS and later a result |

A call is named by its position in the order of calls. The list is appended to
at the end and shortened anywhere, so its order is the order of those positions
and a set is enough. A result handler is the last thing a function of the queue
does; what a handler calls is a step right after it. Only the walk of the timer
goes on after a handler, which is why the walk is several steps (`scan`) with
calls allowed between them; acks, link changes and `stop()` come from other
events and wait until it ends. A resend does not restart `elapsedTimer`, hence
`expired` stays set and the next timer tick tries again, as in the code. The
guard for START_RX_PAIR (lines 374-378) cannot be reached, the command being
outside `_shouldRetry`, and is left out. `sendCommandDelayed` is a later call.
COMMAND_INT has no confirmation field; both kinds are otherwise alike.
`ackOf`, `reports`, `lambdaRun`, `progressed` and `sends` are history.
Messages never delivered are lost ones, delivery is unordered, and duplicates
come from retries.

### RequestMessageCoordinator

| Model | Code |
|---|---|
| `active`, `queue` | `_infoMap`, `_queueMap` |
| `acked`, `arrived`, `overdue` | `commandAckReceived`, `messageReceived`, `messageWaitElapsedTimer` past its limit |
| `requestMessage` = `FailDuplicate`, `Enqueue` or `SendNow` | `requestMessage` |
| `cmdResultHandler` = `CommandFails`, `CommandAcceptedLast`, `CommandAcceptedFirst` | `_cmdResultHandler`, called by the command queue |
| `handleReceivedMessage` = `MessageBeforeAck`, `MessageAfterAck`, `Tick` | `handleReceivedMessage` |
| `Finish`, `SendNext` | `_removeInfo`, `_sendNextFromQueue`, `_sendNow` |
| `serving`, `others` | the MAV_CMD_REQUEST_MESSAGE entry of the command queue, ours or another sender's |
| `stop` | `Vehicle::_stopCommandProcessing` |

The command queue below is replaced by what `CommandService` and `NoTwins` say
of it: it takes up one REQUEST_MESSAGE per component, refuses others at once,
ends each one once. A refusal runs `_cmdResultHandler` inside `sendWorker`; it
removes the request and sends the next one of the queue, which is refused for
the same reason, and so on. The model does this recursion in one step, with the
whole queue of the component refused. The handlers of the requesters run when
the maps are in their final state, so what they request is a later step. Requests
to MAV_COMP_ID_ALL, which the queue always refuses, are not modelled. The class
does not remember `stop()`: a request made later is entered in the map, its
command vanishes in the queue, and its handler never runs. Those requests are in
`dropped` with the ones `stop()` cleared.

### PlanManager

| Model | Code |
|---|---|
| `transaction`, `expectedAck`, `timer`, `connected`, `retryCount` | `_transactionInProgress`, `_expectedAck`, `_ackTimeoutTimer`, the connection to `mavlinkMessageReceived`, `_retryCount` |
| `toRead`, `readCount`, `toWrite` | `_itemIndicesToRead`, `_missionItemCountToRead`, `_itemIndicesToWrite` |
| `items`, `writeItems`, `resume` | `_missionItems`, `_writeMissionItems`, `_resumeMission` |
| `loadFromVehicle`, `writeMissionItems`, `removeAll`, `generateResumeMission`, `writeArduPilotGuidedMissionItem` | the same, ignored while a transaction is in progress |
| `handleMissionCount`, `handleMissionItem`, `handleMissionRequest`, `handleMissionAck` | the four handlers, with every early return |
| `ackTimeout`, one disjunct per expected ack | `_ackTimeout` |
| `Finish` | `_finishTransaction` |
| `Vehicle(m)` | external: answers, receives an upload aside and takes it over with the last item, or refuses with an error |

Messages are sets that only grow, so that each can arrive any number of times
(redundant links, retries), in any order, or never. The variable `setting` is
chosen at the start and does not change: the firmware (`sendHome`), whether messages
outlive their transaction (`stale`; without it the sets start empty with each
transaction), and the number of transactions.
`connected` is a boolean although `_removeAllWorker` connects once more with each
retry: a message then arrives twice at the slot, the first end disconnects both,
and a repetition is a behaviour of the model anyway. `Strays` are messages of the
fence manager of the same vehicle. The indices are kept as sets (the code's
lists are sorted and free of repetition). DO_JUMP targets are modelled, since
their numbering is converted. In `generateResumeMission` the commands copied
from before the resume point are left out, and so are the inputs at which the
code indexes a list out of range. Not modelled: progress percentages, error
texts, `_lastMissionRequest`, the current item index, the MISSION_ACK sent to
the vehicle after a download, the home position taken from a spurious item 0,
and offline vehicles, for which every call returns at once. The handlers of the
signals start transactions of other managers only.

`PlanTransaction` is the view of the controllers: one transaction at a time, and
what becomes of the list in each. `PlanManager` refines it by mapping a write
begun by a guided item to the abstract kind "guided".

### PlanMasterController

The controller of the Plan view with the parts of `MissionController`,
`GeoFenceController` and `RallyPointController` that move a plan between the
editor and the three managers. Its state is one record `gcs`, and slots are functions
from such records to such records; an action is an event with every slot it runs,
in the order in which Qt runs them, since each change of a dirty flag runs
`_updateOverallDirty` at once.

| Model | Code |
|---|---|
| `view` | contents of the three controllers |
| `dirty`; `forSave`, `forUpload` | `dirty()` of the controllers; `_dirtyForSave`, `_dirtyForUpload` |
| `requested` | `_itemsRequested` of the controllers |
| `chain` | `_loadGeoFence`, `_loadRallyPoints`, `_sendGeoFence`, `_sendRallyPoints` |
| `busy`, `mine`, `held`, `sending` | the managers: transaction in progress, whether the chain began it, list kept, list being sent |
| `EndTransaction` = `EndRead`, `EndWrite`, `EndRemove` | `newItemsAvailable`, `sendComplete`, `removeAllComplete` and their slots, with the next leg of the chain |
| `loadFromVehicle`, `sendToVehicle`, `removeAllFromVehicle`, `removeAll`, `saveToFile`, `loadFromFile` | the same |
| `Edit` | changes in the three editors |
| `activeVehicleChanged`, `AnswerPrompt` | `_activeVehicleChanged`, the prompt it may show, `showPlanFromManagerVehicle` |
| `InitialLoad`, `InitialLoadDone` | the downloads of `InitialConnectStateMachine` |
| `OtherWrites`, `ChangedElsewhere` | the Fly view as another user of the managers; another ground station |

A transfer is one step that begins it and one that ends it, well or not, as
`PlanTransaction` promises; `run`, `legs` and `smooth` are history (the chain being
followed, its transfers so far, whether anything has interfered). A plan is a set of
elements in each part. The fence stands for its breach return point; polygons and
circles, whose list models have a dirty flag of their own, file names, templates and
the Fly view's own instance are not modelled.

### FTPManager

State is one record `gcs` again, and the handlers are functions on it.

| Model | Code |
|---|---|
| `machine`, `stage` | `_rgStateMachine` (which list of stages), `_currentStateMachineIndex` |
| `expected` | `_expectedIncomingSeqNumber`, 16 bits wide |
| `timer`, `retry` | `_ackOrNakTimeoutTimer`, `retryCount` of the operation |
| `dl`, `ul`, `ls`, `del` | `_downloadState`, `_uploadState`, `_listDirectoryState`, `_deleteState` |
| `withTime` | `_listDirWithTimeSupport` |
| `download`, `upload`, `listDirectory`, `deleteFile`, `badPath`, the four cancels | the same; `badPath` is a call refused for its path |
| `Receive` with `...AckOrNak` | `_mavlinkMessageReceived` and the handler of the stage |
| `Timeout` with `ackOrNakTimeout` | `_ackOrNakTimeout` and the timeout of the stage |
| `Serve`, `Refuse`, `FallSilent`, `Unheard` | external: the vehicle's server, which repeats its last answer to a repeated number |
| `LoseRequest`, `RepeatRequest`, `LoseReply`, `LinkChange`, `Receive(i, TRUE)` and `Receive(2, again)` | external: a link that loses, repeats and overtakes; no primary link |

A message carries one block, entry or chunk; a file or directory is named by its
length. `call`, `signals`, `waiting` (`FTPController::_operation`), `orphan` and
`unsent` are history. Exact means: the blocks that the vehicle has, each once and
in order. Failures of the local file system, component ids, progress and error texts
are left out. Four exceptions are named by the properties (section 7 says what the code does in each): the hang near the wrap of the number (`NearWrap`), an operation
primed by a refused path (`Primed`), an upload whose final reset fails
(`orphan`), contents after a request that found no link (`unsent`).

### VehicleLinkManager and MultiVehicleManager

| Model | Code |
|---|---|
| object `v`, counted in the order of creation; `system[v]` | a `Vehicle` object; `_systemID` |
| `vlm[v]`: `links`, `lost`, `overdue` | `_rgLinkInfo`, `commLost`, `heartbeatElapsedTimer` past its limit |
| `primary`, `commLost`, `enabled`, `autoDisconnect`, `closed` | `_primaryLink`, `_communicationLost`, `_communicationLostEnabled`, `_autoDisconnect`, `_allLinksRemovedSignalledByCloseVehicle` |
| `link`, `refs` | a link that is open, asked to close, or closed; `_vehicleReferenceCount` |
| `listed` (read in increasing order), `active`, `available` | `_vehicles`, `_activeVehicle`, `_activeVehicleAvailable` |
| `timers` | the pending `QTimer::singleShot(20, ...)`, which fire in order |
| `Message` | `MAVLinkProtocol::receiveBytes`: `vehicleHeartbeatInfo` for a heartbeat, then `mavlinkMessageReceived` of every vehicle object of that system |
| `Silent`, `CommLostCheck` | time without messages, a tick of `_commLostCheckTimer` |
| `queue`, `CommandEnds` | the vehicle's `MavCommandQueue` as to MAV_CMD_CONTROL_HIGH_LATENCY: free, waiting for its ack, or stopped; the ack, or the give-up after two minutes |
| `TimerFires` | `_setActiveVehiclePhase2`, `_deleteVehiclePhase2` |
| `LinkClosed`, `LinkOpened`, `DisconnectLink` | the signal `disconnected` with its slots, a new link, `disconnect()` |
| `CloseVehicle`, `SetPrimaryLinkByName`, `SetActiveVehicle`, `SetAutoDisconnect`, `SetCommunicationLostEnabled` | the user, and the classes that switch detection off |

`disconnect()` asks the thread of the link, so messages arrive until `LinkClosed`; a
vehicle object outlives its removal from the list by 20 ms and takes up messages of
its system in that time, which may add a link to it again. The check of the
heartbeats runs once a second and is taken not to fall into those 20 ms. A vehicle is
appended to `_vehicles` when it is created and removed anywhere, so that the order of the list is
the order of creation and a set is enough. The handlers of a link manager are functions on
the record of that manager, one link or message at a time; where an event reaches several
managers (a message, a link that closes) each makes its own step, and only the order
of the signals `allLinksRemoved` they emit could be told apart. `removed` collects those signals
and `Deliver` runs their slot, as the signal is the last thing each handler emits, for the
vehicles in any order. When the primary link changes (`SwitchTo`), MAV_CMD_CONTROL_HIGH_LATENCY
tells the link that is left to stop and then the one that is chosen to transmit, each
if it is a high latency link, through `MavCommandQueue::sendWorker`. That refuses the command while
the one before is not answered (`MavCommandQueue.cc:274`) and drops it once `stop()` was called, which
happens with the last link and in `closeVehicle`. `told` are the links last told to
transmit, `refused` those for which the last command was not sent. A call sends at most one
command: with a high latency link as primary the best link is that one or no high
latency link at all. The refusal (`refused`), the user's choice of a primary link (`handed`,
`picked`), a vehicle deleted with a link (`leaked`) and an activation of a removed vehicle (`raced`) are the cases in which the
code does less than the properties say; each is history named by the property it
weakens (see section 7). Not modelled: ignored and selected ids, messages with system id 0,
which reach every vehicle (`Vehicle.cc:521`), the flag for ready parameters, the option for one
vehicle, RADIO_STATUS, names and speech.

## 3. Runs

All runs use small sets of model values. `CHECK_DEADLOCK FALSE` is said where
the number of calls is bounded, so that a behaviour rightly ends once everything
has been answered.

| Run | Bounds | Shows |
|---|---|---|
| `command_calls` | 2 calls, 2 tries; a retried command that may answer IN_PROGRESS, one that may be duplicated, PX4 autotune, two with a fallback (one unsupported, one that may fail), one to all components | `ReportedOnce`, `NoTwins`, `AckAttribution`, `FallbackWhenUnsupported`, `SafeResend`, `StopIsFinal`, refinement of `CommandService`, and with fairness `EveryCallEnds` |
| `command_confirmation` | 1 call, 3 tries | violation, see 4 |
| `request_requests` | 3 requests, 2 components, 3 messages for one and 1 for the other | `AnsweredOnce`, `InOrder`, `NoDanglingInfo`, `SuccessNeedsBoth`, and with fairness `EveryRequestEnds` |
| `request_duplicate` | 2 requests | violation, see 4 |
| `plan_transfers` | PX4 and ArduPilot, plans of two items and of none, 1 retry; 3 transactions when no message outlives its transaction, 2 when messages do | `ReadIsComplete`, `WriteSentEverything`, `SignalsItsEnd`, refinement of `PlanTransaction`, with fairness `EveryTransactionEnds`, and without late messages `FreshItemsMatchVehicle` (with them it fails: `plan_oldmessage`) |
| `plan_oldmessage`, `plan_jump`, `plan_guided` | 3, 1 and 1 transactions | violations, see 4 |
| `chain_all` | one element per part, 4 vehicles (each subset of fence and rally supported), 2 files, 3 operations | `ChainCoversPlan`, `ChainMakesEqual`, `DownloadIsClean`, with fairness `ChainEnds` |
| `chain_unsaved` | the same | violation, see 4 |
| `ftp_transfers` | files of no and of three blocks, bursts and answers of two, numbers that start at 65526, session ids 0 and 1, 1 retry, 2 calls, 2 faults | `DownloadIsExact`, `UploadIsExact`, `ListIsExact`, `OneCompletion`, with fairness `EveryOperationEnds` |
| `links_all` | 3 vehicle objects of 2 systems; a shared radio and a satellite link (1 act), one object with a radio and two satellite links (2 acts), a radio and a cable (2 acts), a shared radio and three objects (2 acts); messages, silence, checks, answers to commands and timers unbounded | `PrimaryIsLive`, `HighLatencyControlled`, `ReferencesMatch`, `ListedHasLink`, `ActiveIsListed`, with fairness `SilentVehicleIsLost` |

Why the bounds are enough. Two calls of one command are what it takes for a
late ack to meet another call; two tries (the code has three) give the retry,
the give-up after it, and a second ack; three tries are used where the number
itself matters. Three requests to a component are one active and two queued,
which the refusal recursion and the order need; the second component makes the
order of the time-out and the independence of the queues visible. Three
transactions let a download follow an upload that followed a removal; two items
suffice for order and repetition; `MaxRetry` 1 (the code has 5) gives
transfers that retry, succeed after a retry, and give up (the comparison is
`_retryCount > _maxRetryCount`, so there is one retry more than the name says).
A chain is three transfers whatever the plan is, so one element a part tells
full from empty and equal from different; three operations are an edit, a chain
and something that meets it. Three blocks with bursts of two give a second burst, a
hole, and a hole shrunk by a short read; two faults are the loss that makes the hole and one
more while it is filled; a number that starts at 65526 wraps in the middle of a
transfer. Two links make partial loss and partial recovery, the shared one makes a
count of two, a second satellite link a choice between two of them, and a system that comes
back gives two objects of one system. The refused command needs two messages: a vehicle found on
the satellite and heard on the radio before it answers. A block left over from a burst that was
given up, which `DownloadIsExact` excepts, cannot come about with bursts of two (section 5).

Fairness. `command_calls`: time passes (`AckWindowEnds`), and the repeating
`_responseCheckTimer` fires and walks the list to its end (`StartTimeoutCheck`,
`CheckEntry`); nothing is assumed of the vehicle or of the link. A vehicle that
answers IN_PROGRESS for ever keeps its call pending for ever, as each answer
restarts the timer; in the model it does so once per transmission.
`request_requests`: the command service ends each command (`EveryCallEnds` of the
module below), time passes, and the vehicle keeps sending some message nobody
waits for, as the time-out is checked only on inbound traffic; vehicles send
heartbeats each second. `plan_transfers`: a running `_ackTimeoutTimer` fires at last
(`WF(ackTimeout)`). It can be restarted by repeated messages, and the assumption
is that this happens finitely often. `chain_all`: each transfer ends, which is
`EveryTransactionEnds` of the module below. `ftp_transfers`: the timer fires, the
server answers what reaches it or has fallen silent for good, and a message that was neither
lost nor overtaken arrives. `links_all`: the check of the heartbeats, which is periodic,
comes when it has something to find; nothing is assumed of the answers to commands.

Every property has a mutant of the model which it must reject; they are listed
in `PROJECT.json` with the definitions they replace.

## 4. What the code does otherwise than it says

Each is a run that TLC must find violated, with one property that restates a
comment of the repository.

- `command_confirmation`. "MAVLink spec: confirmation increments on each
  resend" (`Vehicle/MavCommandQueue.cc:416`). The value comes from the copy of
  the entry taken before `tryCount` is incremented, narrowed to `uint8_t`:
  255, then 0, then 1.
- `request_duplicate`. "Exact duplicate request already active or queued for
  this component/message id" (`Vehicle/VehicleTypes.h:28`). While another class
  has its own MAV_CMD_REQUEST_MESSAGE pending for the component, every request
  for any message fails with this code.
- `plan_oldmessage`. "Set of mission items on vehicle"
  (`MissionManager/PlanManager.h:139`). The handlers compare only the plan type
  of a message, and the comment at `PlanManager.cc:562` knows of stale messages
  only of another type. The late ACK of a removal ends a following upload whose
  items were all sent and not all received.
- `plan_jump`. "Write succeeded, update internal list to be current"
  (`PlanManager.cc:829`). For vehicles without home in their plan jump targets
  are lowered before an upload and raised after a download; the list kept after
  an upload has the lowered ones.
- `plan_guided`. "No need to do anything for ArduPilot guided go to waypoint
  write" (`PlanManager.cc:826`). When a guided item is not answered, the
  time-out ends it as a failed upload, with `sendComplete(true)`.

- `chain_unsaved`. "true: Unsaved changes to disk are present, false: no changes
  since last save to disk" (`MissionManager/PlanMasterController.h:51`). The end of
  any download of rally points resets the flag, also of the one of the initial connect,
  which leaves the plan edited meanwhile in the editor.

## 5. Proofs

Each theorem holds for every value of the constants that satisfies the assumptions
named in the module (`ASSUME`): any number of calls, requests, transactions, blocks and
faults, any set of plans, files and components. The instances of section 3 evaluate the
same assumptions. Safety follows the same argument in all modules: the invariants of the
run are not inductive as they stand, so a stronger `IInv` is proved to hold at first and
to survive each action (one lemma per action or per handler), and the properties follow
from it.

### MavCommandQueue (`MavCommandQueue_proofs`, assuming `SetsAssumption`, `BoundsAssumption`)

| Theorem | Statement |
|---|---|
| `TypeCorrect` | `Spec => []TypeOK` |
| `QueueImplementsService` | `Spec => ImplementsService` |
| `QueueReportsOnce`, `QueueHasNoTwins` | `Spec => []ReportedOnce`, `Spec => []NoTwins` |
| `QueueResendsSafely`, `QueueStopsForGood` | `Spec => SafeResend`, `Spec => StopIsFinal` |
| `QueueAttributesAcks` | `Spec => []AckAttribution` |
| `FallbackRunsWhenUnsupported` | `Spec => []FallbackWhenUnsupported` |

`TypeOK` needs that a new call has no history (`Fresh`) and that transmissions are
bounded by tries (`SendsCounted`). `RetriesJustified` says that an entry with tries
left is of a retried command and has not been answered IN_PROGRESS, which is
what makes a resend safe; `StoppedEmpty` says that a stopped queue holds nothing.
The refinement maps an enqueued call to `TakeUp`, the
immediate refusals, the lambda and the silent drop to `EndAtOnce`, an ack and
the give-up to `Complete`, `stop()` to `Abandon`, and everything else to a stutter.
`CommandService` has an invariant of its own, `Accounts`, proved there, and
`QueueReportsOnce` is `Accounts` seen through the refinement mapping: the
property of the implementation follows from the abstract specification.

`AckAttribution` needs the link and the vehicle, too: a call transmitted once is in one
place only, on its way, being executed or answered (`InOnePlace`), and in none once its
answer has ended a call (`Spent`); no call of a command goes out after one that is
pending (`NoLaterTwin`). The search for this invariant refuted a stronger property, which
said that the call whose ack ends another was itself given up or repeated. With three
calls of one command, one more than the run has, the first is given up, its late ack ends the
second, and the ack of the second, which was sent once and not given up, ends the third.
The property now says that the chain goes back to a call that was given up or repeated.

### RequestMessageCoordinator (`RequestMessageCoordinator_proofs`, assuming `ConstantsAssumption`)

| Theorem | Statement |
|---|---|
| `CoordinatorTypeCorrect` | `Spec => []TypeOK` |
| `EachRequestAnsweredOnce` | `Spec => []AnsweredOnce` |
| `RequestsInOrder` | `Spec => []InOrder` |
| `InfoOutlivesCommand` | `Spec => []NoDanglingInfo` |
| `SuccessHasBoth` | `Spec => []SuccessNeedsBoth` |

The invariant says that a component has one active request (`OneActive`), that those
queued behind it are younger, in order, and have had neither ack nor message (`Lined`), that
a request is without outcome exactly while it waits or was dropped (`Accounted`), that one with
both ack and message is over (`BothFinish`), and that after `stop()` no command is under
way (`Quiet`).

### PlanManager (`PlanManager_proofs`, assuming `ConstantsAssumption`)

| Theorem | Statement |
|---|---|
| `TransfersTypeCorrect` | `Spec => []TypeOK` |
| `DownloadsComplete`, `UploadsComplete` | `Spec => []ReadIsComplete`, `Spec => []WriteSentEverything` |
| `TransactionsSignalled` | `Spec => []SignalsItsEnd` |
| `ManagerImplementsTransaction` | `Spec => ImplementsTransaction` |
| `FreshTransfersAgree` | `NoJumps \/ \A s \in Settings : s.sendHome` implies `Spec => []FreshItemsMatchVehicle` |

`Phase` says for each kind of transaction which ack is expected and which lists are empty;
`Wanted` that the indices still to be read and those in the list are all. Both hold
whatever the vehicle sends, and the refinement follows from them.
`FreshTransfersAgree` needs the messages in flight: while none outlives its transaction, each
message of a download carries what the vehicle has at its index, and what has been received of an
upload is a prefix of what is sent (`ReadAgrees` and its counterparts). Its hypothesis cannot
be dropped: the run `plan_jump` is the counterexample, a plan with a jump and
a firmware that keeps no home position in the plan.

### PlanMasterController (`PlanMasterController_proofs`, assuming `InstanceAssumption`)

| Theorem | Statement |
|---|---|
| `ControllerTypeCorrect` | `Spec => []TypeOK` |
| `ChainsCoverThePlan` | `Spec => ChainCoversPlan` |
| `ChainsMakePlansEqual` | `Spec => ChainMakesEqual` |
| `DownloadsLeaveNothingDirty` | `Spec => DownloadIsClean` |

A chain nobody disturbs is at one of its legs (`AtLeg`): one manager is busy, one flag
says what comes next, and the parts before it are done. If nothing failed or changed
meanwhile (`SmoothSoFar`), each part done is equal on both sides and, in a download, not dirty.

### FTPManager (`FTPManager_proofs`, assuming `FtpAssumption`)

| Theorem | Statement |
|---|---|
| `TransferTypeCorrect` | `Spec => []TypeOK` |
| `EachTransferEndsOnce` | `Spec => []OneCompletion` |
| `DownloadLeavesNoGap` | `Spec => []NoGap` |

Either a machine is at a stage of its own and its caller waits and has heard nothing
(`Working`), or all is idle, the timer is stopped, and the last call has had one signal of its
kind (`Resting`). `Recorded` says of a download that the holes are in the order of their
blocks, do not overlap what is written, and make up all blocks up to the offset with it. `NoGap` is
the first conjunct of `DownloadIsExact`, which the run checks; the rest of it is the subject
of the next module.

### FTPManager, exactness (`FTPExactness_proofs`, assuming `FtpAssumption`)

| Theorem | Statement |
|---|---|
| `UploadingIsExact` | `BurstsFit`: `Spec /\ []Timely => []UploadIsExact` |
| `ListingIsExact` | `BurstsFit`: `Spec /\ []Timely => []ListIsExact` |
| `DownloadingIsExact` | `BurstsFit`: `Spec /\ []Timely /\ []NoLeftover => []DownloadIsExact` |

What they assume. Sequence numbers are 16 bits wide, and `_mavlinkMessageReceived` takes a
number for old that is less than half of them behind: after that an old answer passes for
a new one, and no transfer is exact. `Timely` says that this does not happen: the messages on
their way, and the answer the vehicle gave last and would repeat, have a number at most 32767 behind the
one expected, or at most a burst ahead. A step of the manager moves the number by at most
`Burst + 3` (`TurnNumber`), so it takes thousands of them before a message on its way gets too
old; the instance of section 3 has too few calls for one. `BurstsFit` (`2 * Burst + 10 < 32767`)
keeps the blocks ahead apart from the old ones.

`NoLeftover` is about downloads only: when a file is being opened, no block of a burst that
was given up is still on its way with a number that the new burst will use. It is needed. A download
that fails in the middle of a burst leaves up to `Burst - 1` numbers ahead of the one
expected, and the next download moves it by 2 for the `open` and by 2 for the burst; its
session may have the same id. With bursts of five blocks the last block of the old burst,
delayed into the new download, is then taken for a block of the new file
(`_burstReadFileAckOrNak`); TLC finds that with `Burst` 5, files of no and of seven blocks, one
session id and no retry. Nothing in `FTPManager` bounds a burst, and QGroundControl's
`MockLinkFTP` sends nine blocks. The bursts of two in the run are too short for it, so that
the run needs no such assumption and says nothing of this case.

The argument has layers, each an invariant that the next one rests on, and each step of
the specification is first brought down to one of four kinds (`StepCases`): the manager turns
(`Managed`), messages get lost or come twice (`VehicleRests`), the vehicle refuses
(`VehicleRefuses`), or it serves what came first (`VehicleServes`).

- `Turn` and `Does`, of every handler, time-out, call and cancel: the number moves forward by little; it
  stays only if the manager asks the same as before, and a request that is made asks what the
  new stage wants.
- `Traffic`: requests on their way are past and in order, those made last ask what the
  manager wants now, and only blocks of a burst are ahead of the number expected.
- `Listing`: an answer that the manager can take tells what is so, and the entries of a
  list are those before its offset.
- `Uploading`: the vehicle has the blocks before the one in the buffer and perhaps that
  one, in the manager's session; requests that come late are ones it only repeats its
  answer to.
- `Downloading`: the vehicle has the right file open and will open no other, the blocks
  that can be taken are of that file, and holes and blocks written are within it.

All of this holds until a request finds no link (`unsent`), as the properties say.

### MultiVehicleManager (`MultiVehicleManager_proofs`, assuming `LinksAssumption`, `VehiclesAssumption`)

| Theorem | Statement |
|---|---|
| `TypeCorrect` | `Spec => []TypeOK` |
| `BestLinkIsPrimary` | `Spec => []PrimaryIsLive` |
| `HighLatencyIsControlled` | `Spec => []HighLatencyControlled` |
| `LinksAreCounted` | `Spec => []ReferencesMatch` |
| `ListFollowsLinks` | `Spec => []ListedHasLink` |
| `ActiveIsThere` | `Spec => []ActiveIsListed` |

The invariant is stated of the record a handler works with, so that it can be followed
from one function to the next within a handler. Each manager is `Sound`: no link twice, the
primary one among them and as good as any, and no high latency link ever found lost. It is `Sane` while its
primary link is to be chosen anew, and `UpdateSound` says that the choice makes it sound.
`Controlled` is about the commands: as no high latency link is ever found lost, the one chosen is
always the first in the list (`FirstHigh`), until it goes. So, unless the user has chosen a link, at
most one is ever told to transmit, though a command to stop may be refused.
`Kept` says that a listed vehicle's manager can still signal the end of its last link
(the flag of `closeVehicle` is not set), without which a vehicle could stay in the list
with no link. `References` says what a count is even for a link the properties except: the
vehicles that have it and some deleted ones. It never gets below the number of vehicles, so
the test for zero in `removeVehicleReference` is not needed. `Timed` says that just the
vehicles that have left the list have a timer for their deletion, one each, and that no
timer of theirs comes after it, which is why no deleted vehicle becomes active.

## 6. Only model-checked

- Liveness, which rests on fairness and `ENABLED`: `EveryCallEnds`, `EveryRequestEnds`,
  `EveryTransactionEnds`, `ChainEnds`, `EveryOperationEnds`, `SilentVehicleIsLost`.
- The properties of section 4, which are there to be violated.
- `FTPManager`: that `UploadIsExact`, `ListIsExact` and `DownloadIsExact` hold in the instance
  without `Timely` and `NoLeftover` being assumed. For every value of the constants they are proved
  under these two (section 5); without them they are false of some instances.

## 7. Not modelled

See the list of components in `PROJECT.json`, with the reason for each. In the
modelled ones: texts, logging, units of time, parameters of commands, and what a
result handler does besides calling back into the modelled class. `stop()` being
called from a result handler during the walk of the response timer is excluded
by the guard of `stop`: the one handler that shuts the vehicle down,
`Vehicle::_rebootCommandResultHandler`, does so for an accepted command only, and the
walk reports nothing but failures. A signal handler that
starts a transaction of the same plan manager while that manager is still inside
`_finishTransaction` is not modelled either. `PlanMasterController` does nothing
when the primary link is a high latency one or missing (`:204`, `:308`): these refusals change no
state and are left out.

Weak points met while modelling, for which no property is stated because the code says
nothing else, or which an exception of a property names:

- `RequestMessageCoordinator.cc:331`: a request made after `stop()` is entered and never
  answered.
- `PlanManager.cc:201`: an upload of no items fails at the first time-out instead of being
  retried. `PlanManager.cc:425`: a late item 0 from ArduPilot is taken for a new home position
  (not modelled). `MissionManager.cc:92`: `generateResumeMission` indexes an empty list.
- `PlanMasterController.cc:754`: an edit while `dirtyForSave` is set does not set
  `dirtyForUpload`. `:253`: a vehicle without rally points leaves a downloaded plan dirty.
  `:102`: the chain flags survive a change of the vehicle. `:300`: an upload that fails
  is treated as one that succeeded.
- `GeoFenceManager.cc:124`, `RallyPointController.cc:253`, `MissionController.cc:1809`,
  `GeoFenceController.cc:263`: a breach return point that is not cleared, a removal that does
  not set dirty, `_itemsRequested` left after a clearing that failed, lists of polygons that stay
  dirty. All but the last are in the model.
- `FTPManager.cc:59` (`Primed`): a download or listing refused for its path leaves its
  stages in place: the manager is busy, and the caller, who was told no, has nothing to cancel. `:829` (`NearWrap`): past the wrap
  of the 16-bit number an answer is old to the filter and not to the handler, and
  nothing restarts the timer. `:1182` (`orphan`): an upload whose final reset fails ends
  with `downloadComplete`. `:1190` (`unsent`): a request that found no link keeps its number.
  `:402` and `:257`: a retried removal has a new number; a cancelled session 0 is not terminated.
- `VehicleLinkManager.cc:332` (`refused`): a high latency command that the queue refuses, because the
  one before is not answered (`MavCommandQueue.cc:274`), is never repeated, and over a satellite the
  answer is waited for two minutes (`MavCommandQueue.h:110`). A vehicle found on the satellite
  and heard on the radio before it answers goes on transmitting on both, and one whose radio is lost
  before it answers the command to stop may have a silent satellite link as its primary one.
- `VehicleLinkManager.cc:398` (`handed`, `picked`): `setPrimaryLinkByName` gives no high latency
  command and may choose a lost link. `:194` (`leaked`): a link that is added during the deletion is never
  returned. `:102`: `communicationLost` stays set after a partial recovery. `:374`: one
  flag is shared by calibration and log downloads. `MultiVehicleManager.cc:190` (`raced`): an
  activation may end after its vehicle has gone.

Of the components with a protocol of their own these are left:

- `SigningController` (a pending key change between the link's thread, the main thread
  and a timer), `ParameterManager` (download in batches, cache, write with read-back) and
  `InitialConnectStateMachine` (which needs the former): each is a module of its own
  still to be written.
- `Gimbal`, `Camera`, the terrain protocol, onboard and streaming logs, component
  information: clients of the modelled services with small retry loops. They appear
  as callers (other senders of a request, another user of the FTP manager).
- Polygons and circles of the fence and the visual mission items: editing data.
- Sockets, serial ports, framing, files, rendering, QML, settings: input and output
  with no protocol state, or state that only the user interface sees.

## 8. Plan

In this order:

1. `SigningController`: link thread and main thread, pending operation and timer.
2. `ParameterManager` and `InitialConnectStateMachine` over the services below.
