------------------------ MODULE MultiVehicleManager ------------------------
(***************************************************************************)
(* The vehicles that come and go: src/Vehicle/MultiVehicleManager.cc over  *)
(* the link managers of VehicleLinkManager and the links.                  *)
(*                                                                         *)
(* A vehicle is created by a heartbeat, leaves the list when its manager   *)
(* signals allLinksRemoved and is deleted by a timer 20 ms later; until    *)
(* then it still receives the messages of its system.  To become the       *)
(* active vehicle takes such a timer, too.  disconnect() of a link only    *)
(* asks the thread of the link, whose messages arrive until it is closed.  *)
(***************************************************************************)
EXTENDS VehicleLinkManager, FiniteSets

CONSTANTS Systems,      \* the vehicles out there, a system id each
          MaxVehicles,  \* bounds the Vehicle objects
          Settings      \* sets of <<system, link>>, the links that can carry its messages,
                        \* each with its bounds: Vehicle objects that are created, and acts
                        \* of the user and failures of links

ASSUME VehiclesAssumption ==
    /\ MaxVehicles \in Nat /\ 0 \notin Systems
    /\ Settings \subseteq [carries : SUBSET (Systems \X Links), vehicles : 0..MaxVehicles,
                          maxOps : Nat]

Vehicles == 1..MaxVehicles  \* Vehicle objects in the order in which they are created

VARIABLES
    gcs,      \* vlm, link, refs and removed, see VehicleLinkManager, and those of GcsType
    setting,  \* one of Settings, which does not change
    ops       \* counts what setting.maxOps bounds

vars == <<gcs, setting, ops>>

None == 0  \* no vehicle, no system

GcsType == [
    vlm : [Vehicles -> ManagerType],
    link : [Links -> {"open", "closing", "closed"}],
    refs : [Links -> 0..MaxVehicles],
    removed : {{}},                  \* signals of the handler that runs
    system : [Vehicles -> Systems \cup {None}],  \* the system each object stands for
    born : 0..MaxVehicles,           \* objects created so far
    alive : SUBSET Vehicles,         \* and not deleted yet
    listed : SUBSET Vehicles,        \* _vehicles, read in increasing order
    active : Vehicles \cup {None},   \* _activeVehicle
    available : BOOLEAN,             \* _activeVehicleAvailable
    timers : Seq({"activate", "delete"} \X Vehicles),  \* singleShot(20, ...)
    \* history: the links that had a vehicle, those a vehicle was deleted with, the vehicle
    \* last made active was no longer listed
    used : SUBSET Links, leaked : SUBSET Links, raced : BOOLEAN]

Init ==
    /\ gcs = [vlm |-> [v \in Vehicles |-> NewManager], link |-> [l \in Links |-> "open"],
              refs |-> [l \in Links |-> 0], removed |-> {},
              system |-> [v \in Vehicles |-> None], born |-> 0, alive |-> {}, listed |-> {},
              active |-> None, available |-> FALSE, timers |-> <<>>,
              used |-> {}, leaked |-> {}, raced |-> FALSE]
    /\ setting \in Settings
    /\ ops = 0

Holders(w, l) == {v \in w.alive : l \in HeldBy(w.vlm[v])}

Becomes(w) ==
    \E new \in {w} : gcs' = [new EXCEPT !.used = @ \cup {l \in Links : new.refs[l] > 0}]

-----------------------------------------------------------------------------
(* The active vehicle and the two phases of a deletion *)

setActiveVehicle(w, v) ==
    IF v = w.active THEN w
    ELSE [w EXCEPT !.available = @ /\ w.active = None, !.timers = Append(@, <<"activate", v>>)]

setActiveVehiclePhase2(w, v) ==
    [w EXCEPT !.active = v, !.available = TRUE, !.raced = v \notin w.listed]

\* For the vehicles in `gone`, in the order of their signals
deleteVehiclePhase1(w, gone) ==
    IF gone = <<>> THEN w
    ELSE [w EXCEPT !.listed = @ \ Range(gone), !.available = FALSE,
                   !.timers = @ \o [i \in DOMAIN gone |-> <<"delete", gone[i]>>]]

\* allLinksRemoved is the last thing a handler of a link manager does.  A second signal
\* finds the vehicle no longer in the list.  The vehicles on a link that is closed are told
\* in the order in which they took it up, which is left open here.
Deliver(w) ==
    \E new \in {w} : \E gone \in SetToSeqs(new.removed \cap new.listed) :
        Becomes(deleteVehiclePhase1([new EXCEPT !.removed = {}], gone))

\* ~Vehicle leaves the references to its links as they are.
Delete(w, v) ==
    [w EXCEPT !.alive = @ \ {v}, !.leaked = @ \cup HeldBy(w.vlm[v]), !.vlm[v] = NewManager]

\* Fault: the active vehicle is replaced only if there is another.
deleteVehiclePhase2Keeps(w, v) ==
    Delete(IF w.listed = {} THEN w
           ELSE [w EXCEPT !.active = Min(w.listed), !.available = TRUE, !.raced = FALSE], v)

\* The first vehicle becomes active, whichever was.
deleteVehiclePhase2(w, v) ==
    Delete(IF w.listed = {} THEN [w EXCEPT !.active = None]
           ELSE [w EXCEPT !.active = Min(w.listed), !.available = TRUE, !.raced = FALSE], v)

-----------------------------------------------------------------------------
(* Messages *)

Known(s) == \E v \in gcs.listed : gcs.system[v] = s

\* _vehicleHeartbeatInfo: an unknown system gets a vehicle, the first one becomes active.
vehicleHeartbeatInfo(w, s, l) ==
    IF Known(s) THEN w
    ELSE LET v == w.born + 1
             new == [w EXCEPT !.born = v, !.system[v] = s, !.alive = @ \cup {v},
                              !.listed = @ \cup {v},
                              !.vlm[v] = addLink(@, l), !.refs[l] = @ + 1]
         IN  IF new.listed # {v} THEN new ELSE setActiveVehicle(new, v)

\* Every Vehicle object of the system receives a message, one being deleted included.
Objects(w, s) == {v \in w.alive : w.system[v] = s}

\* Fault: a link that a vehicle has is counted again.
AddingAgain(w, s, l) == Objects(w, s)

Adding(w, s, l) == Objects(w, s) \ Holders(w, l)

Received(w, s, l) ==
    [w EXCEPT !.vlm = [v \in Vehicles |-> IF v \in Objects(w, s)
                                         THEN mavlinkMessageReceived(@[v], l) ELSE @[v]],
              !.refs[l] = @ + Cardinality(Adding(w, s, l))]

Message(s, l, heartbeat) ==
    /\ <<s, l>> \in setting.carries /\ gcs.link[l] # "closed"
    /\ heartbeat => Known(s) \/ gcs.born < setting.vehicles
    /\ \E w \in {IF heartbeat THEN vehicleHeartbeatInfo(gcs, s, l) ELSE gcs} :
          Becomes(Received(w, s, l))
    /\ UNCHANGED <<setting, ops>>

-----------------------------------------------------------------------------
(* Time *)

\* Nothing came on the link for _heartbeatMaxElpasedMSecs.
Silent(v, l) ==
    /\ v \in gcs.listed /\ l \in Live(gcs.vlm[v]) \ gcs.vlm[v].overdue
    /\ ~HighLatency(l)
    /\ Becomes([gcs EXCEPT !.vlm[v].overdue = @ \cup {l}])
    /\ UNCHANGED <<setting, ops>>

\* _commLostCheckTimer runs while there are links.  It ticks once a second, and so not in
\* the 20 ms of a vehicle being deleted.
CommLostCheck(v) ==
    /\ v \in gcs.listed /\ gcs.vlm[v].links # <<>> /\ gcs.vlm[v].enabled
    /\ \E m \in {commLostCheck(gcs.vlm[v])} :
       \E w \in {[gcs EXCEPT !.vlm[v] = m]} :
         IF closesVehicle(m) THEN Deliver(closeVehicle(w, v)) ELSE Becomes(w)
    /\ UNCHANGED <<setting, ops>>

\* The timers are of one duration and fire in the order in which they were started.
TimerFires ==
    /\ gcs.timers # <<>>
    /\ LET v == Head(gcs.timers)[2]
           w == [gcs EXCEPT !.timers = Tail(@)]
       IN  \/ Head(gcs.timers)[1] = "activate" /\ Becomes(setActiveVehiclePhase2(w, v))
           \/ Head(gcs.timers)[1] = "delete" /\ Becomes(deleteVehiclePhase2(w, v))
    /\ UNCHANGED <<setting, ops>>

\* MAV_CMD_CONTROL_HIGH_LATENCY is answered, or given up after two minutes; it is not
\* repeated (MavCommandQueue::_shouldRetry).
CommandEnds(v) ==
    /\ gcs.vlm[v].queue = "waits"
    /\ Becomes([gcs EXCEPT !.vlm[v].queue = "free"])
    /\ UNCHANGED <<setting, ops>>

-----------------------------------------------------------------------------
(* Links and the user *)

Counts == ops < setting.maxOps /\ ops' = ops + 1 /\ UNCHANGED setting

Wired == {pair[2] : pair \in setting.carries}

\* disconnected reaches LinkManager, then each vehicle on the link.
LinkClosed(l) ==
    LET on == Holders(gcs, l) IN
    /\ l \in Wired /\ gcs.link[l] # "closed"
    /\ IF gcs.link[l] = "open" THEN Counts ELSE UNCHANGED <<setting, ops>>
    /\ Deliver([gcs EXCEPT
           !.link[l] = "closed", !.refs[l] = @ - Cardinality(on),
           !.vlm = [v \in Vehicles |-> IF v \in on THEN linkDisconnected(@[v], l) ELSE @[v]],
           !.removed = {v \in on : signalsRemoved(gcs.vlm[v], l)}])

\* A link made anew is another object.
LinkOpened(l) ==
    /\ l \in Wired /\ gcs.link[l] = "closed" /\ Counts
    /\ gcs' = [gcs EXCEPT !.link[l] = "open", !.refs[l] = 0,
                          !.used = @ \ {l}, !.leaked = @ \ {l}]

DisconnectLink(l) ==
    /\ l \in Wired /\ gcs.link[l] = "open" /\ Counts
    /\ Becomes([gcs EXCEPT !.link[l] = "closing"])

\* From the toolbar for the active vehicle, which may be one that is being deleted, or when
\* a reboot is accepted.
CloseVehicle(v) ==
    /\ v \in gcs.listed \cup (gcs.alive \cap {gcs.active}) /\ Counts
    /\ Deliver(closeVehicle(gcs, v))

SetPrimaryLinkByName(v, l) ==
    /\ v = gcs.active /\ v \in gcs.alive /\ l \in HeldBy(gcs.vlm[v]) \ {gcs.vlm[v].primary}
    /\ Counts
    /\ Becomes(setPrimaryLinkByName(gcs, v, l))

SetCommunicationLostEnabled(v) ==
    /\ v \in gcs.listed /\ Counts
    /\ Becomes([gcs EXCEPT !.vlm[v].enabled = ~@])

\* By the firmware upgrade, for the active vehicle
SetAutoDisconnect(v) ==
    /\ v = gcs.active /\ v \in gcs.alive /\ ~gcs.vlm[v].autoDisconnect /\ Counts
    /\ Becomes([gcs EXCEPT !.vlm[v].autoDisconnect = TRUE])

SetActiveVehicle(v) ==
    /\ v \in gcs.listed \ {gcs.active} /\ Counts
    /\ Becomes(setActiveVehicle(gcs, v))

Next ==
    \/ \E s \in Systems, l \in Links, heartbeat \in BOOLEAN : Message(s, l, heartbeat)
    \/ \E v \in Vehicles, l \in Links : Silent(v, l) \/ SetPrimaryLinkByName(v, l)
    \/ \E v \in Vehicles : \/ CommLostCheck(v) \/ CommandEnds(v) \/ CloseVehicle(v)
                           \/ SetCommunicationLostEnabled(v) \/ SetAutoDisconnect(v)
                           \/ SetActiveVehicle(v)
    \/ TimerFires
    \/ \E l \in Links : LinkClosed(l) \/ LinkOpened(l) \/ DisconnectLink(l)

Spec == Init /\ [][Next]_vars

\* A silent link or the loss of all is there for the check to find.
Due(v) ==
    LET m == gcs.vlm[v] IN
    \/ \E l \in Live(m) \cap m.overdue : ~HighLatency(l)
    \/ HeldBy(m) \subseteq m.lost /\ ~m.commLost

\* The check's timer is periodic.
FairSpec == Spec /\ \A v \in Vehicles : WF_vars(Due(v) /\ CommLostCheck(v))

-----------------------------------------------------------------------------
(* Properties *)

TypeOK == gcs \in GcsType /\ setting \in Settings /\ ops \in 0..setting.maxOps

Good(l) == Kind[l] # "highLatency"

\* Whatever order links are lost, found and removed in, the primary link is one that works,
\* and not a high latency one if another works (VehicleLinkManager::_updatePrimaryLink).
\* Only the choice of a user may say otherwise, until the next change of a link.
PrimaryIsLive ==
    \A v \in gcs.alive :
        LET m == gcs.vlm[v]
            wanted == {l \in Live(m) : Good(l)}
        IN  m.handed \/ m.primary \in (IF wanted # {} THEN wanted
                                       ELSE IF Live(m) # {} THEN Live(m)
                                       ELSE HeldBy(m) \cup {NoLink})

\* A high latency link costs money.  No two of a vehicle are ever told to transmit at once,
\* and of those it has the primary one was last told to, and no other
\* (VehicleLinkManager.cc:332-349), except a link for which the last command was not sent:
\* it is refused while the one before is not answered (MavCommandQueue.cc:274), and nothing
\* makes up for it.  Nothing is promised once the user has chosen a link, which tells
\* nothing to the vehicle.
HighLatencyControlled ==
    \A v \in gcs.alive : LET m == gcs.vlm[v] IN
        ~m.picked => /\ \A k, l \in m.told : k = l
                     /\ \A l \in HeldBy(m) \ m.refused :
                            l \in m.told <=> l = m.primary /\ HighLatency(l)

\* _vehicleReferenceCount is the number of vehicles that have the link, none has a link that
\* is closed, and a link all of whose vehicles have left it does not stay connected
\* (LinkInterface::_connectionRemoved), except after a vehicle was deleted with a link.
ReferencesMatch ==
    \A l \in Links \ gcs.leaked :
        LET holders == Holders(gcs, l) IN
        /\ gcs.link[l] = "closed" => holders = {}
        /\ gcs.link[l] # "closed" => gcs.refs[l] = Cardinality(holders)
        /\ gcs.link[l] = "open" /\ l \in gcs.used => holders # {}

\* A vehicle is in the list only while it has a link, and every vehicle that has left the
\* list waits for its deletion, once (MultiVehicleManager::_deleteVehiclePhase1).
ListedHasLink ==
    \A v \in Vehicles :
        LET waits == {i \in DOMAIN gcs.timers : gcs.timers[i] = <<"delete", v>>} IN
        /\ v \in gcs.listed => v \in gcs.alive /\ gcs.vlm[v].links # <<>>
        /\ Cardinality(waits) = IF v \in gcs.alive \ gcs.listed THEN 1 ELSE 0

\* No deleted vehicle is active or becomes so: a timer started before the removal fires
\* before the deletion.  Once the timers have fired, some listed vehicle is active and
\* available, if there is one.  Without one none is, but a vehicle removed while its
\* activation was under way leaves activeVehicleAvailable set
\* (MultiVehicleManager::_setActiveVehiclePhase2, _deleteVehiclePhase2).
ActiveIsListed ==
    /\ gcs.active \in gcs.alive \cup {None}
    /\ \A i \in DOMAIN gcs.timers : gcs.timers[i][2] \in gcs.alive
    /\ gcs.timers = <<>> =>
          IF gcs.listed = {} THEN gcs.active = None /\ (gcs.available => gcs.raced)
          ELSE gcs.active \in gcs.listed /\ gcs.available

\* A vehicle that stays silent on all of its links is found out of reach, or closed, in
\* whatever order they fell silent or were removed (VehicleLinkManager::_commLostCheck).
Forgotten(v) ==
    LET m == gcs.vlm[v] IN
    v \in gcs.listed /\ m.enabled /\ ~m.commLost /\ HeldBy(m) \subseteq m.overdue
SilentVehicleIsLost == \A v \in Vehicles : []<>~Forgotten(v)
=============================================================================
