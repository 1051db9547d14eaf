------------------------- MODULE VehicleLinkManager -------------------------
(***************************************************************************)
(* The links of each vehicle: src/Vehicle/VehicleLinkManager.cc with the   *)
(* vehicle references of src/Comms/LinkInterface.cc.                       *)
(*                                                                         *)
(* One manager belongs to each vehicle; several vehicles share a link.     *)
(* Handlers are functions on the record `m` of one manager; what they do   *)
(* to links is a function on the record `w`, which holds                   *)
(*   w.vlm      the managers, one for each vehicle                         *)
(*   w.link     open, closing (disconnect() was called) or closed          *)
(*   w.refs     _vehicleReferenceCount of each link                        *)
(*   w.removed  the vehicles whose manager signals allLinksRemoved         *)
(* MultiVehicleManager has the events that call these functions.           *)
(***************************************************************************)
EXTENDS Naturals, SequencesExt

CONSTANTS Links,  \* links, a name each
          Kind    \* usb, normal or highLatency, for each link

ASSUME LinksAssumption ==
    "none" \notin Links /\ Kind \in [Links -> {"usb", "normal", "highLatency"}]

NoLink == "none"

ManagerType == [
    links    : Seq(Links),             \* _rgLinkInfo
    lost     : SUBSET Links,           \* those with commLost
    overdue  : SUBSET Links,           \* heartbeatElapsedTimer is past its limit
    primary  : Links \cup {NoLink},    \* _primaryLink
    commLost : BOOLEAN,                \* _communicationLost
    enabled  : BOOLEAN,                \* _communicationLostEnabled
    autoDisconnect : BOOLEAN,          \* _autoDisconnect
    closed   : BOOLEAN,                \* _allLinksRemovedSignalledByCloseVehicle
    \* the vehicle's MavCommandQueue, for MAV_CMD_CONTROL_HIGH_LATENCY: it takes one, one is
    \* not answered yet, stop() was called
    queue    : {"free", "waits", "stopped"},
    \* history: the links last told to transmit, those for which the last command was not
    \* sent; the user has chosen the primary link, and so since it was last updated
    told     : SUBSET Links, refused : SUBSET Links,
    picked   : BOOLEAN, handed : BOOLEAN]

NewManager == [links |-> <<>>, lost |-> {}, overdue |-> {}, primary |-> NoLink,
               commLost |-> FALSE, enabled |-> TRUE, autoDisconnect |-> FALSE,
               closed |-> FALSE, queue |-> "free", told |-> {}, refused |-> {},
               picked |-> FALSE, handed |-> FALSE]

HighLatency(l) == l # NoLink /\ Kind[l] = "highLatency"
HeldBy(m) == Range(m.links)
Live(m) == HeldBy(m) \ m.lost

\* The first link that is not lost, of one of the kinds
FirstLive(m, kinds) ==
    LET fit == {i \in DOMAIN m.links : m.links[i] \notin m.lost /\ Kind[m.links[i]] \in kinds}
    IN  IF fit = {} THEN NoLink ELSE m.links[Min(fit)]

bestActivePrimaryLink(m) ==
    IF FirstLive(m, {"usb"}) # NoLink THEN FirstLive(m, {"usb"})
    ELSE IF FirstLive(m, {"normal"}) # NoLink THEN FirstLive(m, {"normal"})
    ELSE IF HighLatency(m.primary) THEN m.primary
    ELSE FirstLive(m, {"highLatency"})

\* A live primary link stays, and a lost one if there is none better.
Stays(m, best) ==
    \/ m.primary \in Live(m) /\ ~HighLatency(m.primary)
    \/ m.primary # NoLink /\ best = NoLink
    \/ m.primary = best

\* The commands to `links`, first to the one that is left, are dropped once the queue is
\* stopped, refused while the one before is not answered, and in neither case sent later
\* (MavCommandQueue::sendWorker).  Each has a link to go out on, the one that it is for.
SwitchTo(m, best, links) ==
    LET sent == IF m.queue # "free" THEN {}
                ELSE IF m.primary \in links THEN {m.primary} ELSE links
    IN  [m EXCEPT !.handed = FALSE, !.primary = best,
                  !.queue = IF sent = {} THEN @ ELSE "waits",
                  !.told = (@ \ sent) \cup (sent \cap {best}),
                  !.refused = (@ \ sent) \cup (links \ sent)]

\* Fault: the link that is left is not told to stop.
updatePrimaryLinkUntold(m) ==
    LET best == bestActivePrimaryLink(m)
    IN  IF Stays(m, best) THEN [m EXCEPT !.handed = FALSE]
        ELSE SwitchTo(m, best, {l \in {best} : HighLatency(l)})

\* A high latency link is told to stop when it is left and to transmit when it is chosen.
updatePrimaryLink(m) ==
    LET best == bestActivePrimaryLink(m)
    IN  IF Stays(m, best) THEN [m EXCEPT !.handed = FALSE]
        ELSE SwitchTo(m, best, {l \in {m.primary, best} : HighLatency(l)})

\* The loss is over when no link is lost.
commRegainedOnLink(m, l) ==
    [updatePrimaryLink([m EXCEPT !.lost = @ \ {l}]) EXCEPT !.commLost = @ /\ m.lost # {l}]

addLink(m, l) == updatePrimaryLink([m EXCEPT !.links = Append(@, l)])

mavlinkMessageReceived(m, l) ==
    LET heard == [m EXCEPT !.overdue = @ \ {l}]
    IN  IF l \notin HeldBy(m) THEN addLink(m, l)
        ELSE IF l \in m.lost THEN commRegainedOnLink(heard, l) ELSE heard

-----------------------------------------------------------------------------
(* Links that go *)

\* What is known of a link goes with it.
Forget(m, gone) ==
    [m EXCEPT !.primary = IF @ \in gone THEN NoLink ELSE @,
              !.lost = @ \ gone, !.overdue = @ \ gone,
              !.told = @ \ gone, !.refused = @ \ gone]

removeLink(m, l) ==
    LET i == CHOOSE i \in DOMAIN m.links : m.links[i] = l
    IN  [Forget(m, {l}) EXCEPT !.links = RemoveAt(@, i)]

\* Fault: the primary link is not chosen anew.
linkDisconnectedUnchosen(m, l) ==
    [removeLink(m, l) EXCEPT !.queue = IF HeldBy(m) = {l} THEN "stopped" ELSE @]

\* With its last link the vehicle stops its commands.
linkDisconnected(m, l) ==
    [updatePrimaryLink(removeLink(m, l)) EXCEPT
        !.queue = IF HeldBy(m) = {l} THEN "stopped" ELSE @]

\* Fault: the end of the last link is not signalled if it was lost.
signalsRemovedQuietly(m, l) == HeldBy(m) = {l} /\ ~m.closed /\ l \notin m.lost

\* allLinksRemoved is signalled unless closeVehicle has done so.
signalsRemoved(m, l) == HeldBy(m) = {l} /\ ~m.closed

\* Fault: the references are kept.
removeVehicleReferencesNot(w, gone) == w

\* LinkInterface::removeVehicleReference: without vehicles a link is disconnected.
removeVehicleReferences(w, gone) ==
    [w EXCEPT !.refs = [l \in Links |-> IF l \in gone THEN @[l] - 1 ELSE @[l]],
              !.link = [l \in Links |-> IF l \in gone /\ w.refs[l] = 1 /\ @[l] = "open"
                                       THEN "closing" ELSE @[l]]]

closeVehicle(w, v) ==
    LET m == w.vlm[v]
        rest == removeVehicleReferences(w, HeldBy(m))
    IN  [rest EXCEPT !.vlm[v] = [Forget(m, HeldBy(m)) EXCEPT !.links = <<>>, !.closed = TRUE,
                                                             !.queue = "stopped"],
                     !.removed = {v}]

-----------------------------------------------------------------------------
(* Links that are lost *)

\* Fault: the check ends where no link was found lost just now.
commLostCheckEarly(m) ==
    LET silent == {l \in Live(m) : ~HighLatency(l) /\ l \in m.overdue}
    IN  IF silent = {} THEN m
        ELSE [updatePrimaryLink([m EXCEPT !.lost = @ \cup silent]) EXCEPT
                 !.commLost = @ \/ (HeldBy(m) = silent /\ ~m.autoDisconnect)]

\* A link is lost when nothing came on it for too long, communication when all links are;
\* if that is to close the vehicle, it does so instead.
commLostCheck(m) ==
    LET silent == {l \in Live(m) : ~HighLatency(l) /\ l \in m.overdue}
    IN  [updatePrimaryLink([m EXCEPT !.lost = @ \cup silent]) EXCEPT
            !.commLost = @ \/ (Live(m) = silent /\ ~m.autoDisconnect)]

closesVehicle(m) == m.autoDisconnect /\ ~m.commLost /\ Live(m) = {}

setPrimaryLinkByName(w, v, l) ==
    [w EXCEPT !.vlm[v] = [@ EXCEPT !.primary = l, !.picked = TRUE, !.handed = TRUE]]
=============================================================================
