------------------------ MODULE PlanMasterController ------------------------
(***************************************************************************)
(* The Plan view's PlanMasterController over the three controllers of a    *)
(* plan (mission, geofence, rally points), their managers and the active   *)
(* vehicle (src/MissionManager/PlanMasterController.cc).                   *)
(*                                                                         *)
(* A manager is PlanTransaction for one part of the plan: one transaction  *)
(* at a time, ending in success or failure.  loadFromVehicle and           *)
(* sendToVehicle are chains: the end of a part's transaction starts the    *)
(* next part's, and four flags remember what comes next.  The managers     *)
(* belong to the vehicle and have other users: its initial connect loads   *)
(* the plan, the Fly view and sendPlanToVehicle write and clear it.        *)
(*                                                                         *)
(* The end of a transaction is one call chain: the master's slot, then the *)
(* part's controller, each setting dirty flags whose signals run           *)
(* _updateOverallDirty at once.  These calls are functions of the record   *)
(* "gcs" here, composed in the order of the calls.                         *)
(***************************************************************************)
EXTENDS Naturals, FiniteSets, Sequences

CONSTANTS Elements,  \* what a part of a plan consists of
          Vehicles,  \* the vehicles that connect: the parts they support and their plan
          Files,     \* the plans in files
          MaxOps     \* bound: operations of users and vehicle changes

Parts == {"mission", "fence", "rally"}

\* The geofence is its breach return point, at most one.
Contents(p) == {c \in SUBSET Elements : p = "fence" => Cardinality(c) <= 1}
Plans == {plan \in [Parts -> SUBSET Elements] : \A p \in Parts : plan[p] \in Contents(p)}
Nothing == [p \in Parts |-> {}]

ASSUME InstanceAssumption ==
    /\ Files \subseteq Plans /\ MaxOps \in Nat
    /\ \A v \in Vehicles : /\ v.plan \in Plans /\ v.supported \subseteq {"fence", "rally"}
                          /\ \A p \in {"fence", "rally"} \ v.supported : v.plan[p] = {}

NoVehicle == [plan |-> Nothing, supported |-> {}]

VARIABLES
    gcs,        \* the controllers and managers, see GcsType
    onboard,    \* the plan the active vehicle holds
    supported,  \* which of fence and rally points the active vehicle supports
    offline,    \* no active vehicle
    initial,    \* the vehicle's initialPlanRequestComplete
    prompt,     \* promptForPlanUsageOnVehicleChange is on the screen
    ops,        \* counts what MaxOps bounds
    run,        \* history: the chain under way: load, send, none, or disturbed by others
    legs,       \* history: the parts it has transferred, in order
    smooth      \* history: since it began no edit, no failure, no change on the vehicle

envVars  == <<onboard, supported, offline, initial, prompt>>
histVars == <<run, legs, smooth>>
vars     == <<gcs, envVars, ops, histVars>>

GcsType == [
    view      : Plans,                \* what the controllers show
    dirty     : SUBSET Parts,         \* the controllers' dirty flags
    requested : SUBSET Parts,         \* their _itemsRequested
    forSave   : BOOLEAN,              \* _dirtyForSave
    forUpload : BOOLEAN,              \* _dirtyForUpload
    chain     : SUBSET {"loadFence", "loadRally", "sendFence", "sendRally"},
    busy      : [Parts -> {"none", "read", "write", "removeAll"}],
    mine      : SUBSET Parts,         \* busy on behalf of this controller
    held      : Plans,                \* the managers' lists
    sending   : Plans]                \* what their writes upload

TypeOK ==
    /\ gcs \in GcsType
    /\ onboard \in Plans /\ supported \subseteq {"fence", "rally"}
    /\ offline \in BOOLEAN /\ initial \in BOOLEAN /\ prompt \in BOOLEAN
    /\ ops \in 0..MaxOps
    /\ run \in {"none", "load", "send", "disturbed"} /\ smooth \in BOOLEAN
    /\ legs \in Seq(Parts) /\ Len(legs) < Cardinality(Parts)

Idle == [p \in Parts |-> "none"]

\* start: no vehicle, one whose plan is not loaded yet, or one whose plan is shown
Init ==
    /\ \E v \in Vehicles \cup {NoVehicle} :
          /\ onboard = v.plan /\ supported = v.supported
          /\ offline = (v = NoVehicle)
    /\ initial \in BOOLEAN /\ (offline => ~initial)
    /\ LET shown == IF initial THEN onboard ELSE Nothing IN
       gcs = [view |-> shown, dirty |-> {}, requested |-> {}, forSave |-> FALSE,
              forUpload |-> FALSE, chain |-> {}, busy |-> Idle, mine |-> {},
              held |-> shown, sending |-> Nothing]
    /\ prompt = FALSE /\ ops = 0
    /\ run = "none" /\ legs = <<>> /\ smooth = TRUE

-----------------------------------------------------------------------------
(* Dirty flags *)

\* syncInProgress
Sync(g) == \E p \in Parts : g.busy[p] # "none"

\* _updateOverallDirty and _setDirtyForSave
UpdateOverallDirty(g) ==
    IF Sync(g) \/ g.dirty = {} \/ g.forSave THEN g
    ELSE [g EXCEPT !.forSave = TRUE, !.forUpload = TRUE]

\* setDirty of a part's controller, whose signal is sent when the flag changes
SetDirty(g, p) ==
    IF p \in g.dirty THEN g ELSE UpdateOverallDirty([g EXCEPT !.dirty = @ \cup {p}])

SetClean(g, p) ==
    IF p \notin g.dirty THEN g ELSE UpdateOverallDirty([g EXCEPT !.dirty = @ \ {p}])

AllClean(g) == [g EXCEPT !.dirty = {}, !.forSave = FALSE, !.forUpload = FALSE]

-----------------------------------------------------------------------------
(* The controllers *)

\* Fault: the answer is not marked as one that was asked for.
LoadPartUnasked(g, p) ==
    IF g.busy[p] # "none" THEN g
    ELSE [g EXCEPT !.busy[p] = "read", !.mine = @ \cup {p}]

\* A transfer of a busy part is refused.
LoadPart(g, p) ==
    IF g.busy[p] # "none" THEN g
    ELSE [g EXCEPT !.requested = @ \cup {p}, !.busy[p] = "read", !.mine = @ \cup {p}]

\* The fence manager takes the new return point before the transfer.
BeginWrite(g, p, content) ==
    [g EXCEPT !.busy[p] = "write", !.sending[p] = content,
              !.held[p] = IF p = "fence" THEN content ELSE @]

SendPart(g, p) ==
    LET Begin(h) == [BeginWrite(h, p, h.view[p]) EXCEPT !.mine = @ \cup {p}] IN
    IF g.busy[p] # "none" THEN g
    ELSE IF p = "rally" THEN Begin(SetClean(g, p))
    ELSE SetClean(Begin(g), p)

BeginRemove(g, p) == [g EXCEPT !.busy[p] = "removeAll", !.held[p] = {}]

RemovePart(g, p) ==
    IF g.busy[p] # "none" THEN g
    ELSE [BeginRemove(g, p) EXCEPT !.mine = @ \cup {p},
                !.requested = IF p = "mission" THEN @ \cup {p} ELSE @]

\* removeAll of the fence or rally controller: the editor only
ClearPart(g, p) ==
    LET cleared == [g EXCEPT !.view[p] = {}] IN
    IF p = "fence" /\ g.view[p] = {} THEN g ELSE SetDirty(cleared, p)

\* Fault: the fence's return point is taken over after the flag was reset.
ReplaceReordered(g, p) ==
    LET shown == [g EXCEPT !.view[p] = g.held[p]] IN
    CASE p = "mission" -> UpdateOverallDirty([shown EXCEPT !.dirty = @ \ {p}])
      [] p = "fence"   -> SetDirty(SetClean(shown, p), p)
      [] p = "rally"   -> SetClean(shown, p)

\* A new list is shown: the mission's is clean and says so, the fence's return point
\* sets the flag before it is reset, the rally points only reset it.
Replace(g, p) ==
    LET shown == [g EXCEPT !.view[p] = g.held[p]] IN
    CASE p = "mission" -> UpdateOverallDirty([shown EXCEPT !.dirty = @ \ {p}])
      [] p = "fence"   -> SetClean(SetDirty(shown, p), p)
      [] p = "rally"   -> SetClean(shown, p)

\* The slot of a part's controller for the end of a load
Loaded(g, p) ==
    LET h == IF p \in g.requested \/ g.view[p] = {} THEN Replace(g, p) ELSE g IN
    [h EXCEPT !.requested = @ \ {p}]

\* showPlanFromManagerVehicle of a part's controller once its vehicle is ready
ShowPart(g, p) ==
    IF g.busy[p] = "none" THEN Loaded([g EXCEPT !.requested = @ \cup {p}], p)
    ELSE IF p = "fence" THEN [g EXCEPT !.requested = @ \cup {p}]
    ELSE g

\* The slot of a part's controller for the end of a removal
Removed(g, p) ==
    IF initial THEN ShowPart(g, p)
    ELSE IF p = "fence" THEN [g EXCEPT !.requested = @ \cup {p}]
    ELSE g

-----------------------------------------------------------------------------
(* The master's slots *)

LoadRallyComplete(g) == [g EXCEPT !.forSave = FALSE, !.forUpload = FALSE]

\* Fault: the flag stays set while the rally points are loaded.
LoadFenceCompleteKeepsFlag(g) ==
    LET h == [g EXCEPT !.chain = @ \ {"loadRally"}] IN
    IF "loadRally" \notin g.chain THEN g
    ELSE IF "rally" \in supported THEN LoadPart(g, "rally")
    ELSE LoadRallyComplete(ClearPart(h, "rally"))

LoadFenceComplete(g) ==
    LET h == [g EXCEPT !.chain = @ \ {"loadRally"}] IN
    IF "loadRally" \notin g.chain THEN g
    ELSE IF "rally" \in supported THEN LoadPart(h, "rally")
    ELSE LoadRallyComplete(ClearPart(h, "rally"))

LoadMissionComplete(g) ==
    LET h == [g EXCEPT !.chain = (@ \ {"loadFence"}) \cup {"loadRally"}] IN
    IF "loadFence" \notin g.chain THEN g
    ELSE IF "fence" \in supported THEN LoadPart(h, "fence")
    ELSE LoadFenceComplete(ClearPart(h, "fence"))

LoadComplete(g, p) ==
    CASE p = "mission" -> LoadMissionComplete(g)
      [] p = "fence"   -> LoadFenceComplete(g)
      [] p = "rally"   -> LoadRallyComplete(g)

SendRallyComplete(g) == [g EXCEPT !.forUpload = FALSE]

\* Fault: the fence is sent again in place of the rally points.
SendFenceCompleteRepeats(g) ==
    IF "sendRally" \notin g.chain THEN g
    ELSE IF "rally" \in supported THEN SendPart(g, "fence")
    ELSE SendRallyComplete([g EXCEPT !.chain = @ \ {"sendRally"}])

SendFenceComplete(g) ==
    LET h == [g EXCEPT !.chain = @ \ {"sendRally"}] IN
    IF "sendRally" \notin g.chain THEN g
    ELSE IF "rally" \in supported THEN SendPart(h, "rally")
    ELSE SendRallyComplete(h)

\* Fault: a fence that is not supported ends the chain.
SendMissionCompleteStops(g) ==
    LET h == [g EXCEPT !.chain = @ \ {"sendFence"}] IN
    IF "sendFence" \notin g.chain THEN g
    ELSE IF "fence" \in supported
         THEN SendPart([h EXCEPT !.chain = @ \cup {"sendRally"}], "fence")
    ELSE SendRallyComplete(h)

SendMissionComplete(g) ==
    LET h == [g EXCEPT !.chain = (@ \ {"sendFence"}) \cup {"sendRally"}] IN
    IF "sendFence" \notin g.chain THEN g
    ELSE IF "fence" \in supported THEN SendPart(h, "fence")
    ELSE SendFenceComplete(h)

SendComplete(g, p) ==
    CASE p = "mission" -> SendMissionComplete(g)
      [] p = "fence"   -> SendFenceComplete(g)
      [] p = "rally"   -> SendRallyComplete(g)

\* _showPlanFromManagerVehicle: a busy part keeps the later ones from being shown.
ShowPlan(g) ==
    LET m == ShowPart(g, "mission")
        f == IF g.busy["mission"] # "none" THEN m ELSE ShowPart(m, "fence")
        r == IF g.busy["mission"] # "none" \/ g.busy["fence"] # "none" THEN f
             ELSE ShowPart(f, "rally")
    IN AllClean(r)

\* removeAll
ClearEditor(g) == AllClean([g EXCEPT !.view = Nothing])

-----------------------------------------------------------------------------
(* History: the chain under way *)

Followed == run \in {"load", "send"}

\* A step of the managers: a chain ends when nothing of it is left.
ChainGoesOn(leg, ok) ==
    LET over == gcs'.chain = {} /\ gcs'.mine = {} IN
    /\ run' = IF over THEN "none" ELSE run
    /\ legs' = IF ~over /\ Followed THEN legs \o leg ELSE <<>>
    /\ smooth' = (Followed => smooth /\ ok)

ChainBegins(kind) ==
    /\ run' = IF gcs.chain = {} THEN kind ELSE "disturbed"
    /\ legs' = <<>> /\ smooth' = TRUE

\* Another user of the managers, or another vehicle
Disturbs ==
    IF gcs.chain = {} /\ gcs.mine = {} THEN UNCHANGED histVars
    ELSE run' = "disturbed" /\ legs' = <<>> /\ smooth' = TRUE

Roughens == smooth' = ~Followed /\ UNCHANGED <<run, legs>>

-----------------------------------------------------------------------------
(* The end of a transaction *)

Ended(p) == [gcs EXCEPT !.busy[p] = "none", !.mine = @ \ {p}, !.sending[p] = {}]

\* A failed download leaves the manager with an empty list; the fence manager never
\* forgets a return point that the vehicle does not send.
EndRead(p, ok) ==
    LET items == IF ok THEN onboard[p] ELSE {}
        kept  == p = "fence" /\ items = {}
    IN
    /\ gcs.busy[p] = "read"
    /\ gcs' = Loaded(LoadComplete([Ended(p) EXCEPT
                                     !.held[p] = IF kept THEN @ ELSE items], p), p)
    /\ onboard' = onboard

EndWrite(p, ok) ==
    /\ gcs.busy[p] = "write"
    /\ gcs' = SendComplete([Ended(p) EXCEPT
                              !.held[p] = IF ok THEN gcs.sending[p]
                                          ELSE IF p = "mission" THEN @ ELSE {}], p)
    /\ \E stored \in {onboard[p], gcs.sending[p]} :
          /\ ok => stored = gcs.sending[p]
          /\ onboard' = [onboard EXCEPT ![p] = stored]

EndRemove(p, ok) ==
    /\ gcs.busy[p] = "removeAll"
    /\ gcs' = IF ok THEN Removed(Ended(p), p) ELSE Ended(p)
    /\ \E stored \in {onboard[p], {}} :
          /\ ok => stored = {}
          /\ onboard' = [onboard EXCEPT ![p] = stored]

EndTransaction(p) == \E ok \in BOOLEAN :
    /\ EndRead(p, ok) \/ EndWrite(p, ok) \/ EndRemove(p, ok)
    /\ ChainGoesOn(IF p \in gcs.mine THEN <<p>> ELSE <<>>, ok)
    /\ UNCHANGED <<supported, offline, initial, prompt, ops>>

-----------------------------------------------------------------------------
(* The user of the Plan view *)

Counts == ops < MaxOps /\ ops' = ops + 1

ContainsItems(g) == g.view["mission"] # {} \/ g.view["rally"] # {}

\* A mission item inserted resets the flag before it sets it; a rally point removed
\* sets none.
EditMission(c) ==
    LET new == [gcs EXCEPT !.view["mission"] = c] IN
    gcs' = SetDirty(IF gcs.view["mission"] \subseteq c THEN SetClean(new, "mission") ELSE new,
                    "mission")

EditFence(c) == gcs' = SetDirty([gcs EXCEPT !.view["fence"] = c], "fence")

AddRallyPoint(c) ==
    /\ gcs.view["rally"] \subseteq c
    /\ gcs' = SetDirty([gcs EXCEPT !.view["rally"] = c], "rally")

RemoveRallyPoint(c) ==
    /\ c \subseteq gcs.view["rally"]
    /\ gcs' = [gcs EXCEPT !.view["rally"] = c]

Edit(p) ==
    /\ Counts
    /\ \E c \in Contents(p) \ {gcs.view[p]} :
          \/ p = "mission" /\ EditMission(c)
          \/ p = "fence" /\ EditFence(c)
          \/ p = "rally" /\ (AddRallyPoint(c) \/ RemoveRallyPoint(c))
    /\ Roughens
    /\ UNCHANGED envVars

loadFromVehicle ==
    /\ Counts
    /\ ~offline /\ ~Sync(gcs)
    /\ gcs' = LoadPart([gcs EXCEPT !.chain = @ \cup {"loadFence"}], "mission")
    /\ ChainBegins("load")
    /\ UNCHANGED envVars

\* Offered only for a plan with items
sendToVehicle ==
    /\ Counts
    /\ ~offline /\ ~Sync(gcs) /\ ContainsItems(gcs)
    /\ gcs' = SendPart([gcs EXCEPT !.chain = @ \cup {"sendFence"}], "mission")
    /\ ChainBegins("send")
    /\ UNCHANGED envVars

\* The question that leads here may be answered after the vehicle's own load began.
removeAllFromVehicle ==
    LET cleared == [gcs EXCEPT !.forUpload = FALSE]
        m == RemovePart(cleared, "mission")
        f == IF "fence" \in supported THEN RemovePart(m, "fence") ELSE m
    IN
    /\ Counts
    /\ ~offline /\ gcs.mine = {}
    /\ gcs' = IF "rally" \in supported THEN RemovePart(f, "rally") ELSE f
    /\ Disturbs
    /\ UNCHANGED envVars

\* Clear while offline
removeAll ==
    /\ Counts
    /\ offline
    /\ gcs' = ClearEditor(gcs)
    /\ Roughens
    /\ UNCHANGED envVars

saveToFile ==
    /\ Counts
    /\ ~Sync(gcs) /\ ContainsItems(gcs)
    /\ gcs' = [gcs EXCEPT !.forSave = FALSE]
    /\ UNCHANGED <<envVars, histVars>>

loadFromFile == \E plan \in Files :
    /\ Counts
    /\ ~Sync(gcs)
    /\ gcs' = [gcs EXCEPT !.view = plan, !.dirty = {}, !.forSave = FALSE, !.forUpload = TRUE]
    /\ Roughens
    /\ UNCHANGED envVars

\* _showPlanFromManagerVehicle: nothing is shown before the vehicle's own load is done.
ShowVehicle(g, ready) == IF ready THEN ShowPlan(g) ELSE g

\* The answer to the prompt: keep the plan, or showPlanFromManagerVehicle
AnswerPrompt ==
    /\ prompt /\ prompt' = FALSE
    /\ \/ gcs' = gcs
       \/ gcs' = IF offline THEN ClearEditor(gcs) ELSE ShowVehicle(gcs, initial)
    /\ Roughens
    /\ UNCHANGED <<onboard, supported, offline, initial, ops>>

-----------------------------------------------------------------------------
(* The managers' other users and the vehicle *)

Supports(p) == p = "mission" \/ p \in supported

\* The vehicle's initial connect loads one part after the other.
InitialLoad(p) ==
    /\ Counts
    /\ ~offline /\ ~initial /\ gcs.busy[p] = "none"
    /\ Supports(p)
    /\ \A q \in Parts : gcs.busy[q] = "read" => q \in gcs.mine
    /\ gcs' = [gcs EXCEPT !.busy[p] = "read"]
    /\ Disturbs
    /\ UNCHANGED envVars

InitialLoadDone ==
    /\ ~offline /\ ~initial /\ initial' = TRUE
    /\ UNCHANGED <<gcs, onboard, supported, offline, prompt, ops, histVars>>

\* sendPlanToVehicle and the Fly view's clearing of a flown mission
OtherWrites(p) ==
    /\ Counts
    /\ ~offline /\ gcs.busy[p] = "none" /\ Supports(p)
    /\ \/ \E c \in Contents(p) : gcs' = BeginWrite(gcs, p, c)
       \/ gcs' = BeginRemove(gcs, p)
    /\ Disturbs
    /\ UNCHANGED envVars

\* Another ground station changes the plan on the vehicle.
ChangedElsewhere(p) ==
    /\ Counts
    /\ ~offline /\ gcs.busy[p] = "none"
    /\ Supports(p)
    /\ \E c \in Contents(p) \ {onboard[p]} : onboard' = [onboard EXCEPT ![p] = c]
    /\ Roughens
    /\ UNCHANGED <<gcs, supported, offline, initial, prompt>>

\* _activeVehicleChanged of the Plan view, with the managers of the new vehicle.  What
\* _loadGeoFence and its like remember of the old vehicle's chain stays.
VehicleChanged(newOffline, ready) ==
    LET fresh == [gcs EXCEPT !.busy = Idle, !.mine = {}, !.sending = Nothing,
                             !.held = IF ready THEN onboard' ELSE Nothing]
        stale == [fresh EXCEPT !.forUpload = TRUE]
        empty == [fresh EXCEPT !.forSave = FALSE, !.forUpload = FALSE]
        asks  == ContainsItems(gcs) /\ gcs.forSave
    IN
    /\ gcs' = IF asks THEN stale
              ELSE IF newOffline THEN (IF ContainsItems(gcs) THEN ClearEditor(stale) ELSE empty)
              ELSE ShowVehicle(IF ContainsItems(gcs) THEN stale ELSE empty, ready)
    /\ prompt' = (prompt \/ asks)

activeVehicleChanged ==
    /\ Counts
    /\ \E v \in Vehicles \cup {NoVehicle}, ready \in BOOLEAN :
          LET gone == v = NoVehicle IN
          /\ gone => ~offline /\ ~ready
          /\ offline' = gone /\ initial' = ready
          /\ onboard' = v.plan /\ supported' = v.supported
          /\ VehicleChanged(gone, ready)
    /\ Disturbs

Next ==
    \/ \E p \in Parts : \/ EndTransaction(p)
                        \/ Edit(p)
                        \/ InitialLoad(p)
                        \/ OtherWrites(p)
                        \/ ChangedElsewhere(p)
    \/ loadFromVehicle \/ sendToVehicle \/ removeAllFromVehicle
    \/ removeAll \/ saveToFile \/ loadFromFile \/ AnswerPrompt
    \/ InitialLoadDone \/ activeVehicleChanged

\* A transaction of a manager ends, see EveryTransactionEnds of PlanManager.
Fairness == \A p \in Parts : WF_vars(EndTransaction(p))

Spec     == Init /\ [][Next]_vars
FairSpec == Spec /\ Fairness

-----------------------------------------------------------------------------
(* Properties *)

PartsInOrder == <<"mission">> \o (IF "fence" \in supported THEN <<"fence">> ELSE <<>>)
                              \o (IF "rally" \in supported THEN <<"rally">> ELSE <<>>)

ChainEnding == Followed /\ run' = "none"

\* A chain that nobody disturbs transfers the mission, the fence and the rally points, each
\* once, in this order, leaving out what the vehicle does not support.
ChainCoversPlan ==
    [][ChainEnding => \E p \in gcs.mine : PartsInOrder = Append(legs, p)]_vars

\* At the end of a chain without failures and without changes of either plan meanwhile,
\* editor and vehicle hold the same mission and rally points, and a fence on the vehicle
\* is the one shown.
ChainMakesEqual ==
    [][ChainEnding /\ smooth' =>
          /\ gcs'.view["mission"] = onboard'["mission"]
          /\ "rally" \in supported => gcs'.view["rally"] = onboard'["rally"]
          /\ "fence" \in supported /\ onboard'["fence"] # {}
                => gcs'.view["fence"] = onboard'["fence"]]_vars

\* After the download of a plan from a vehicle that supports all its parts, without an
\* edit meanwhile, nothing is dirty.
DownloadIsClean ==
    [][ChainEnding /\ run = "load" /\ smooth' /\ supported = {"fence", "rally"} =>
          gcs'.dirty = {} /\ ~gcs'.forSave /\ ~gcs'.forUpload]_vars

\* A chain that nobody disturbs comes to its end.
ChainEnds == Followed ~> ~Followed

\* PlanMasterController.h:51, "true: Unsaved changes to disk are present, false: no changes
\* since last save to disk": a transfer that others began and that leaves the editor as it
\* is does not make an unsaved plan a saved one.
UnsavedStaysFlagged ==
    [][\A p \in Parts : EndTransaction(p) /\ p \notin gcs.mine /\ gcs'.view = gcs.view =>
          (gcs.forSave => gcs'.forSave)]_vars

=============================================================================
