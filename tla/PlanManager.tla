---------------------------- MODULE PlanManager ----------------------------
(***************************************************************************)
(* The mission transfer protocol of src/MissionManager/PlanManager.cc, as  *)
(* MissionManager uses it: download, upload, remove all, the resume upload *)
(* and the ArduPilot guided item, one transaction at a time, with one      *)
(* single-shot timer and one expected answer.                              *)
(*                                                                         *)
(* The vehicle is external: it answers as PlanManager expects a vehicle to, *)
(* receives an upload aside and takes it over with the last item, may      *)
(* refuse anything with an error, and may never answer.  A message once    *)
(* sent can arrive any number of times, in any order, or never.            *)
(***************************************************************************)
EXTENDS Integers, FiniteSets, SequencesExt

CONSTANTS Plans,      \* what the editor hands over: sequences of items, home first
          Onboard,    \* what a vehicle may hold when it is found
          Settings,   \* the firmware and the link, see below
          MaxRetry    \* _maxRetryCount

\* sendHome: firmwarePlugin()->sendHomePositionToVehicle(), ArduPilot and not PX4;
\* stale: messages of one transaction can arrive in a later one;
\* maxOps: bound, the number of transactions
ASSUME ConstantsAssumption ==
    /\ Settings \subseteq [sendHome : BOOLEAN, stale : BOOLEAN, maxOps : Nat]
    /\ MaxRetry \in Nat
    /\ Plans \cup Onboard \subseteq Seq([cmd : STRING, arg : Int])

Transactions == {"none", "read", "write", "removeAll"}
Acks    == {"none", "count", "item", "request", "clearAll", "guided"}
Kinds   == {"none", "read", "write", "resume", "guided", "removeAll"}
Signals == {"newMissionItemsAvailable", "sendComplete", "removeAllComplete",
            "resumeMissionReady", "resumeMissionUploadFail"}

VARIABLES
    transaction,  \* _transactionInProgress
    expectedAck,  \* _expectedAck
    timer,        \* _ackTimeoutTimer is running
    connected,    \* mavlinkMessageReceived is connected, once or more
    retryCount,   \* _retryCount
    toRead,       \* _itemIndicesToRead
    readCount,    \* _missionItemCountToRead
    toWrite,      \* _itemIndicesToWrite
    items,        \* _missionItems: [seq, item] in the order of the list
    writeItems,   \* _writeMissionItems
    resume,       \* _resumeMission
    kind,         \* which call began the transaction
    ops,          \* number of transactions so far
    ok,           \* the last transaction ended with success
    signals,      \* what the transaction has signalled
    sent,         \* indices of the items sent since the transaction began
    toVehicle, toGcs,   \* messages on their way
    onboard,      \* the plan the vehicle holds
    upload,       \* the plan it is receiving: [count, got]
    setting       \* one of Settings, for good

ackVars     == <<expectedAck, timer>>
listVars    == <<toRead, readCount, toWrite>>
historyVars == <<kind, ops, sent>>
endVars     == <<ok, signals, resume>>
vehicleVars == <<onboard, upload>>
vars == <<transaction, ackVars, connected, retryCount, listVars, items, writeItems,
          endVars, historyVars, toVehicle, toGcs, vehicleVars, setting>>

NoUpload == [count |-> 0, got |-> <<>>]

TypeOK ==
    /\ transaction \in Transactions /\ kind \in Kinds /\ expectedAck \in Acks
    /\ {timer, connected, resume, ok} \subseteq BOOLEAN
    /\ setting \in Settings
    /\ retryCount \in 0..(MaxRetry + 1) /\ ops \in 0..setting.maxOps
    /\ readCount \in Nat
    /\ toRead \subseteq 0..(readCount - 1)
    /\ toWrite \subseteq 0..(Len(writeItems) - 1)
    /\ \A i \in DOMAIN items : items[i].seq \in Nat
    /\ signals \in Seq(Signals) /\ sent \subseteq Nat
    /\ upload.count \in Nat /\ Len(upload.got) <= upload.count

Init ==
    /\ transaction = "none" /\ kind = "none"
    /\ expectedAck = "none" /\ timer = FALSE /\ connected = FALSE
    /\ retryCount = 0
    /\ toRead = {} /\ readCount = 0 /\ toWrite = {} /\ sent = {}
    /\ items = <<>> /\ writeItems = <<>> /\ resume = FALSE
    /\ ops = 0 /\ ok = FALSE /\ signals = <<>>
    /\ toVehicle = {} /\ toGcs = {}
    /\ onboard \in Onboard /\ upload = NoUpload /\ setting \in Settings

-----------------------------------------------------------------------------
(* Messages.  The mission_type of those to the ground station is "mission" for *)
(* this manager; the vehicle's transfers with the fence and rally managers     *)
(* arrive here too.                                                            *)

Strays ==
    {[msg |-> "COUNT", count |-> 1, type |-> "fence"],
     [msg |-> "ITEM", seq |-> 0, item |-> [cmd |-> "wp", arg |-> 0], type |-> "fence"],
     [msg |-> "REQUEST", seq |-> 0, type |-> "fence"],
     [msg |-> "ACK", result |-> "accepted", type |-> "fence"]}

Arriving(kindOf) == {m \in toGcs \cup Strays : connected /\ m.msg = kindOf}

\* An item that is a jump names its target by sequence number.  Where home is not
\* part of the vehicle's plan, the numbers there are one less than the editor's.
Shifted(item, by) == IF item.cmd = "jump" /\ ~setting.sendHome
                     THEN [item EXCEPT !.arg = @ + by] ELSE item

FromVehicle(item) == Shifted(item, 1)

\* The plan writeMissionItems keeps of what the editor handed over.
ForVehicle(plan) ==
    LET kept == IF setting.sendHome THEN plan ELSE SubSeq(plan, 2, Len(plan))
    IN  [i \in 1..Len(kept) |-> Shifted(kept[i], -1)]

Numbered(plan) == [i \in 1..Len(plan) |-> [seq |-> i - 1, item |-> plan[i]]]

Indices(n) == 0..(n - 1)

-----------------------------------------------------------------------------
(* _finishTransaction, _startAckTimeout, _checkForExpectedAck *)

\* _startAckTimeout, after the message it waits for was sent.  Without a link
\* nothing is sent and the timer starts all the same: a lost message.
SendAndWait(m, ack) ==
    /\ toVehicle' = toVehicle \cup {m}
    /\ expectedAck' = ack /\ timer' = TRUE

ResumeSignal(success) ==
    IF ~resume THEN <<>>
    ELSE IF success THEN <<"resumeMissionReady">> ELSE <<"resumeMissionUploadFail">>

\* What each kind of transaction does when it ends: a "read" that fails clears the
\* partial list, a "write" takes over or discards its list, unless it was guided.

\* Fault: a download that fails keeps what it has.
FinishReadKeeping(success, list) ==
    /\ transaction = "read"
    /\ items' = list
    /\ signals' = <<"newMissionItemsAvailable">> \o ResumeSignal(success)
    /\ UNCHANGED writeItems

FinishRead(success, list) ==
    /\ transaction = "read"
    /\ items' = IF success THEN list ELSE <<>>
    /\ signals' = <<"newMissionItemsAvailable">> \o ResumeSignal(success)
    /\ UNCHANGED writeItems

FinishWrite(success, guided) ==
    /\ transaction = "write" /\ ~guided
    /\ items' = IF success THEN Numbered(writeItems) ELSE items
    /\ writeItems' = <<>>
    /\ signals' = <<"sendComplete">> \o ResumeSignal(success)

FinishGuided(success, guided) ==
    /\ transaction = "write" /\ guided
    /\ signals' = ResumeSignal(success)
    /\ UNCHANGED <<items, writeItems>>

FinishRemoveAll(success) ==
    /\ transaction = "removeAll"
    /\ signals' = <<"removeAllComplete">> \o ResumeSignal(success)
    /\ UNCHANGED <<items, writeItems>>

\* Fault: _resumeMission survives the transaction it was set for.
FinishKeepingResume(success, guided, list, ack) ==
    /\ connected' = FALSE /\ timer' = FALSE /\ expectedAck' = ack
    /\ toRead' = {} /\ toWrite' = {} /\ transaction' = "none"
    /\ ok' = success /\ resume' = resume
    /\ \/ FinishRead(success, list) \/ FinishRemoveAll(success)
       \/ FinishWrite(success, guided) \/ FinishGuided(success, guided)

\* "list" is the list a read has by then; "ack" is what _expectedAck is left at.
Finish(success, guided, list, ack) ==
    /\ connected' = FALSE /\ timer' = FALSE /\ expectedAck' = ack
    /\ toRead' = {} /\ toWrite' = {} /\ transaction' = "none"
    /\ ok' = success /\ resume' = FALSE
    /\ \/ FinishRead(success, list) \/ FinishRemoveAll(success)
       \/ FinishWrite(success, guided) \/ FinishGuided(success, guided)

Fail == /\ Finish(FALSE, FALSE, items, "none")
        /\ UNCHANGED <<retryCount, readCount, sent, toVehicle>>

\* Handlers of messages run only while connected, and leave the rest to the vehicle.
Handled == UNCHANGED <<kind, ops, toGcs, vehicleVars, setting>>

Continues == UNCHANGED <<transaction, connected, endVars>>

-----------------------------------------------------------------------------
(* The calls: ignored while a transaction is in progress *)

Begin(t, k) ==
    /\ transaction = "none" /\ ops < setting.maxOps
    /\ transaction' = t /\ kind' = k /\ ops' = ops + 1
    /\ connected' = TRUE
    /\ ok' = FALSE /\ signals' = <<>> /\ sent' = {}
    /\ toGcs' = (IF setting.stale THEN toGcs ELSE {})
    /\ UNCHANGED <<vehicleVars, setting>>

BeginSending(m, ack) ==
    /\ toVehicle' = (IF setting.stale THEN toVehicle ELSE {}) \cup {m}
    /\ expectedAck' = ack /\ timer' = TRUE

\* Fault: the list is not cleared before it is filled.
LoadOntoItems ==
    /\ Begin("read", "read")
    /\ retryCount' = 0
    /\ toRead' = {}
    /\ BeginSending([msg |-> "REQUEST_LIST"], "count")
    /\ UNCHANGED <<readCount, toWrite, items, writeItems, resume>>

loadFromVehicle ==
    /\ Begin("read", "read")
    /\ retryCount' = 0
    /\ toRead' = {} /\ items' = <<>>
    /\ BeginSending([msg |-> "REQUEST_LIST"], "count")
    /\ UNCHANGED <<readCount, toWrite, writeItems, resume>>

\* _writeMissionItemsWorker
WriteWorker(plan) ==
    /\ writeItems' = plan
    /\ toWrite' = Indices(Len(plan))
    /\ retryCount' = 0
    /\ BeginSending([msg |-> "COUNT", count |-> Len(plan)], "request")
    /\ UNCHANGED <<toRead, readCount, items>>

writeMissionItems(plan) ==
    /\ Begin("write", "write")
    /\ WriteWorker(ForVehicle(plan))
    /\ UNCHANGED resume

\* The items from index k on, with home where it is part of the plan; a plan with a
\* jump is refused.  A list without an item to fly to is indexed out of range by the
\* code, and is no input of this action.
generateResumeMission(k) ==
    /\ k \in 1..Len(items) /\ (setting.sendHome => Len(items) > 1)
    /\ \A i \in 1..Len(items) : items[i].item.cmd # "jump"
    /\ LET list == [i \in 1..Len(items) |-> items[i].item]
           home == IF setting.sendHome /\ k > 1 THEN <<list[1]>> ELSE <<>>
       IN /\ Begin("write", "resume")
          /\ WriteWorker(home \o SubSeq(list, k, Len(list)))
    /\ resume' = TRUE

\* _retryCount keeps the value of the transaction before.
writeArduPilotGuidedMissionItem ==
    /\ setting.sendHome
    /\ Begin("write", "guided")
    /\ BeginSending([msg |-> "GUIDED"], "guided")
    /\ UNCHANGED <<retryCount, listVars, items, writeItems, resume>>

removeAll ==
    /\ Begin("removeAll", "removeAll")
    /\ items' = <<>> /\ retryCount' = 0
    /\ BeginSending([msg |-> "CLEAR_ALL"], "clearAll")
    /\ UNCHANGED <<listVars, writeItems, resume>>

-----------------------------------------------------------------------------
(* Messages from the vehicle *)

\* _requestNextMissionItem
RequestNext(wanted) ==
    SendAndWait([msg |-> "REQUEST", seq |-> CHOOSE i \in wanted : \A j \in wanted : i <= j],
                "item")

handleMissionCount(m) ==
    /\ m.type = "mission" /\ expectedAck = "count"
    /\ retryCount' = 0
    /\ \/ /\ m.count = 0
          /\ Finish(TRUE, FALSE, items, "none")
          /\ UNCHANGED <<readCount, sent, toVehicle>>
       \/ /\ m.count > 0
          /\ toRead' = Indices(m.count) /\ readCount' = m.count
          /\ RequestNext(Indices(m.count))
          /\ Continues /\ UNCHANGED <<toWrite, items, writeItems, sent>>
    /\ Handled

\* Fault: the timer stopped for an item that was not asked for is not started again.
UnrequestedStops(m) ==
    /\ m.seq \notin toRead
    /\ expectedAck' = "none" /\ timer' = FALSE
    /\ Continues /\ UNCHANGED <<retryCount, listVars, items, writeItems, sent, toVehicle>>

Unrequested(m) ==
    /\ m.seq \notin toRead
    /\ expectedAck' = "item" /\ timer' = TRUE
    /\ Continues /\ UNCHANGED <<retryCount, listVars, items, writeItems, sent, toVehicle>>

Requested(m) ==
    LET rest == toRead \ {m.seq}
        list == Append(items, [seq |-> m.seq, item |-> FromVehicle(m.item)])
    IN
    /\ m.seq \in toRead
    /\ retryCount' = 0
    /\ \/ /\ rest = {}
          /\ Finish(TRUE, FALSE, list, "none")
          /\ UNCHANGED <<readCount, sent, toVehicle>>
       \/ /\ rest # {}
          /\ toRead' = rest /\ items' = list
          /\ RequestNext(rest)
          /\ Continues /\ UNCHANGED <<readCount, toWrite, writeItems, sent>>

\* Fault: the item is taken whichever transfer it belongs to.
ItemOfAnyType(m) ==
    /\ expectedAck = "item"
    /\ Unrequested(m) \/ Requested(m)
    /\ Handled

handleMissionItem(m) ==
    /\ m.type = "mission" /\ expectedAck = "item"
    /\ Unrequested(m) \/ Requested(m)
    /\ Handled

OutOfRange(m) ==
    /\ m.seq > Len(writeItems) - 1
    /\ Fail

\* An item asked for again is sent again.
InRange(m) ==
    /\ m.seq <= Len(writeItems) - 1
    /\ toWrite' = toWrite \ {m.seq} /\ sent' = sent \cup {m.seq}
    /\ SendAndWait([msg |-> "ITEM", seq |-> m.seq, item |-> writeItems[m.seq + 1]], "request")
    /\ Continues /\ UNCHANGED <<retryCount, toRead, readCount, items, writeItems>>

handleMissionRequest(m) ==
    /\ m.type = "mission" /\ expectedAck = "request"
    /\ OutOfRange(m) \/ InRange(m)
    /\ Handled

Ends(success, guided) ==
    /\ Finish(success, guided, items, "none")
    /\ UNCHANGED <<retryCount, readCount, sent, toVehicle>>

\* ArduPilot's INVALID_SEQUENCE is ignored.
Believed(m) == m.type = "mission" /\ ~(setting.sendHome /\ m.result = "invalidSequence")

AckDuringRead == expectedAck \in {"count", "item"} /\ Fail

\* Fault: ACCEPTED ends the upload whatever the vehicle has asked for.
AckEndsWrite(m) ==
    /\ expectedAck = "request"
    /\ Ends(m.result = "accepted", FALSE)

AckDuringWrite(m) ==
    /\ expectedAck = "request"
    /\ Ends(m.result = "accepted" /\ toWrite = {}, FALSE)

AckOfClearAll(m) == expectedAck = "clearAll" /\ Ends(m.result = "accepted", FALSE)

AckOfGuided(m) == expectedAck = "guided" /\ Ends(m.result = "accepted", TRUE)

handleMissionAck(m) ==
    /\ Believed(m)
    /\ AckDuringRead \/ AckDuringWrite(m) \/ AckOfClearAll(m) \/ AckOfGuided(m)
    /\ Handled

-----------------------------------------------------------------------------
(* _ackTimeout *)

Resend(m, ack) ==
    /\ retryCount' = retryCount + 1
    /\ SendAndWait(m, ack)
    /\ Continues /\ UNCHANGED <<readCount, toWrite, writeItems, sent>>

\* The timer is single-shot; _expectedAck stays as it was.
GivesUp == /\ Finish(FALSE, FALSE, items, expectedAck)
           /\ UNCHANGED <<retryCount, readCount, sent, toVehicle>>

Exhausted == retryCount > MaxRetry

CountTimeout ==
    /\ expectedAck = "count" /\ ~Exhausted
    /\ toRead' = {} /\ items' = <<>>
    /\ Resend([msg |-> "REQUEST_LIST"], "count")

ItemTimeout ==
    /\ expectedAck = "item" /\ ~Exhausted
    /\ retryCount' = retryCount + 1
    /\ RequestNext(toRead)
    /\ Continues /\ UNCHANGED <<listVars, items, writeItems, sent>>

ClearAllTimeout ==
    /\ expectedAck = "clearAll" /\ ~Exhausted
    /\ Resend([msg |-> "CLEAR_ALL"], "clearAll")
    /\ UNCHANGED <<toRead, items>>

\* Only while the vehicle has not asked for item 0 is MISSION_COUNT repeated.
WriteCountTimeout ==
    /\ expectedAck = "request" /\ 0 \in toWrite /\ ~Exhausted
    /\ Resend([msg |-> "COUNT", count |-> Len(writeItems)], "request")
    /\ UNCHANGED <<toRead, items>>

RetriesTimeout ==
    /\ \/ expectedAck \in {"count", "item", "clearAll"}
       \/ expectedAck = "request" /\ 0 \in toWrite
    /\ Exhausted
    /\ GivesUp

FinalAckTimeout == expectedAck = "request" /\ toWrite = {} /\ GivesUp

ItemsLeftTimeout == expectedAck = "request" /\ toWrite # {} /\ 0 \notin toWrite /\ Fail

\* apmGuidedItemWrite is left at its default, false.
GuidedTimeout == expectedAck = "guided" /\ Fail

\* Fault: retries are not counted.
EndlessTimeout ==
    /\ timer
    /\ \/ /\ expectedAck = "count"
          /\ toRead' = {} /\ items' = <<>>
          /\ Resend([msg |-> "REQUEST_LIST"], "count")
       \/ ItemTimeout \/ ClearAllTimeout \/ WriteCountTimeout
       \/ FinalAckTimeout \/ ItemsLeftTimeout \/ GuidedTimeout
    /\ Handled

ackTimeout ==
    /\ timer
    /\ \/ CountTimeout \/ ItemTimeout \/ ClearAllTimeout \/ WriteCountTimeout
       \/ RetriesTimeout \/ FinalAckTimeout \/ ItemsLeftTimeout \/ GuidedTimeout
    /\ Handled

-----------------------------------------------------------------------------
(* The vehicle *)

gcsVars == <<transaction, ackVars, connected, retryCount, listVars, items, writeItems,
             endVars, historyVars, toVehicle, setting>>

Answer(m) == toGcs' = toGcs \cup {m}

Ack(outcome) == Answer([msg |-> "ACK", result |-> outcome, type |-> "mission"])

VehicleList(m) ==
    /\ m.msg = "REQUEST_LIST"
    /\ Answer([msg |-> "COUNT", count |-> Len(onboard), type |-> "mission"])
    /\ UNCHANGED vehicleVars

VehicleItem(m) ==
    /\ m.msg = "REQUEST"
    /\ IF m.seq < Len(onboard)
       THEN Answer([msg |-> "ITEM", seq |-> m.seq, item |-> onboard[m.seq + 1],
                    type |-> "mission"])
       ELSE Ack("invalidSequence")
    /\ UNCHANGED vehicleVars

VehicleCount(m) ==
    /\ m.msg = "COUNT"
    /\ IF m.count = 0
       THEN onboard' = <<>> /\ upload' = NoUpload /\ Ack("accepted")
       ELSE /\ upload' = [count |-> m.count, got |-> <<>>]
            /\ Answer([msg |-> "REQUEST", seq |-> 0, type |-> "mission"])
            /\ UNCHANGED onboard

VehicleReceives(m) ==
    /\ m.msg = "ITEM"
    /\ upload.count > 0 /\ m.seq = Len(upload.got)
    /\ LET got == Append(upload.got, m.item) IN
       IF Len(got) = upload.count
       THEN onboard' = got /\ upload' = NoUpload /\ Ack("accepted")
       ELSE /\ upload' = [upload EXCEPT !.got = got]
            /\ Answer([msg |-> "REQUEST", seq |-> m.seq + 1, type |-> "mission"])
            /\ UNCHANGED onboard

VehicleClears(m) ==
    /\ m.msg = "CLEAR_ALL"
    /\ onboard' = <<>> /\ upload' = NoUpload /\ Ack("accepted")

VehicleGuided(m) == m.msg = "GUIDED" /\ Ack("accepted") /\ UNCHANGED vehicleVars

VehicleRefuses ==
    /\ upload' = NoUpload
    /\ Ack("error")
    /\ UNCHANGED onboard

Vehicle(m) ==
    /\ VehicleList(m) \/ VehicleItem(m) \/ VehicleCount(m) \/ VehicleReceives(m)
       \/ VehicleClears(m) \/ VehicleGuided(m) \/ VehicleRefuses
    /\ UNCHANGED gcsVars

-----------------------------------------------------------------------------
Calls ==
    \/ loadFromVehicle \/ removeAll \/ writeArduPilotGuidedMissionItem
    \/ \E plan \in Plans : writeMissionItems(plan)
    \/ \E k \in 1..Len(items) : generateResumeMission(k)

Next ==
    \/ Calls
    \/ \E m \in Arriving("COUNT") : handleMissionCount(m)
    \/ \E m \in Arriving("ITEM") : handleMissionItem(m)
    \/ \E m \in Arriving("REQUEST") : handleMissionRequest(m)
    \/ \E m \in Arriving("ACK") : handleMissionAck(m)
    \/ ackTimeout
    \/ \E m \in toVehicle : Vehicle(m)

Spec == Init /\ [][Next]_vars

\* The event loop fires a running timer.  A message that restarts it can come often,
\* not for ever.
FairSpec == Spec /\ WF_vars(ackTimeout)

-----------------------------------------------------------------------------
(* Properties *)

Seqs(list) == {list[i].seq : i \in 1..Len(list)}

\* Items arrive in any order, repeated, and from earlier transactions: at each moment
\* of a download the indices in the list and those still wanted are all the indices,
\* none twice, so that a download that succeeds has each exactly once.
ReadIsComplete ==
    (transaction = "read" /\ expectedAck = "item") \/ (kind = "read" /\ ok) =>
       /\ toRead \cap Seqs(items) = {}
       /\ Cardinality(Seqs(items)) = Len(items)
       /\ Len(items) > 0 => toRead \cup Seqs(items) = Indices(readCount)

\* An upload succeeds only if every item of the plan was sent, and what _missionItems
\* then holds is that plan.
WriteSentEverything ==
    /\ transaction = "write" /\ kind # "guided" =>
         toWrite \cup sent = Indices(Len(writeItems)) /\ toWrite \cap sent = {}
    /\ kind \in {"write", "resume"} /\ ok => sent = Indices(Len(items))

\* Each transaction signals its end once, by the signal of its kind and, if it was a
\* resume, by the one that tells the outcome; nothing is signalled before the end.
SignalsItsEnd ==
    LET its == CASE kind = "read" -> <<"newMissionItemsAvailable">>
                 [] kind \in {"write", "resume"} -> <<"sendComplete">>
                 [] kind = "removeAll" -> <<"removeAllComplete">>
                 [] OTHER -> <<>>
        told == IF kind # "resume" THEN <<>>
                ELSE IF ok THEN <<"resumeMissionReady">> ELSE <<"resumeMissionUploadFail">>
    IN  kind # "guided" => signals = IF transaction = "none" THEN its \o told ELSE <<>>

\* _missionItems: "Set of mission items on vehicle".  After a transfer that succeeded
\* it is what a download of the vehicle's plan gives, in the same order.
ItemsMatchVehicle ==
    transaction = "none" /\ ok /\ kind # "guided" =>
       items = Numbered([i \in 1..Len(onboard) |-> FromVehicle(onboard[i])])

\* While no message outlives its transaction, every transfer that succeeded leaves the
\* same plan on both sides.
FreshItemsMatchVehicle == ~setting.stale => ItemsMatchVehicle

\* "No need to do anything for ArduPilot guided go to waypoint write": such a write
\* does not signal the end of an upload.
GuidedIsNoUpload == kind = "guided" => signals = <<>>

\* The transfers do what PlanTransaction promises: a failed or refused transfer, a
\* repeated message or a timeout never leaves a partial list, and only an upload that
\* succeeds replaces the list.
Transaction == INSTANCE PlanTransaction WITH
    transaction <- IF transaction = "write" /\ kind = "guided" THEN "guided" ELSE transaction,
    plan <- Numbered(writeItems)

ImplementsTransaction == Transaction!Spec

\* Every transaction ends, whatever the vehicle answers.
EveryTransactionEnds == transaction # "none" ~> transaction = "none"
=============================================================================
