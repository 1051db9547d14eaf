--------------------------- MODULE MavCommandQueue ---------------------------
(***************************************************************************)
(* The COMMAND_LONG / COMMAND_INT pipeline of one Vehicle                  *)
(* (src/Vehicle/MavCommandQueue.cc), with the link and the vehicle it      *)
(* talks to.                                                               *)
(*                                                                         *)
(* A command call is named by its position in the order of calls.  The     *)
(* code appends to _list and removes entries from any place, so the list   *)
(* is the set "pending" read in increasing order: its first match is a     *)
(* minimum and the backwards walk of _responseTimeoutCheck takes maxima.   *)
(*                                                                         *)
(* Everything here runs on one event loop.  A result handler is the last   *)
(* thing a function of the queue does, so what a handler calls is a step   *)
(* of its own right after it; only the walk of _responseTimeoutCheck goes  *)
(* on afterwards, and "scan" lets calls come between its iterations.       *)
(***************************************************************************)
EXTENDS Integers, Sequences, FiniteSets

CONSTANTS
    Comps,        \* component ids of the vehicle
    CompAll,      \* MAV_COMP_ID_ALL
    Cmds,         \* MAV_CMD values
    Retryable,    \* the commands _shouldRetry accepts
    Duplicable,   \* the commands _canBeDuplicated accepts
    ProgressEnds, \* PX4's MAV_CMD_DO_AUTOTUNE_ENABLE: IN_PROGRESS is all it sends
    Unsupported,  \* the commands this vehicle answers with MAV_RESULT_UNSUPPORTED
    LongRunning,  \* the commands it may answer first with MAV_RESULT_IN_PROGRESS
    Failing,      \* the supported commands that may end with MAV_RESULT_FAILED
    Calls,        \* the calls the application may make: records of CallType
    MaxTries,     \* kMaxRetryCount
    MaxReq        \* bound: number of calls in a behaviour

Reqs == 1..MaxReq

CallType == [comp : Comps \cup {CompAll}, cmd : Cmds, fallback : BOOLEAN]

ASSUME SetsAssumption ==
    /\ CompAll \notin Comps
    /\ Retryable \subseteq Cmds /\ Duplicable \subseteq Cmds
    /\ ProgressEnds \subseteq LongRunning /\ LongRunning \subseteq Cmds
    /\ Unsupported \subseteq Cmds \ LongRunning
    /\ Failing \subseteq Cmds \ Unsupported
    /\ Calls \subseteq CallType

ASSUME BoundsAssumption == MaxTries \in Nat \ {0} /\ MaxReq \in Nat \ {0}

Finals == {"accepted", "failed", "unsupported"}    \* MAV_RESULT of a final ack

Refusals == {"duplicate", "compAll", "noLink"}     \* sendWorker reports at once

\* Ends no handler and no commandResult tells of: PX4's autotune, a lambda run in
\* place of the command, and stop().
Silent == {"progressOnly", "lambda", "dropped"}

Reported == Finals \cup Refusals \cup {"noResponse"}

\* How a call ended; "none" while it has not.
Outcomes == Reported \cup Silent \cup {"none"}

VARIABLES
    call,      \* the calls made, in order
    pending,   \* _list
    probing,   \* calls whose handler is lambdaFallbackResultHandler
    tries,     \* tryCount
    maxTries,  \* maxTries
    expired,   \* entries whose elapsedTimer is past ackTimeoutMSecs
    scan,      \* entries the running _responseTimeoutCheck has yet to visit
    stopped,   \* _stopped
    linkUp,    \* VehicleLinkManager::primaryLink() can be locked
    support,   \* FirmwarePluginInstanceData::MAV_CMD_supported
    outcome,   \* how call r ended
    reports,   \* how often r's resultHandler ran or commandResult was emitted
    ackOf,     \* the call whose transmission was answered by the ack that ended r
    lambdaRun, \* the calls whose fallback lambda ran
    progressed,\* the calls whose progressHandler ran
    sends,     \* number of transmissions of r
    toVehicle, \* commands in flight
    working,   \* commands the vehicle answered IN_PROGRESS and still executes
    toGcs      \* COMMAND_ACKs in flight

entryVars == <<probing, tries, maxTries>>
endVars   == <<outcome, reports, ackOf, lambdaRun, progressed>>
netVars   == <<toVehicle, working, toGcs>>
vars      == <<call, pending, entryVars, expired, scan, stopped, linkUp,
               support, endVars, sends, netVars>>

Transmission == [req : Reqs, try : 1..MaxTries]

Answer == [req : Reqs, try : 1..MaxTries, result : Finals \cup {"inProgress"}]

TypeCalls ==
    /\ call \in Seq(Calls) /\ Len(call) <= MaxReq
    /\ support \in [Cmds -> {"unknown", "supported", "unsupported"}]
    /\ stopped \in BOOLEAN /\ linkUp \in BOOLEAN

TypeQueue ==
    /\ pending \subseteq 1..Len(call) /\ probing \subseteq 1..Len(call)
    /\ expired \subseteq pending /\ scan \subseteq pending
    /\ tries \in [Reqs -> 0..MaxTries] /\ maxTries \in [Reqs -> 1..MaxTries]

TypeEnds ==
    /\ outcome \in [Reqs -> Outcomes] /\ reports \in [Reqs -> Nat]
    /\ ackOf \in [Reqs -> 0..MaxReq]
    /\ lambdaRun \subseteq Reqs /\ progressed \subseteq Reqs

TypeNet ==
    /\ sends \in [Reqs -> 0..MaxTries]
    /\ toVehicle \subseteq Transmission /\ working \subseteq Transmission
    /\ toGcs \subseteq Answer

TypeOK == TypeCalls /\ TypeQueue /\ TypeEnds /\ TypeNet

Init ==
    /\ call = <<>> /\ pending = {} /\ probing = {}
    /\ tries = [r \in Reqs |-> 0] /\ maxTries = [r \in Reqs |-> 1]
    /\ expired = {} /\ scan = {}
    /\ stopped = FALSE /\ linkUp = TRUE
    /\ support = [c \in Cmds |-> "unknown"]
    /\ outcome = [r \in Reqs |-> "none"] /\ reports = [r \in Reqs |-> 0]
    /\ ackOf = [r \in Reqs |-> 0] /\ lambdaRun = {} /\ progressed = {}
    /\ sends = [r \in Reqs |-> 0]
    /\ toVehicle = {} /\ working = {} /\ toGcs = {}

-----------------------------------------------------------------------------
(* The pending list *)

SameCommand(c, d) == c.comp = d.comp /\ c.cmd = d.cmd

Matches(c) == {r \in pending : SameCommand(call[r], c)}

isPending(c) == Matches(c) # {}

\* Fault: an ack is taken to answer the head of the list.
HeadMatches(r, c) == r \in pending /\ \A q \in pending : r <= q

\* The entry findEntryIndex finds: the first one with the component and command.
IsFirstMatch(r, c) == r \in Matches(c) /\ \A q \in Matches(c) : r <= q

(* Ending a call: "code" is reported to its resultHandler, or by commandResult. *)
Report(r, code, from) ==
    /\ outcome' = [outcome EXCEPT ![r] = code]
    /\ reports' = [reports EXCEPT ![r] = @ + 1]
    /\ ackOf' = [ackOf EXCEPT ![r] = from]

\* Ending it without a report to the caller.
EndSilently(r, code) ==
    /\ outcome' = [outcome EXCEPT ![r] = code]
    /\ UNCHANGED <<reports, ackOf>>

Transmit(r) ==
    /\ sends' = [sends EXCEPT ![r] = @ + 1]
    /\ toVehicle' = toVehicle \cup {[req |-> r, try |-> tries'[r]]}

\* COMMAND_LONG.confirmation of the n-th try: computed from the entry copied
\* before tryCount is incremented, and narrowed to uint8_t.
Confirmation(n) == LET c == (n - 1) - 1 IN (IF c < 255 THEN c ELSE 255) % 256

-----------------------------------------------------------------------------
(* Calls.  New is the position the call takes. *)

New == Len(call) + 1

\* sendCommandWithLambdaFallbackWorker on a command known to be unsupported:
\* the lambda runs at once, whether or not the queue has been stopped.
RunLambda(c) ==
    /\ c.fallback /\ support[c.cmd] = "unsupported"
    /\ EndSilently(New, "lambda")
    /\ lambdaRun' = lambdaRun \cup {New}
    /\ UNCHANGED <<pending, entryVars, progressed, sends, toVehicle>>

Reaches(c) == ~(c.fallback /\ support[c.cmd] = "unsupported")

\* sendWorker after stop(): the call vanishes.
Drop(c) ==
    /\ Reaches(c) /\ stopped
    /\ EndSilently(New, "dropped")
    /\ UNCHANGED <<pending, entryVars, lambdaRun, progressed, sends, toVehicle>>

\* Fault: the check for a pending duplicate is missing.
RefusedUnlessAll(c) == c.comp = CompAll

Refused(c) == c.comp = CompAll \/ (isPending(c) /\ c.cmd \notin Duplicable)

Refuse(c) ==
    /\ Reaches(c) /\ ~stopped /\ Refused(c)
    /\ Report(New, IF c.comp = CompAll THEN "compAll" ELSE "duplicate", 0)
    /\ UNCHANGED <<pending, entryVars, lambdaRun, progressed, sends, toVehicle>>

NoLink(c) ==
    /\ Reaches(c) /\ ~stopped /\ ~Refused(c) /\ ~linkUp
    /\ Report(New, "noLink", 0)
    /\ UNCHANGED <<pending, entryVars, lambdaRun, progressed, sends, toVehicle>>

\* sendWorker appends the entry and _sendFromList makes the first try.
Enqueue(c) ==
    /\ Reaches(c) /\ ~stopped /\ ~Refused(c) /\ linkUp
    /\ pending' = pending \cup {New}
    /\ probing' = IF c.fallback /\ support[c.cmd] = "unknown"
                    THEN probing \cup {New} ELSE probing
    /\ maxTries' = [maxTries EXCEPT
                      ![New] = IF c.cmd \in Retryable THEN MaxTries ELSE 1]
    /\ tries' = [tries EXCEPT ![New] = 1]
    /\ Transmit(New)
    /\ UNCHANGED endVars

Call(c) ==
    /\ Len(call) < MaxReq
    /\ call' = Append(call, c)
    /\ \/ RunLambda(c) \/ Drop(c) \/ Refuse(c) \/ NoLink(c) \/ Enqueue(c)
    /\ UNCHANGED <<expired, scan, stopped, linkUp, support, working, toGcs>>

-----------------------------------------------------------------------------
(* The response timer *)

\* elapsedTimer.elapsed() > ackTimeoutMSecs.  A resend does not restart the timer.
AckWindowEnds(r) ==
    /\ r \in pending \ expired
    /\ expired' = expired \cup {r}
    /\ UNCHANGED <<call, pending, entryVars, scan, stopped, linkUp, support,
                   endVars, sends, netVars>>

StartTimeoutCheck ==
    /\ ~stopped /\ scan = {} /\ expired # {}
    /\ scan' = pending
    /\ UNCHANGED <<call, pending, entryVars, expired, stopped, linkUp, support,
                   endVars, sends, netVars>>

\* Fault: the entry given up is reported but stays in the list.
GiveUpKeepsEntry(r) ==
    /\ tries[r] + 1 > maxTries[r]
    /\ Report(r, "noResponse", 0)
    /\ UNCHANGED <<pending, expired, tries, sends, toVehicle>>

GiveUp(r) ==
    /\ tries[r] + 1 > maxTries[r]
    /\ pending' = pending \ {r} /\ expired' = expired \ {r}
    /\ Report(r, "noResponse", 0)
    /\ UNCHANGED <<tries, sends, toVehicle>>

\* Fault: the link is looked up first, so a try without a link is not counted.
ResendCountsSent(r) ==
    /\ tries[r] + 1 <= maxTries[r]
    /\ IF linkUp THEN tries' = [tries EXCEPT ![r] = @ + 1] /\ Transmit(r)
                 ELSE UNCHANGED <<tries, sends, toVehicle>>
    /\ UNCHANGED <<pending, expired, outcome, reports, ackOf>>

\* Fault: tryCount is compared before it is incremented.
ResendOnceMore(r) ==
    /\ tries[r] <= maxTries[r]
    /\ tries' = [tries EXCEPT ![r] = @ + 1]
    /\ IF linkUp THEN Transmit(r) ELSE UNCHANGED <<sends, toVehicle>>
    /\ UNCHANGED <<pending, expired, outcome, reports, ackOf>>

Resend(r) ==
    /\ tries[r] + 1 <= maxTries[r]
    /\ tries' = [tries EXCEPT ![r] = @ + 1]
    /\ IF linkUp THEN Transmit(r) ELSE UNCHANGED <<sends, toVehicle>>
    /\ UNCHANGED <<pending, expired, outcome, reports, ackOf>>

\* One iteration of _responseTimeoutCheck, with _sendFromList.
CheckEntry(r) ==
    /\ r \in scan /\ \A q \in scan : q <= r
    /\ scan' = scan \ {r}
    /\ IF r \in expired
         THEN GiveUp(r) \/ Resend(r)
         ELSE UNCHANGED <<pending, expired, tries, outcome, reports, ackOf,
                          sends, toVehicle>>
    /\ UNCHANGED <<call, probing, maxTries, stopped, linkUp, support,
                   lambdaRun, progressed, working, toGcs>>

-----------------------------------------------------------------------------
(* handleCommandAck *)

\* Ack that matches no entry.
IgnoreAck(c) ==
    /\ ~isPending(c)
    /\ UNCHANGED <<pending, maxTries, expired, support, endVars>>

\* Fault: every result but ACCEPTED is taken as UNSUPPORTED.
EndByAckAllUnsupported(c, a) == \E r \in pending :
    /\ IsFirstMatch(r, c) /\ a.result \in Finals
    /\ pending' = pending \ {r} /\ expired' = expired \ {r}
    /\ Report(r, a.result, a.req)
    /\ support' = IF r \in probing
                    THEN [support EXCEPT ![c.cmd] =
                            IF a.result = "accepted" THEN "supported" ELSE "unsupported"]
                    ELSE support
    /\ lambdaRun' = IF r \in probing /\ a.result # "accepted"
                      THEN lambdaRun \cup {r} ELSE lambdaRun
    /\ UNCHANGED <<maxTries, progressed>>

\* Final ack; a probing entry's handler is lambdaFallbackResultHandler.
EndByAck(c, a) == \E r \in pending :
    /\ IsFirstMatch(r, c) /\ a.result \in Finals
    /\ pending' = pending \ {r} /\ expired' = expired \ {r}
    /\ Report(r, a.result, a.req)
    /\ support' = IF r \in probing /\ a.result \in {"accepted", "unsupported"}
                    THEN [support EXCEPT ![c.cmd] =
                            IF a.result = "accepted" THEN "supported" ELSE "unsupported"]
                    ELSE support
    /\ lambdaRun' = IF r \in probing /\ a.result = "unsupported"
                      THEN lambdaRun \cup {r} ELSE lambdaRun
    /\ UNCHANGED <<maxTries, progressed>>

\* Fault: IN_PROGRESS restarts the ack window but leaves the retries.
NoteProgressKeepsTries(c, a) == \E r \in pending :
    /\ IsFirstMatch(r, c) /\ a.result = "inProgress" /\ c.cmd \notin ProgressEnds
    /\ expired' = expired \ {r}
    /\ progressed' = progressed \cup {r}
    /\ UNCHANGED <<pending, maxTries, support, outcome, reports, ackOf, lambdaRun>>

\* IN_PROGRESS: no more retries, and the ack window starts again.
NoteProgress(c, a) == \E r \in pending :
    /\ IsFirstMatch(r, c) /\ a.result = "inProgress" /\ c.cmd \notin ProgressEnds
    /\ maxTries' = [maxTries EXCEPT ![r] = 1]
    /\ expired' = expired \ {r}
    /\ progressed' = progressed \cup {r}
    /\ UNCHANGED <<pending, support, outcome, reports, ackOf, lambdaRun>>

\* IN_PROGRESS for PX4's autotune takes the entry out; its resultHandler never runs.
EndByProgress(c, a) == \E r \in pending :
    /\ IsFirstMatch(r, c) /\ a.result = "inProgress" /\ c.cmd \in ProgressEnds
    /\ pending' = pending \ {r} /\ expired' = expired \ {r}
    /\ EndSilently(r, "progressOnly")
    /\ progressed' = progressed \cup {r}
    /\ UNCHANGED <<maxTries, support, lambdaRun>>

handleCommandAck(a) ==
    LET c == call[a.req] IN
    /\ scan = {}
    /\ a \in toGcs
    /\ toGcs' = toGcs \ {a}
    /\ \/ IgnoreAck(c) \/ EndByAck(c, a) \/ NoteProgress(c, a) \/ EndByProgress(c, a)
    /\ UNCHANGED <<call, probing, tries, scan, stopped, linkUp, sends,
                   toVehicle, working>>

\* Fault: stop() halts the timer but leaves the entries.
StopKeepsEntries ==
    /\ ~stopped /\ scan = {}
    /\ stopped' = TRUE
    /\ UNCHANGED <<call, pending, entryVars, expired, scan, linkUp, support,
                   endVars, sends, netVars>>

stop ==
    /\ ~stopped /\ scan = {}
    /\ stopped' = TRUE
    /\ pending' = {} /\ expired' = {}
    /\ outcome' = [r \in Reqs |-> IF r \in pending THEN "dropped" ELSE outcome[r]]
    /\ UNCHANGED <<call, entryVars, scan, linkUp, support, reports, ackOf,
                   lambdaRun, progressed, sends, netVars>>

-----------------------------------------------------------------------------
(* The link and the vehicle *)

LinkChanges ==
    /\ scan = {}
    /\ linkUp' = ~linkUp
    /\ UNCHANGED <<call, pending, entryVars, expired, scan, stopped, support,
                   endVars, sends, netVars>>

\* How a command the vehicle supports may end.
Verdicts(cmd) == {"accepted"} \cup (IF cmd \in Failing THEN {"failed"} ELSE {})

\* Delivery is unordered.  A message no action ever takes out is a lost one.
VehicleAnswers(m) ==
    LET cmd == call[m.req].cmd
        Ack(result) == [req |-> m.req, try |-> m.try, result |-> result]
    IN
    /\ m \in toVehicle
    /\ toVehicle' = toVehicle \ {m}
    /\ \/ /\ cmd \in Unsupported
          /\ toGcs' = toGcs \cup {Ack("unsupported")} /\ UNCHANGED working
       \/ /\ cmd \notin Unsupported \cup ProgressEnds
          /\ \E result \in Verdicts(cmd) : toGcs' = toGcs \cup {Ack(result)}
          /\ UNCHANGED working
       \/ /\ cmd \in LongRunning
          /\ toGcs' = toGcs \cup {Ack("inProgress")}
          /\ working' = IF cmd \in ProgressEnds THEN working ELSE working \cup {m}
    /\ UNCHANGED <<call, pending, entryVars, expired, scan, stopped, linkUp,
                   support, endVars, sends>>

VehicleFinishes(m) ==
    /\ m \in working
    /\ working' = working \ {m}
    /\ \E result \in Verdicts(call[m.req].cmd) :
         toGcs' = toGcs \cup {[req |-> m.req, try |-> m.try, result |-> result]}
    /\ UNCHANGED <<call, pending, entryVars, expired, scan, stopped, linkUp,
                   support, endVars, sends, toVehicle>>

-----------------------------------------------------------------------------
Next ==
    \/ \E c \in Calls : Call(c)
    \/ \E r \in Reqs : AckWindowEnds(r) \/ CheckEntry(r)
    \/ StartTimeoutCheck
    \/ \E a \in toGcs : handleCommandAck(a)
    \/ stop
    \/ LinkChanges
    \/ \E m \in toVehicle : VehicleAnswers(m)
    \/ \E m \in working : VehicleFinishes(m)

Spec == Init /\ [][Next]_vars

\* Time passes and the repeating _responseCheckTimer keeps firing.
Fairness ==
    /\ \A r \in Reqs : WF_vars(AckWindowEnds(r)) /\ WF_vars(CheckEntry(r))
    /\ WF_vars(StartTimeoutCheck)

FairSpec == Spec /\ Fairness

-----------------------------------------------------------------------------
(* Properties *)

\* Every call is either still in _list or has ended, and the caller has heard
\* exactly once of every call that ended other than silently: no path through
\* sendWorker, _sendFromList, handleCommandAck and stop, in any order, reports
\* a call twice, reports one that is still pending, or loses one.
ReportedOnce == \A r \in 1..Len(call) :
    /\ r \in pending <=> outcome[r] = "none"
    /\ reports[r] = IF outcome[r] \in Reported THEN 1 ELSE 0

\* Two entries that one COMMAND_ACK could both match exist only for the commands
\* _canBeDuplicated allows.
NoTwins == \A q, r \in pending :
    SameCommand(call[q], call[r]) /\ call[r].cmd \notin Duplicable => q = r

\* A command goes out again only if it is one that is safe to retry, at most
\* kMaxRetryCount times in all, and never once the caller was told of its end or
\* the vehicle said it is in progress (the safety comment of _shouldRetry).
SafeResend ==
    [][\A r \in Reqs : sends'[r] # sends[r] =>
         /\ sends'[r] <= MaxTries
         /\ sends[r] > 0 =>
              /\ call[r].cmd \in Retryable
              /\ outcome[r] = "none" /\ r \notin progressed]_vars

\* The call was given up, or the vehicle has more than one transmission of it to answer.
MayAnswerLate(q) == outcome[q] = "noResponse" \/ sends[q] > 1

\* The ack that ends a call was sent for that call, or it is late: it answers an
\* earlier call of the same command, and goes back to one that had been given up or
\* transmitted more than once.  One late ack may displace the next: it ends a call
\* whose own ack then ends the call after it, so the answered call itself need be
\* neither given up nor repeated.
AckAttribution == \A r \in Reqs : LET s == ackOf[r] IN
    s \notin {0, r} /\ call[r].cmd \notin Duplicable =>
        /\ s < r /\ SameCommand(call[s], call[r])
        /\ \E q \in 1..s : SameCommand(call[q], call[r]) /\ MayAnswerLate(q)

\* The fallback lambda of a call runs exactly when the vehicle does not support
\* the command and nothing else stands in for it.
FallbackWhenUnsupported == \A r \in 1..Len(call) :
    /\ r \in lambdaRun => call[r].fallback /\ call[r].cmd \in Unsupported
    /\ call[r].fallback => (outcome[r] \in {"unsupported", "lambda"} <=> r \in lambdaRun)

\* After stop() nothing is sent and no handler of the queue runs: the guard against
\* callbacks into a vehicle that is being destroyed.
StopIsFinal ==
    [][stopped => stopped' /\ UNCHANGED <<pending, reports, sends, progressed>>]_vars

\* Every call that was accepted into _list ends: by an ack, by giving up after the
\* retries, or by stop().
EveryCallEnds == \A r \in Reqs : r \in pending ~> outcome[r] # "none"

Service == INSTANCE CommandService
    WITH made <- Len(call), open <- pending, ReportedEnds <- Reported, SilentEnds <- Silent

\* The queue gives its callers what CommandService promises: whatever the order of
\* calls, acks, timeouts and stop(), a step of the queue takes up, ends or abandons
\* calls, and none of its own steps shows.
ImplementsService == Service!Spec

\* MAVLink spec quoted in _sendFromList: confirmation increments on each resend.
ConfirmationIncrements ==
    [][\A r \in Reqs : sends[r] > 0 /\ sends'[r] # sends[r] =>
         Confirmation(tries'[r]) > Confirmation(tries[r])]_vars
=============================================================================
