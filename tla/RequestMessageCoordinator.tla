---------------------- MODULE RequestMessageCoordinator ----------------------
(***************************************************************************)
(* MAV_CMD_REQUEST_MESSAGE workflows (src/Vehicle/RequestMessageCoordinator *)
(* .cc): one active request per component, a FIFO of the others, and the   *)
(* correlation of the COMMAND_ACK with the message itself, in either order. *)
(*                                                                         *)
(* The command pipeline below is MavCommandQueue seen as a service: it     *)
(* takes up at most one MAV_CMD_REQUEST_MESSAGE per component, refuses     *)
(* others at once, and ends each one it took up once (CommandService).     *)
(* Other parts of the program use the same service for the same command.   *)
(*                                                                         *)
(* A refusal calls _cmdResultHandler from inside sendWorker, which removes *)
(* the request and sends the next one, which is refused for the same       *)
(* reason: the recursion ends with the component's queue empty.  It is one *)
(* step here.  Handlers run last, so what they request is a later step.    *)
(***************************************************************************)
EXTENDS Integers, FiniteSets, SequencesExt

CONSTANTS Comps,  \* component ids, ordered as in the QMaps
          Msgs,   \* message ids
          Asks,   \* what the program requests: <<component, message>> pairs
          MaxReq  \* bound: number of requests in a behaviour

ASSUME ConstantsAssumption ==
    Comps \subseteq Nat /\ Asks \subseteq Comps \X Msgs /\ MaxReq \in Nat \ {0}

Reqs == 1..MaxReq

Outcomes == {"none", "success", "commandError", "notAcked", "noMessage", "duplicate"}

VARIABLES
    req,         \* the requests made, in order: what each asks for
    active,      \* _infoMap
    queue,       \* _queueMap
    acked,       \* requests whose commandAckReceived was set by an ACCEPTED ack
    arrived,     \* requests whose messageReceived was set
    overdue,     \* active requests whose messageWaitElapsedTimer passed 1000 ms
    outcome,     \* the code given to resultHandler
    handled,     \* how often resultHandler ran
    dropped,     \* requests cleared by stop(), or made after it
    serving,     \* the request whose command is in the queue, 0 for none
    others,      \* components whose REQUEST_MESSAGE in the queue is someone else's
    linkUp,      \* the vehicle has a primary link
    stopped      \* Vehicle::_stopCommandProcessing has run

infoVars == <<active, acked, arrived, overdue>>
endVars  == <<outcome, handled>>
vars     == <<req, infoVars, queue, endVars, dropped, serving, others, linkUp, stopped>>

TypeOK ==
    /\ req \in Seq([comp : Comps, msg : Msgs]) /\ Len(req) <= MaxReq
    /\ active \subseteq 1..Len(req) /\ overdue \subseteq active \cap acked
    /\ acked \subseteq Reqs /\ arrived \subseteq Reqs /\ dropped \subseteq Reqs
    /\ queue \in [Comps -> Seq(1..Len(req))]
    /\ outcome \in [Reqs -> Outcomes] /\ handled \in [Reqs -> Nat]
    /\ serving \in [Comps -> 0..Len(req)] /\ others \subseteq Comps
    /\ linkUp \in BOOLEAN /\ stopped \in BOOLEAN

Init ==
    /\ req = <<>> /\ active = {} /\ acked = {} /\ arrived = {} /\ overdue = {}
    /\ queue = [c \in Comps |-> <<>>]
    /\ outcome = [r \in Reqs |-> "none"] /\ handled = [r \in Reqs |-> 0]
    /\ dropped = {}
    /\ serving = [c \in Comps |-> 0] /\ others = {}
    /\ linkUp = TRUE /\ stopped = FALSE

-----------------------------------------------------------------------------
ActiveOf(c) == {r \in active : req[r].comp = c}

\* sendWorker fails at once when the command is pending for the component or the
\* link is gone, and with which code for the requester.
Pending(c, busy) == c \in others \/ busy[c] # 0

Refuses(c, busy) == Pending(c, busy) \/ ~linkUp

RefusalCode(c, busy) == IF Pending(c, busy) THEN "duplicate" ELSE "notAcked"

\* The resultHandler of each request of "rs" runs once, with its code.
RunHandlers(rs, code(_)) ==
    /\ outcome' = [r \in Reqs |-> IF r \in rs THEN code(r) ELSE outcome[r]]
    /\ handled' = [r \in Reqs |-> IF r \in rs THEN handled[r] + 1 ELSE handled[r]]

\* Fault: the newest request is taken instead of the oldest.
SendLast(c, q, done, code, busy) ==
    LET refused == IF ~stopped /\ Refuses(c, busy) THEN ToSet(q) ELSE {}
        sent    == q # <<>> /\ refused = {}
    IN
    /\ active' = (active \ done) \cup (IF sent THEN {Last(q)} ELSE {})
    /\ overdue' = overdue \ done
    /\ queue' = [queue EXCEPT ![c] = IF sent THEN Front(q) ELSE <<>>]
    /\ serving' = [busy EXCEPT ![c] = IF sent /\ ~stopped THEN Last(q) ELSE @]
    /\ RunHandlers(done \cup refused,
                   LAMBDA r : IF r \in done THEN code ELSE RefusalCode(c, busy))

\* _sendNextFromQueue and _sendNow on the requests q that wait for component c, once
\* the requests "done" are out of _infoMap; theirs and the handlers of the refused
\* ones run.  "busy" is the service as the removal left it.
SendNext(c, q, done, code, busy) ==
    LET refused == IF ~stopped /\ Refuses(c, busy) THEN ToSet(q) ELSE {}
        sent    == q # <<>> /\ refused = {}
    IN
    /\ active' = (active \ done) \cup (IF sent THEN {Head(q)} ELSE {})
    /\ overdue' = overdue \ done
    /\ queue' = [queue EXCEPT ![c] = IF sent THEN Tail(q) ELSE <<>>]
    /\ serving' = [busy EXCEPT ![c] = IF sent /\ ~stopped THEN Head(q) ELSE @]
    /\ RunHandlers(done \cup refused,
                   LAMBDA r : IF r \in done THEN code ELSE RefusalCode(c, busy))

\* Fault: the queue is not advanced when a request is removed.
FinishOnly(r, code, busy) ==
    /\ active' = active \ {r} /\ overdue' = overdue \ {r}
    /\ serving' = busy
    /\ RunHandlers({r}, LAMBDA x : code)
    /\ UNCHANGED queue

\* _removeInfo of active request r, then its handler.
Finish(r, code, busy) ==
    LET c == req[r].comp IN SendNext(c, queue[c], {r}, code, busy)

-----------------------------------------------------------------------------
(* requestMessage *)

New == Len(req) + 1

\* _duplicate
Duplicate(c, m) == \E r \in ActiveOf(c) \cup ToSet(queue[c]) : req[r].msg = m

FailDuplicate(c, m) ==
    /\ Duplicate(c, m)
    /\ RunHandlers({New}, LAMBDA r : "duplicate")
    /\ UNCHANGED <<active, overdue, queue, serving>>

Enqueue(c, m) ==
    /\ ~Duplicate(c, m) /\ ActiveOf(c) # {}
    /\ queue' = [queue EXCEPT ![c] = Append(@, New)]
    /\ UNCHANGED <<active, overdue, endVars, serving>>

SendNow(c, m) ==
    /\ ~Duplicate(c, m) /\ ActiveOf(c) = {}
    /\ SendNext(c, <<New>>, {}, "none", serving)

requestMessage(c, m) ==
    /\ Len(req) < MaxReq
    /\ req' = Append(req, [comp |-> c, msg |-> m])
    /\ FailDuplicate(c, m) \/ Enqueue(c, m) \/ SendNow(c, m)
    /\ dropped' = IF stopped /\ ~Duplicate(c, m) THEN dropped \cup {New} ELSE dropped
    /\ UNCHANGED <<acked, arrived, others, linkUp, stopped>>

-----------------------------------------------------------------------------
(* _cmdResultHandler: the service ends the command of request r *)

Unserved(c) == [serving EXCEPT ![c] = 0]

\* Fault: a failed ack is remembered but the request stays.
CommandFailsKeepingInfo(r, code) ==
    /\ RunHandlers({r}, LAMBDA x : code)
    /\ serving' = Unserved(req[r].comp)
    /\ UNCHANGED <<active, overdue, queue, acked>>

CommandFails(r, code) ==
    /\ Finish(r, code, Unserved(req[r].comp))
    /\ UNCHANGED acked

\* ACCEPTED after the message: both have come.
CommandAcceptedLast(r) ==
    /\ r \in arrived
    /\ acked' = acked \cup {r}
    /\ Finish(r, "success", Unserved(req[r].comp))

\* ACCEPTED first: messageWaitElapsedTimer starts.
CommandAcceptedFirst(r) ==
    /\ r \notin arrived
    /\ acked' = acked \cup {r}
    /\ serving' = Unserved(req[r].comp)
    /\ UNCHANGED <<active, overdue, queue, endVars>>

cmdResultHandler(c) ==
    LET r == serving[c] IN
    /\ r # 0
    /\ \/ \E code \in {"commandError", "notAcked"} : CommandFails(r, code)
       \/ CommandAcceptedLast(r)
       \/ CommandAcceptedFirst(r)
    /\ UNCHANGED <<req, arrived, dropped, others, linkUp, stopped>>

-----------------------------------------------------------------------------
(* handleReceivedMessage *)

ActiveFor(c, m) == {r \in ActiveOf(c) : req[r].msg = m}

MessageBeforeAck(c, m) == \E r \in ActiveFor(c, m) :
    /\ r \notin acked
    /\ arrived' = arrived \cup {r}
    /\ UNCHANGED <<active, overdue, queue, serving, endVars>>

\* Fault: the message alone completes the request, whether or not the ack has come.
MessageCompletes(c, m) == \E r \in ActiveFor(c, m) :
    /\ arrived' = arrived \cup {r}
    /\ Finish(r, "success", serving)

MessageAfterAck(c, m) == \E r \in ActiveFor(c, m) :
    /\ r \in acked
    /\ arrived' = arrived \cup {r}
    /\ Finish(r, "success", serving)

\* The first request in the order of _infoMap that has waited too long.
FirstOverdue(r) ==
    /\ r \in overdue
    /\ \A q \in overdue : req[r].comp <= req[q].comp

\* Any other message: at most one overdue request is given up.
Tick(c, m) == \E r \in overdue :
    /\ ActiveFor(c, m) = {} /\ FirstOverdue(r)
    /\ Finish(r, "noMessage", serving)
    /\ UNCHANGED arrived

handleReceivedMessage(c, m) ==
    /\ MessageBeforeAck(c, m) \/ MessageAfterAck(c, m) \/ Tick(c, m)
    /\ UNCHANGED <<req, acked, dropped, others, linkUp, stopped>>

\* Fault: the wait is timed from the request and not from the ack.
WaitFromSend(r) ==
    /\ r \in active \ overdue
    /\ overdue' = overdue \cup {r}
    /\ UNCHANGED <<req, active, acked, arrived, queue, endVars, dropped, serving,
                   others, linkUp, stopped>>

WaitEnds(r) ==
    /\ r \in (active \cap acked) \ overdue
    /\ overdue' = overdue \cup {r}
    /\ UNCHANGED <<req, active, acked, arrived, queue, endVars, dropped, serving,
                   others, linkUp, stopped>>

\* Vehicle::_stopCommandProcessing: MavCommandQueue::stop, then stop here.  Nothing
\* in this class remembers it.
stop ==
    /\ stopped' = TRUE
    /\ dropped' = dropped \cup active \cup UNION {ToSet(queue[c]) : c \in Comps}
    /\ active' = {} /\ overdue' = {}
    /\ queue' = [c \in Comps |-> <<>>]
    /\ serving' = [c \in Comps |-> 0] /\ others' = {}
    /\ UNCHANGED <<req, acked, arrived, endVars, linkUp>>

-----------------------------------------------------------------------------
(* The other users of the command service, and the link *)

OtherSends(c) ==
    /\ ~stopped /\ ~Refuses(c, serving)
    /\ others' = others \cup {c}
    /\ UNCHANGED <<req, infoVars, queue, endVars, dropped, serving, linkUp, stopped>>

OtherEnds(c) ==
    /\ c \in others
    /\ others' = others \ {c}
    /\ UNCHANGED <<req, infoVars, queue, endVars, dropped, serving, linkUp, stopped>>

LinkChanges ==
    /\ linkUp' = ~linkUp
    /\ UNCHANGED <<req, infoVars, queue, endVars, dropped, serving, others, stopped>>

Next ==
    \/ \E ask \in Asks : requestMessage(ask[1], ask[2])
    \/ \E c \in Comps, m \in Msgs : handleReceivedMessage(c, m)
    \/ \E c \in Comps : cmdResultHandler(c) \/ OtherSends(c) \/ OtherEnds(c)
    \/ \E r \in Reqs : WaitEnds(r)
    \/ stop
    \/ LinkChanges

Spec == Init /\ [][Next]_vars

\* The command service ends what it took up, time passes, and the vehicle keeps
\* sending messages nobody asked for (heartbeats).
Fairness ==
    /\ \A c \in Comps : WF_vars(cmdResultHandler(c))
    /\ \A r \in Reqs : WF_vars(WaitEnds(r))
    /\ WF_vars(\E c \in Comps, m \in Msgs : Tick(c, m) /\ handleReceivedMessage(c, m))

FairSpec == Spec /\ Fairness

-----------------------------------------------------------------------------
(* Properties *)

Waiting == active \cup UNION {ToSet(queue[c]) : c \in Comps}

\* Every request is waiting, or its handler ran exactly once, or stop() cleared it:
\* no interleaving of ack, message, timeout, refusal and recursion through
\* _removeInfo loses a request or answers it twice.
AnsweredOnce == \A r \in 1..Len(req) :
    /\ handled[r] = IF outcome[r] = "none" THEN 0 ELSE 1
    /\ outcome[r] = "none" <=> r \in Waiting \cup dropped
    /\ r \in active => \A c \in Comps : r \notin ToSet(queue[c])

\* Requests of a component start in the order they were made, one at a time, and none is
\* left in the queue with no active one to start it.
InOrder == \A c \in Comps :
    /\ Cardinality(ActiveOf(c)) <= 1
    /\ queue[c] # <<>> => ActiveOf(c) # {}
    /\ \A i \in 1..Len(queue[c]) :
       /\ req[queue[c][i]].comp = c
       /\ \A r \in ActiveOf(c) : r < queue[c][i]
       /\ \A j \in 1..(i - 1) : queue[c][j] < queue[c][i]

\* The RequestMessageInfo handed to the command queue as resultHandlerData is alive
\* for as long as the command is: it is still in _infoMap and its ack has not come.
NoDanglingInfo == \A c \in Comps : serving[c] # 0 =>
    /\ serving[c] \in ActiveOf(c)
    /\ serving[c] \notin acked

\* A request succeeds only with both the ACCEPTED ack and the message, and one that
\* fails for want of the message had the ack and not the message.
SuccessNeedsBoth == \A r \in Reqs :
    /\ outcome[r] = "success" => r \in acked \cap arrived
    /\ outcome[r] = "noMessage" => r \in acked \ arrived

\* Every request is answered, or cleared by stop(): again and again nothing waits.
EveryRequestEnds == []<>(Waiting \subseteq dropped)

\* RequestMessageFailureDuplicate: "Exact duplicate request already active or queued
\* for this component/message id".
DuplicateIsExact ==
    [][\A r \in Reqs : outcome[r] = "none" /\ outcome'[r] = "duplicate" =>
         \E q \in Waiting \ {r} : req[q] = req'[r]]_vars
=============================================================================
