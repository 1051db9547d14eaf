------------------------ MODULE MavCommandQueue_proofs ------------------------
(* Theorems about MavCommandQueue, for every choice of the constants. *)
EXTENDS MavCommandQueue, TLAPS

\* A call that has not been made has left no trace.
Fresh == \A r \in Reqs :
    r > Len(call) => tries[r] = 0 /\ outcome[r] = "none" /\ r \notin progressed

\* A transmission is counted as a try first.
SendsCounted == \A r \in Reqs : sends[r] <= tries[r] /\ (r \in pending => tries[r] > 0)

\* More than one try is left only to a retryable command the vehicle has not
\* reported progress on.
RetriesJustified == \A r \in pending :
    maxTries[r] > 1 => call[r].cmd \in Retryable /\ r \notin progressed

StoppedEmpty == stopped => pending = {}

TypeInv == TypeOK /\ Fresh /\ SendsCounted

IInv == TypeInv /\ NoTwins /\ RetriesJustified /\ StoppedEmpty

-----------------------------------------------------------------------------
(* Types *)

LEMMA InitTypeInv == Init => TypeInv
<1> SUFFICES ASSUME Init PROVE TypeInv
  OBVIOUS
<1> USE BoundsAssumption
<1>1. TypeCalls /\ Len(call) = 0
  <2>1. call \in Seq(Calls) /\ Len(call) = 0
    BY DEF Init
  <2>2. support \in [Cmds -> {"unknown", "supported", "unsupported"}]
    BY DEF Init
  <2>3. stopped \in BOOLEAN /\ linkUp \in BOOLEAN
    BY DEF Init
  <2> QED BY <2>1, <2>2, <2>3 DEF TypeCalls
<1>2. TypeQueue
  BY DEF Init, TypeQueue
<1>3. TypeEnds
  BY DEF Init, TypeEnds, Outcomes
<1>4. TypeNet
  BY DEF Init, TypeNet
<1>5. Fresh /\ SendsCounted
  BY DEF Init, Fresh, SendsCounted
<1> QED BY <1>1, <1>2, <1>3, <1>4, <1>5 DEF TypeInv, TypeOK

\* What appending a call does to the sequence of calls.
LEMMA AppendedCall ==
  ASSUME TypeCalls, NEW c \in Calls, Len(call) < MaxReq, call' = Append(call, c)
  PROVE  /\ call' \in Seq(Calls)
         /\ New \in Reqs /\ Len(call') = New /\ Len(call) \in Nat
         /\ New = Len(call) + 1 /\ New <= MaxReq
         /\ 1..Len(call') = 1..Len(call) \cup {New}
         /\ call'[New] = c
         /\ \A r \in 1..Len(call) : call'[r] = call[r]
  BY BoundsAssumption DEF TypeCalls, New, Reqs

LEMMA CallTypeInv ==
  ASSUME TypeInv, NEW c \in Calls, Call(c)
  PROVE  TypeInv'
<1> USE BoundsAssumption
<1>0. TypeCalls /\ TypeQueue /\ TypeEnds /\ TypeNet /\ Fresh /\ SendsCounted
  BY DEF TypeInv, TypeOK
<1>1. /\ Len(call) < MaxReq /\ call' = Append(call, c)
      /\ expired' = expired /\ scan' = scan /\ stopped' = stopped
      /\ linkUp' = linkUp /\ support' = support
      /\ working' = working /\ toGcs' = toGcs
  BY DEF Call
<1>2. /\ call' \in Seq(Calls) /\ New \in Reqs /\ Len(call') = New
      /\ New = Len(call) + 1 /\ Len(call) \in Nat /\ New <= MaxReq
      /\ 1..Len(call') = 1..Len(call) \cup {New}
  BY <1>0, <1>1, AppendedCall
<1>3. TypeCalls'
  BY <1>0, <1>1, <1>2 DEF TypeCalls
<1>4. tries[New] = 0 /\ outcome[New] = "none" /\ sends[New] = 0
  BY <1>0, <1>2 DEF Fresh, SendsCounted, TypeNet, Reqs
<1>5. CASE RunLambda(c) \/ Drop(c) \/ Refuse(c) \/ NoLink(c)
  <2>1. /\ pending' = pending /\ probing' = probing /\ tries' = tries
        /\ maxTries' = maxTries /\ progressed' = progressed
        /\ sends' = sends /\ toVehicle' = toVehicle
        /\ lambdaRun' \in {lambdaRun, lambdaRun \cup {New}}
    BY <1>5 DEF RunLambda, Drop, Refuse, NoLink, entryVars
  <2>2. PICK code \in Outcomes : Report(New, code, 0) \/ EndSilently(New, code)
    BY <1>5 DEF RunLambda, Drop, Refuse, NoLink, Outcomes, Refusals, Reported, Silent
  <2>3. outcome' = [outcome EXCEPT ![New] = code]
        /\ reports' \in [Reqs -> Nat] /\ ackOf' \in [Reqs -> 0..MaxReq]
    BY <1>0, <2>2 DEF Report, EndSilently, TypeEnds
  <2>4. TypeQueue'
    BY <1>0, <1>1, <1>2, <2>1 DEF TypeQueue
  <2>5. TypeEnds'
    BY <1>0, <1>2, <2>1, <2>2, <2>3 DEF TypeEnds
  <2>6. TypeNet'
    BY <1>0, <1>1, <2>1 DEF TypeNet
  <2>7. Fresh'
    <3>1. \A q \in Reqs : q # New => outcome'[q] = outcome[q]
      BY <1>0, <2>3 DEF TypeEnds
    <3> QED BY <1>0, <1>2, <2>1, <3>1 DEF Fresh, Reqs
  <2>8. SendsCounted'
    BY <1>0, <2>1 DEF SendsCounted
  <2> QED BY <1>3, <2>4, <2>5, <2>6, <2>7, <2>8 DEF TypeInv, TypeOK
<1>6. CASE Enqueue(c)
  <2>1. /\ pending' = pending \cup {New}
        /\ probing' \in {probing, probing \cup {New}}
        /\ tries' = [tries EXCEPT ![New] = 1]
        /\ sends' = [sends EXCEPT ![New] = sends[New] + 1]
        /\ toVehicle' = toVehicle \cup {[req |-> New, try |-> tries'[New]]}
        /\ outcome' = outcome /\ reports' = reports /\ ackOf' = ackOf
        /\ lambdaRun' = lambdaRun /\ progressed' = progressed
    BY <1>6 DEF Enqueue, Transmit, endVars
  <2>2. maxTries' \in [Reqs -> 1..MaxTries]
    <3> DEFINE limit == IF c.cmd \in Retryable THEN MaxTries ELSE 1
    <3>1. limit \in 1..MaxTries
      OBVIOUS
    <3>2. maxTries' = [maxTries EXCEPT ![New] = limit]
      BY <1>6 DEF Enqueue
    <3> HIDE DEF limit
    <3> QED BY <1>0, <3>1, <3>2 DEF TypeQueue
  <2>3. toVehicle' \subseteq Transmission
    BY <1>0, <1>2, <2>1 DEF TypeQueue, TypeNet, Transmission
  <2>4. TypeQueue'
    <3>1. tries' \in [Reqs -> 0..MaxTries]
      BY <1>0, <1>2, <2>1 DEF TypeQueue
    <3>2. pending' \subseteq 1..Len(call') /\ probing' \subseteq 1..Len(call')
      BY <1>0, <1>2, <2>1 DEF TypeQueue
    <3>3. expired' \subseteq pending' /\ scan' \subseteq pending'
      BY <1>0, <1>1, <2>1 DEF TypeQueue
    <3> QED BY <2>2, <3>1, <3>2, <3>3 DEF TypeQueue
  <2>5. TypeEnds'
    BY <1>0, <2>1 DEF TypeEnds
  <2>6. TypeNet'
    BY <1>0, <1>1, <1>2, <1>4, <2>1, <2>3 DEF TypeNet
  <2>7. Fresh' /\ SendsCounted'
    BY <1>0, <1>1, <1>2, <1>4, <2>1 DEF Fresh, SendsCounted, TypeQueue, TypeNet, Reqs
  <2> QED BY <1>3, <2>4, <2>5, <2>6, <2>7 DEF TypeInv, TypeOK
<1> QED BY <1>5, <1>6 DEF Call

\* The entry a check of the timeout walk visits.
LEMMA CheckTypeInv ==
  ASSUME TypeInv, NEW r \in Reqs, CheckEntry(r)
  PROVE  TypeInv'
<1> USE BoundsAssumption
<1>0. TypeCalls /\ TypeQueue /\ TypeEnds /\ TypeNet /\ Fresh /\ SendsCounted
  BY DEF TypeInv, TypeOK
<1>1. /\ r \in scan /\ scan' = scan \ {r}
      /\ call' = call /\ probing' = probing /\ maxTries' = maxTries
      /\ stopped' = stopped /\ linkUp' = linkUp /\ support' = support
      /\ lambdaRun' = lambdaRun /\ progressed' = progressed
      /\ working' = working /\ toGcs' = toGcs
  BY DEF CheckEntry
<1>2. r \in pending /\ r <= Len(call) /\ Len(call) \in Nat
  BY <1>0, <1>1 DEF TypeQueue, TypeCalls
<1>3. TypeCalls'
  BY <1>0, <1>1 DEF TypeCalls
<1>4. CASE r \in expired /\ GiveUp(r)
  <2>1. /\ pending' = pending \ {r} /\ expired' = expired \ {r}
        /\ tries' = tries /\ sends' = sends /\ toVehicle' = toVehicle
        /\ outcome' = [outcome EXCEPT ![r] = "noResponse"]
        /\ reports' = [reports EXCEPT ![r] = reports[r] + 1]
        /\ ackOf' = [ackOf EXCEPT ![r] = 0]
    BY <1>4 DEF GiveUp, Report
  <2>2. TypeQueue'
    BY <1>0, <1>1, <2>1 DEF TypeQueue
  <2>3. TypeEnds'
    BY <1>0, <1>1, <2>1 DEF TypeEnds, Outcomes, Reported, Silent
  <2>4. TypeNet'
    BY <1>0, <1>1, <2>1 DEF TypeNet
  <2>5. Fresh'
    BY <1>0, <1>1, <1>2, <2>1 DEF Fresh, TypeEnds, Reqs
  <2>6. SendsCounted'
    BY <1>0, <2>1 DEF SendsCounted
  <2> QED BY <1>3, <2>2, <2>3, <2>4, <2>5, <2>6 DEF TypeInv, TypeOK
<1>5. CASE r \in expired /\ Resend(r)
  <2>1. /\ tries[r] + 1 <= maxTries[r]
        /\ tries' = [tries EXCEPT ![r] = tries[r] + 1]
        /\ pending' = pending /\ expired' = expired /\ outcome' = outcome
        /\ reports' = reports /\ ackOf' = ackOf
        /\ \/ /\ sends' = [sends EXCEPT ![r] = sends[r] + 1]
              /\ toVehicle' = toVehicle \cup {[req |-> r, try |-> tries'[r]]}
           \/ sends' = sends /\ toVehicle' = toVehicle
    BY <1>5 DEF Resend, Transmit
  <2>2. tries' \in [Reqs -> 0..MaxTries] /\ tries'[r] \in 1..MaxTries
    BY <1>0, <2>1 DEF TypeQueue
  <2>3. TypeQueue'
    BY <1>0, <1>1, <2>1, <2>2 DEF TypeQueue
  <2>4. TypeEnds'
    BY <1>0, <1>1, <2>1 DEF TypeEnds
  <2>5. sends' \in [Reqs -> 0..MaxTries] /\ SendsCounted'
    <3>1. sends[r] + 1 <= tries'[r] /\ sends[r] \in 0..MaxTries /\ tries'[r] > 0
      BY <1>0, <2>1, <2>2 DEF SendsCounted, TypeNet, TypeQueue
    <3>2. sends'[r] <= tries'[r] /\ sends' \in [Reqs -> 0..MaxTries]
      BY <1>0, <2>1, <2>2, <3>1 DEF TypeNet
    <3>3. \A q \in Reqs : q # r => sends'[q] = sends[q] /\ tries'[q] = tries[q]
      BY <1>0, <2>1 DEF TypeNet, TypeQueue
    <3> QED BY <1>0, <2>1, <3>1, <3>2, <3>3 DEF SendsCounted
  <2>6. toVehicle' \subseteq Transmission
    BY <1>0, <2>1, <2>2 DEF TypeNet, Transmission
  <2>7. TypeNet'
    BY <1>0, <1>1, <2>5, <2>6 DEF TypeNet
  <2>8. Fresh'
    BY <1>0, <1>1, <1>2, <2>1 DEF Fresh, TypeQueue, Reqs
  <2> QED BY <1>3, <2>3, <2>4, <2>5, <2>7, <2>8 DEF TypeInv, TypeOK
<1>6. CASE r \notin expired
  <2>1. /\ pending' = pending /\ expired' = expired /\ tries' = tries
        /\ outcome' = outcome /\ reports' = reports /\ ackOf' = ackOf
        /\ sends' = sends /\ toVehicle' = toVehicle
    BY <1>6 DEF CheckEntry
  <2>2. TypeQueue'
    BY <1>0, <1>1, <2>1 DEF TypeQueue
  <2>3. TypeEnds' /\ TypeNet' /\ Fresh' /\ SendsCounted'
    BY <1>0, <1>1, <2>1 DEF TypeEnds, TypeNet, Fresh, SendsCounted
  <2> QED BY <1>3, <2>2, <2>3 DEF TypeInv, TypeOK
<1> QED BY <1>4, <1>5, <1>6 DEF CheckEntry

LEMMA AckTypeInv ==
  ASSUME TypeInv, NEW a \in toGcs, handleCommandAck(a)
  PROVE  TypeInv'
<1> USE BoundsAssumption
<1>0. TypeCalls /\ TypeQueue /\ TypeEnds /\ TypeNet /\ Fresh /\ SendsCounted
  BY DEF TypeInv, TypeOK
<1> DEFINE c == call[a.req]
<1>1. /\ scan = {} /\ toGcs' = toGcs \ {a}
      /\ call' = call /\ probing' = probing /\ tries' = tries /\ scan' = scan
      /\ stopped' = stopped /\ linkUp' = linkUp /\ sends' = sends
      /\ toVehicle' = toVehicle /\ working' = working
      /\ IgnoreAck(c) \/ EndByAck(c, a) \/ NoteProgress(c, a) \/ EndByProgress(c, a)
  BY DEF handleCommandAck
<1> HIDE DEF c
<1>2. TypeNet' /\ a.req \in 0..MaxReq
  BY <1>0, <1>1 DEF TypeNet, Answer, Reqs
<1>3. pending \subseteq Reqs /\ Len(call) \in Nat /\ pending \subseteq 1..Len(call)
  BY <1>0 DEF TypeCalls, TypeQueue, Reqs
<1>4. CASE IgnoreAck(c)
  <2>1. /\ pending' = pending /\ maxTries' = maxTries /\ expired' = expired
        /\ support' = support /\ outcome' = outcome /\ reports' = reports
        /\ ackOf' = ackOf /\ lambdaRun' = lambdaRun /\ progressed' = progressed
    BY <1>4 DEF IgnoreAck, endVars
  <2>2. TypeCalls' /\ TypeQueue'
    BY <1>0, <1>1, <2>1 DEF TypeCalls, TypeQueue
  <2>3. TypeEnds' /\ Fresh' /\ SendsCounted'
    BY <1>0, <1>1, <2>1 DEF TypeEnds, Fresh, SendsCounted
  <2> QED BY <1>2, <2>2, <2>3 DEF TypeInv, TypeOK
<1>5. CASE EndByAck(c, a)
  <2>1. PICK r \in pending :
          /\ a.result \in Finals
          /\ pending' = pending \ {r} /\ expired' = expired \ {r}
          /\ outcome' = [outcome EXCEPT ![r] = a.result]
          /\ reports' = [reports EXCEPT ![r] = reports[r] + 1]
          /\ ackOf' = [ackOf EXCEPT ![r] = a.req]
          /\ \/ support' = support
             \/ support' = [support EXCEPT ![c.cmd] = "supported"]
             \/ support' = [support EXCEPT ![c.cmd] = "unsupported"]
          /\ lambdaRun' \in {lambdaRun, lambdaRun \cup {r}}
          /\ maxTries' = maxTries /\ progressed' = progressed
    BY <1>5 DEF EndByAck, Report
  <2>2. support' \in [Cmds -> {"unknown", "supported", "unsupported"}]
    BY <1>0, <2>1 DEF TypeCalls
  <2>3. TypeCalls'
    BY <1>0, <1>1, <2>2 DEF TypeCalls
  <2>4. TypeQueue'
    BY <1>0, <1>1, <2>1 DEF TypeQueue
  <2>5. TypeEnds'
    <3>1. outcome' \in [Reqs -> Outcomes]
      BY <1>0, <2>1 DEF TypeEnds, Outcomes, Reported, Silent
    <3>2. reports' \in [Reqs -> Nat]
      BY <1>0, <1>3, <2>1 DEF TypeEnds
    <3>4. ackOf' \in [Reqs -> 0..MaxReq]
      BY <1>0, <1>2, <2>1 DEF TypeEnds
    <3>3. lambdaRun' \subseteq Reqs /\ progressed' \subseteq Reqs
      BY <1>0, <1>3, <2>1 DEF TypeEnds
    <3> QED BY <3>1, <3>2, <3>3, <3>4 DEF TypeEnds
  <2>6. Fresh'
    BY <1>0, <1>1, <1>3, <2>1 DEF Fresh, TypeEnds, Reqs
  <2>7. SendsCounted'
    BY <1>0, <1>1, <2>1 DEF SendsCounted
  <2> QED BY <1>2, <2>3, <2>4, <2>5, <2>6, <2>7 DEF TypeInv, TypeOK
<1>6. CASE NoteProgress(c, a)
  <2>1. PICK r \in pending :
          /\ maxTries' = [maxTries EXCEPT ![r] = 1]
          /\ expired' = expired \ {r} /\ progressed' = progressed \cup {r}
          /\ pending' = pending /\ support' = support /\ outcome' = outcome
          /\ reports' = reports /\ ackOf' = ackOf /\ lambdaRun' = lambdaRun
    BY <1>6 DEF NoteProgress
  <2>2. TypeCalls' /\ TypeQueue'
    <3>1. TypeCalls'
      BY <1>0, <1>1, <2>1 DEF TypeCalls
    <3>2. maxTries' \in [Reqs -> 1..MaxTries]
      BY <1>0, <1>3, <2>1 DEF TypeQueue
    <3> QED BY <1>0, <1>1, <2>1, <3>1, <3>2 DEF TypeQueue
  <2>3. TypeEnds' /\ SendsCounted'
    BY <1>0, <1>1, <1>3, <2>1 DEF TypeEnds, SendsCounted
  <2>4. Fresh'
    BY <1>0, <1>1, <1>3, <2>1 DEF Fresh
  <2> QED BY <1>2, <2>2, <2>3, <2>4 DEF TypeInv, TypeOK
<1>7. CASE EndByProgress(c, a)
  <2>1. PICK r \in pending :
          /\ pending' = pending \ {r} /\ expired' = expired \ {r}
          /\ outcome' = [outcome EXCEPT ![r] = "progressOnly"]
          /\ progressed' = progressed \cup {r}
          /\ reports' = reports /\ ackOf' = ackOf /\ lambdaRun' = lambdaRun
          /\ maxTries' = maxTries /\ support' = support
    BY <1>7 DEF EndByProgress, EndSilently
  <2>2. TypeCalls' /\ TypeQueue'
    BY <1>0, <1>1, <2>1 DEF TypeCalls, TypeQueue
  <2>3. TypeEnds'
    BY <1>0, <1>1, <1>3, <2>1 DEF TypeEnds, Outcomes, Reported, Silent
  <2>4. Fresh'
    BY <1>0, <1>1, <1>3, <2>1 DEF Fresh, TypeEnds, Reqs
  <2>5. SendsCounted'
    BY <1>0, <1>1, <2>1 DEF SendsCounted
  <2> QED BY <1>2, <2>2, <2>3, <2>4, <2>5 DEF TypeInv, TypeOK
<1> QED BY <1>1, <1>4, <1>5, <1>6, <1>7

LEMMA NextTypeInv == TypeInv /\ [Next]_vars => TypeInv'
<1> SUFFICES ASSUME TypeInv, [Next]_vars PROVE TypeInv'
  OBVIOUS
<1>0. TypeCalls /\ TypeQueue /\ TypeEnds /\ TypeNet /\ Fresh /\ SendsCounted
  BY DEF TypeInv, TypeOK
<1>1. ASSUME NEW c \in Calls, Call(c) PROVE TypeInv'
  BY <1>1, CallTypeInv
<1>2. ASSUME NEW r \in Reqs, CheckEntry(r) PROVE TypeInv'
  BY <1>2, CheckTypeInv
<1>3. ASSUME NEW a \in toGcs, handleCommandAck(a) PROVE TypeInv'
  BY <1>3, AckTypeInv
<1>4. CASE stop
  <2>1. /\ pending' = {} /\ expired' = {} /\ scan' = {} /\ stopped' = TRUE
        /\ outcome' = [r \in Reqs |-> IF r \in pending THEN "dropped" ELSE outcome[r]]
        /\ UNCHANGED <<call, entryVars, linkUp, support, reports, ackOf,
                       lambdaRun, progressed, sends, netVars>>
    BY <1>4 DEF stop
  <2>2. TypeCalls' /\ TypeQueue'
    BY <1>0, <2>1 DEF TypeCalls, TypeQueue, entryVars
  <2>3. outcome' \in [Reqs -> Outcomes]
    BY <1>0, <2>1 DEF TypeEnds, Outcomes, Reported, Silent
  <2>4. TypeEnds' /\ TypeNet'
    BY <1>0, <2>1, <2>3 DEF TypeEnds, TypeNet, netVars
  <2>5. SendsCounted'
    BY <1>0, <2>1 DEF SendsCounted, entryVars
  <2>6. Fresh'
    <3>1. \A r \in Reqs : r > Len(call) => r \notin pending
      BY <1>0 DEF TypeQueue, TypeCalls, Reqs
    <3> QED BY <1>0, <2>1, <3>1 DEF Fresh, entryVars
  <2> QED BY <2>2, <2>4, <2>5, <2>6 DEF TypeInv, TypeOK
<1>5. ASSUME NEW r \in Reqs, AckWindowEnds(r) PROVE TypeInv'
  <2>1. /\ r \in pending /\ expired' = expired \cup {r}
        /\ UNCHANGED <<call, pending, entryVars, scan, stopped, linkUp, support,
                       endVars, sends, netVars>>
    BY <1>5 DEF AckWindowEnds
  <2>2. TypeQueue' /\ TypeCalls'
    BY <1>0, <2>1 DEF TypeQueue, TypeCalls, entryVars
  <2>3. TypeEnds' /\ TypeNet' /\ Fresh' /\ SendsCounted'
    BY <1>0, <2>1 DEF TypeEnds, TypeNet, Fresh, SendsCounted, endVars, netVars, entryVars
  <2> QED BY <2>2, <2>3 DEF TypeInv, TypeOK
<1>6. CASE StartTimeoutCheck \/ LinkChanges
  <2>1. /\ scan' \in {scan, pending} /\ linkUp' \in BOOLEAN
        /\ UNCHANGED <<call, pending, entryVars, expired, stopped, support,
                       endVars, sends, netVars>>
    BY <1>0, <1>6 DEF StartTimeoutCheck, LinkChanges, TypeCalls
  <2>2. TypeQueue' /\ TypeCalls'
    BY <1>0, <2>1 DEF TypeQueue, TypeCalls, entryVars
  <2>3. TypeEnds' /\ TypeNet' /\ Fresh' /\ SendsCounted'
    BY <1>0, <2>1 DEF TypeEnds, TypeNet, Fresh, SendsCounted, endVars, netVars, entryVars
  <2> QED BY <2>2, <2>3 DEF TypeInv, TypeOK
<1>7. ASSUME NEW m \in toVehicle \cup working, VehicleAnswers(m) \/ VehicleFinishes(m)
      PROVE  TypeInv'
  <2>1. m \in Transmission
    BY <1>0 DEF TypeNet
  <2>2. /\ UNCHANGED <<call, pending, entryVars, expired, scan, stopped, linkUp,
                       support, endVars, sends>>
        /\ toVehicle' \subseteq toVehicle /\ working' \subseteq working \cup {m}
        /\ \E result \in Finals \cup {"inProgress"} :
             toGcs' = toGcs \cup {[req |-> m.req, try |-> m.try, result |-> result]}
    BY <1>7, SetsAssumption DEF VehicleAnswers, VehicleFinishes, Verdicts, Finals
  <2>3. TypeQueue' /\ TypeCalls'
    BY <1>0, <2>2 DEF TypeQueue, TypeCalls, entryVars
  <2>4. TypeNet'
    BY <1>0, <2>1, <2>2 DEF TypeNet, Transmission, Answer
  <2>5. TypeEnds' /\ Fresh' /\ SendsCounted'
    BY <1>0, <2>2 DEF TypeEnds, Fresh, SendsCounted, endVars, entryVars
  <2> QED BY <2>3, <2>4, <2>5 DEF TypeInv, TypeOK
<1>8. CASE UNCHANGED vars
  <2>1. TypeQueue' /\ TypeCalls'
    BY <1>0, <1>8 DEF TypeQueue, TypeCalls, vars, entryVars
  <2>2. TypeEnds' /\ TypeNet' /\ Fresh' /\ SendsCounted'
    BY <1>0, <1>8 DEF TypeEnds, TypeNet, Fresh, SendsCounted, vars, entryVars,
       endVars, netVars
  <2> QED BY <2>1, <2>2 DEF TypeInv, TypeOK
<1> QED BY <1>1, <1>2, <1>3, <1>4, <1>5, <1>6, <1>7, <1>8 DEF Next

\* The variables keep their types: in particular tryCount never passes
\* kMaxRetryCount, and the timeout walk only visits entries of the list.
THEOREM TypeCorrect == Spec => []TypeOK
<1>1. Spec => []TypeInv
  BY InitTypeInv, NextTypeInv, PTL DEF Spec
<1> QED BY <1>1, PTL DEF TypeInv

-----------------------------------------------------------------------------
(* The queue implements CommandService *)

LEMMA StepImplements == TypeInv /\ [Next]_vars => [Service!Next]_Service!vars
<1> SUFFICES ASSUME TypeInv, [Next]_vars PROVE [Service!Next]_Service!vars
  OBVIOUS
<1> USE DEF Service!vars, Service!Next
<1>0. TypeCalls /\ TypeQueue /\ TypeEnds /\ Reqs = Service!Reqs
  BY DEF TypeInv, TypeOK, Reqs, Service!Reqs
<1>1. ASSUME NEW c \in Calls, Call(c) PROVE Service!Next
  <2>1. /\ Len(call) < MaxReq /\ Len(call') = Len(call) + 1
        /\ New = Len(call) + 1 /\ New \in Reqs
    BY <1>0, <1>1, AppendedCall DEF Call
  <2>2. CASE RunLambda(c) \/ Drop(c) \/ Refuse(c) \/ NoLink(c)
    <3>1. PICK code \in Reported \cup Silent :
            /\ outcome' = [outcome EXCEPT ![New] = code]
            /\ reports' = [reports EXCEPT ![New] = IF code \in Reported THEN @ + 1 ELSE @]
      BY <2>2, <1>0 DEF RunLambda, Drop, Refuse, NoLink, Report, EndSilently,
         Reported, Silent, Refusals, Finals, TypeEnds
    <3>2. pending' = pending
      BY <2>2 DEF RunLambda, Drop, Refuse, NoLink
    <3>3. Service!EndAtOnce(code)
      BY <2>1, <3>1, <3>2 DEF Service!EndAtOnce, Service!End
    <3> QED BY <3>3
  <2>3. CASE Enqueue(c)
    <3>1. Service!TakeUp
      BY <2>1, <2>3 DEF Enqueue, endVars, Service!TakeUp
    <3> QED BY <3>1
  <2> QED BY <1>1, <2>2, <2>3 DEF Call
<1>2. ASSUME NEW r \in Reqs, CheckEntry(r) PROVE Service!Next \/ UNCHANGED Service!vars
  <2>1. r \in pending /\ call' = call
    BY <1>0, <1>2 DEF CheckEntry, TypeQueue
  <2>2. CASE GiveUp(r)
    <3>1. Service!Complete(r, "noResponse")
      BY <2>1, <2>2 DEF GiveUp, Report, Service!Complete, Service!End, Reported
    <3> QED BY <3>1, <1>0 DEF Reported
  <2> QED BY <1>2, <2>1, <2>2 DEF CheckEntry, Resend
<1>3. ASSUME NEW a \in toGcs, handleCommandAck(a)
      PROVE  Service!Next \/ UNCHANGED Service!vars
  <2> DEFINE c == call[a.req]
  <2>1. call' = call /\ pending \subseteq Reqs
    <3>1. pending \subseteq Reqs
      BY <1>0, BoundsAssumption DEF TypeQueue, TypeCalls, Reqs
    <3> QED BY <1>3, <3>1 DEF handleCommandAck
  <2>2. CASE EndByAck(c, a)
    <3>1. PICK r \in pending : /\ a.result \in Finals /\ pending' = pending \ {r}
                               /\ Report(r, a.result, a.req)
      BY <2>2 DEF EndByAck
    <3>2. Service!Complete(r, a.result) /\ a.result \in Reported
      BY <2>1, <3>1 DEF Report, Service!Complete, Service!End, Reported
    <3> QED BY <1>0, <2>1, <3>2
  <2>3. CASE EndByProgress(c, a)
    <3>1. PICK r \in pending : pending' = pending \ {r} /\ EndSilently(r, "progressOnly")
      BY <2>3 DEF EndByProgress
    <3>2. "progressOnly" \in Silent \ Reported /\ r \in Reqs
      BY <2>1, <3>1 DEF Silent, Reported, Finals, Refusals
    <3>3. reports' = [reports EXCEPT ![r] = reports[r]]
      BY <1>0, <3>1, <3>2 DEF EndSilently, TypeEnds
    <3>4. Service!Complete(r, "progressOnly")
      BY <2>1, <3>1, <3>2, <3>3 DEF EndSilently, Service!Complete, Service!End
    <3> QED BY <1>0, <3>2, <3>4
  <2> QED BY <1>3, <2>1, <2>2, <2>3 DEF handleCommandAck, IgnoreAck, NoteProgress, endVars
<1>4. CASE stop
  <2>1. Service!Abandon
    BY <1>0, <1>4 DEF stop, Service!Abandon, Silent
  <2> QED BY <2>1
<1>5. CASE \/ UNCHANGED vars \/ StartTimeoutCheck \/ LinkChanges
           \/ \E r \in Reqs : AckWindowEnds(r)
           \/ \E m \in toVehicle : VehicleAnswers(m)
           \/ \E m \in working : VehicleFinishes(m)
  BY <1>5 DEF vars, endVars, StartTimeoutCheck, LinkChanges, AckWindowEnds,
     VehicleAnswers, VehicleFinishes
<1> QED BY <1>1, <1>2, <1>3, <1>4, <1>5 DEF Next

\* Every behaviour of the queue is one of the abstract service.
THEOREM QueueImplementsService == Spec => ImplementsService
<1>1. Init => Service!Init
  BY DEF Init, Service!Init, Reqs, Service!Reqs
<1>2. Spec => []TypeInv
  BY InitTypeInv, NextTypeInv, PTL DEF Spec
<1> QED BY <1>1, <1>2, StepImplements, PTL DEF Spec, ImplementsService, Service!Spec

\* No call is lost, and no caller is told twice or told of a call that is pending.
THEOREM QueueReportsOnce == Spec => []ReportedOnce
<1>1. "none" \notin Reported \cup Silent /\ Reported \cap Silent = {} /\ MaxReq \in Nat
  BY BoundsAssumption DEF Reported, Silent, Finals, Refusals
<1>2. Service!Init => Service!Accounts
  BY <1>1, Service!AccountsInit
<1>3. Service!Accounts /\ [Service!Next]_Service!vars => Service!Accounts'
  BY <1>1, Service!AccountsStep
<1>4. Spec => []Service!Accounts
  BY <1>2, <1>3, QueueImplementsService, PTL DEF ImplementsService, Service!Spec
<1>5. Service!Accounts /\ TypeInv => ReportedOnce
  <2> SUFFICES ASSUME Service!Accounts, TypeInv, NEW r \in 1..Len(call)
               PROVE  /\ r \in pending <=> outcome[r] = "none"
                      /\ reports[r] = IF outcome[r] \in Reported THEN 1 ELSE 0
    BY DEF ReportedOnce
  <2>1. r \in Service!Reqs /\ r <= Len(call)
    BY BoundsAssumption DEF TypeInv, TypeOK, TypeCalls, Service!Reqs
  <2> QED BY <2>1 DEF Service!Accounts
<1>6. Spec => []TypeInv
  BY InitTypeInv, NextTypeInv, PTL DEF Spec
<1> QED BY <1>4, <1>5, <1>6, PTL

-----------------------------------------------------------------------------
(* Duplicates, retries and stop() *)

\* Steps that add no entry and give no entry a try or a retry it did not have.
LEMMA KeepsInv ==
  ASSUME TypeInv, IInv, call' = call, pending' \subseteq pending,
         stopped' = stopped \/ pending' = {},
         \A r \in pending' : maxTries'[r] \in {1, maxTries[r]},
         \A r \in pending' : r \in progressed' => r \in progressed \/ maxTries'[r] = 1
  PROVE  NoTwins' /\ RetriesJustified' /\ StoppedEmpty'
<1>1. NoTwins'
  BY DEF IInv, NoTwins, SameCommand
<1>2. RetriesJustified'
  BY DEF IInv, RetriesJustified
<1>3. StoppedEmpty'
  BY DEF IInv, StoppedEmpty
<1> QED BY <1>1, <1>2, <1>3

LEMMA EnqueueInv ==
  ASSUME IInv, NEW c \in Calls, Call(c), Enqueue(c)
  PROVE  NoTwins' /\ RetriesJustified' /\ StoppedEmpty'
<1>0. TypeCalls /\ TypeQueue /\ Fresh
  BY DEF IInv, TypeInv, TypeOK
<1>1. /\ call' = Append(call, c) /\ ~stopped /\ stopped' = stopped
      /\ pending' = pending \cup {New} /\ progressed' = progressed
      /\ maxTries' = [maxTries EXCEPT ![New] =
                        IF c.cmd \in Retryable THEN MaxTries ELSE 1]
      /\ Matches(c) = {} \/ c.cmd \in Duplicable
  BY DEF Call, Enqueue, endVars, Refused, isPending
<1>2. /\ New \in Reqs /\ call'[New] = c
      /\ \A r \in 1..Len(call) : call'[r] = call[r]
      /\ New = Len(call) + 1 /\ Len(call) \in Nat
  BY <1>0, AppendedCall DEF Call
<1>3. pending \subseteq 1..Len(call) /\ New \notin pending /\ New \notin progressed
  BY <1>0, <1>2 DEF TypeQueue, Fresh
<1>4. \A r \in pending : call'[r] = call[r] /\ maxTries'[r] = maxTries[r]
  <2>1. \A r \in pending : r \in Reqs /\ r # New
    BY <1>0, <1>2, <1>3, BoundsAssumption DEF TypeCalls, Reqs
  <2> QED BY <1>0, <1>1, <1>2, <1>3, <2>1 DEF TypeQueue
<1>5. \A r \in pending : ~SameCommand(call[r], c) \/ c.cmd \in Duplicable
  BY <1>1 DEF Matches
<1>6. NoTwins'
  <2> SUFFICES ASSUME NEW q \in pending', NEW r \in pending',
                      SameCommand(call'[q], call'[r]), call'[r].cmd \notin Duplicable
               PROVE  q = r
    BY DEF NoTwins, SameCommand
  <2>1. CASE q \in pending /\ r \in pending
    BY <1>4, <2>1 DEF IInv, NoTwins
  <2>2. CASE q = New /\ r \in pending
    BY <1>2, <1>4, <1>5, <2>2 DEF SameCommand
  <2>3. CASE r = New /\ q \in pending
    BY <1>2, <1>4, <1>5, <2>3 DEF SameCommand
  <2> QED BY <1>1, <2>1, <2>2, <2>3
<1>7. RetriesJustified'
  <2>1. maxTries'[New] > 1 => c.cmd \in Retryable
    BY <1>0, <1>1, <1>2 DEF TypeQueue
  <2> QED BY <1>1, <1>2, <1>3, <1>4, <2>1 DEF IInv, RetriesJustified
<1>8. StoppedEmpty'
  BY <1>1 DEF StoppedEmpty
<1> QED BY <1>6, <1>7, <1>8

LEMMA OtherCallInv ==
  ASSUME IInv, NEW c \in Calls, Call(c),
         RunLambda(c) \/ Drop(c) \/ Refuse(c) \/ NoLink(c)
  PROVE  NoTwins' /\ RetriesJustified' /\ StoppedEmpty'
<1>0. TypeCalls /\ TypeQueue
  BY DEF IInv, TypeInv, TypeOK
<1>1. /\ pending' = pending /\ maxTries' = maxTries /\ progressed' = progressed
      /\ stopped' = stopped
  BY DEF Call, RunLambda, Drop, Refuse, NoLink, entryVars
<1>2. \A r \in pending : call'[r] = call[r]
  BY <1>0, AppendedCall DEF Call, TypeQueue
<1> QED BY <1>1, <1>2 DEF IInv, NoTwins, SameCommand, RetriesJustified, StoppedEmpty

LEMMA NextIInv == IInv /\ [Next]_vars => IInv'
<1> SUFFICES ASSUME IInv, [Next]_vars PROVE NoTwins' /\ RetriesJustified' /\ StoppedEmpty'
  BY NextTypeInv DEF IInv
<1>0. TypeInv /\ TypeQueue /\ pending \subseteq Reqs
  <2>1. TypeInv /\ TypeQueue /\ TypeCalls
    BY DEF IInv, TypeInv, TypeOK
  <2>2. pending \subseteq Reqs
    BY <2>1, BoundsAssumption DEF TypeQueue, TypeCalls, Reqs
  <2> QED BY <2>1, <2>2
<1>1. ASSUME NEW c \in Calls, Call(c)
      PROVE  NoTwins' /\ RetriesJustified' /\ StoppedEmpty'
  BY <1>1, EnqueueInv, OtherCallInv DEF Call
<1>2. ASSUME NEW r \in Reqs, CheckEntry(r)
      PROVE  NoTwins' /\ RetriesJustified' /\ StoppedEmpty'
  <2>1. /\ call' = call /\ pending' \subseteq pending /\ stopped' = stopped
        /\ maxTries' = maxTries /\ progressed' = progressed
    BY <1>2 DEF CheckEntry, GiveUp, Resend
  <2> QED BY <1>0, <2>1, KeepsInv
<1>3. ASSUME NEW a \in toGcs, handleCommandAck(a)
      PROVE  NoTwins' /\ RetriesJustified' /\ StoppedEmpty'
  <2> DEFINE c == call[a.req]
  <2>1. call' = call /\ stopped' = stopped
    BY <1>3 DEF handleCommandAck
  <2>2. CASE IgnoreAck(c) \/ EndByAck(c, a)
    <3>1. pending' \subseteq pending /\ maxTries' = maxTries /\ progressed' = progressed
      BY <2>2 DEF IgnoreAck, EndByAck, endVars
    <3> QED BY <1>0, <2>1, <3>1, KeepsInv
  <2>3. CASE NoteProgress(c, a)
    <3>1. PICK r \in pending : /\ maxTries' = [maxTries EXCEPT ![r] = 1]
                               /\ progressed' = progressed \cup {r}
                               /\ pending' = pending
      BY <2>3 DEF NoteProgress
    <3>2. /\ \A q \in pending' : maxTries'[q] \in {1, maxTries[q]}
          /\ maxTries'[r] = 1
      BY <1>0, <3>1 DEF TypeQueue
    <3> QED BY <1>0, <2>1, <3>1, <3>2, KeepsInv
  <2>4. CASE EndByProgress(c, a)
    <3>1. PICK r \in pending : /\ maxTries' = maxTries
                               /\ progressed' = progressed \cup {r}
                               /\ pending' = pending \ {r}
      BY <2>4 DEF EndByProgress
    <3> QED BY <1>0, <2>1, <3>1, KeepsInv
  <2> QED BY <1>3, <2>2, <2>3, <2>4 DEF handleCommandAck
<1>4. CASE stop
  <2>1. pending' = {} /\ call' = call
    BY <1>4 DEF stop
  <2> QED BY <1>0, <2>1, KeepsInv
<1>5. CASE \/ UNCHANGED vars \/ StartTimeoutCheck \/ LinkChanges
           \/ \E r \in Reqs : AckWindowEnds(r)
           \/ \E m \in toVehicle : VehicleAnswers(m)
           \/ \E m \in working : VehicleFinishes(m)
  <2>1. /\ call' = call /\ pending' = pending /\ stopped' = stopped
        /\ maxTries' = maxTries /\ progressed' = progressed
    BY <1>5 DEF vars, entryVars, endVars, StartTimeoutCheck, LinkChanges,
       AckWindowEnds, VehicleAnswers, VehicleFinishes
  <2> QED BY <1>0, <2>1, KeepsInv
<1> QED BY <1>1, <1>2, <1>3, <1>4, <1>5 DEF Next

LEMMA AlwaysIInv == Spec => []IInv
<1>1. Init => IInv
  BY InitTypeInv DEF Init, IInv, NoTwins, RetriesJustified, StoppedEmpty
<1> QED BY <1>1, NextIInv, PTL DEF Spec

\* Two entries that one ack could match exist only for duplicable commands.
THEOREM QueueHasNoTwins == Spec => []NoTwins
<1>1. IInv => NoTwins
  BY DEF IInv
<1> QED BY <1>1, AlwaysIInv, PTL

\* A command is sent again only if it is safe to retry and unanswered: the step
\* that resends finds an entry with a try left, which RetriesJustified explains.
THEOREM QueueResendsSafely == Spec => SafeResend
<1> DEFINE Safe(r) ==
      sends'[r] # sends[r] =>
         /\ sends'[r] <= MaxTries
         /\ sends[r] > 0 =>
              /\ call[r].cmd \in Retryable
              /\ outcome[r] = "none" /\ r \notin progressed
<1>1. ASSUME IInv, IInv', ReportedOnce, [Next]_vars, NEW r \in Reqs PROVE Safe(r)
  <2>0. TypeCalls /\ TypeQueue /\ TypeNet /\ TypeNet' /\ SendsCounted /\ Fresh
    BY <1>1 DEF IInv, TypeInv, TypeOK
  <2>1. sends'[r] <= MaxTries
    BY <2>0, BoundsAssumption DEF TypeNet
  <2>2. ASSUME NEW c \in Calls, Call(c), Enqueue(c) PROVE sends[r] = 0 \/ sends'[r] = sends[r]
    <3>1. New \in Reqs /\ New > Len(call) /\ Len(call) \in Nat
      BY <2>0, <2>2, AppendedCall DEF Call
    <3>2. sends[New] = 0
      BY <2>0, <3>1 DEF Fresh, SendsCounted, TypeNet
    <3> QED BY <2>0, <2>2, <3>1, <3>2 DEF Enqueue, Transmit, TypeNet
  <2>3. ASSUME NEW q \in Reqs, CheckEntry(q), q \in expired, Resend(q) PROVE Safe(r)
    <3>1. CASE r # q
      BY <2>0, <2>3, <3>1 DEF Resend, Transmit, TypeNet
    <3>2. CASE r = q
      <4>1. r \in pending /\ r \in 1..Len(call)
        BY <2>0, <2>3, <3>2 DEF TypeQueue
      <4>2. maxTries[r] > 1
        BY <2>0, <2>3, <3>2, <4>1 DEF TypeQueue, SendsCounted, Resend
      <4> QED BY <1>1, <2>1, <4>1, <4>2 DEF IInv, RetriesJustified, ReportedOnce
    <3> QED BY <3>1, <3>2
  <2>4. CASE sends' = sends
    BY <2>4
  <2>5. \/ sends' = sends
        \/ \E c \in Calls : Call(c) /\ Enqueue(c)
        \/ \E q \in Reqs : CheckEntry(q) /\ q \in expired /\ Resend(q)
    BY <1>1 DEF Next, vars, Call, RunLambda, Drop, Refuse, NoLink, CheckEntry, GiveUp,
       handleCommandAck, stop, StartTimeoutCheck, LinkChanges, AckWindowEnds,
       VehicleAnswers, VehicleFinishes
  <2> HIDE DEF Safe
  <2>6. sends[r] = 0 => Safe(r)
    BY <2>1 DEF Safe
  <2>7. sends'[r] = sends[r] => Safe(r)
    BY DEF Safe
  <2> QED BY <2>2, <2>3, <2>5, <2>6, <2>7
<1>2. IInv /\ IInv' /\ ReportedOnce /\ [Next]_vars =>
        [\A r \in Reqs : Safe(r)]_vars
  BY <1>1
<1> QED BY <1>2, AlwaysIInv, QueueReportsOnce, PTL DEF SafeResend, Spec

\* stop() is final: no entry is left and none can be added, so no ack, timeout or
\* call makes the queue send or report again.
THEOREM QueueStopsForGood == Spec => StopIsFinal
<1>1. ASSUME IInv, [Next]_vars, stopped
      PROVE  stopped' /\ UNCHANGED <<pending, reports, sends, progressed>>
  <2>0. pending = {} /\ scan = {}
    BY <1>1 DEF IInv, StoppedEmpty, TypeInv, TypeOK, TypeQueue
  <2>1. ASSUME NEW c \in Calls, Call(c)
        PROVE  stopped' /\ UNCHANGED <<pending, reports, sends, progressed>>
    BY <1>1, <2>1 DEF Call, RunLambda, Drop, Refuse, NoLink, Enqueue, EndSilently
  <2>2. ASSUME NEW a \in toGcs, handleCommandAck(a)
        PROVE  stopped' /\ UNCHANGED <<pending, reports, sends, progressed>>
    BY <1>1, <2>0, <2>2 DEF handleCommandAck, IgnoreAck, EndByAck, NoteProgress,
       EndByProgress, endVars
  <2>3. CASE \/ UNCHANGED vars \/ LinkChanges
             \/ \E r \in Reqs : AckWindowEnds(r)
             \/ \E m \in toVehicle : VehicleAnswers(m)
             \/ \E m \in working : VehicleFinishes(m)
    BY <1>1, <2>0, <2>3 DEF vars, endVars, LinkChanges, AckWindowEnds,
       VehicleAnswers, VehicleFinishes
  <2> QED BY <1>1, <2>0, <2>1, <2>2, <2>3 DEF Next, CheckEntry, StartTimeoutCheck, stop
<1> QED BY <1>1, AlwaysIInv, PTL DEF StopIsFinal, Spec

-----------------------------------------------------------------------------
(* Whose ack ends a call, and when the fallback lambda runs *)

FinalAcks == {a \in toGcs : a.result \in Finals}

\* Only a call that went out is on its way, executed or answered.
Traced ==
    /\ \A m \in toVehicle \cup working \cup toGcs :
         m.req \in 1..Len(call) /\ sends[m.req] > 0
    /\ \A r \in Reqs : ackOf[r] # 0 =>
         /\ r \in 1..Len(call) /\ outcome[r] \in Finals
         /\ ackOf[r] \in 1..Len(call) /\ sends[ackOf[r]] > 0

AtMostOne(S, s) == \A m, n \in S : m.req = s /\ n.req = s => m = n

NeverBoth(S, T, s) == ~ \E m \in S, n \in T : m.req = s /\ n.req = s

\* A call that went out once is in one place: on its way, executed, or answered.
InOnePlace == \A s \in Reqs : sends[s] <= 1 =>
    /\ AtMostOne(toVehicle, s) /\ AtMostOne(working, s) /\ AtMostOne(FinalAcks, s)
    /\ NeverBoth(toVehicle, working, s)
    /\ NeverBoth(toVehicle, FinalAcks, s) /\ NeverBoth(working, FinalAcks, s)

\* ... and in none once its answer has ended some call.
Spent == \A r \in Reqs : ackOf[r] # 0 /\ sends[ackOf[r]] <= 1 =>
    ~ \E m \in toVehicle \cup working \cup FinalAcks : m.req = ackOf[r]

\* The vehicle answers UNSUPPORTED exactly to what it does not support, and PX4's
\* autotune never with a final result.
Honest ==
    /\ \A a \in toGcs :
         /\ a.result \in Finals => call[a.req].cmd \notin ProgressEnds
         /\ a.result = "unsupported" <=> call[a.req].cmd \in Unsupported
    /\ \A m \in working : call[m.req].cmd \notin ProgressEnds \cup Unsupported

NetInv == Traced /\ InOnePlace /\ Spent /\ Honest

\* What an end says of the call's past.
Explained == \A r \in 1..Len(call) :
    /\ outcome[r] \in Finals => ackOf[r] # 0
    /\ outcome[r] = "dropped" => stopped
    /\ outcome[r] \in Refusals \cup {"lambda"} => sends[r] = 0
    /\ outcome[r] = "progressOnly" => call[r].cmd \in ProgressEnds

\* No call of the same command has gone out after one that is still pending.
NoLaterTwin == \A r \in pending : \A s \in 1..Len(call) :
    s > r /\ sends[s] > 0 /\ SameCommand(call[s], call[r]) => call[r].cmd \in Duplicable

\* MAV_CMD_supported holds what the vehicle does.
SupportIsTrue == \A c \in Cmds :
    /\ support[c] = "unsupported" => c \in Unsupported
    /\ support[c] = "supported" => c \notin Unsupported

\* A call with a fallback goes out with its own handler only if the command is
\* known to be supported.
ProbesUnknown ==
    /\ \A r \in probing : call[r].fallback
    /\ \A r \in pending \ probing : call[r].fallback => call[r].cmd \notin Unsupported

LambdasMade == lambdaRun \subseteq 1..Len(call)

BookInv == /\ Explained /\ NoLaterTwin /\ AckAttribution
           /\ SupportIsTrue /\ ProbesUnknown /\ LambdasMade /\ FallbackWhenUnsupported

AInv == NetInv /\ BookInv

\* What every step below starts from.
Known == TypeInv /\ IInv /\ ReportedOnce /\ AInv

LEMMA KnownParts ==
  ASSUME Known
  PROVE  /\ TypeCalls /\ TypeQueue /\ TypeEnds /\ TypeNet /\ Fresh /\ SendsCounted
         /\ NoTwins /\ StoppedEmpty /\ ReportedOnce
         /\ Traced /\ InOnePlace /\ Spent /\ Honest
         /\ Explained /\ NoLaterTwin /\ AckAttribution
         /\ SupportIsTrue /\ ProbesUnknown /\ LambdasMade /\ FallbackWhenUnsupported
         /\ Len(call) \in Nat /\ 1..Len(call) \subseteq Reqs
         /\ pending \subseteq 1..Len(call)
<1>1. /\ TypeCalls /\ TypeQueue /\ TypeEnds /\ TypeNet /\ Fresh /\ SendsCounted
      /\ NoTwins /\ StoppedEmpty /\ ReportedOnce
  BY DEF Known, TypeInv, TypeOK, IInv
<1>2. /\ Traced /\ InOnePlace /\ Spent /\ Honest
      /\ Explained /\ NoLaterTwin /\ AckAttribution
      /\ SupportIsTrue /\ ProbesUnknown /\ LambdasMade /\ FallbackWhenUnsupported
  BY DEF Known, AInv, NetInv, BookInv
<1>3. Len(call) \in Nat /\ 1..Len(call) \subseteq Reqs /\ pending \subseteq 1..Len(call)
  BY <1>1, BoundsAssumption DEF TypeCalls, TypeQueue, Reqs
<1> QED BY <1>1, <1>2, <1>3

\* A late end stays late: what has been called, given up and transmitted remains.
LEMMA AttributionKept ==
  ASSUME Traced, AckAttribution, Len(call) \in Nat, ackOf' = ackOf,
         \A r \in 1..Len(call) : call'[r] = call[r],
         \A q \in 1..Len(call) : MayAnswerLate(q) => MayAnswerLate(q)'
  PROVE  AckAttribution'
<1> SUFFICES ASSUME NEW r \in Reqs, ackOf[r] \notin {0, r}, call'[r].cmd \notin Duplicable
             PROVE  /\ ackOf[r] < r /\ SameCommand(call'[ackOf[r]], call'[r])
                    /\ \E q \in 1..ackOf[r] :
                         SameCommand(call'[q], call'[r]) /\ MayAnswerLate(q)'
  BY DEF AckAttribution, SameCommand, MayAnswerLate
<1>1. r \in 1..Len(call) /\ ackOf[r] \in 1..Len(call)
  BY DEF Traced
<1>2. /\ ackOf[r] < r /\ SameCommand(call[ackOf[r]], call[r])
      /\ \E q \in 1..ackOf[r] : SameCommand(call[q], call[r]) /\ MayAnswerLate(q)
  BY <1>1 DEF AckAttribution
<1>3. PICK q \in 1..ackOf[r] : SameCommand(call[q], call[r]) /\ MayAnswerLate(q)
  BY <1>2
<1>4. q \in 1..Len(call)
  BY <1>1
<1>5. SameCommand(call'[q], call'[r]) /\ MayAnswerLate(q)'
  BY <1>1, <1>3, <1>4
<1> QED BY <1>1, <1>2, <1>3, <1>5

\* Steps of the link and the vehicle, and ticks of the ack window, change no record.
LEMMA BookKept ==
  ASSUME BookInv, Traced, Len(call) \in Nat,
         UNCHANGED <<call, pending, probing, stopped, support, outcome, ackOf,
                     lambdaRun, sends>>
  PROVE  BookInv'
<1>1. Explained' /\ NoLaterTwin'
  BY DEF BookInv, Explained, NoLaterTwin, SameCommand
<1>2. AckAttribution'
  BY AttributionKept DEF BookInv, MayAnswerLate
<1>3. SupportIsTrue' /\ ProbesUnknown' /\ LambdasMade' /\ FallbackWhenUnsupported'
  BY DEF BookInv, SupportIsTrue, ProbesUnknown, LambdasMade, FallbackWhenUnsupported
<1> QED BY <1>1, <1>2, <1>3 DEF BookInv

\* The messages of a step that adds no message and no transmission.
LEMMA NetKept ==
  ASSUME NetInv, Len(call) \in Nat, toVehicle' \subseteq toVehicle, working' \subseteq working,
         toGcs' \subseteq toGcs, sends' = sends, ackOf' = ackOf, Len(call') >= Len(call),
         Len(call') \in Nat,
         \A r \in 1..Len(call) : call'[r] = call[r],
         \A r \in Reqs : ackOf[r] # 0 => outcome'[r] = outcome[r]
  PROVE  NetInv'
<1>0. FinalAcks' \subseteq FinalAcks
  BY DEF FinalAcks
<1>1. Traced'
  BY DEF NetInv, Traced
<1>2. InOnePlace'
  BY <1>0 DEF NetInv, InOnePlace, AtMostOne, NeverBoth
<1>3. Spent'
  BY <1>0 DEF NetInv, Spent
<1>4. Honest'
  BY DEF NetInv, Honest, Traced
<1> QED BY <1>1, <1>2, <1>3, <1>4 DEF NetInv

LEMMA InitAInv == Init => AInv
<1> SUFFICES ASSUME Init PROVE AInv
  OBVIOUS
<1>1. NetInv
  BY DEF Init, NetInv, Traced, InOnePlace, Spent, Honest, AtMostOne, NeverBoth, FinalAcks
<1>2. Explained /\ NoLaterTwin /\ AckAttribution /\ LambdasMade
  BY DEF Init, Explained, NoLaterTwin, AckAttribution, LambdasMade
<1>3. SupportIsTrue /\ ProbesUnknown /\ FallbackWhenUnsupported
  BY DEF Init, SupportIsTrue, ProbesUnknown, FallbackWhenUnsupported
<1> QED BY <1>1, <1>2, <1>3 DEF AInv, BookInv

\* What making a call leaves alone.
LEMMA CallEffects ==
  ASSUME Known, NEW c \in Calls, Call(c)
  PROVE  /\ New \in Reqs /\ New = Len(call) + 1 /\ New \notin 1..Len(call)
         /\ Len(call') = New /\ 1..Len(call') = 1..Len(call) \cup {New}
         /\ call'[New] = c /\ \A r \in 1..Len(call) : call'[r] = call[r]
         /\ stopped' = stopped /\ support' = support
         /\ working' = working /\ toGcs' = toGcs
         /\ outcome[New] = "none" /\ sends[New] = 0 /\ ackOf[New] = 0
         /\ New \notin pending /\ New \notin probing /\ New \notin lambdaRun
<1>0. /\ TypeCalls /\ TypeQueue /\ TypeNet /\ TypeEnds /\ Fresh /\ SendsCounted
      /\ Traced /\ LambdasMade
  BY KnownParts
<1>1. /\ New \in Reqs /\ New = Len(call) + 1 /\ Len(call) \in Nat /\ Len(call') = New
      /\ 1..Len(call') = 1..Len(call) \cup {New}
      /\ call'[New] = c /\ \A r \in 1..Len(call) : call'[r] = call[r]
  BY <1>0, AppendedCall DEF Call
<1>2. New \notin 1..Len(call) /\ New > Len(call)
  BY <1>1
<1>3. outcome[New] = "none" /\ sends[New] = 0
  BY <1>0, <1>1, <1>2 DEF Fresh, SendsCounted, TypeNet
<1>4. ackOf[New] = 0
  BY <1>0, <1>1, <1>2 DEF Traced
<1>5. New \notin pending /\ New \notin probing /\ New \notin lambdaRun
  BY <1>0, <1>2 DEF TypeQueue, LambdasMade
<1>6. stopped' = stopped /\ support' = support /\ working' = working /\ toGcs' = toGcs
  BY DEF Call
<1> QED BY <1>1, <1>2, <1>3, <1>4, <1>5, <1>6

\* A call that ends at once: nothing is sent, and only the lambda of a command
\* known to be unsupported runs.
LEMMA EndAtOnceAInv ==
  ASSUME Known, NEW c \in Calls, Call(c),
         RunLambda(c) \/ Drop(c) \/ Refuse(c) \/ NoLink(c)
  PROVE  AInv'
<1>0. /\ TypeEnds /\ Traced /\ Explained /\ NoLaterTwin /\ AckAttribution
      /\ SupportIsTrue /\ ProbesUnknown /\ LambdasMade /\ FallbackWhenUnsupported
      /\ NetInv /\ Len(call) \in Nat /\ 1..Len(call) \subseteq Reqs
      /\ pending \subseteq 1..Len(call) /\ TypeQueue
  BY KnownParts DEF Known, AInv
<1>1. /\ New \in Reqs /\ New = Len(call) + 1 /\ New \notin 1..Len(call)
      /\ Len(call') = New /\ 1..Len(call') = 1..Len(call) \cup {New}
      /\ call'[New] = c /\ \A r \in 1..Len(call) : call'[r] = call[r]
      /\ stopped' = stopped /\ support' = support
      /\ working' = working /\ toGcs' = toGcs
      /\ outcome[New] = "none" /\ sends[New] = 0 /\ ackOf[New] = 0
      /\ New \notin pending /\ New \notin lambdaRun
  BY CallEffects
<1>2. /\ pending' = pending /\ probing' = probing
      /\ sends' = sends /\ toVehicle' = toVehicle
  BY DEF RunLambda, Drop, Refuse, NoLink, entryVars
<1>3. PICK code \in Refusals \cup {"lambda", "dropped"} :
        /\ Report(New, code, 0) \/ EndSilently(New, code)
        /\ code = "dropped" => stopped
        /\ lambdaRun' = IF code = "lambda" THEN lambdaRun \cup {New} ELSE lambdaRun
        /\ code = "lambda" => c.fallback /\ support[c.cmd] = "unsupported"
  BY DEF RunLambda, Drop, Refuse, NoLink, Refusals
<1>4. /\ outcome'[New] = code /\ ackOf' = ackOf
      /\ \A r \in Reqs : r # New => outcome'[r] = outcome[r]
  <2>1. outcome' = [outcome EXCEPT ![New] = code]
    BY <1>3 DEF Report, EndSilently
  <2>2. ackOf' = ackOf
    BY <1>0, <1>1, <1>3 DEF Report, EndSilently, TypeEnds
  <2> QED BY <1>0, <1>1, <2>1, <2>2 DEF TypeEnds
<1>5. code \notin Finals /\ code # "progressOnly" /\ code # "unsupported"
  BY DEF Finals, Refusals
<1>6. NetInv'
  BY <1>0, <1>1, <1>2, <1>4, NetKept
<1>7. Explained'
  <2> SUFFICES ASSUME NEW r \in 1..Len(call')
               PROVE  /\ outcome'[r] \in Finals => ackOf'[r] # 0
                      /\ outcome'[r] = "dropped" => stopped'
                      /\ outcome'[r] \in Refusals \cup {"lambda"} => sends'[r] = 0
                      /\ outcome'[r] = "progressOnly" => call'[r].cmd \in ProgressEnds
    BY DEF Explained
  <2>1. CASE r = New
    BY <1>1, <1>2, <1>3, <1>4, <1>5, <2>1
  <2>2. CASE r \in 1..Len(call)
    BY <1>0, <1>1, <1>2, <1>4, <2>2 DEF Explained
  <2> QED BY <1>1, <2>1, <2>2
<1>8. NoLaterTwin'
  <2> SUFFICES ASSUME NEW r \in pending', NEW s \in 1..Len(call'), s > r, sends'[s] > 0,
                      SameCommand(call'[s], call'[r])
               PROVE  call'[r].cmd \in Duplicable
    BY DEF NoLaterTwin, SameCommand
  <2>1. r \in pending /\ s \in 1..Len(call)
    BY <1>1, <1>2
  <2> QED BY <1>0, <1>1, <1>2, <2>1 DEF NoLaterTwin
<1>9. AckAttribution'
  <2>1. \A q \in 1..Len(call) : outcome'[q] = outcome[q] /\ sends'[q] = sends[q]
    BY <1>0, <1>1, <1>2, <1>4
  <2> QED BY <1>0, <1>1, <1>4, <2>1, AttributionKept DEF MayAnswerLate
<1>10. SupportIsTrue' /\ LambdasMade'
  BY <1>0, <1>1, <1>3 DEF SupportIsTrue, LambdasMade
<1>11. ProbesUnknown'
  BY <1>0, <1>1, <1>2 DEF ProbesUnknown, TypeQueue
<1>12. FallbackWhenUnsupported'
  <2> SUFFICES ASSUME NEW r \in 1..Len(call')
               PROVE  /\ r \in lambdaRun' => call'[r].fallback /\ call'[r].cmd \in Unsupported
                      /\ call'[r].fallback =>
                           (outcome'[r] \in {"unsupported", "lambda"} <=> r \in lambdaRun')
    BY DEF FallbackWhenUnsupported
  <2>1. CASE r = New
    <3>1. c.cmd \in Cmds
      BY SetsAssumption DEF CallType
    <3> QED BY <1>0, <1>1, <1>3, <1>4, <1>5, <2>1, <3>1 DEF SupportIsTrue
  <2>2. CASE r \in 1..Len(call)
    <3>1. r \in Reqs /\ r # New
      BY <1>0, <1>1, <2>2
    <3>2. (r \in lambdaRun' <=> r \in lambdaRun) /\ outcome'[r] = outcome[r]
      BY <1>3, <1>4, <3>1
    <3> QED BY <1>0, <1>1, <2>2, <3>2 DEF FallbackWhenUnsupported
  <2> QED BY <1>1, <2>1, <2>2
<1> QED BY <1>6, <1>7, <1>8, <1>9, <1>10, <1>11, <1>12 DEF AInv, BookInv

\* A call that goes out has left no message yet, and no other entry has its command
\* unless it may be repeated.
LEMMA EnqueueAInv ==
  ASSUME Known, NEW c \in Calls, Call(c), Enqueue(c)
  PROVE  AInv'
<1>0. /\ TypeNet /\ Traced /\ InOnePlace /\ Spent /\ Honest
      /\ Explained /\ NoLaterTwin /\ AckAttribution
      /\ SupportIsTrue /\ ProbesUnknown /\ LambdasMade /\ FallbackWhenUnsupported
      /\ Len(call) \in Nat /\ 1..Len(call) \subseteq Reqs
      /\ pending \subseteq 1..Len(call) /\ TypeQueue
  BY KnownParts
<1>1. /\ New \in Reqs /\ New = Len(call) + 1 /\ New \notin 1..Len(call)
      /\ Len(call') = New /\ 1..Len(call') = 1..Len(call) \cup {New}
      /\ call'[New] = c /\ \A r \in 1..Len(call) : call'[r] = call[r]
      /\ stopped' = stopped /\ support' = support
      /\ working' = working /\ toGcs' = toGcs
      /\ outcome[New] = "none" /\ sends[New] = 0 /\ ackOf[New] = 0
      /\ New \notin pending /\ New \notin probing /\ New \notin lambdaRun
  BY CallEffects
<1>2. /\ pending' = pending \cup {New}
      /\ outcome' = outcome /\ ackOf' = ackOf /\ lambdaRun' = lambdaRun
      /\ Reaches(c) /\ ~Refused(c)
      /\ probing' = IF c.fallback /\ support[c.cmd] = "unknown"
                      THEN probing \cup {New} ELSE probing
  BY DEF Enqueue, endVars
<1>3. /\ sends'[New] = 1 /\ \A r \in Reqs : r # New => sends'[r] = sends[r]
      /\ toVehicle' = toVehicle \cup {[req |-> New, try |-> tries'[New]]}
  <2>1. sends' = [sends EXCEPT ![New] = sends[New] + 1]
    BY DEF Enqueue, Transmit
  <2>2. toVehicle' = toVehicle \cup {[req |-> New, try |-> tries'[New]]}
    BY DEF Enqueue, Transmit
  <2> QED BY <1>0, <1>1, <2>1, <2>2 DEF TypeNet
<1>4. /\ \A m \in toVehicle \cup working \cup toGcs : m.req # New
      /\ FinalAcks' = FinalAcks /\ FinalAcks \subseteq toGcs
      /\ \A m \in toVehicle' : m \in toVehicle \/ m.req = New
  BY <1>0, <1>1, <1>3 DEF Traced, FinalAcks
<1>5. Traced'
  <2>1. \A m \in toVehicle' \cup working' \cup toGcs' :
          m.req \in 1..Len(call') /\ sends'[m.req] > 0
    BY <1>0, <1>1, <1>3, <1>4 DEF Traced
  <2>2. \A r \in Reqs : ackOf'[r] # 0 =>
          /\ r \in 1..Len(call') /\ outcome'[r] \in Finals
          /\ ackOf'[r] \in 1..Len(call') /\ sends'[ackOf'[r]] > 0
    BY <1>0, <1>1, <1>2, <1>3 DEF Traced
  <2> QED BY <2>1, <2>2 DEF Traced
<1>6. InOnePlace'
  <2> SUFFICES ASSUME NEW s \in Reqs, sends'[s] <= 1
               PROVE  /\ AtMostOne(toVehicle', s) /\ AtMostOne(working', s)
                      /\ AtMostOne(FinalAcks', s)
                      /\ NeverBoth(toVehicle', working', s)
                      /\ NeverBoth(toVehicle', FinalAcks', s)
                      /\ NeverBoth(working', FinalAcks', s)
    BY DEF InOnePlace, AtMostOne, NeverBoth
  <2>1. CASE s = New
    BY <1>1, <1>3, <1>4, <2>1 DEF AtMostOne, NeverBoth
  <2>2. CASE s # New
    <3>1. sends[s] <= 1 /\ \A m \in toVehicle' : m.req = s => m \in toVehicle
      BY <1>3, <1>4, <2>2
    <3> QED BY <1>0, <1>1, <1>4, <3>1 DEF InOnePlace, AtMostOne, NeverBoth
  <2> QED BY <2>1, <2>2
<1>7. Spent'
  <2> SUFFICES ASSUME NEW r \in Reqs, ackOf[r] # 0, sends'[ackOf[r]] <= 1,
                      NEW m \in toVehicle' \cup working' \cup FinalAcks', m.req = ackOf[r]
               PROVE  FALSE
    BY <1>2 DEF Spent
  <2>1. ackOf[r] \in Reqs /\ ackOf[r] # New
    BY <1>0, <1>1 DEF Traced
  <2>2. sends[ackOf[r]] <= 1 /\ m \in toVehicle \cup working \cup FinalAcks
    BY <1>1, <1>3, <1>4, <2>1
  <2> QED BY <1>0, <2>2 DEF Spent
<1>8. Honest'
  BY <1>0, <1>1 DEF Honest, Traced
<1>9. Explained'
  <2>1. outcome'[New] \notin Finals \cup {"dropped", "progressOnly", "lambda"} \cup Refusals
    BY <1>1, <1>2 DEF Finals, Refusals
  <2>2. \A r \in 1..Len(call) : sends'[r] = sends[r]
    BY <1>0, <1>1, <1>3
  <2> QED BY <1>0, <1>1, <1>2, <2>1, <2>2 DEF Explained
<1>10. NoLaterTwin'
  <2> SUFFICES ASSUME NEW r \in pending', NEW s \in 1..Len(call'), s > r, sends'[s] > 0,
                      SameCommand(call'[s], call'[r])
               PROVE  call'[r].cmd \in Duplicable
    BY DEF NoLaterTwin, SameCommand
  <2>1. r \in pending /\ r \in 1..Len(call)
    BY <1>0, <1>1, <1>2
  <2>2. CASE s = New
    <3>1. SameCommand(call[r], c)
      BY <1>1, <2>1, <2>2 DEF SameCommand
    <3>2. c.cmd \in Duplicable
      BY <1>2, <2>1, <3>1 DEF Refused, isPending, Matches
    <3> QED BY <1>1, <2>1, <3>1, <3>2 DEF SameCommand
  <2>3. CASE s \in 1..Len(call)
    <3>1. sends[s] > 0
      BY <1>0, <1>1, <1>3, <2>3
    <3> QED BY <1>0, <1>1, <2>1, <2>3, <3>1 DEF NoLaterTwin
  <2> QED BY <1>1, <2>2, <2>3
<1>11. AckAttribution'
  <2>1. \A q \in 1..Len(call) : outcome'[q] = outcome[q] /\ sends'[q] = sends[q]
    BY <1>0, <1>1, <1>2, <1>3
  <2> QED BY <1>0, <1>1, <1>2, <2>1, AttributionKept DEF MayAnswerLate
<1>12. SupportIsTrue' /\ LambdasMade'
  BY <1>0, <1>1, <1>2 DEF SupportIsTrue, LambdasMade
<1>13. ProbesUnknown'
  <2>0. c.cmd \in Cmds
    BY SetsAssumption DEF CallType
  <2>1. \A r \in probing' : call'[r].fallback
    BY <1>0, <1>1, <1>2 DEF ProbesUnknown, TypeQueue
  <2>2. New \notin probing' /\ c.fallback => c.cmd \notin Unsupported
    <3>1. support[c.cmd] \in {"unknown", "supported", "unsupported"}
      BY <2>0, KnownParts DEF TypeCalls
    <3>2. New \notin probing' /\ c.fallback => support[c.cmd] = "supported"
      BY <1>2, <3>1 DEF Reaches
    <3> QED BY <1>0, <2>0, <3>2 DEF SupportIsTrue
  <2>3. \A r \in pending' \ probing' : call'[r].fallback => call'[r].cmd \notin Unsupported
    BY <1>0, <1>1, <1>2, <2>2 DEF ProbesUnknown
  <2> QED BY <2>1, <2>3 DEF ProbesUnknown
<1>14. FallbackWhenUnsupported'
  <2>1. outcome'[New] \notin {"unsupported", "lambda"} /\ New \notin lambdaRun'
    BY <1>1, <1>2
  <2> QED BY <1>0, <1>1, <1>2, <2>1 DEF FallbackWhenUnsupported
<1> QED BY <1>5, <1>6, <1>7, <1>8, <1>9, <1>10, <1>11, <1>12, <1>13, <1>14
        DEF AInv, NetInv, BookInv

\* A pending call has not ended: no ack has ended it and its lambda has not run.
LEMMA PendingOpen ==
  ASSUME Known, NEW r \in pending
  PROVE  /\ r \in Reqs /\ r \in 1..Len(call)
         /\ outcome[r] = "none" /\ ackOf[r] = 0
         /\ call[r].fallback => r \notin lambdaRun
<1>1. r \in Reqs /\ r \in 1..Len(call)
  BY KnownParts
<1>2. outcome[r] = "none"
  BY <1>1, KnownParts DEF ReportedOnce
<1>3. ackOf[r] = 0
  BY <1>1, <1>2, KnownParts DEF Traced, Finals
<1>4. call[r].fallback => r \notin lambdaRun
  BY <1>1, <1>2, KnownParts DEF FallbackWhenUnsupported
<1> QED BY <1>1, <1>2, <1>3, <1>4

\* A pending call ends as "code", by no ack: given up, or ended by progress.
LEMMA EndsUnanswered ==
  ASSUME Known, NEW r \in pending, NEW code \in {"noResponse", "progressOnly"},
         code = "progressOnly" => call[r].cmd \in ProgressEnds,
         outcome' = [outcome EXCEPT ![r] = code], pending' = pending \ {r},
         toGcs' \subseteq toGcs,
         UNCHANGED <<call, probing, stopped, support, ackOf, lambdaRun, sends,
                     toVehicle, working>>
  PROVE  AInv'
<1>0. /\ TypeEnds /\ Traced /\ Explained /\ NoLaterTwin /\ AckAttribution
      /\ SupportIsTrue /\ ProbesUnknown /\ LambdasMade /\ FallbackWhenUnsupported
      /\ Len(call) \in Nat /\ 1..Len(call) \subseteq Reqs
  BY KnownParts
<1>1. /\ r \in Reqs /\ r \in 1..Len(call) /\ outcome[r] = "none" /\ ackOf[r] = 0
      /\ call[r].fallback => r \notin lambdaRun
  BY PendingOpen
<1>2. outcome'[r] = code /\ \A q \in Reqs : q # r => outcome'[q] = outcome[q]
  BY <1>0, <1>1 DEF TypeEnds
<1>3. code \notin Finals \cup Refusals \cup {"lambda", "dropped", "unsupported"}
  BY DEF Finals, Refusals
<1>4. NetInv'
  BY <1>0, <1>1, <1>2, NetKept DEF Known, AInv
<1>5. Explained'
  BY <1>0, <1>1, <1>2, <1>3 DEF Explained
<1>6. NoLaterTwin' /\ ProbesUnknown'
  BY <1>0 DEF NoLaterTwin, ProbesUnknown, SameCommand
<1>7. AckAttribution'
  <2>1. \A q \in 1..Len(call) : MayAnswerLate(q) => MayAnswerLate(q)'
    BY <1>0, <1>1, <1>2 DEF MayAnswerLate
  <2> QED BY <1>0, <2>1, AttributionKept
<1>8. SupportIsTrue' /\ LambdasMade'
  BY <1>0 DEF SupportIsTrue, LambdasMade
<1>9. FallbackWhenUnsupported'
  BY <1>0, <1>1, <1>2, <1>3 DEF FallbackWhenUnsupported
<1> QED BY <1>4, <1>5, <1>6, <1>7, <1>8, <1>9 DEF AInv, BookInv

\* A try more: if it is not the first, no ack of the call counts as its only one.
LEMMA ResendAInv ==
  ASSUME Known, NEW r \in pending, Transmit(r), tries'[r] \in Nat,
         UNCHANGED <<call, pending, probing, stopped, support, outcome, ackOf,
                     lambdaRun, working, toGcs>>
  PROVE  AInv'
<1>0. /\ TypeNet /\ Traced /\ InOnePlace /\ Spent /\ Honest /\ NoTwins
      /\ Explained /\ NoLaterTwin /\ AckAttribution
      /\ SupportIsTrue /\ ProbesUnknown /\ LambdasMade /\ FallbackWhenUnsupported
      /\ Len(call) \in Nat /\ 1..Len(call) \subseteq Reqs
      /\ pending \subseteq 1..Len(call)
  BY KnownParts
<1>1. r \in Reqs /\ r \in 1..Len(call) /\ outcome[r] = "none"
  BY PendingOpen
<1>2. /\ sends'[r] = sends[r] + 1 /\ sends[r] \in Nat
      /\ \A q \in Reqs : q # r => sends'[q] = sends[q]
      /\ \A m \in toVehicle' : m \in toVehicle \/ m.req = r
      /\ FinalAcks' = FinalAcks /\ FinalAcks \subseteq toGcs
  BY <1>0, <1>1 DEF TypeNet, Transmit, FinalAcks
<1>3. \A q \in Reqs : /\ sends[q] \in Nat /\ sends'[q] \in Nat /\ sends'[q] >= sends[q]
                      /\ sends'[q] <= 1 =>
                           sends[q] <= 1 /\ (q = r => sends[r] = 0)
  BY <1>0, <1>1, <1>2 DEF TypeNet
<1>4. \A q \in 1..Len(call) : sends[q] > 0 => sends'[q] > 0
  BY <1>0, <1>3
<1>5. Traced'
  <2>1. \A m \in toVehicle' \cup working' \cup toGcs' :
          m.req \in 1..Len(call') /\ sends'[m.req] > 0
    <3> SUFFICES ASSUME NEW m \in toVehicle' \cup working' \cup toGcs'
                 PROVE  m.req \in 1..Len(call) /\ sends'[m.req] > 0
      OBVIOUS
    <3>1. CASE m.req = r
      BY <1>1, <1>2, <3>1
    <3>2. CASE m.req # r
      BY <1>0, <1>2, <1>4, <3>2 DEF Traced
    <3> QED BY <3>1, <3>2
  <2>2. \A q \in Reqs : ackOf'[q] # 0 =>
          /\ q \in 1..Len(call') /\ outcome'[q] \in Finals
          /\ ackOf'[q] \in 1..Len(call') /\ sends'[ackOf'[q]] > 0
    BY <1>0, <1>4 DEF Traced
  <2> QED BY <2>1, <2>2 DEF Traced
<1>6. InOnePlace'
  <2> SUFFICES ASSUME NEW s \in Reqs, sends'[s] <= 1
               PROVE  /\ AtMostOne(toVehicle', s) /\ AtMostOne(working', s)
                      /\ AtMostOne(FinalAcks', s)
                      /\ NeverBoth(toVehicle', working', s)
                      /\ NeverBoth(toVehicle', FinalAcks', s)
                      /\ NeverBoth(working', FinalAcks', s)
    BY DEF InOnePlace, AtMostOne, NeverBoth
  <2>1. CASE s = r
    <3>1. \A m \in toVehicle \cup working \cup toGcs : m.req # s
      BY <1>0, <1>3, <2>1 DEF Traced
    <3>2. toVehicle' = toVehicle \cup {[req |-> r, try |-> tries'[r]]}
      BY DEF Transmit
    <3> QED BY <1>2, <2>1, <3>1, <3>2 DEF AtMostOne, NeverBoth
  <2>2. CASE s # r
    <3>1. sends[s] <= 1 /\ \A m \in toVehicle' : m.req = s => m \in toVehicle
      BY <1>2, <2>2
    <3> QED BY <1>0, <1>2, <3>1 DEF InOnePlace, AtMostOne, NeverBoth
  <2> QED BY <2>1, <2>2
<1>7. Spent'
  <2> SUFFICES ASSUME NEW q \in Reqs, ackOf[q] # 0, sends'[ackOf[q]] <= 1,
                      NEW m \in toVehicle' \cup working' \cup FinalAcks', m.req = ackOf[q]
               PROVE  FALSE
    BY DEF Spent
  <2>1. ackOf[q] \in Reqs /\ sends[ackOf[q]] > 0
    BY <1>0 DEF Traced
  <2>2. ackOf[q] # r /\ sends[ackOf[q]] <= 1
    BY <1>3, <2>1
  <2>3. m \in toVehicle \cup working \cup FinalAcks
    BY <1>2, <2>2
  <2> QED BY <1>0, <2>2, <2>3 DEF Spent
<1>8. Honest'
  BY <1>0 DEF Honest
<1>9. Explained'
  <2>1. outcome[r] \notin Finals \cup Refusals \cup {"lambda", "dropped", "progressOnly"}
    BY <1>1 DEF Finals, Refusals
  <2> QED BY <1>0, <1>2, <2>1 DEF Explained
<1>10. NoLaterTwin'
  <2> SUFFICES ASSUME NEW q \in pending, NEW s \in 1..Len(call), s > q, sends'[s] > 0,
                      SameCommand(call[s], call[q])
               PROVE  call[q].cmd \in Duplicable
    BY DEF NoLaterTwin, SameCommand
  <2>1. CASE s = r
    BY <1>0, <2>1 DEF NoTwins
  <2>2. CASE s # r
    BY <1>0, <1>2, <2>2 DEF NoLaterTwin
  <2> QED BY <2>1, <2>2
<1>11. AckAttribution'
  <2>1. \A q \in 1..Len(call) : MayAnswerLate(q) => MayAnswerLate(q)'
    BY <1>0, <1>3 DEF MayAnswerLate
  <2> QED BY <1>0, <2>1, AttributionKept
<1>12. SupportIsTrue' /\ ProbesUnknown' /\ LambdasMade' /\ FallbackWhenUnsupported'
  BY <1>0 DEF SupportIsTrue, ProbesUnknown, LambdasMade, FallbackWhenUnsupported
<1> QED BY <1>5, <1>6, <1>7, <1>8, <1>9, <1>10, <1>11, <1>12
        DEF AInv, NetInv, BookInv

LEMMA CheckAInv ==
  ASSUME Known, TypeInv', NEW r \in Reqs, CheckEntry(r)
  PROVE  AInv'
<1>0. TypeQueue /\ TypeEnds /\ Len(call) \in Nat /\ Traced
  BY KnownParts
<1>1. /\ r \in pending
      /\ UNCHANGED <<call, probing, stopped, support, lambdaRun, working, toGcs>>
  BY <1>0 DEF CheckEntry, TypeQueue
<1>2. CASE r \in expired /\ GiveUp(r)
  <2>1. ackOf[r] = 0
    BY <1>1, PendingOpen
  <2>2. ackOf' = ackOf
    BY <1>0, <1>2, <2>1 DEF GiveUp, Report, TypeEnds
  <2>3. /\ outcome' = [outcome EXCEPT ![r] = "noResponse"] /\ pending' = pending \ {r}
        /\ sends' = sends /\ toVehicle' = toVehicle
    BY <1>2 DEF GiveUp, Report
  <2> QED BY <1>1, <2>2, <2>3, EndsUnanswered
<1>3. CASE r \in expired /\ Resend(r)
  <2>1. UNCHANGED <<pending, outcome, ackOf>>
    BY <1>3 DEF Resend
  <2>2. CASE linkUp
    <3>1. tries'[r] \in Nat
      BY DEF TypeInv, TypeOK, TypeQueue
    <3>2. Transmit(r)
      BY <1>3, <2>2 DEF Resend
    <3> QED BY <1>1, <2>1, <3>1, <3>2, ResendAInv
  <2>3. CASE ~linkUp
    <3>1. UNCHANGED <<sends, toVehicle>>
      BY <1>3, <2>3 DEF Resend
    <3>2. NetInv'
      BY <1>0, <1>1, <2>1, <3>1, NetKept DEF Known, AInv
    <3>3. BookInv'
      BY <1>0, <1>1, <2>1, <3>1, BookKept DEF Known, AInv
    <3> QED BY <3>2, <3>3 DEF AInv
  <2> QED BY <2>2, <2>3
<1>4. CASE r \notin expired
  <2>1. UNCHANGED <<pending, outcome, ackOf, sends, toVehicle>>
    BY <1>4 DEF CheckEntry
  <2>2. NetInv'
    BY <1>0, <1>1, <2>1, NetKept DEF Known, AInv
  <2>3. BookInv'
    BY <1>0, <1>1, <2>1, BookKept DEF Known, AInv
  <2> QED BY <2>2, <2>3 DEF AInv
<1> QED BY <1>2, <1>3, <1>4 DEF CheckEntry

\* handleCommandAck on a final result.  If the ack is of another call, that call has
\* ended; had it gone out once and been ended by its own ack, none would be left.
LEMMA EndByAckAInv ==
  ASSUME Known, NEW a \in toGcs, handleCommandAck(a), EndByAck(call[a.req], a)
  PROVE  AInv'
<1>0. /\ TypeEnds /\ TypeNet /\ TypeCalls /\ NoTwins /\ StoppedEmpty /\ ReportedOnce
      /\ Traced /\ InOnePlace /\ Spent /\ Honest
      /\ Explained /\ NoLaterTwin /\ AckAttribution
      /\ SupportIsTrue /\ ProbesUnknown /\ LambdasMade /\ FallbackWhenUnsupported
      /\ Len(call) \in Nat /\ 1..Len(call) \subseteq Reqs
      /\ pending \subseteq 1..Len(call)
  BY KnownParts
<1> DEFINE s == a.req
           cmd == call[s].cmd
<1>1. /\ toGcs' = toGcs \ {a}
      /\ UNCHANGED <<call, probing, stopped, sends, toVehicle, working>>
  BY DEF handleCommandAck
<1>2. PICK r \in pending :
        /\ IsFirstMatch(r, call[s]) /\ a.result \in Finals
        /\ pending' = pending \ {r}
        /\ Report(r, a.result, s)
        /\ support' = IF r \in probing /\ a.result \in {"accepted", "unsupported"}
                        THEN [support EXCEPT ![cmd] =
                                IF a.result = "accepted" THEN "supported" ELSE "unsupported"]
                        ELSE support
        /\ lambdaRun' = IF r \in probing /\ a.result = "unsupported"
                          THEN lambdaRun \cup {r} ELSE lambdaRun
  BY DEF EndByAck
<1>3. /\ r \in Reqs /\ r \in 1..Len(call) /\ outcome[r] = "none" /\ ackOf[r] = 0
      /\ call[r].fallback => r \notin lambdaRun
  BY PendingOpen
<1>4. /\ s \in 1..Len(call) /\ s \in Reqs /\ sends[s] > 0 /\ sends[s] \in Nat
      /\ SameCommand(call[r], call[s]) /\ call[r].cmd = cmd
  <2>1. s \in 1..Len(call) /\ sends[s] > 0
    BY <1>0 DEF Traced
  <2>2. sends[s] \in Nat
    BY <1>0, <2>1 DEF TypeNet
  <2>3. SameCommand(call[r], call[s])
    BY <1>2 DEF IsFirstMatch, Matches
  <2> QED BY <1>0, <2>1, <2>2, <2>3 DEF SameCommand
<1>5. /\ outcome'[r] = a.result /\ ackOf'[r] = s
      /\ \A q \in Reqs : q # r => outcome'[q] = outcome[q] /\ ackOf'[q] = ackOf[q]
  <2>1. outcome' = [outcome EXCEPT ![r] = a.result] /\ ackOf' = [ackOf EXCEPT ![r] = s]
    BY <1>2 DEF Report
  <2> QED BY <1>0, <1>3, <2>1 DEF TypeEnds
<1>6. s # 0
  BY <1>4
<1> HIDE DEF s
<1>7. /\ a \in FinalAcks /\ FinalAcks' = FinalAcks \ {a} /\ a.req = s
  BY <1>1, <1>2 DEF FinalAcks, s
<1>8. Traced'
  <2>1. \A m \in toVehicle' \cup working' \cup toGcs' :
          m.req \in 1..Len(call') /\ sends'[m.req] > 0
    BY <1>0, <1>1 DEF Traced
  <2>2. \A q \in Reqs : ackOf'[q] # 0 =>
          /\ q \in 1..Len(call') /\ outcome'[q] \in Finals
          /\ ackOf'[q] \in 1..Len(call') /\ sends'[ackOf'[q]] > 0
    <3> SUFFICES ASSUME NEW q \in Reqs, ackOf'[q] # 0
                 PROVE  /\ q \in 1..Len(call) /\ outcome'[q] \in Finals
                        /\ ackOf'[q] \in 1..Len(call) /\ sends[ackOf'[q]] > 0
      BY <1>1
    <3>1. CASE q = r
      BY <1>2, <1>3, <1>4, <1>5, <3>1
    <3>2. CASE q # r
      BY <1>0, <1>5, <3>2 DEF Traced
    <3> QED BY <3>1, <3>2
  <2> QED BY <2>1, <2>2 DEF Traced
<1>9. InOnePlace'
  BY <1>0, <1>1, <1>7 DEF InOnePlace, AtMostOne, NeverBoth
<1>10. Spent'
  <2> SUFFICES ASSUME NEW q \in Reqs, ackOf'[q] # 0, sends[ackOf'[q]] <= 1,
                      NEW m \in toVehicle \cup working \cup FinalAcks',
                      m.req = ackOf'[q]
               PROVE  FALSE
    BY <1>1 DEF Spent
  <2>1. CASE q = r
    <3>1. sends[s] <= 1 /\ m.req = s
      BY <1>5, <2>1
    <3>2. /\ AtMostOne(FinalAcks, s) /\ NeverBoth(toVehicle, FinalAcks, s)
          /\ NeverBoth(working, FinalAcks, s)
      BY <1>0, <1>4, <3>1 DEF InOnePlace
    <3> QED BY <1>7, <3>1, <3>2 DEF AtMostOne, NeverBoth
  <2>2. CASE q # r
    BY <1>0, <1>5, <1>7, <2>2 DEF Spent
  <2> QED BY <2>1, <2>2
<1>11. Honest'
  BY <1>0, <1>1 DEF Honest
<1>12. Explained'
  <2>1. a.result \notin Refusals \cup {"lambda", "dropped", "progressOnly"}
    BY <1>2 DEF Finals, Refusals
  <2> SUFFICES ASSUME NEW q \in 1..Len(call)
               PROVE  /\ outcome'[q] \in Finals => ackOf'[q] # 0
                      /\ outcome'[q] = "dropped" => stopped
                      /\ outcome'[q] \in Refusals \cup {"lambda"} => sends[q] = 0
                      /\ outcome'[q] = "progressOnly" => call[q].cmd \in ProgressEnds
    BY <1>1 DEF Explained
  <2>2. CASE q = r
    BY <1>5, <1>6, <2>1, <2>2
  <2>3. CASE q # r
    BY <1>0, <1>5, <2>3 DEF Explained
  <2> QED BY <2>2, <2>3
<1>13. NoLaterTwin'
  BY <1>0, <1>1, <1>2 DEF NoLaterTwin, SameCommand
<1>14. AckAttribution'
  <2>0. \A q \in 1..Len(call) : MayAnswerLate(q) => MayAnswerLate(q)'
    BY <1>0, <1>1, <1>3, <1>5 DEF MayAnswerLate
  <2>1. ASSUME NEW q \in 1..s, SameCommand(call[q], call[r]), MayAnswerLate(q)
        PROVE  \E p \in 1..s : SameCommand(call'[p], call'[r]) /\ MayAnswerLate(p)'
    BY <1>0, <1>1, <1>4, <2>0, <2>1
  <2>2. ASSUME s # r, cmd \notin Duplicable
        PROVE  s < r /\ \E q \in 1..s : SameCommand(call[q], call[r]) /\ MayAnswerLate(q)
    <3>1. s \notin pending
      BY <1>0, <1>4, <2>2 DEF NoTwins, SameCommand
    <3>2. outcome[s] \in Outcomes /\ outcome[s] # "none"
      BY <1>0, <1>4, <3>1 DEF ReportedOnce, TypeEnds
    <3>3. s < r
      <4>1. ~(s > r)
        BY <1>0, <1>3, <1>4, <2>2 DEF NoLaterTwin, SameCommand
      <4> QED BY <1>3, <1>4, <2>2, <4>1 DEF Reqs
    <3>4. outcome[s] \notin Refusals \cup {"lambda", "dropped", "progressOnly"}
      <4>1. outcome[s] # "dropped"
        BY <1>0, <1>4 DEF Explained, StoppedEmpty
      <4>2. outcome[s] # "progressOnly"
        BY <1>0, <1>2, <1>4, <1>7 DEF Explained, Honest
      <4>3. outcome[s] \notin Refusals \cup {"lambda"}
        BY <1>0, <1>4 DEF Explained
      <4> QED BY <4>1, <4>2, <4>3
    <3>5. outcome[s] \in Finals \cup {"noResponse"}
      BY <3>2, <3>4 DEF Outcomes, Reported, Silent
    <3>6. SameCommand(call[s], call[r])
      BY <1>4 DEF SameCommand
    <3>7. CASE MayAnswerLate(s)
      BY <1>4, <3>3, <3>6, <3>7
    <3>8. CASE ~MayAnswerLate(s)
      <4>1. sends[s] <= 1 /\ outcome[s] \in Finals
        BY <1>4, <3>5, <3>8 DEF MayAnswerLate
      <4>2. ackOf[s] # 0 /\ ackOf[s] # s
        BY <1>0, <1>4, <1>7, <4>1 DEF Explained, Spent
      <4>3. call[s].cmd \notin Duplicable
        BY <2>2
      <4>4. PICK q \in 1..ackOf[s] : SameCommand(call[q], call[s]) /\ MayAnswerLate(q)
        BY <1>0, <1>4, <4>2, <4>3 DEF AckAttribution
      <4>5. ackOf[s] < s /\ ackOf[s] \in Nat
        BY <1>0, <1>4, <4>2, <4>3 DEF AckAttribution, TypeEnds
      <4>6. q \in 1..s
        BY <1>4, <4>4, <4>5
      <4>7. SameCommand(call[q], call[r])
        BY <1>4, <4>4 DEF SameCommand
      <4> QED BY <3>3, <4>4, <4>6, <4>7
    <3> QED BY <3>7, <3>8
  <2>3. ASSUME NEW p \in Reqs, ackOf'[p] \notin {0, p}, call'[p].cmd \notin Duplicable
        PROVE  /\ ackOf'[p] < p /\ SameCommand(call'[ackOf'[p]], call'[p])
               /\ \E q \in 1..ackOf'[p] : SameCommand(call'[q], call'[p]) /\ MayAnswerLate(q)'
    <3>1. CASE p = r
      <4>1. s # r /\ cmd \notin Duplicable
        BY <1>1, <1>4, <1>5, <2>3, <3>1
      <4>2. PICK q \in 1..s : SameCommand(call[q], call[r]) /\ MayAnswerLate(q)
        BY <2>2, <4>1
      <4>3. \E q1 \in 1..s : SameCommand(call'[q1], call'[r]) /\ MayAnswerLate(q1)'
        BY <2>1, <4>2
      <4>4. s < r /\ SameCommand(call'[s], call'[r])
        BY <1>1, <1>4, <2>2, <4>1 DEF SameCommand
      <4> QED BY <1>5, <3>1, <4>3, <4>4
    <3>2. CASE p # r
      <4>1. ackOf'[p] = ackOf[p] /\ p \in 1..Len(call) /\ ackOf[p] \in 1..Len(call)
        BY <1>0, <1>5, <2>3, <3>2 DEF Traced
      <4>2. /\ ackOf[p] < p /\ SameCommand(call[ackOf[p]], call[p])
            /\ \E q \in 1..ackOf[p] : SameCommand(call[q], call[p]) /\ MayAnswerLate(q)
        BY <1>0, <1>1, <2>3, <4>1 DEF AckAttribution
      <4>3. PICK q \in 1..ackOf[p] : SameCommand(call[q], call[p]) /\ MayAnswerLate(q)
        BY <4>2
      <4>4. q \in 1..Len(call)
        BY <4>1
      <4>5. SameCommand(call'[q], call'[p]) /\ MayAnswerLate(q)'
        BY <1>1, <2>0, <4>3, <4>4
      <4> QED BY <1>1, <4>1, <4>2, <4>3, <4>5
    <3> QED BY <3>1, <3>2
  <2> QED BY <2>3 DEF AckAttribution, SameCommand, MayAnswerLate
<1>15. a.result = "unsupported" <=> cmd \in Unsupported
  BY <1>0, <1>7 DEF Honest
<1>16. SupportIsTrue'
  <2> SUFFICES ASSUME NEW c \in Cmds
               PROVE  /\ support'[c] = "unsupported" => c \in Unsupported
                      /\ support'[c] = "supported" => c \notin Unsupported
    BY DEF SupportIsTrue
  <2>1. CASE support' = support
    BY <1>0, <2>1 DEF SupportIsTrue
  <2>2. CASE support' # support
    <3>1. /\ a.result \in {"accepted", "unsupported"}
          /\ support' = [support EXCEPT ![cmd] =
                IF a.result = "accepted" THEN "supported" ELSE "unsupported"]
      BY <1>2, <2>2
    <3>2. c # cmd => support'[c] = support[c]
      BY <1>0, <3>1 DEF TypeCalls
    <3>3. c = cmd => support'[c] = IF a.result = "accepted" THEN "supported" ELSE "unsupported"
      BY <1>0, <3>1 DEF TypeCalls
    <3> QED BY <1>0, <1>15, <3>1, <3>2, <3>3 DEF SupportIsTrue
  <2> QED BY <2>1, <2>2
<1>17. ProbesUnknown' /\ LambdasMade'
  BY <1>0, <1>1, <1>2, <1>3 DEF ProbesUnknown, LambdasMade
<1>18. FallbackWhenUnsupported'
  <2> SUFFICES ASSUME NEW q \in 1..Len(call)
               PROVE  /\ q \in lambdaRun' => call[q].fallback /\ call[q].cmd \in Unsupported
                      /\ call[q].fallback =>
                           (outcome'[q] \in {"unsupported", "lambda"} <=> q \in lambdaRun')
    BY <1>1 DEF FallbackWhenUnsupported
  <2>1. CASE q = r
    <3>1. r \in lambdaRun => call[r].fallback /\ call[r].cmd \in Unsupported
      BY <1>0, <1>3 DEF FallbackWhenUnsupported
    <3>2. r \in probing => call[r].fallback
      BY <1>0 DEF ProbesUnknown
    <3>3. r \notin probing /\ call[r].fallback => a.result # "unsupported"
      BY <1>0, <1>4, <1>15 DEF ProbesUnknown
    <3>4. a.result # "lambda"
      BY <1>2 DEF Finals
    <3> QED BY <1>2, <1>3, <1>4, <1>5, <1>15, <2>1, <3>1, <3>2, <3>3, <3>4
  <2>2. CASE q # r
    <3>1. q \in lambdaRun' <=> q \in lambdaRun
      BY <1>2, <2>2
    <3> QED BY <1>0, <1>5, <2>2, <3>1 DEF FallbackWhenUnsupported
  <2> QED BY <2>1, <2>2
<1> QED BY <1>8, <1>9, <1>10, <1>11, <1>12, <1>13, <1>14, <1>16, <1>17, <1>18
        DEF AInv, NetInv, BookInv

LEMMA AckAInv ==
  ASSUME Known, NEW a \in toGcs, handleCommandAck(a)
  PROVE  AInv'
<1> DEFINE c == call[a.req]
<1>0. /\ Len(call) \in Nat /\ 1..Len(call) \subseteq Reqs /\ Traced
  BY KnownParts
<1>1. /\ toGcs' = toGcs \ {a}
      /\ UNCHANGED <<call, probing, stopped, sends, toVehicle, working>>
      /\ IgnoreAck(c) \/ EndByAck(c, a) \/ NoteProgress(c, a) \/ EndByProgress(c, a)
  BY DEF handleCommandAck
<1>2. CASE EndByAck(c, a)
  BY <1>2, EndByAckAInv
<1>3. CASE EndByProgress(c, a)
  <2>1. PICK r \in pending :
          /\ IsFirstMatch(r, c) /\ c.cmd \in ProgressEnds
          /\ pending' = pending \ {r} /\ EndSilently(r, "progressOnly")
          /\ support' = support /\ lambdaRun' = lambdaRun
    BY <1>3 DEF EndByProgress
  <2>2. call[r].cmd \in ProgressEnds
    BY <2>1 DEF IsFirstMatch, Matches, SameCommand
  <2>3. outcome' = [outcome EXCEPT ![r] = "progressOnly"] /\ ackOf' = ackOf
    BY <2>1 DEF EndSilently
  <2> QED BY <1>1, <2>1, <2>2, <2>3, EndsUnanswered
<1>4. CASE IgnoreAck(c) \/ NoteProgress(c, a)
  <2>1. UNCHANGED <<pending, support, outcome, ackOf, lambdaRun>>
    BY <1>4 DEF IgnoreAck, NoteProgress, endVars
  <2>2. NetInv'
    BY <1>0, <1>1, <2>1, NetKept DEF Known, AInv
  <2>3. BookInv'
    BY <1>0, <1>1, <2>1, BookKept DEF Known, AInv
  <2> QED BY <2>2, <2>3 DEF AInv
<1> QED BY <1>1, <1>2, <1>3, <1>4

LEMMA StopAInv ==
  ASSUME Known, stop
  PROVE  AInv'
<1>0. /\ TypeEnds /\ Traced /\ Explained /\ AckAttribution /\ ReportedOnce
      /\ SupportIsTrue /\ ProbesUnknown /\ LambdasMade /\ FallbackWhenUnsupported
      /\ Len(call) \in Nat /\ 1..Len(call) \subseteq Reqs
  BY KnownParts
<1>1. /\ stopped' = TRUE /\ pending' = {}
      /\ outcome' = [r \in Reqs |-> IF r \in pending THEN "dropped" ELSE outcome[r]]
      /\ UNCHANGED <<call, probing, support, ackOf, lambdaRun, sends,
                     toVehicle, working, toGcs>>
  BY DEF stop, entryVars, netVars
<1>2. \A r \in Reqs : /\ r \notin pending => outcome'[r] = outcome[r]
                      /\ r \in pending => outcome'[r] = "dropped"
  BY <1>1
<1>3. \A r \in pending : /\ outcome[r] = "none" /\ ackOf[r] = 0
                         /\ call[r].fallback => r \notin lambdaRun
  BY PendingOpen
<1>4. NetInv'
  BY <1>0, <1>1, <1>2, <1>3, NetKept DEF Known, AInv
<1>5. Explained'
  <2>1. "dropped" \notin Finals \cup Refusals
    BY DEF Finals, Refusals
  <2> QED BY <1>0, <1>1, <1>2, <2>1 DEF Explained
<1>6. AckAttribution'
  <2>1. \A q \in 1..Len(call) : MayAnswerLate(q) => MayAnswerLate(q)'
    BY <1>0, <1>1, <1>2, <1>3 DEF MayAnswerLate
  <2> QED BY <1>0, <1>1, <2>1, AttributionKept
<1>7. NoLaterTwin' /\ SupportIsTrue' /\ ProbesUnknown' /\ LambdasMade'
  BY <1>0, <1>1 DEF NoLaterTwin, SupportIsTrue, ProbesUnknown, LambdasMade
<1>8. FallbackWhenUnsupported'
  BY <1>0, <1>1, <1>2, <1>3 DEF FallbackWhenUnsupported
<1> QED BY <1>4, <1>5, <1>6, <1>7, <1>8 DEF AInv, BookInv

\* The vehicle moves one message on: from "toVehicle" or "working" to where it goes.
LEMMA VehicleAInv ==
  ASSUME Known, NEW m \in toVehicle \cup working,
         (m \in toVehicle /\ VehicleAnswers(m)) \/ (m \in working /\ VehicleFinishes(m))
  PROVE  AInv'
<1>0. /\ Traced /\ InOnePlace /\ Spent /\ Honest /\ TypeNet /\ TypeCalls
      /\ Len(call) \in Nat /\ 1..Len(call) \subseteq Reqs
  BY KnownParts
<1> DEFINE cmd == call[m.req].cmd
<1>1. UNCHANGED <<call, pending, probing, stopped, support, outcome, ackOf,
                  lambdaRun, sends>>
  BY DEF VehicleAnswers, VehicleFinishes, entryVars, endVars
<1>2. PICK result \in Finals \cup {"inProgress"} :
        /\ toGcs' = toGcs \cup {[req |-> m.req, try |-> m.try, result |-> result]}
        /\ result = "unsupported" <=> cmd \in Unsupported
        /\ result \in Finals => cmd \notin ProgressEnds
        /\ \/ /\ m \in toVehicle /\ toVehicle' = toVehicle \ {m} /\ working' = working
           \/ /\ m \in toVehicle /\ toVehicle' = toVehicle \ {m}
              /\ working' = working \cup {m} /\ result = "inProgress"
              /\ cmd \notin ProgressEnds \cup Unsupported
           \/ /\ m \in working /\ working' = working \ {m} /\ toVehicle' = toVehicle
  <2>1. CASE m \in toVehicle /\ VehicleAnswers(m)
    <3>1. CASE /\ cmd \in Unsupported
               /\ toGcs' = toGcs \cup {[req |-> m.req, try |-> m.try,
                                        result |-> "unsupported"]}
               /\ UNCHANGED working
      <4>1. toVehicle' = toVehicle \ {m}
        BY <2>1 DEF VehicleAnswers
      <4> QED BY <2>1, <3>1, <4>1, SetsAssumption DEF Finals
    <3>2. CASE /\ cmd \notin Unsupported \cup ProgressEnds
               /\ \E result \in Verdicts(cmd) :
                    toGcs' = toGcs \cup {[req |-> m.req, try |-> m.try, result |-> result]}
               /\ UNCHANGED working
      <4>1. toVehicle' = toVehicle \ {m}
        BY <2>1 DEF VehicleAnswers
      <4> QED BY <2>1, <3>2, <4>1 DEF Finals, Verdicts
    <3>3. CASE /\ cmd \in LongRunning
               /\ toGcs' = toGcs \cup {[req |-> m.req, try |-> m.try,
                                        result |-> "inProgress"]}
               /\ working' = IF cmd \in ProgressEnds THEN working ELSE working \cup {m}
      <4>1. toVehicle' = toVehicle \ {m}
        BY <2>1 DEF VehicleAnswers
      <4>2. cmd \notin Unsupported
        BY <3>3, SetsAssumption
      <4> QED BY <2>1, <3>3, <4>1, <4>2 DEF Finals
    <3> QED BY <2>1, <3>1, <3>2, <3>3 DEF VehicleAnswers
  <2>2. CASE m \in working /\ VehicleFinishes(m)
    <3>1. PICK result \in Verdicts(cmd) :
            toGcs' = toGcs \cup {[req |-> m.req, try |-> m.try, result |-> result]}
      BY <2>2 DEF VehicleFinishes
    <3>2. cmd \notin ProgressEnds \cup Unsupported
      BY <1>0, <2>2 DEF Honest
    <3>3. working' = working \ {m} /\ toVehicle' = toVehicle
      BY <2>2 DEF VehicleFinishes
    <3> QED BY <2>2, <3>1, <3>2, <3>3 DEF Verdicts, Finals
  <2> QED BY <2>1, <2>2
<1> DEFINE ack == [req |-> m.req, try |-> m.try, result |-> result]
<1>3. ack.req = m.req /\ ack.result = result
  OBVIOUS
<1> HIDE DEF ack, cmd
<1>4. toGcs' = toGcs \cup {ack}
  BY <1>2 DEF ack
<1>5. FinalAcks' = IF result \in Finals THEN FinalAcks \cup {ack} ELSE FinalAcks
  BY <1>3, <1>4 DEF FinalAcks
<1>6. "inProgress" \notin Finals
  BY DEF Finals
<1>7. \A n \in toVehicle' \cup working' \cup FinalAcks' :
        n \in toVehicle \cup working \cup FinalAcks \/ n.req = m.req
  BY <1>2, <1>3, <1>5
<1>8. Traced'
  <2>1. \A n \in toVehicle' \cup working' \cup toGcs' :
          n.req \in 1..Len(call) /\ sends[n.req] > 0
    BY <1>0, <1>2, <1>3, <1>4 DEF Traced
  <2> QED BY <1>0, <1>1, <2>1 DEF Traced
<1>9. InOnePlace'
  <2> SUFFICES ASSUME NEW s \in Reqs, sends[s] <= 1
               PROVE  /\ AtMostOne(toVehicle', s) /\ AtMostOne(working', s)
                      /\ AtMostOne(FinalAcks', s)
                      /\ NeverBoth(toVehicle', working', s)
                      /\ NeverBoth(toVehicle', FinalAcks', s)
                      /\ NeverBoth(working', FinalAcks', s)
    BY <1>1 DEF InOnePlace, AtMostOne, NeverBoth
  <2>1. /\ AtMostOne(toVehicle, s) /\ AtMostOne(working, s) /\ AtMostOne(FinalAcks, s)
        /\ NeverBoth(toVehicle, working, s)
        /\ NeverBoth(toVehicle, FinalAcks, s) /\ NeverBoth(working, FinalAcks, s)
    BY <1>0 DEF InOnePlace
  <2>2. CASE m.req # s
    <3>1. /\ \A n \in toVehicle' : n.req = s => n \in toVehicle
          /\ \A n \in working' : n.req = s => n \in working
          /\ \A n \in FinalAcks' : n.req = s => n \in FinalAcks
      BY <1>2, <1>3, <1>5, <2>2
    <3> QED BY <2>1, <3>1 DEF AtMostOne, NeverBoth
  <2>3. CASE m.req = s /\ m \in toVehicle
    <3>1. /\ \A n \in toVehicle : n.req = s => n = m
          /\ \A n \in working \cup FinalAcks : n.req # s
      BY <2>1, <2>3 DEF AtMostOne, NeverBoth
    <3>2. m \notin working
      BY <2>3, <3>1
    <3>3. \A n \in toVehicle' : n.req # s
      BY <1>2, <3>1, <3>2
    <3>4. /\ \A n \in working' : n.req = s => n = m
          /\ \A n \in FinalAcks' : n.req = s => n = ack
      BY <1>2, <1>3, <1>5, <3>1
    <3>5. NeverBoth(working', FinalAcks', s)
      BY <1>2, <1>5, <1>6, <3>1, <3>2 DEF NeverBoth
    <3> QED BY <3>3, <3>4, <3>5 DEF AtMostOne, NeverBoth
  <2>4. CASE m.req = s /\ m \in working
    <3>1. /\ \A n \in working : n.req = s => n = m
          /\ \A n \in toVehicle \cup FinalAcks : n.req # s
      BY <2>1, <2>4 DEF AtMostOne, NeverBoth
    <3>2. m \notin toVehicle
      BY <2>4, <3>1
    <3>3. \A n \in toVehicle' \cup working' : n.req # s
      BY <1>2, <3>1, <3>2
    <3>4. \A n \in FinalAcks' : n.req = s => n = ack
      BY <1>3, <1>5, <3>1
    <3> QED BY <3>3, <3>4 DEF AtMostOne, NeverBoth
  <2> QED BY <2>2, <2>3, <2>4
<1>10. Spent'
  BY <1>0, <1>1, <1>7 DEF Spent
<1>11. Honest'
  <2>1. \A a \in toGcs' :
          /\ a.result \in Finals => call[a.req].cmd \notin ProgressEnds
          /\ a.result = "unsupported" <=> call[a.req].cmd \in Unsupported
    BY <1>0, <1>2, <1>3, <1>4 DEF Honest, cmd
  <2>2. \A n \in working' : call[n.req].cmd \notin ProgressEnds \cup Unsupported
    BY <1>0, <1>2 DEF Honest, cmd
  <2> QED BY <1>1, <2>1, <2>2 DEF Honest
<1>12. BookInv'
  BY <1>0, <1>1, BookKept DEF Known, AInv
<1> QED BY <1>8, <1>9, <1>10, <1>11, <1>12 DEF AInv, NetInv

LEMMA NextAInv == Known /\ TypeInv' /\ [Next]_vars => AInv'
<1> SUFFICES ASSUME Known, TypeInv', [Next]_vars PROVE AInv'
  OBVIOUS
<1>1. ASSUME NEW c \in Calls, Call(c) PROVE AInv'
  BY <1>1, EndAtOnceAInv, EnqueueAInv DEF Call
<1>2. ASSUME NEW r \in Reqs, CheckEntry(r) PROVE AInv'
  BY <1>2, CheckAInv
<1>3. ASSUME NEW a \in toGcs, handleCommandAck(a) PROVE AInv'
  BY <1>3, AckAInv
<1>4. CASE stop
  BY <1>4, StopAInv
<1>5. ASSUME NEW m \in toVehicle, VehicleAnswers(m) PROVE AInv'
  BY <1>5, VehicleAInv
<1>6. ASSUME NEW m \in working, VehicleFinishes(m) PROVE AInv'
  BY <1>6, VehicleAInv
<1>7. CASE \/ UNCHANGED vars \/ StartTimeoutCheck \/ LinkChanges
           \/ \E r \in Reqs : AckWindowEnds(r)
  <2>1. UNCHANGED <<call, pending, probing, stopped, support, outcome, ackOf,
                    lambdaRun, sends, toVehicle, working, toGcs>>
    BY <1>7 DEF vars, entryVars, endVars, netVars, StartTimeoutCheck, LinkChanges,
       AckWindowEnds
  <2>2. Len(call) \in Nat /\ 1..Len(call) \subseteq Reqs /\ Traced
    BY KnownParts
  <2>3. NetInv'
    BY <2>1, <2>2, NetKept DEF Known, AInv
  <2>4. BookInv'
    BY <2>1, <2>2, BookKept DEF Known, AInv
  <2> QED BY <2>3, <2>4 DEF AInv
<1> QED BY <1>1, <1>2, <1>3, <1>4, <1>5, <1>6, <1>7 DEF Next

LEMMA AlwaysAInv == Spec => []AInv
<1>1. TypeInv /\ IInv /\ ReportedOnce /\ AInv /\ TypeInv' /\ [Next]_vars => AInv'
  BY NextAInv DEF Known
<1>2. IInv => TypeInv
  BY DEF IInv
<1> QED BY <1>1, <1>2, InitAInv, AlwaysIInv, QueueReportsOnce, PTL DEF Spec

\* The ack that ends a call was sent for it, or is late: it goes back to an earlier
\* call of the same command that was given up or sent more than once.
THEOREM QueueAttributesAcks == Spec => []AckAttribution
<1>1. AInv => AckAttribution
  BY DEF AInv, BookInv
<1> QED BY <1>1, AlwaysAInv, PTL

\* The fallback lambda runs exactly for the calls of a command the vehicle does not
\* support that ended by its answer or without being sent.
THEOREM FallbackRunsWhenUnsupported == Spec => []FallbackWhenUnsupported
<1>1. AInv => FallbackWhenUnsupported
  BY DEF AInv, BookInv
<1> QED BY <1>1, AlwaysAInv, PTL
=============================================================================
