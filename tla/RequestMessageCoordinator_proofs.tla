------------------- MODULE RequestMessageCoordinator_proofs -------------------
(* Theorems about RequestMessageCoordinator, for every choice of the constants. *)
EXTENDS RequestMessageCoordinator, SequenceTheorems, FiniteSetTheorems, TLAPS

Queued(c) == ToSet(queue[c])

\* A request that has not been made has left no trace.
Fresh ==
    /\ acked \cup arrived \cup dropped \subseteq 1..Len(req)
    /\ \A r \in Reqs : r > Len(req) => handled[r] = 0 /\ outcome[r] = "none"

OneActive == \A r, q \in active : req[r].comp = req[q].comp => r = q

\* Who waits behind an active request was made after it, for the same component, and
\* has had neither ack nor message.
Lined == \A c \in Comps :
    /\ queue[c] # <<>> => \E r \in active : req[r].comp = c
    /\ \A i \in 1..Len(queue[c]) :
       /\ req[queue[c][i]].comp = c
       /\ \A r \in active : req[r].comp = c => r < queue[c][i]
       /\ \A j \in 1..(i - 1) : queue[c][j] < queue[c][i]
       /\ queue[c][i] \notin active \cup acked \cup arrived

Accounted == \A r \in 1..Len(req) :
    /\ handled[r] = IF outcome[r] = "none" THEN 0 ELSE 1
    /\ outcome[r] = "none" <=> r \in Waiting \cup dropped

\* With both the ack and the message a request is over.
BothFinish == active \cap acked \cap arrived = {}

\* After stop() requests are still entered; nothing happens to them.
Quiet == IF stopped
         THEN active \cap acked = {} /\ \A c \in Comps : serving[c] = 0
         ELSE dropped = {}

IInv == /\ TypeOK /\ Fresh
        /\ OneActive /\ Lined /\ Accounted
        /\ NoDanglingInfo /\ SuccessNeedsBoth /\ BothFinish /\ Quiet

-----------------------------------------------------------------------------
(* Sequences *)

LEMMA ToSetElements ==
  ASSUME NEW S, NEW q \in Seq(S)
  PROVE  /\ \A x : x \in ToSet(q) <=> \E i \in 1..Len(q) : q[i] = x
         /\ ToSet(q) \subseteq S
         /\ ToSet(q) = {} <=> q = <<>>
<1>1. Len(q) \in Nat /\ DOMAIN q = 1..Len(q) /\ \A i \in 1..Len(q) : q[i] \in S
  BY LenProperties, ElementOfSeq
<1>2. q = <<>> <=> Len(q) = 0
  BY EmptySeq
<1>3. \A x : x \in ToSet(q) <=> \E i \in 1..Len(q) : q[i] = x
  BY <1>1 DEF ToSet
<1>4. ToSet(q) = {} <=> Len(q) = 0
  <2>1. Len(q) # 0 => q[1] \in ToSet(q)
    BY <1>1, <1>3
  <2> QED BY <1>1, <1>3, <2>1
<1> QED BY <1>1, <1>2, <1>3, <1>4

LEMMA ToSetTail ==
  ASSUME NEW S, NEW q \in Seq(S), q # <<>>
  PROVE  ToSet(q) = {Head(q)} \cup ToSet(Tail(q))
<1>1. /\ Tail(q) \in Seq(S) /\ Len(Tail(q)) = Len(q) - 1 /\ Len(q) \in Nat \ {0}
      /\ \A i \in 1..Len(Tail(q)) : Tail(q)[i] = q[i + 1]
  BY HeadTailProperties, EmptySeq
<1>2. Head(q) = q[1]
  OBVIOUS
<1>3. ASSUME NEW x \in ToSet(q) PROVE x = Head(q) \/ x \in ToSet(Tail(q))
  <2>1. PICK i \in 1..Len(q) : q[i] = x
    BY ToSetElements
  <2>2. CASE i = 1
    BY <1>2, <2>1, <2>2
  <2>3. CASE i # 1
    <3>1. i - 1 \in 1..Len(Tail(q)) /\ Tail(q)[i - 1] = x
      BY <1>1, <2>1, <2>3
    <3>2. \E j \in 1..Len(Tail(q)) : Tail(q)[j] = x
      BY <3>1
    <3> QED BY <1>1, <3>2, ToSetElements
  <2> QED BY <2>2, <2>3
<1>4. ASSUME NEW x \in ToSet(Tail(q)) PROVE x \in ToSet(q)
  <2>1. PICK i \in 1..Len(Tail(q)) : Tail(q)[i] = x
    BY <1>1, ToSetElements
  <2>2. i + 1 \in 1..Len(q) /\ q[i + 1] = x
    BY <1>1, <2>1
  <2> QED BY <2>2, ToSetElements
<1>5. Head(q) \in ToSet(q)
  <2>1. 1 \in 1..Len(q) /\ q[1] = Head(q)
    BY <1>1, <1>2
  <2> QED BY <2>1, ToSetElements
<1> QED BY <1>3, <1>4, <1>5

LEMMA ToSetAppend ==
  ASSUME NEW S, NEW q \in Seq(S), NEW e \in S
  PROVE  ToSet(Append(q, e)) = ToSet(q) \cup {e}
<1>1. /\ Append(q, e) \in Seq(S) /\ Len(Append(q, e)) = Len(q) + 1 /\ Len(q) \in Nat
      /\ \A i \in 1..Len(q) : Append(q, e)[i] = q[i]
      /\ Append(q, e)[Len(q) + 1] = e
  BY AppendProperties, LenProperties
<1>2. \A x : x \in ToSet(Append(q, e)) <=> \E i \in 1..(Len(q) + 1) : Append(q, e)[i] = x
  BY <1>1, ToSetElements
<1>3. \A x : x \in ToSet(q) <=> \E i \in 1..Len(q) : q[i] = x
  BY ToSetElements
<1>4. \A i : i \in 1..(Len(q) + 1) <=> i \in 1..Len(q) \/ i = Len(q) + 1
  BY <1>1
<1> QED BY <1>1, <1>2, <1>3, <1>4

-----------------------------------------------------------------------------
(* The invariant *)

LEMMA InitIInv == Init => IInv
<1> SUFFICES ASSUME Init PROVE IInv
  OBVIOUS
<1> USE ConstantsAssumption
<1>1. req = <<>> /\ Len(req) = 0 /\ active = {} /\ Reqs \subseteq Nat \ {0}
  BY DEF Init, Reqs
<1>2. \A c \in Comps : queue[c] = <<>> /\ Len(queue[c]) = 0 /\ serving[c] = 0
  BY DEF Init
<1>3. TypeOK
  <2>1. req \in Seq([comp : Comps, msg : Msgs])
    BY <1>1
  <2>2. queue \in [Comps -> Seq(1..Len(req))]
    BY DEF Init
  <2>3. outcome \in [Reqs -> Outcomes] /\ handled \in [Reqs -> Nat]
    BY DEF Init, Outcomes
  <2>4. serving \in [Comps -> 0..Len(req)]
    BY <1>1 DEF Init
  <2>5. /\ acked = {} /\ arrived = {} /\ overdue = {} /\ dropped = {} /\ others = {}
        /\ linkUp \in BOOLEAN /\ stopped \in BOOLEAN
    BY DEF Init
  <2>6. Len(req) <= MaxReq
    BY <1>1 DEF ConstantsAssumption
  <2> QED BY <1>1, <2>1, <2>2, <2>3, <2>4, <2>5, <2>6 DEF TypeOK
<1>4. Fresh
  BY DEF Init, Fresh
<1>5. OneActive /\ BothFinish /\ Accounted
  BY <1>1 DEF OneActive, BothFinish, Accounted
<1>6. Lined /\ NoDanglingInfo
  BY <1>2 DEF Lined, NoDanglingInfo
<1>7. SuccessNeedsBoth /\ Quiet
  BY DEF Init, SuccessNeedsBoth, Quiet
<1> QED BY <1>3, <1>4, <1>5, <1>6, <1>7 DEF IInv

\* What the queues of an invariant state are.
LEMMA Queues ==
  ASSUME IInv, NEW c \in Comps
  PROVE  /\ queue[c] \in Seq(1..Len(req)) /\ Len(queue[c]) \in Nat /\ Len(req) \in Nat
         /\ \A x : x \in Queued(c) <=> \E i \in 1..Len(queue[c]) : queue[c][i] = x
         /\ Queued(c) \subseteq 1..Len(req) /\ 1..Len(req) \subseteq Reqs
         /\ Queued(c) = {} <=> queue[c] = <<>>
         /\ \A x \in Queued(c) :
               /\ req[x].comp = c /\ x \notin active \cup acked \cup arrived
               /\ \A d \in Comps \ {c} : x \notin Queued(d)
<1> USE DEF IInv
<1>1. queue[c] \in Seq(1..Len(req)) /\ Len(req) \in Nat /\ Len(req) <= MaxReq
  BY DEF TypeOK
<1>2. \A d \in Comps : queue[d] \in Seq(1..Len(req))
  BY DEF TypeOK
<1>3. \A d \in Comps : \A x : x \in Queued(d) <=> \E i \in 1..Len(queue[d]) : queue[d][i] = x
  BY <1>2, ToSetElements DEF Queued
<1>4. \A d \in Comps : \A x \in Queued(d) :
         req[x].comp = d /\ x \notin active \cup acked \cup arrived
  BY <1>3 DEF Lined
<1>5. Len(queue[c]) \in Nat /\ Queued(c) \subseteq 1..Len(req)
      /\ (Queued(c) = {} <=> queue[c] = <<>>)
  BY <1>1, ToSetElements, LenProperties DEF Queued
<1>6. 1..Len(req) \subseteq Reqs
  BY <1>1, ConstantsAssumption DEF Reqs
<1> QED BY <1>1, <1>3, <1>4, <1>5, <1>6

\* An active request r ends: its handler and those of the refused ones run, and the
\* next one of its component starts if it is not refused.
LEMMA FinishIInv ==
  ASSUME IInv, NEW r \in active, ~stopped, NEW code \in Outcomes \ {"none"},
         Finish(r, code, Unserved(req[r].comp)),
         acked' \in {acked, acked \cup {r}}, arrived' \in {arrived, arrived \cup {r}},
         code = "success" => r \in acked' \cap arrived',
         code = "noMessage" => r \in acked' \ arrived',
         UNCHANGED <<req, dropped, others, linkUp, stopped>>
  PROVE  IInv'
<1> USE ConstantsAssumption
<1> DEFINE c == req[r].comp
           q == queue[c]
           refused == IF Refuses(c, Unserved(c)) THEN ToSet(q) ELSE {}
           sent == q # <<>> /\ refused = {}
           gone == {r} \cup refused
<1>1. /\ TypeOK /\ Fresh /\ OneActive /\ Lined /\ Accounted
      /\ NoDanglingInfo /\ SuccessNeedsBoth /\ BothFinish /\ Quiet
  BY DEF IInv
<1>2. /\ r \in 1..Len(req) /\ r \in Reqs /\ c \in Comps /\ Len(req) \in Nat
      /\ active \subseteq 1..Len(req) /\ 1..Len(req) \subseteq Reqs
  <2>1. active \subseteq 1..Len(req) /\ req \in Seq([comp : Comps, msg : Msgs])
        /\ Len(req) <= MaxReq
    BY <1>1 DEF TypeOK
  <2>2. Len(req) \in Nat /\ \A x \in 1..Len(req) : req[x] \in [comp : Comps, msg : Msgs]
    BY <2>1, LenProperties, ElementOfSeq
  <2>3. 1..Len(req) \subseteq Reqs
    BY <2>1, <2>2 DEF Reqs
  <2> QED BY <2>1, <2>2, <2>3
<1>3. /\ q \in Seq(1..Len(req)) /\ Len(q) \in Nat
      /\ \A x : x \in ToSet(q) <=> \E i \in 1..Len(q) : q[i] = x
      /\ ToSet(q) \subseteq 1..Len(req)
      /\ \A x \in ToSet(q) :
            /\ req[x].comp = c /\ x \notin active \cup acked \cup arrived
            /\ \A d \in Comps \ {c} : x \notin ToSet(queue[d])
      /\ ToSet(q) = {} <=> q = <<>>
  BY <1>2, Queues DEF Queued
<1>4. /\ active' = (active \ {r}) \cup (IF sent THEN {Head(q)} ELSE {})
      /\ overdue' = overdue \ {r}
      /\ queue' = [queue EXCEPT ![c] = IF sent THEN Tail(q) ELSE <<>>]
      /\ serving' = [Unserved(c) EXCEPT ![c] = IF sent THEN Head(q) ELSE @]
      /\ outcome' = [x \in Reqs |-> IF x \in gone
                       THEN IF x \in {r} THEN code ELSE RefusalCode(c, Unserved(c))
                       ELSE outcome[x]]
      /\ handled' = [x \in Reqs |-> IF x \in gone THEN handled[x] + 1 ELSE handled[x]]
  BY DEF Finish, SendNext, RunHandlers
<1>5. req' = req /\ dropped' = dropped /\ others' = others /\ linkUp' = linkUp
      /\ stopped' = stopped
  OBVIOUS
<1>6. refused = {} \/ refused = ToSet(q)
  OBVIOUS
<1>7. RefusalCode(c, Unserved(c)) \in Outcomes \ {"none", "success", "noMessage"}
  BY DEF RefusalCode, Outcomes
<1>8. sent => Head(q) = q[1] /\ 1 \in 1..Len(q) /\ Head(q) \in ToSet(q)
  <2>1. sent => Len(q) # 0
    BY <1>3, EmptySeq
  <2>2. sent => 1 \in 1..Len(q) /\ Head(q) = q[1]
    BY <1>3, <2>1
  <2> QED BY <1>3, <2>2
<1>9. ToSet(q) = refused \cup (IF sent THEN {Head(q)} \cup ToSet(Tail(q)) ELSE {})
  <2>1. CASE sent
    BY <1>3, <2>1, ToSetTail
  <2>2. CASE ~sent
    BY <1>3, <1>6, <2>2
  <2> QED BY <2>1, <2>2
<1>10. gone \subseteq 1..Len(req) /\ r \notin refused /\ gone \cap dropped = {}
  BY <1>1, <1>2, <1>3, <1>6 DEF Quiet
<1>11. dropped = {} /\ dropped' = {} /\ ~stopped'
  BY <1>1 DEF Quiet
<1> HIDE DEF c, q, refused, sent, gone
\* the queue of the component afterwards
<1>12. /\ queue'[c] \in Seq(1..Len(req)) /\ Len(queue'[c]) \in Nat
       /\ queue' \in [Comps -> Seq(1..Len(req))]
       /\ \A d \in Comps : d # c => queue'[d] = queue[d]
       /\ sent => /\ Len(queue'[c]) = Len(q) - 1
                  /\ \A i \in 1..Len(queue'[c]) : queue'[c][i] = q[i + 1]
       /\ ~sent => queue'[c] = <<>> /\ Len(queue'[c]) = 0
  <2>1. queue \in [Comps -> Seq(1..Len(req))]
    BY <1>1 DEF TypeOK
  <2>2. CASE sent
    <3>1. q # <<>>
      BY <2>2 DEF sent
    <3>2. /\ Tail(q) \in Seq(1..Len(req)) /\ Len(Tail(q)) = Len(q) - 1
          /\ \A i \in 1..Len(Tail(q)) : Tail(q)[i] = q[i + 1]
          /\ Len(Tail(q)) \in Nat
      BY <1>3, <3>1, HeadTailProperties, LenProperties
    <3>3. queue' = [queue EXCEPT ![c] = Tail(q)]
      BY <1>4, <2>2
    <3> QED BY <1>2, <2>1, <2>2, <3>2, <3>3
  <2>3. CASE ~sent
    <3>1. queue' = [queue EXCEPT ![c] = <<>>]
      BY <1>4, <2>3
    <3>2. <<>> \in Seq(1..Len(req)) /\ Len(<<>>) = 0
      BY EmptySeq
    <3> QED BY <1>2, <2>1, <2>3, <3>1, <3>2
  <2> QED BY <2>2, <2>3
<1>13. /\ serving \in [Comps -> 0..Len(req)]
       /\ serving' \in [Comps -> 0..Len(req)]
       /\ \A d \in Comps : d # c => serving'[d] = serving[d]
       /\ serving'[c] = IF sent THEN Head(q) ELSE 0
  <2>1. serving \in [Comps -> 0..Len(req)]
    BY <1>1 DEF TypeOK
  <2>2. Unserved(c) \in [Comps -> 0..Len(req)] /\ Unserved(c)[c] = 0
        /\ \A d \in Comps : d # c => Unserved(c)[d] = serving[d]
    BY <1>2, <2>1 DEF Unserved
  <2>3. sent => Head(q) \in 1..Len(req)
    BY <1>3, <1>8
  <2> QED BY <1>2, <1>4, <2>1, <2>2, <2>3
<1>14. acked \subseteq acked' /\ arrived \subseteq arrived'
       /\ acked' \subseteq acked \cup {r} /\ arrived' \subseteq arrived \cup {r}
  OBVIOUS
<1>15. active' \subseteq (active \ {r}) \cup ToSet(q)
  BY <1>4, <1>8
<1>16. TypeOK'
  <2>1. outcome' \in [Reqs -> Outcomes] /\ handled' \in [Reqs -> Nat]
    BY <1>1, <1>4, <1>7 DEF TypeOK
  <2>2. active' \subseteq 1..Len(req) /\ overdue' \subseteq active' \cap acked'
    BY <1>1, <1>2, <1>3, <1>4, <1>14, <1>15 DEF TypeOK
  <2> QED BY <1>1, <1>2, <1>5, <1>12, <1>13, <1>14, <2>1, <2>2 DEF TypeOK
<1>17. Fresh'
  BY <1>1, <1>2, <1>4, <1>5, <1>10, <1>14 DEF Fresh
<1>18. OneActive'
  BY <1>1, <1>2, <1>3, <1>4, <1>5, <1>8 DEF OneActive, c
<1>19. Lined'
  <2> SUFFICES ASSUME NEW d \in Comps PROVE Lined!(d)'
    BY DEF Lined
  <2>1. CASE d # c
    <3>1. queue'[d] = queue[d] /\ Lined!(d)
      BY <1>1, <1>12, <2>1 DEF Lined
    <3>2. \A x \in ToSet(q) : req[x].comp # d
      BY <1>3, <2>1
    <3>3. \A x \in active' : req[x].comp = d => x \in active
      BY <1>15, <3>2
    <3>4. \A x \in active : req[x].comp = d => x \in active'
      BY <1>4, <2>1 DEF c
    <3>5. \A i \in 1..Len(queue[d]) : queue[d][i] # r
      BY <3>1
    <3>6. \A i \in 1..Len(queue[d]) : queue[d][i] \notin active' \cup acked' \cup arrived'
      BY <1>14, <3>1, <3>3, <3>5
    <3> QED BY <1>5, <3>1, <3>3, <3>4, <3>6
  <2>2. CASE d = c
    <3>1. Lined!(c)
      BY <1>1, <1>2 DEF Lined
    <3>2. CASE ~sent
      BY <1>12, <2>2, <3>2
    <3>3. CASE sent
      <4>1. \A x \in active : req[x].comp = c => x = r
        BY <1>1 DEF OneActive, c
      <4>2. Head(q) \in active' /\ req[Head(q)].comp = c
        BY <1>3, <1>4, <1>8, <3>3
      <4>3. \A x \in active' : req[x].comp = c => x = q[1]
        BY <1>4, <1>8, <3>3, <4>1
      <4>4. ASSUME NEW i \in 1..Len(queue'[c])
            PROVE  /\ req[queue'[c][i]].comp = c
                   /\ q[1] < queue'[c][i]
                   /\ \A j \in 1..(i - 1) : queue'[c][j] < queue'[c][i]
                   /\ queue'[c][i] \notin active' \cup acked' \cup arrived'
        <5>1. i + 1 \in 1..Len(q) /\ queue'[c][i] = q[i + 1] /\ 1 \in 1..((i + 1) - 1)
          BY <1>3, <1>12, <3>3
        <5>2. /\ req[q[i + 1]].comp = c /\ q[1] < q[i + 1]
              /\ \A j \in 1..((i + 1) - 1) : q[j] < q[i + 1]
              /\ q[i + 1] \notin active \cup acked \cup arrived
          BY <3>1, <5>1 DEF q
        <5>3. \A j \in 1..(i - 1) : queue'[c][j] = q[j + 1] /\ j + 1 \in 1..((i + 1) - 1)
          <6> SUFFICES ASSUME NEW j \in 1..(i - 1)
                       PROVE  queue'[c][j] = q[j + 1] /\ j + 1 \in 1..((i + 1) - 1)
            OBVIOUS
          <6>1. i \in Nat /\ i <= Len(queue'[c]) /\ Len(queue'[c]) \in Nat
            BY <1>12
          <6>2. j \in 1..Len(queue'[c])
            BY <6>1
          <6>3. queue'[c][j] = q[j + 1]
            BY <1>12, <3>3, <6>2
          <6>4. j + 1 \in 1..((i + 1) - 1)
            BY <6>1
          <6> QED BY <6>3, <6>4
        <5>4. q[i + 1] # q[1] /\ q[i + 1] # r
          <6>1. q[1] \in Nat
            BY <1>3, <1>8, <3>3
          <6> QED BY <5>2, <6>1
        <5> QED BY <1>4, <1>8, <1>14, <3>3, <5>1, <5>2, <5>3, <5>4
      <4> QED BY <1>5, <2>2, <4>2, <4>3, <4>4
    <3> QED BY <3>2, <3>3
  <2> QED BY <2>1, <2>2
<1>20. NoDanglingInfo'
  <2> SUFFICES ASSUME NEW d \in Comps, serving'[d] # 0
               PROVE  serving'[d] \in active' /\ req[serving'[d]].comp = d /\ serving'[d] \notin acked'
    BY <1>5 DEF NoDanglingInfo, ActiveOf
  <2>1. CASE d # c
    <3>1. serving[d] \in active /\ req[serving[d]].comp = d /\ serving[d] \notin acked
      BY <1>1, <1>13, <2>1 DEF NoDanglingInfo, ActiveOf
    <3>2. serving[d] # r
      BY <2>1, <3>1 DEF c
    <3> QED BY <1>4, <1>13, <1>14, <2>1, <3>1, <3>2
  <2>2. CASE d = c
    <3>1. sent /\ serving'[d] = Head(q)
      BY <1>13, <2>2
    <3>2. Head(q) \in ToSet(q) /\ Head(q) \in active'
      BY <1>4, <1>8, <3>1
    <3>3. req[Head(q)].comp = c /\ Head(q) \notin acked /\ Head(q) # r
      BY <1>3, <3>2
    <3> QED BY <1>14, <2>2, <3>1, <3>2, <3>3
  <2> QED BY <2>1, <2>2
<1>21. BothFinish'
  BY <1>1, <1>3, <1>4, <1>8, <1>14 DEF BothFinish
<1>22. Quiet'
  BY <1>11 DEF Quiet
<1>23. Accounted'
  <2>1. Waiting = (active \ {r}) \cup {r} \cup UNION {ToSet(queue[d]) : d \in Comps}
    BY DEF Waiting
  <2>2. \A x : x \in UNION {ToSet(queue[d]) : d \in Comps}
                 <=> x \in ToSet(q) \/ \E d \in Comps \ {c} : x \in ToSet(queue[d])
    BY <1>2 DEF q
  <2>3. \A x : x \in UNION {ToSet(queue'[d]) : d \in Comps}
                 <=> x \in ToSet(queue'[c]) \/ \E d \in Comps \ {c} : x \in ToSet(queue[d])
    <3>1. \A d \in Comps \ {c} : ToSet(queue'[d]) = ToSet(queue[d])
      BY <1>12
    <3>2. Comps = (Comps \ {c}) \cup {c}
      BY <1>2
    <3> QED BY <3>1, <3>2
  <2>4. ToSet(queue'[c]) = IF sent THEN ToSet(Tail(q)) ELSE {}
    <3>1. queue \in [Comps -> Seq(1..Len(req))]
      BY <1>1 DEF TypeOK
    <3>2. queue'[c] = IF sent THEN Tail(q) ELSE <<>>
      BY <1>2, <1>4, <3>1
    <3>3. ToSet(<<>>) = {}
      BY EmptySeq, ToSetElements
    <3> QED BY <3>2, <3>3
  <2>5. \A x : x \in ToSet(q) => x \notin refused \/ x \notin ToSet(queue'[c])
    BY <1>3, <2>4 DEF sent
  <2>6. \A x \in gone : x \notin ToSet(queue'[c]) /\ x \notin active'
                     /\ \A d \in Comps \ {c} : x \notin ToSet(queue[d])
    <3>1. ASSUME NEW x \in refused PROVE x \in ToSet(q) /\ ~sent
      BY <1>6, <3>1 DEF sent
    <3>2. \A d \in Comps \ {c} : r \notin ToSet(queue[d])
      <4>1. \A d \in Comps : \A x \in ToSet(queue[d]) : x \notin active
        BY Queues DEF Queued
      <4> QED BY <4>1
    <3>3. r \notin ToSet(q)
      BY <1>3
    <3>4. r \notin ToSet(queue'[c]) /\ r \notin active'
      BY <1>4, <1>8, <1>9, <2>4, <3>3
    <3>5. \A x \in refused : x \notin ToSet(queue'[c]) /\ x \notin active'
      BY <1>3, <1>4, <2>4, <3>1
    <3> QED BY <1>3, <3>1, <3>2, <3>4, <3>5 DEF gone
  <2>7. \A x : x \in Waiting' <=> x \in Waiting \ gone
    <3>1. \A x : x \in Waiting' <=> \/ x \in active' \/ x \in ToSet(queue'[c])
                                    \/ \E d \in Comps \ {c} : x \in ToSet(queue[d])
      BY <2>3 DEF Waiting
    <3>2. \A x : x \in Waiting <=> \/ x \in active \/ x \in ToSet(q)
                                   \/ \E d \in Comps \ {c} : x \in ToSet(queue[d])
      BY <2>2 DEF Waiting
    <3>3. \A x : x \in active' \/ x \in ToSet(queue'[c]) =>
                    (x \in active \/ x \in ToSet(q))
      BY <1>4, <1>9, <2>4
    <3>4. \A x : x \in active \/ x \in ToSet(q) =>
                    (x \in active' \/ x \in ToSet(queue'[c]) \/ x \in gone)
      BY <1>4, <1>9, <2>4 DEF gone
    <3> QED BY <2>6, <3>1, <3>2, <3>3, <3>4
  <2>8. gone \subseteq Waiting
    BY <1>2, <1>6 DEF gone, Waiting, q
  <2> SUFFICES ASSUME NEW x \in 1..Len(req)
               PROVE  /\ handled'[x] = IF outcome'[x] = "none" THEN 0 ELSE 1
                      /\ outcome'[x] = "none" <=> x \in Waiting'
    BY <1>5, <1>11 DEF Accounted
  <2>9. /\ handled[x] = IF outcome[x] = "none" THEN 0 ELSE 1
        /\ outcome[x] = "none" <=> x \in Waiting
    BY <1>1, <1>11 DEF Accounted
  <2>10. CASE x \in gone
    <3>1. handled'[x] = 1 /\ outcome'[x] # "none"
      BY <1>2, <1>4, <1>7, <2>8, <2>9, <2>10
    <3> QED BY <2>7, <2>10, <3>1
  <2>11. CASE x \notin gone
    BY <1>2, <1>4, <2>7, <2>9, <2>11
  <2> QED BY <2>10, <2>11
<1>24. SuccessNeedsBoth'
  <2> SUFFICES ASSUME NEW x \in Reqs
               PROVE  /\ outcome'[x] = "success" => x \in acked' \cap arrived'
                      /\ outcome'[x] = "noMessage" => x \in acked' \ arrived'
    BY DEF SuccessNeedsBoth
  <2>1. CASE x = r
    BY <1>4, <2>1 DEF gone
  <2>2. CASE x # r
    BY <1>1, <1>4, <1>7, <1>14, <2>2 DEF SuccessNeedsBoth
  <2> QED BY <2>1, <2>2
<1> QED BY <1>16, <1>17, <1>18, <1>19, <1>20, <1>21, <1>22, <1>23, <1>24 DEF IInv

\* A request is made: it fails at once, waits behind another, or starts.
LEMMA RequestIInv ==
  ASSUME IInv, NEW c \in Comps, NEW m \in Msgs, requestMessage(c, m)
  PROVE  IInv'
<1> USE ConstantsAssumption
<1>1. /\ TypeOK /\ Fresh /\ OneActive /\ Lined /\ Accounted
      /\ NoDanglingInfo /\ SuccessNeedsBoth /\ BothFinish /\ Quiet
  BY DEF IInv
<1>2. /\ req \in Seq([comp : Comps, msg : Msgs]) /\ Len(req) \in Nat
      /\ active \subseteq 1..Len(req) /\ overdue \subseteq active \cap acked
      /\ serving \in [Comps -> 0..Len(req)] /\ queue \in [Comps -> Seq(1..Len(req))]
      /\ outcome \in [Reqs -> Outcomes] /\ handled \in [Reqs -> Nat]
  BY <1>1, LenProperties DEF TypeOK
<1>3. /\ Len(req) < MaxReq /\ req' = Append(req, [comp |-> c, msg |-> m])
      /\ dropped' = IF stopped /\ ~Duplicate(c, m) THEN dropped \cup {New} ELSE dropped
      /\ acked' = acked /\ arrived' = arrived /\ others' = others
      /\ linkUp' = linkUp /\ stopped' = stopped
  BY DEF requestMessage
<1>4. /\ req' \in Seq([comp : Comps, msg : Msgs]) /\ Len(req') = New
      /\ New = Len(req) + 1 /\ New \in Reqs /\ New <= MaxReq /\ New \notin 1..Len(req)
      /\ 1..Len(req') = 1..Len(req) \cup {New} /\ req'[New].comp = c
      /\ \A x \in 1..Len(req) : req'[x] = req[x] /\ x < New /\ x \in Nat /\ x \in Reqs
  <2>1. /\ req' \in Seq([comp : Comps, msg : Msgs]) /\ Len(req') = Len(req) + 1
        /\ \A x \in 1..Len(req) : req'[x] = req[x]
        /\ req'[Len(req) + 1] = [comp |-> c, msg |-> m]
    BY <1>2, <1>3, AppendProperties
  <2>2. New \in Reqs /\ New <= MaxReq
    BY <1>2, <1>3 DEF New, Reqs
  <2>3. New = Len(req) + 1 /\ New \notin 1..Len(req) /\ 1..New = 1..Len(req) \cup {New}
    BY <1>2 DEF New
  <2>4. \A x \in 1..Len(req) : x < New /\ x \in Nat /\ x \in Reqs
    BY <1>2, <1>3, <2>3 DEF Reqs
  <2>5. req'[New].comp = c
    BY <2>1, <2>3
  <2> QED BY <2>1, <2>2, <2>3, <2>4, <2>5
<1>5. \A d \in Comps : /\ queue[d] \in Seq(1..Len(req)) /\ Len(queue[d]) \in Nat
                       /\ Queued(d) \subseteq 1..Len(req)
                       /\ \A i \in 1..Len(queue[d]) : queue[d][i] \in 1..Len(req)
  BY Queues, ElementOfSeq
<1>6. /\ New \notin active \cup acked \cup arrived \cup dropped
      /\ handled[New] = 0 /\ outcome[New] = "none"
      /\ \A d \in Comps : New \notin Queued(d)
  BY <1>1, <1>2, <1>4, <1>5 DEF Fresh
<1>7. acked' \subseteq Reqs /\ arrived' \subseteq Reqs /\ dropped' \subseteq Reqs /\ others' \subseteq Comps
      /\ linkUp' \in BOOLEAN /\ stopped' \in BOOLEAN
  BY <1>1, <1>3, <1>4 DEF TypeOK
<1>8. \A x : x \in Waiting <=> x \in active \/ \E d \in Comps : x \in Queued(d)
  BY DEF Waiting, Queued
<1>9. Waiting \subseteq 1..Len(req)
  BY <1>2, <1>5, <1>8
\* The queue of a component for which nothing starts and nobody queues up.
<1>9a. ASSUME NEW d \in Comps, queue'[d] = queue[d],
              active' = active \/ (active' = active \cup {New} /\ d # c)
       PROVE  Lined!(d)'
  <2>1. Lined!(d)
    BY <1>1 DEF Lined
  <2>2. \A x : x \in active' /\ req'[x].comp = d <=> x \in active /\ req[x].comp = d
    BY <1>2, <1>4, <1>9a
  <2>3. queue'[d] # <<>> => \E x \in active' : req'[x].comp = d
    BY <1>9a, <2>1, <2>2
  <2>4. ASSUME NEW i \in 1..Len(queue'[d])
        PROVE  /\ req'[queue'[d][i]].comp = d
               /\ \A x \in active' : req'[x].comp = d => x < queue'[d][i]
               /\ \A j \in 1..(i - 1) : queue'[d][j] < queue'[d][i]
               /\ queue'[d][i] \notin active' \cup acked' \cup arrived'
    <3>1. i \in 1..Len(queue[d]) /\ queue'[d][i] = queue[d][i] /\ queue[d][i] \in 1..Len(req)
      BY <1>5, <1>9a
    <3>2. /\ req[queue[d][i]].comp = d
          /\ \A x \in active : req[x].comp = d => x < queue[d][i]
          /\ \A j \in 1..(i - 1) : queue[d][j] < queue[d][i]
          /\ queue[d][i] \notin active \cup acked \cup arrived
      BY <2>1, <3>1
    <3>3. req'[queue[d][i]] = req[queue[d][i]] /\ queue[d][i] # New
      BY <1>4, <3>1
    <3> QED BY <1>3, <1>9a, <2>2, <3>1, <3>2, <3>3
  <2> QED BY <2>3, <2>4
<1>10. ASSUME active' = active, queue' = queue, serving' = serving, overdue' = overdue,
              dropped' = dropped,
              NEW code \in Outcomes \ {"none", "success", "noMessage"},
              outcome' = [x \in Reqs |-> IF x = New THEN code ELSE outcome[x]],
              handled' = [x \in Reqs |-> IF x = New THEN handled[x] + 1 ELSE handled[x]]
       PROVE  IInv'
  <2>1. TypeOK'
    <3>1. queue' \in [Comps -> Seq(1..Len(req'))]
      <4>1. \A d \in Comps : queue[d] \in Seq(1..Len(req'))
        BY <1>4, <1>5, SeqMonotonic
      <4> QED BY <1>2, <1>10, <4>1
    <3>2. outcome' \in [Reqs -> Outcomes] /\ handled' \in [Reqs -> Nat]
      BY <1>2, <1>10
    <3>3. serving' \in [Comps -> 0..Len(req')]
      BY <1>2, <1>4, <1>10
    <3> QED BY <1>2, <1>3, <1>4, <1>7, <1>10, <3>1, <3>2, <3>3 DEF TypeOK
  <2>2. Fresh'
    BY <1>1, <1>2, <1>3, <1>4, <1>10 DEF Fresh, Reqs
  <2>3. OneActive' /\ BothFinish' /\ Quiet'
    BY <1>1, <1>2, <1>3, <1>4, <1>10 DEF OneActive, BothFinish, Quiet
  <2>4. Lined'
    BY <1>10, <1>9a DEF Lined
  <2>5. NoDanglingInfo'
    BY <1>1, <1>2, <1>3, <1>4, <1>10 DEF NoDanglingInfo, ActiveOf
  <2>6. SuccessNeedsBoth'
    BY <1>1, <1>3, <1>10 DEF SuccessNeedsBoth
  <2>7. Waiting' = Waiting
    BY <1>10 DEF Waiting
  <2>8. Accounted'
    <3> SUFFICES ASSUME NEW x \in 1..Len(req')
                 PROVE  /\ handled'[x] = IF outcome'[x] = "none" THEN 0 ELSE 1
                        /\ outcome'[x] = "none" <=> x \in Waiting \cup dropped
      BY <1>10, <2>7 DEF Accounted
    <3>1. CASE x = New
      BY <1>4, <1>6, <1>9, <1>10, <3>1
    <3>2. CASE x # New
      <4>1. x \in 1..Len(req) /\ x \in Reqs
        BY <1>4, <3>2
      <4>2. outcome'[x] = outcome[x] /\ handled'[x] = handled[x]
        BY <1>10, <3>2, <4>1
      <4> QED BY <1>1, <4>1, <4>2 DEF Accounted
    <3> QED BY <3>1, <3>2
  <2> QED BY <2>1, <2>2, <2>3, <2>4, <2>5, <2>6, <2>8 DEF IInv
<1>11. CASE FailDuplicate(c, m)
  <2>1. /\ active' = active /\ queue' = queue /\ serving' = serving /\ overdue' = overdue
        /\ outcome' = [x \in Reqs |-> IF x \in {New} THEN "duplicate" ELSE outcome[x]]
        /\ handled' = [x \in Reqs |-> IF x \in {New} THEN handled[x] + 1 ELSE handled[x]]
        /\ Duplicate(c, m)
    BY <1>11 DEF FailDuplicate, RunHandlers
  <2>2. dropped' = dropped
    BY <1>3, <2>1
  <2>3. /\ outcome' = [x \in Reqs |-> IF x = New THEN "duplicate" ELSE outcome[x]]
        /\ handled' = [x \in Reqs |-> IF x = New THEN handled[x] + 1 ELSE handled[x]]
    BY <2>1
  <2>4. "duplicate" \in Outcomes \ {"none", "success", "noMessage"}
    BY DEF Outcomes
  <2> QED BY <1>10, <2>1, <2>2, <2>3, <2>4
<1>12. CASE Enqueue(c, m)
  <2>1. /\ queue' = [queue EXCEPT ![c] = Append(queue[c], New)]
        /\ active' = active /\ overdue' = overdue /\ serving' = serving
        /\ outcome' = outcome /\ handled' = handled
        /\ ~Duplicate(c, m) /\ ActiveOf(c) # {}
    BY <1>12 DEF Enqueue, endVars
  <2>2. \A d \in Comps : queue[d] \in Seq(1..Len(req'))
    BY <1>4, <1>5, SeqMonotonic
  <2>3. New \in 1..Len(req')
    BY <1>4
  <2>4. /\ Append(queue[c], New) \in Seq(1..Len(req'))
        /\ Append(queue[c], New) # <<>>
        /\ Len(Append(queue[c], New)) = Len(queue[c]) + 1
        /\ \A i \in 1..Len(queue[c]) : Append(queue[c], New)[i] = queue[c][i]
        /\ Append(queue[c], New)[Len(queue[c]) + 1] = New
        /\ ToSet(Append(queue[c], New)) = Queued(c) \cup {New}
    BY <2>2, <2>3, AppendProperties, ToSetAppend DEF Queued
  <2>5. /\ queue' \in [Comps -> Seq(1..Len(req'))]
        /\ queue'[c] = Append(queue[c], New)
        /\ \A d \in Comps \ {c} : queue'[d] = queue[d]
    BY <1>2, <2>1, <2>2, <2>4
  <2>6. TypeOK'
    <3>1. serving' \in [Comps -> 0..Len(req')]
      BY <1>2, <1>4, <2>1
    <3> QED BY <1>2, <1>3, <1>4, <1>7, <2>1, <2>5, <3>1 DEF TypeOK
  <2>7. Fresh'
    BY <1>1, <1>2, <1>3, <1>4, <2>1 DEF Fresh, Reqs
  <2>8. OneActive' /\ BothFinish'
    BY <1>1, <1>2, <1>3, <1>4, <2>1 DEF OneActive, BothFinish
  <2>9. Quiet'
    BY <1>1, <1>3, <2>1 DEF Quiet
  <2>10. Lined'
    <3> SUFFICES ASSUME NEW d \in Comps PROVE Lined!(d)'
      BY DEF Lined
    <3>1. Lined!(d)
      BY <1>1 DEF Lined
    <3>2. CASE d # c
      BY <1>9a, <2>1, <2>5, <3>2
    <3>3. CASE d = c
      <4>1. \E x \in active' : req'[x].comp = c
        BY <1>2, <1>4, <2>1 DEF ActiveOf
      <4>2. ASSUME NEW i \in 1..Len(queue'[c])
            PROVE  /\ req'[queue'[c][i]].comp = c
                   /\ \A x \in active' : req'[x].comp = c => x < queue'[c][i]
                   /\ \A j \in 1..(i - 1) : queue'[c][j] < queue'[c][i]
                   /\ queue'[c][i] \notin active' \cup acked' \cup arrived'
        <5>1. Len(queue'[c]) = Len(queue[c]) + 1 /\ Len(queue[c]) \in Nat
          BY <1>5, <2>4, <2>5
        <5>2. \A j \in 1..(i - 1) : j \in 1..Len(queue[c]) /\ queue'[c][j] = queue[c][j]
                                    /\ queue[c][j] \in 1..Len(req)
          <6> SUFFICES ASSUME NEW j \in 1..(i - 1)
                       PROVE  /\ j \in 1..Len(queue[c]) /\ queue'[c][j] = queue[c][j]
                              /\ queue[c][j] \in 1..Len(req)
            OBVIOUS
          <6>1. i \in 1..(Len(queue[c]) + 1)
            BY <5>1
          <6>2. j \in 1..Len(queue[c])
            BY <5>1, <6>1
          <6> QED BY <1>5, <2>4, <2>5, <6>2
        <5>3. CASE i = Len(queue[c]) + 1
          <6>1. queue'[c][i] = New
            BY <2>4, <2>5, <5>3
          <6>2. \A x \in 1..Len(req) : x < New
            BY <1>4
          <6>3. req'[New].comp = c /\ New \notin active \cup acked \cup arrived
            BY <1>4, <1>6
          <6> QED BY <1>2, <1>3, <2>1, <5>2, <6>1, <6>2, <6>3
        <5>4. CASE i # Len(queue[c]) + 1
          <6>1. i \in 1..Len(queue[c])
            BY <5>1, <5>4
          <6>2. queue'[c][i] = queue[c][i] /\ queue[c][i] \in 1..Len(req)
            BY <1>5, <2>4, <2>5, <6>1
          <6>3. /\ req[queue[c][i]].comp = c
                /\ \A x \in active : req[x].comp = c => x < queue[c][i]
                /\ \A j \in 1..(i - 1) : queue[c][j] < queue[c][i]
                /\ queue[c][i] \notin active \cup acked \cup arrived
            BY <3>1, <3>3, <6>1
          <6>4. req'[queue[c][i]] = req[queue[c][i]] /\ \A x \in active : req'[x] = req[x]
            BY <1>2, <1>4, <6>2
          <6> QED BY <1>3, <2>1, <5>2, <6>2, <6>3, <6>4
        <5> QED BY <5>3, <5>4
      <4> QED BY <3>3, <4>1, <4>2
    <3> QED BY <3>2, <3>3
  <2>11. NoDanglingInfo'
    BY <1>1, <1>2, <1>3, <1>4, <2>1 DEF NoDanglingInfo, ActiveOf
  <2>12. SuccessNeedsBoth'
    BY <1>1, <1>3, <2>1 DEF SuccessNeedsBoth
  <2>13. \A x : x \in Waiting' <=> x \in Waiting \/ x = New
    <3>1. \A x : x \in Waiting' <=> x \in active \/ \E d \in Comps : x \in ToSet(queue'[d])
      BY <2>1 DEF Waiting
    <3>2. /\ \A d \in Comps \ {c} : ToSet(queue'[d]) = Queued(d)
          /\ ToSet(queue'[c]) = Queued(c) \cup {New}
      BY <2>4, <2>5 DEF Queued
    <3> QED BY <1>8, <3>1, <3>2
  <2>14. Accounted'
    BY <1>1, <1>2, <1>3, <1>4, <1>6, <2>1, <2>13 DEF Accounted
  <2> QED BY <2>6, <2>7, <2>8, <2>9, <2>10, <2>11, <2>12, <2>14 DEF IInv
<1>13. CASE SendNow(c, m)
  <2> DEFINE refused == IF ~stopped /\ Refuses(c, serving) THEN ToSet(<<New>>) ELSE {}
             sent == <<New>> # <<>> /\ refused = {}
  <2>1. /\ ~Duplicate(c, m) /\ ActiveOf(c) = {}
        /\ active' = (active \ {}) \cup (IF sent THEN {Head(<<New>>)} ELSE {})
        /\ overdue' = overdue \ {}
        /\ queue' = [queue EXCEPT ![c] = IF sent THEN Tail(<<New>>) ELSE <<>>]
        /\ serving' = [serving EXCEPT ![c] = IF sent /\ ~stopped THEN Head(<<New>>) ELSE @]
        /\ outcome' = [x \in Reqs |-> IF x \in {} \cup refused
                         THEN IF x \in {} THEN "none" ELSE RefusalCode(c, serving)
                         ELSE outcome[x]]
        /\ handled' = [x \in Reqs |-> IF x \in {} \cup refused THEN handled[x] + 1 ELSE handled[x]]
    BY <1>13 DEF SendNow, SendNext, RunHandlers
  <2>2. ToSet(<<New>>) = {New} /\ <<New>> # <<>> /\ Head(<<New>>) = New /\ Tail(<<New>>) = <<>>
    <3>1. <<New>> \in Seq({New}) /\ Len(<<New>>) = 1 /\ <<New>>[1] = New
      OBVIOUS
    <3>2. \A x : x \in ToSet(<<New>>) <=> \E i \in 1..1 : <<New>>[i] = x
      BY <3>1, ToSetElements
    <3>3. ToSet(<<New>>) = {New}
      BY <3>1, <3>2
    <3> QED BY <3>3
  <2>3. \A x \in active : req[x].comp # c
    BY <2>1 DEF ActiveOf
  <2>4. queue[c] = <<>>
    BY <1>1, <2>3 DEF Lined
  <2>5. queue' = queue
    BY <1>2, <2>1, <2>2, <2>4
  <2>6. CASE refused # {}
    <3>1. refused = {New} /\ ~stopped /\ ~sent
      BY <2>2, <2>6
    <3>2. RefusalCode(c, serving) \in Outcomes \ {"none", "success", "noMessage"}
      BY DEF RefusalCode, Outcomes
    <3> HIDE DEF refused, sent
    <3>3. /\ outcome' = [x \in Reqs |-> IF x = New THEN RefusalCode(c, serving) ELSE outcome[x]]
          /\ handled' = [x \in Reqs |-> IF x = New THEN handled[x] + 1 ELSE handled[x]]
      BY <2>1, <3>1
    <3>4. active' = active /\ overdue' = overdue
      BY <2>1, <3>1
    <3>5. serving' = serving
      BY <1>2, <2>1, <3>1
    <3>6. dropped' = dropped
      BY <1>3, <3>1
    <3> QED BY <1>10, <2>5, <3>2, <3>3, <3>4, <3>5, <3>6
  <2>7. CASE refused = {}
    <3>1. sent
      BY <2>2, <2>7
    <3> HIDE DEF refused, sent
    <3>2. /\ outcome' = outcome /\ handled' = handled
          /\ active' = active \cup {New} /\ overdue' = overdue
          /\ serving' = [serving EXCEPT ![c] = IF ~stopped THEN New ELSE @]
      BY <1>2, <2>1, <2>2, <2>7, <3>1
    <3>3. TypeOK'
      <4>1. queue' \in [Comps -> Seq(1..Len(req'))]
        <5>1. \A d \in Comps : queue[d] \in Seq(1..Len(req'))
          BY <1>4, <1>5, SeqMonotonic
        <5> QED BY <1>2, <2>5, <5>1
      <4>2. serving' \in [Comps -> 0..Len(req')]
        <5>1. serving \in [Comps -> 0..Len(req')] /\ New \in 0..Len(req')
          BY <1>2, <1>4
        <5> QED BY <3>2, <5>1
      <4> QED BY <1>2, <1>3, <1>4, <1>7, <3>2, <4>1, <4>2 DEF TypeOK
    <3>4. Fresh'
      BY <1>1, <1>2, <1>3, <1>4, <3>2 DEF Fresh, Reqs
    <3>5. OneActive'
      <4>1. \A x \in active : req'[x] = req[x] /\ req'[x].comp # c
        BY <1>2, <1>4, <2>3
      <4> SUFFICES ASSUME NEW x \in active', NEW y \in active', req'[x].comp = req'[y].comp
                   PROVE  x = y
        BY DEF OneActive
      <4>2. x \in active /\ y \in active => x = y
        BY <1>1, <4>1 DEF OneActive
      <4>3. (x \in active \/ x = New) /\ (y \in active \/ y = New)
        BY <3>2
      <4> QED BY <1>4, <4>1, <4>2, <4>3
    <3>6. BothFinish'
      BY <1>1, <1>3, <1>6, <3>2 DEF BothFinish
    <3>7. Quiet'
      BY <1>1, <1>2, <1>3, <1>6, <3>2 DEF Quiet
    <3>8. Lined'
      <4> SUFFICES ASSUME NEW d \in Comps PROVE Lined!(d)'
        BY DEF Lined
      <4>1. Lined!(d)
        BY <1>1 DEF Lined
      <4>2. CASE d # c
        BY <1>9a, <2>5, <3>2, <4>2
      <4>3. CASE d = c
        BY <2>4, <2>5, <4>3
      <4> QED BY <4>2, <4>3
    <3>9. NoDanglingInfo'
      <4> SUFFICES ASSUME NEW d \in Comps, serving'[d] # 0
                   PROVE  /\ serving'[d] \in active' /\ req'[serving'[d]].comp = d
                          /\ serving'[d] \notin acked'
        BY DEF NoDanglingInfo, ActiveOf
      <4>1. CASE d = c /\ ~stopped
        BY <1>2, <1>3, <1>4, <1>6, <3>2, <4>1
      <4>2. CASE ~(d = c /\ ~stopped)
        <5>1. serving'[d] = serving[d]
          BY <1>2, <3>2, <4>2
        <5>2. serving[d] \in active /\ req[serving[d]].comp = d /\ serving[d] \notin acked
          BY <1>1, <5>1 DEF NoDanglingInfo, ActiveOf
        <5> QED BY <1>2, <1>3, <1>4, <3>2, <5>1, <5>2
      <4> QED BY <4>1, <4>2
    <3>10. SuccessNeedsBoth'
      BY <1>1, <1>3, <3>2 DEF SuccessNeedsBoth
    <3>11. Waiting' = Waiting \cup {New}
      BY <2>5, <3>2 DEF Waiting
    <3>12. Accounted'
      BY <1>1, <1>2, <1>3, <1>4, <1>6, <3>2, <3>11 DEF Accounted
    <3> QED BY <3>3, <3>4, <3>5, <3>6, <3>7, <3>8, <3>9, <3>10, <3>12 DEF IInv
  <2> QED BY <2>6, <2>7
<1> QED BY <1>11, <1>12, <1>13 DEF requestMessage

\* Steps that leave requests, maps and handlers alone.
LEMMA StutterIInv ==
  ASSUME IInv, UNCHANGED <<req, active, acked, arrived, queue, outcome, handled,
                           dropped, serving, stopped>>,
         overdue' \subseteq active \cap acked, others' \subseteq Comps, linkUp' \in BOOLEAN
  PROVE  IInv'
<1>1. TypeOK /\ TypeOK'
  BY DEF IInv, TypeOK
<1>2. Fresh' /\ OneActive' /\ Lined' /\ NoDanglingInfo' /\ SuccessNeedsBoth'
  BY DEF IInv, Fresh, OneActive, Lined, NoDanglingInfo, ActiveOf, SuccessNeedsBoth
<1>3. Accounted' /\ BothFinish' /\ Quiet'
  BY DEF IInv, Accounted, Waiting, BothFinish, Quiet
<1> QED BY <1>1, <1>2, <1>3 DEF IInv

\* One of ack and message comes for an active request that still waits for the other.
LEMMA HalfIInv ==
  ASSUME IInv, NEW r \in active,
         \/ acked' = acked \cup {r} /\ arrived' = arrived /\ r \notin arrived
               /\ serving' = Unserved(req[r].comp) /\ ~stopped
         \/ acked' = acked /\ arrived' = arrived \cup {r} /\ r \notin acked
               /\ serving' = serving,
         UNCHANGED <<req, active, overdue, queue, outcome, handled, dropped, others,
                     linkUp, stopped>>
  PROVE  IInv'
<1>1. /\ TypeOK /\ Fresh /\ OneActive /\ Lined /\ Accounted
      /\ NoDanglingInfo /\ SuccessNeedsBoth /\ BothFinish /\ Quiet
  BY DEF IInv
<1>2. /\ req \in Seq([comp : Comps, msg : Msgs]) /\ Len(req) \in Nat /\ Len(req) <= MaxReq
      /\ active \subseteq 1..Len(req) /\ overdue \subseteq active \cap acked
      /\ serving \in [Comps -> 0..Len(req)]
  BY <1>1, LenProperties DEF TypeOK
<1>3. r \in 1..Len(req) /\ r \in Reqs /\ req[r].comp \in Comps
  <2>1. r \in 1..Len(req) /\ req[r] \in [comp : Comps, msg : Msgs]
    BY <1>2, ElementOfSeq
  <2>2. req[r].comp \in Comps
    BY <2>1
  <2>3. r \in Reqs
    BY <1>2, <2>1, ConstantsAssumption DEF Reqs
  <2> QED BY <2>1, <2>2, <2>3
<1>4. /\ serving' \in [Comps -> 0..Len(req)]
      /\ \A d \in Comps : serving'[d] \in {0, serving[d]}
      /\ \A d \in Comps : d = req[r].comp /\ acked' # acked => serving'[d] = 0
  BY <1>2, <1>3 DEF Unserved
<1>5. TypeOK'
  <2>1. overdue' \subseteq active' \cap acked' /\ acked' \subseteq Reqs /\ arrived' \subseteq Reqs
    BY <1>1, <1>2, <1>3 DEF TypeOK
  <2> QED BY <1>1, <1>4, <2>1 DEF TypeOK
<1>6. Fresh' /\ OneActive' /\ BothFinish'
  BY <1>1, <1>3 DEF Fresh, OneActive, BothFinish
<1>7. Lined'
  BY <1>1 DEF Lined
<1>8. NoDanglingInfo'
  <2> SUFFICES ASSUME NEW d \in Comps, serving'[d] # 0
               PROVE  /\ serving'[d] \in active /\ req[serving'[d]].comp = d
                      /\ serving'[d] \notin acked'
    BY DEF NoDanglingInfo, ActiveOf
  <2>1. /\ serving'[d] = serving[d] /\ serving[d] \in active /\ req[serving[d]].comp = d
        /\ serving[d] \notin acked
    BY <1>1, <1>4 DEF NoDanglingInfo, ActiveOf
  <2> QED BY <1>4, <2>1
<1>9. SuccessNeedsBoth'
  <2>1. outcome[r] = "none"
    BY <1>1, <1>3 DEF Accounted, Waiting
  <2> QED BY <1>1, <2>1 DEF SuccessNeedsBoth
<1>10. Accounted'
  BY <1>1 DEF Accounted, Waiting
<1>11. Quiet'
  BY <1>1, <1>4 DEF Quiet
<1> QED BY <1>5, <1>6, <1>7, <1>8, <1>9, <1>10, <1>11 DEF IInv

\* A request whose command has ended leaves the service as it was: nothing of its
\* component is being served.
LEMMA NotServed ==
  ASSUME IInv, NEW r \in active \cap acked
  PROVE  serving = Unserved(req[r].comp) /\ ~stopped
<1>1. /\ serving \in [Comps -> 0..Len(req)] /\ NoDanglingInfo /\ OneActive /\ Quiet
  BY DEF IInv, TypeOK
<1>2. ~stopped
  BY <1>1 DEF Quiet
<1>3. \A d \in Comps : d = req[r].comp => serving[d] = 0
  BY <1>1 DEF NoDanglingInfo, OneActive, ActiveOf
<1> QED BY <1>1, <1>2, <1>3 DEF Unserved

LEMMA CommandIInv ==
  ASSUME IInv, NEW c \in Comps, cmdResultHandler(c)
  PROVE  IInv'
<1> DEFINE r == serving[c]
<1>1. /\ r # 0
      /\ \/ \E code \in {"commandError", "notAcked"} : CommandFails(r, code)
         \/ CommandAcceptedLast(r)
         \/ CommandAcceptedFirst(r)
      /\ req' = req /\ arrived' = arrived /\ dropped' = dropped /\ others' = others
      /\ linkUp' = linkUp /\ stopped' = stopped
  BY DEF cmdResultHandler
<1>2. r \in active /\ r \notin acked /\ ~stopped
  BY <1>1 DEF IInv, NoDanglingInfo, ActiveOf, Quiet
<1> HIDE DEF r
<1>3. ASSUME NEW code \in {"commandError", "notAcked"}, CommandFails(r, code) PROVE IInv'
  <2>1. Finish(r, code, Unserved(req[r].comp)) /\ acked' = acked
    BY <1>3 DEF CommandFails
  <2>2. code \in Outcomes \ {"none"} /\ code # "success" /\ code # "noMessage"
    BY DEF Outcomes
  <2> QED BY <1>1, <1>2, <2>1, <2>2, FinishIInv
<1>4. CASE CommandAcceptedLast(r)
  <2>1. /\ Finish(r, "success", Unserved(req[r].comp)) /\ acked' = acked \cup {r}
        /\ r \in arrived
    BY <1>4 DEF CommandAcceptedLast
  <2>2. "success" \in Outcomes \ {"none"} /\ r \in acked' \cap arrived'
    BY <1>1, <2>1 DEF Outcomes
  <2> QED BY <1>1, <1>2, <2>1, <2>2, FinishIInv
<1>5. CASE CommandAcceptedFirst(r)
  BY <1>1, <1>2, <1>5, HalfIInv DEF CommandAcceptedFirst, endVars
<1> QED BY <1>1, <1>3, <1>4, <1>5

LEMMA MessageIInv ==
  ASSUME IInv, NEW c \in Comps, NEW m \in Msgs, handleReceivedMessage(c, m)
  PROVE  IInv'
<1>1. /\ MessageBeforeAck(c, m) \/ MessageAfterAck(c, m) \/ Tick(c, m)
      /\ req' = req /\ acked' = acked /\ dropped' = dropped /\ others' = others
      /\ linkUp' = linkUp /\ stopped' = stopped
  BY DEF handleReceivedMessage
<1>2. CASE MessageBeforeAck(c, m)
  <2>1. PICK r \in ActiveFor(c, m) :
          /\ r \notin acked /\ arrived' = arrived \cup {r}
          /\ active' = active /\ overdue' = overdue /\ queue' = queue /\ serving' = serving
          /\ outcome' = outcome /\ handled' = handled
    BY <1>2 DEF MessageBeforeAck, endVars
  <2>2. r \in active
    BY DEF ActiveFor, ActiveOf
  <2> QED BY <1>1, <2>1, <2>2, HalfIInv
<1>3. CASE MessageAfterAck(c, m)
  <2>1. PICK r \in ActiveFor(c, m) :
          /\ r \in acked /\ arrived' = arrived \cup {r} /\ Finish(r, "success", serving)
    BY <1>3 DEF MessageAfterAck
  <2>2. r \in active
    BY DEF ActiveFor, ActiveOf
  <2>3. ~stopped /\ Finish(r, "success", Unserved(req[r].comp))
    BY <2>1, <2>2, NotServed
  <2>4. "success" \in Outcomes \ {"none"} /\ r \in acked' \cap arrived'
    BY <1>1, <2>1 DEF Outcomes
  <2> QED BY <1>1, <2>1, <2>2, <2>3, <2>4, FinishIInv
<1>4. CASE Tick(c, m)
  <2>1. PICK r \in overdue : Finish(r, "noMessage", serving) /\ arrived' = arrived
    BY <1>4 DEF Tick
  <2>2. r \in active \cap acked
    BY DEF IInv, TypeOK
  <2>3. ~stopped /\ Finish(r, "noMessage", Unserved(req[r].comp))
    BY <2>1, <2>2, NotServed
  <2>4. "noMessage" \in Outcomes \ {"none"} /\ r \in acked' \ arrived'
    BY <1>1, <2>1, <2>2 DEF Outcomes, IInv, BothFinish
  <2> QED BY <1>1, <2>1, <2>2, <2>3, <2>4, FinishIInv
<1> QED BY <1>1, <1>2, <1>3, <1>4

LEMMA StopIInv == ASSUME IInv, stop PROVE IInv'
<1>1. /\ TypeOK /\ Fresh /\ Accounted /\ SuccessNeedsBoth
  BY DEF IInv
<1>2. /\ stopped' = TRUE
      /\ dropped' = dropped \cup Waiting
      /\ active' = {} /\ overdue' = {}
      /\ queue' = [c \in Comps |-> <<>>]
      /\ serving' = [c \in Comps |-> 0] /\ others' = {}
      /\ req' = req /\ acked' = acked /\ arrived' = arrived /\ outcome' = outcome
      /\ handled' = handled /\ linkUp' = linkUp
  BY DEF stop, Waiting, endVars
<1>3. /\ Waiting \subseteq 1..Len(req) /\ 1..Len(req) \subseteq Reqs /\ Len(req) \in Nat
  <2>1. \A c \in Comps : Queued(c) \subseteq 1..Len(req)
    BY Queues
  <2>2. active \subseteq 1..Len(req) /\ Len(req) <= MaxReq /\ Len(req) \in Nat
    BY <1>1, LenProperties DEF TypeOK
  <2>3. 1..Len(req) \subseteq Reqs
    BY <2>2, ConstantsAssumption DEF Reqs
  <2> QED BY <2>1, <2>2, <2>3 DEF Waiting, Queued
<1>4. \A c \in Comps : queue'[c] = <<>> /\ Len(queue'[c]) = 0 /\ serving'[c] = 0
                       /\ ToSet(queue'[c]) = {}
  <2>1. ToSet(<<>>) = {} /\ Len(<<>>) = 0
    BY EmptySeq, ToSetElements
  <2> QED BY <1>2, <2>1
<1>5. TypeOK'
  <2>1. <<>> \in Seq(1..Len(req))
    BY EmptySeq
  <2>2. queue' \in [Comps -> Seq(1..Len(req'))] /\ serving' \in [Comps -> 0..Len(req')]
    BY <1>2, <1>3, <2>1
  <2> QED BY <1>1, <1>2, <1>3, <2>2 DEF TypeOK
<1>6. Fresh'
  BY <1>1, <1>2, <1>3 DEF Fresh
<1>7. OneActive' /\ BothFinish'
  BY <1>2 DEF OneActive, BothFinish
<1>8. Lined' /\ NoDanglingInfo' /\ Quiet'
  BY <1>2, <1>4 DEF Lined, NoDanglingInfo, Quiet
<1>9. SuccessNeedsBoth'
  BY <1>1, <1>2 DEF SuccessNeedsBoth
<1>10. Accounted'
  <2>1. Waiting' = {}
    BY <1>2, <1>4 DEF Waiting
  <2> QED BY <1>1, <1>2, <2>1 DEF Accounted
<1> QED BY <1>5, <1>6, <1>7, <1>8, <1>9, <1>10 DEF IInv

LEMMA NextIInv == IInv /\ [Next]_vars => IInv'
<1> SUFFICES ASSUME IInv, [Next]_vars PROVE IInv'
  OBVIOUS
<1>0. /\ overdue \subseteq active \cap acked /\ active \subseteq 1..Len(req)
      /\ others \subseteq Comps /\ linkUp \in BOOLEAN
  BY DEF IInv, TypeOK
<1>1. ASSUME NEW ask \in Asks, requestMessage(ask[1], ask[2]) PROVE IInv'
  <2>1. ask[1] \in Comps /\ ask[2] \in Msgs
    BY ConstantsAssumption
  <2> QED BY <1>1, <2>1, RequestIInv
<1>2. ASSUME NEW c \in Comps, NEW m \in Msgs, handleReceivedMessage(c, m) PROVE IInv'
  BY <1>2, MessageIInv
<1>3. ASSUME NEW c \in Comps, cmdResultHandler(c) PROVE IInv'
  BY <1>3, CommandIInv
<1>4. ASSUME NEW c \in Comps, OtherSends(c) \/ OtherEnds(c) PROVE IInv'
  <2>1. /\ UNCHANGED <<req, active, acked, arrived, overdue, queue, outcome, handled,
                       dropped, serving, linkUp, stopped>>
        /\ others' \in {others \cup {c}, others \ {c}}
    BY <1>4 DEF OtherSends, OtherEnds, infoVars, endVars
  <2> QED BY <1>0, <2>1, StutterIInv
<1>5. ASSUME NEW r \in Reqs, WaitEnds(r) PROVE IInv'
  <2>1. /\ UNCHANGED <<req, active, acked, arrived, queue, outcome, handled,
                       dropped, serving, others, linkUp, stopped>>
        /\ overdue' = overdue \cup {r} /\ r \in active \cap acked
    BY <1>5 DEF WaitEnds, endVars
  <2> QED BY <1>0, <2>1, StutterIInv
<1>6. CASE stop
  BY <1>6, StopIInv
<1>7. CASE LinkChanges
  BY <1>0, <1>7, StutterIInv DEF LinkChanges, infoVars, endVars
<1>8. CASE UNCHANGED vars
  BY <1>0, <1>8, StutterIInv DEF vars, infoVars, endVars
<1> QED BY <1>1, <1>2, <1>3, <1>4, <1>5, <1>6, <1>7, <1>8 DEF Next

LEMMA AlwaysIInv == Spec => []IInv
  BY InitIInv, NextIInv, PTL DEF Spec

-----------------------------------------------------------------------------
(* Theorems *)

\* The variables of the coordinator keep their types.
THEOREM CoordinatorTypeCorrect == Spec => []TypeOK
<1>1. IInv => TypeOK
  BY DEF IInv
<1> QED BY <1>1, AlwaysIInv, PTL

\* No interleaving of acks, messages, time-outs, refusals, the recursion through
\* _removeInfo and stop() loses a request or runs its handler twice.
THEOREM EachRequestAnsweredOnce == Spec => []AnsweredOnce
<1>1. IInv => AnsweredOnce
  <2> SUFFICES ASSUME IInv, NEW r \in 1..Len(req)
               PROVE  /\ handled[r] = IF outcome[r] = "none" THEN 0 ELSE 1
                      /\ outcome[r] = "none" <=> r \in Waiting \cup dropped
                      /\ r \in active => \A c \in Comps : r \notin ToSet(queue[c])
    BY DEF AnsweredOnce
  <2>1. \A c \in Comps : \A x \in Queued(c) : x \notin active
    BY Queues
  <2> QED BY <2>1 DEF IInv, Accounted, Queued
<1> QED BY <1>1, AlwaysIInv, PTL

\* Requests of a component are sent one at a time in the order in which they were made.
THEOREM RequestsInOrder == Spec => []InOrder
<1>1. IInv => InOrder
  <2> SUFFICES ASSUME IInv, NEW c \in Comps PROVE InOrder!(c)
    BY DEF InOrder
  <2>1. OneActive /\ Lined
    BY DEF IInv
  <2>2. Cardinality(ActiveOf(c)) <= 1
    <3>1. CASE ActiveOf(c) = {}
      BY <3>1, FS_EmptySet
    <3>2. CASE ActiveOf(c) # {}
      <4>1. PICK r \in ActiveOf(c) : TRUE
        BY <3>2
      <4>2. ActiveOf(c) = {r}
        BY <2>1, <4>1 DEF OneActive, ActiveOf
      <4> QED BY <4>2, FS_Singleton
    <3> QED BY <3>1, <3>2
  <2> QED BY <2>1, <2>2 DEF Lined, ActiveOf
<1> QED BY <1>1, AlwaysIInv, PTL

\* The command queue never holds a pointer to a request that has been removed.
THEOREM InfoOutlivesCommand == Spec => []NoDanglingInfo
<1>1. IInv => NoDanglingInfo
  BY DEF IInv
<1> QED BY <1>1, AlwaysIInv, PTL

\* A request succeeds only with both the ack and the message, whichever came first.
THEOREM SuccessHasBoth == Spec => []SuccessNeedsBoth
<1>1. IInv => SuccessNeedsBoth
  BY DEF IInv
<1> QED BY <1>1, AlwaysIInv, PTL
=============================================================================
