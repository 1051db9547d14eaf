------------------------- MODULE PlanManager_proofs -------------------------
(* Theorems about PlanManager, for every choice of the constants. *)
EXTENDS PlanManager, SequenceTheorems, FiniteSetTheorems, WellFoundedInduction, TLAPS

\* Nothing that is planned or held is a jump.
NoJumps == \A plan \in Plans \cup Onboard : \A i \in 1..Len(plan) : plan[i].cmd # "jump"

Item == {x \in [cmd : STRING, arg : Int] : NoJumps => x.cmd # "jump"}

\* What TypeOK leaves open: the lists and the messages.
Typed ==
    /\ items \in Seq([seq : Nat, item : Item])
    /\ writeItems \in Seq(Item) /\ onboard \in Seq(Item)
    /\ upload \in [count : Nat, got : Seq(Item)]
    /\ upload.count # 0 => Len(upload.got) < upload.count
    /\ \A m \in toVehicle :
         /\ m.msg = "COUNT" => m.count \in Nat
         /\ m.msg = "REQUEST" => m.seq \in Nat
         /\ m.msg = "ITEM" => m.seq \in Nat /\ m.item \in Item
    /\ \A m \in toGcs :
         /\ m.msg = "COUNT" => m.count \in Nat
         /\ m.msg = "REQUEST" => m.seq \in Nat
         /\ m.msg = "ITEM" => m.seq \in Nat /\ m.item \in Item

-----------------------------------------------------------------------------
(* The phase of a transaction: what _transactionInProgress says of the rest *)

Idle == transaction = "none" =>
    ~connected /\ ~timer /\ toRead = {} /\ toWrite = {} /\ writeItems = <<>>

Busy == transaction # "none" => connected /\ timer /\ ~ok /\ signals = <<>>

Reading == transaction = "read" =>
    /\ kind = "read" /\ expectedAck \in {"count", "item"}
    /\ expectedAck = "count" => items = <<>> /\ toRead = {}
    /\ expectedAck = "item" => toRead # {}
    /\ toWrite = {} /\ writeItems = <<>>

Writing == transaction = "write" =>
    /\ toRead = {}
    /\ \/ expectedAck = "request" /\ kind \in {"write", "resume"}
       \/ expectedAck = "guided" /\ kind = "guided" /\ toWrite = {} /\ writeItems = <<>>

Removing == transaction = "removeAll" =>
    /\ kind = "removeAll" /\ expectedAck = "clearAll"
    /\ toRead = {} /\ toWrite = {} /\ writeItems = <<>>

Resuming == resume <=> transaction # "none" /\ kind = "resume"

Phase == /\ Idle /\ Busy /\ Reading /\ Writing /\ Removing /\ Resuming
         /\ kind = "none" => ~ok

\* Every index is in the list or wanted, from the first item asked for.
Wanted == transaction = "read" /\ expectedAck = "item" =>
    toRead \cup Seqs(items) = Indices(readCount)

IInv == /\ TypeOK /\ Typed /\ Phase /\ Wanted
        /\ ReadIsComplete /\ WriteSentEverything /\ SignalsItsEnd

-----------------------------------------------------------------------------
(* What the messages say while none outlives its transaction *)

\* The vehicle's plan stands still, and is received in its order.
ReadAgrees == kind = "read" /\ (transaction = "read" \/ ok) =>
    /\ \A m \in toVehicle :
         \/ m.msg = "REQUEST_LIST"
         \/ m.msg = "REQUEST" /\ m.seq <= Len(items)
    /\ \A m \in toGcs :
         /\ m.msg = "COUNT" => m.count = Len(onboard)
         /\ m.msg = "ITEM" => /\ m.seq <= Len(items) /\ m.seq < Len(onboard)
                              /\ m.item = onboard[m.seq + 1]
    /\ Len(items) <= Len(onboard)
    /\ \A i \in 1..Len(items) : items[i] = [seq |-> i - 1, item |-> FromVehicle(onboard[i])]
    /\ expectedAck = "item" => /\ readCount = Len(onboard)
                               /\ toRead = Len(items)..(readCount - 1)
    /\ ok => Len(items) = Len(onboard)

\* The plan of the upload in progress or just done.
Uploaded == IF transaction = "write" THEN writeItems
            ELSE [i \in 1..Len(items) |-> items[i].item]

\* Once the vehicle has asked for an item, what it has is the beginning of the plan.
WriteAgrees == kind \in {"write", "resume"} /\ (transaction = "write" \/ ok) =>
    /\ \A m \in toVehicle :
         \/ m.msg = "COUNT" /\ m.count = Len(Uploaded)
         \/ m.msg = "ITEM" /\ m.seq < Len(Uploaded) /\ m.item = Uploaded[m.seq + 1]
    /\ (\E m \in toVehicle : m.msg = "ITEM") \/ (\E m \in toGcs : m.msg = "REQUEST") =>
         \/ upload.count = 0
         \/ /\ upload.count = Len(Uploaded)
            /\ \A i \in 1..Len(upload.got) : upload.got[i] = Uploaded[i]
    /\ \A m \in toGcs : m.msg = "ACK" /\ m.result = "accepted" => onboard = Uploaded
    /\ ok => onboard = Uploaded /\ items = Numbered(Uploaded)

RemoveAgrees == kind = "removeAll" /\ (transaction = "removeAll" \/ ok) =>
    /\ \A m \in toVehicle : m.msg = "CLEAR_ALL"
    /\ \A m \in toGcs : m.msg = "ACK" /\ m.result = "accepted" => onboard = <<>>
    /\ items = <<>>
    /\ ok => onboard = <<>>

Agrees == ~setting.stale => ReadAgrees /\ WriteAgrees /\ RemoveAgrees

-----------------------------------------------------------------------------
(* Numbers and sequences *)

LEMMA Least ==
  ASSUME NEW W, W \subseteq Nat, W # {}
  PROVE  LET i == CHOOSE i \in W : \A j \in W : i <= j
         IN  i \in W /\ \A j \in W : i <= j
<1> DEFINE R == OpToRel(<, Nat)
<1>1. IsWellFoundedOn(R, Nat)
  BY NatLessThanWellFounded
<1>2. \A a, b \in Nat : <<a, b>> \in R <=> a < b
  BY DEF OpToRel
<1> HIDE DEF R
<1>3. PICK i \in W : \A j \in W : ~ (<<j, i>> \in R)
  BY <1>1, WFMin
<1>4. ASSUME NEW j \in W PROVE i <= j
  <2>1. i \in Nat /\ j \in Nat /\ ~ (j < i)
    BY <1>2, <1>3
  <2> QED BY <2>1
<1> QED BY <1>4

LEMMA IsSeq ==
  ASSUME NEW S, NEW n \in Nat, NEW f \in [1..n -> S]
  PROVE  f \in Seq(S) /\ Len(f) = n
OBVIOUS

LEMMA Shifting ==
  ASSUME NEW x \in Item, NEW by \in Int
  PROVE  /\ Shifted(x, by) \in Item
         /\ NoJumps \/ setting.sendHome => Shifted(x, by) = x
BY DEF Shifted, Item

LEMMA PlansTyped == Plans \cup Onboard \subseteq Seq(Item)
<1> SUFFICES ASSUME NEW p \in Plans \cup Onboard PROVE p \in Seq(Item)
  OBVIOUS
<1>1. p \in Seq([cmd : STRING, arg : Int])
  BY ConstantsAssumption
<1>2. \A i \in 1..Len(p) : p[i] \in Item
  BY <1>1, ElementOfSeq DEF NoJumps, Item
<1>3. Len(p) \in Nat /\ p \in [1..Len(p) -> Item]
  BY <1>1, <1>2, LenProperties
<1> QED BY <1>3, IsSeq

LEMMA Keeping ==
  ASSUME NEW plan \in Seq(Item), TypeOK
  PROVE  ForVehicle(plan) \in Seq(Item)
<1> DEFINE kept == IF setting.sendHome THEN plan ELSE SubSeq(plan, 2, Len(plan))
<1>1. Len(plan) \in Nat /\ \A i \in 2..Len(plan) : plan[i] \in Item
  BY LenProperties, ElementOfSeq
<1>2. SubSeq(plan, 2, Len(plan)) \in Seq(Item)
  BY <1>1, SubSeqProperties
<1>3. kept \in Seq(Item)
  BY <1>2
<1>4. Len(kept) \in Nat /\ \A i \in 1..Len(kept) : kept[i] \in Item
  BY <1>3, LenProperties, ElementOfSeq
<1>5. ForVehicle(plan) = [i \in 1..Len(kept) |-> Shifted(kept[i], -1)]
  BY DEF ForVehicle
<1> HIDE DEF kept
<1>6. \A i \in 1..Len(kept) : Shifted(kept[i], -1) \in Item
  BY <1>4, Shifting
<1>7. ForVehicle(plan) \in [1..Len(kept) -> Item]
  BY <1>5, <1>6
<1> QED BY <1>4, <1>7, IsSeq

LEMMA Numbering ==
  ASSUME NEW plan \in Seq(Item)
  PROVE  /\ Numbered(plan) \in Seq([seq : Nat, item : Item])
         /\ Len(Numbered(plan)) = Len(plan)
         /\ \A i \in 1..Len(plan) : Numbered(plan)[i] = [seq |-> i - 1, item |-> plan[i]]
<1>1. Len(plan) \in Nat /\ \A i \in 1..Len(plan) : plan[i] \in Item
  BY LenProperties, ElementOfSeq
<1>2. Numbered(plan) \in [1..Len(plan) -> [seq : Nat, item : Item]]
  BY <1>1 DEF Numbered
<1>3. \A i \in 1..Len(plan) : Numbered(plan)[i] = [seq |-> i - 1, item |-> plan[i]]
  BY DEF Numbered
<1> QED BY <1>1, <1>2, <1>3, IsSeq

LEMMA NumberedNothing == Numbered(<<>>) = <<>>
<1>1. <<>> \in Seq(Item) /\ Len(<<>>) = 0
  BY EmptySeq
<1>2. Numbered(<<>>) \in Seq([seq : Nat, item : Item]) /\ Len(Numbered(<<>>)) = 0
  BY <1>1, Numbering
<1> QED BY <1>2, EmptySeq

LEMMA SeqsOfNothing == Seqs(<<>>) = {}
<1>1. Len(<<>>) = 0
  BY EmptySeq
<1> QED BY <1>1 DEF Seqs

LEMMA SeqsGrow ==
  ASSUME NEW list \in Seq([seq : Nat, item : Item]), NEW e \in [seq : Nat, item : Item]
  PROVE  Seqs(Append(list, e)) = Seqs(list) \cup {e.seq}
<1>1. /\ Len(list) \in Nat /\ Len(Append(list, e)) = Len(list) + 1
      /\ \A i \in 1..Len(list) : Append(list, e)[i] = list[i]
      /\ Append(list, e)[Len(list) + 1] = e
  BY LenProperties, AppendProperties
<1>2. 1..(Len(list) + 1) = 1..Len(list) \cup {Len(list) + 1}
  BY <1>1
<1> QED BY <1>1, <1>2 DEF Seqs

LEMMA ListTyped ==
  ASSUME NEW list \in Seq([seq : Nat, item : Item])
  PROVE  (\A i \in DOMAIN list : list[i].seq \in Nat) /\ Seqs(list) \subseteq Nat
<1>1. DOMAIN list = 1..Len(list)
  BY LenProperties
<1>2. \A i \in 1..Len(list) : list[i] \in [seq : Nat, item : Item]
  BY ElementOfSeq
<1>3. \A i \in 1..Len(list) : list[i].seq \in Nat
  BY <1>2
<1> QED BY <1>1, <1>3 DEF Seqs

-----------------------------------------------------------------------------
(* The end of a transaction *)

\* A list a download may end with.
Complete(list) ==
    /\ list \in Seq([seq : Nat, item : Item])
    /\ Cardinality(Seqs(list)) = Len(list)
    /\ Len(list) > 0 => Seqs(list) = Indices(readCount)

\* What ends a transaction with success.
Deserved(guided, list) ==
    /\ transaction = "read" => Complete(list)
    /\ kind \in {"write", "resume"} => toWrite = {}
    /\ kind = "guided" => guided

LEMMA FinishTold ==
  ASSUME IInv, transaction # "none", NEW success \in BOOLEAN, NEW guided \in BOOLEAN,
         NEW list, NEW ack, Finish(success, guided, list, ack), kind' = kind,
         guided => kind = "guided"
  PROVE  signals' \in Seq(Signals) /\ SignalsItsEnd'
<1> USE DEF Finish, FinishRead, FinishWrite, FinishGuided, FinishRemoveAll
<1>1. ResumeSignal(success) \in Seq(Signals)
  <2>1. \A s \in Signals : <<s>> \in Seq(Signals)
    OBVIOUS
  <2>2. <<>> \in Seq(Signals)
    BY EmptySeq
  <2>3. {"resumeMissionReady", "resumeMissionUploadFail"} \subseteq Signals
    BY DEF Signals
  <2> QED BY <2>1, <2>2, <2>3 DEF ResumeSignal
<1>2. \A s \in Signals : <<s>> \o ResumeSignal(success) \in Seq(Signals)
  BY <1>1, ConcatProperties
<1>3. signals' \in Seq(Signals)
  BY <1>1, <1>2 DEF Signals
<1>4. SignalsItsEnd'
  <2>1. ok' = success /\ transaction' = "none"
    OBVIOUS
  <2>2. ResumeSignal(success) = IF kind # "resume" THEN <<>>
                                ELSE IF success THEN <<"resumeMissionReady">>
                                ELSE <<"resumeMissionUploadFail">>
    <3>1. resume <=> kind = "resume"
      BY DEF IInv, Phase, Resuming
    <3>2. CASE kind = "resume"
      BY <3>1, <3>2 DEF ResumeSignal
    <3>3. CASE kind # "resume"
      BY <3>1, <3>3 DEF ResumeSignal
    <3> QED BY <3>2, <3>3
  <2>3. CASE transaction = "read"
    BY <2>1, <2>2, <2>3 DEF IInv, Phase, Reading, SignalsItsEnd
  <2>4. CASE transaction = "removeAll"
    BY <2>1, <2>2, <2>4 DEF IInv, Phase, Removing, SignalsItsEnd
  <2>5. CASE transaction = "write"
    BY <2>1, <2>2, <2>5 DEF IInv, Phase, Writing, SignalsItsEnd
  <2> QED BY <2>3, <2>4, <2>5
<1> QED BY <1>3, <1>4

LEMMA FinishIInv ==
  ASSUME IInv, transaction # "none", NEW success \in BOOLEAN, NEW guided \in BOOLEAN,
         NEW list, NEW ack \in Acks, Finish(success, guided, list, ack),
         guided => kind = "guided",
         success => Deserved(guided, list),
         retryCount' \in 0..(MaxRetry + 1), UNCHANGED <<readCount, sent, toVehicle>>,
         Handled
  PROVE  IInv'
<1> USE DEF Finish, FinishRead, FinishWrite, FinishGuided, FinishRemoveAll, Handled, vehicleVars
<1> ok' = success /\ transaction' = "none" /\ kind' = kind
  OBVIOUS
<1>1. signals' \in Seq(Signals) /\ SignalsItsEnd'
  BY FinishTold
<1>2. /\ \/ items' \in {items, <<>>, Numbered(writeItems)}
         \/ items' = list /\ Complete(list)
      /\ writeItems' \in {writeItems, <<>>}
  <2>1. CASE success = TRUE
    BY <2>1 DEF Deserved
  <2>2. CASE success = FALSE
    BY <2>2
  <2> QED BY <2>1, <2>2
<1>3. items' \in Seq([seq : Nat, item : Item]) /\ writeItems' \in Seq(Item)
  BY <1>2, Numbering, EmptySeq DEF Complete, IInv, Typed
<1>4. TypeOK'
  <2>1. \A i \in DOMAIN items' : items'[i].seq \in Nat
    BY <1>3, ListTyped
  <2> QED BY <1>1, <2>1 DEF IInv, TypeOK, Transactions
<1>5. Typed'
  BY <1>3 DEF IInv, Typed
<1>6. writeItems' = <<>>
  BY DEF IInv, Phase, Reading, Writing, Removing, TypeOK, Transactions
<1>7. Phase'
  <2>1. Idle' /\ Busy' /\ Reading' /\ Writing' /\ Removing' /\ Resuming'
    BY <1>6 DEF Idle, Busy, Reading, Writing, Removing, Resuming
  <2>2. kind # "none"
    BY DEF IInv, Phase, Reading, Writing, Removing, TypeOK, Transactions
  <2> QED BY <2>1, <2>2 DEF Phase
<1>8. ReadIsComplete'
  <2> SUFFICES ASSUME kind = "read", success PROVE ReadIsComplete'
    BY DEF ReadIsComplete
  <2>1. items' = list /\ Complete(list) /\ toRead' = {}
    BY DEF Deserved, IInv, Phase, Reading, Writing, Removing, TypeOK, Transactions
  <2> QED BY <2>1 DEF ReadIsComplete, Complete, Seqs
<1>9. WriteSentEverything'
  <2> SUFFICES ASSUME kind \in {"write", "resume"}, success
               PROVE  sent' = Indices(Len(items'))
    BY DEF WriteSentEverything
  <2>1. transaction = "write" /\ ~guided /\ toWrite = {}
    BY DEF Deserved, IInv, Phase, Reading, Writing, Removing, TypeOK, Transactions
  <2>2. items' = Numbered(writeItems)
    BY <2>1
  <2>3. Len(items') = Len(writeItems)
    BY <2>2, Numbering DEF IInv, Typed
  <2> QED BY <2>1, <2>3 DEF IInv, WriteSentEverything
<1> QED BY <1>1, <1>4, <1>5, <1>7, <1>8, <1>9 DEF IInv, Wanted

-----------------------------------------------------------------------------
(* The steps *)

LEMMA InitIInv == Init => IInv
<1> SUFFICES ASSUME Init PROVE IInv
  OBVIOUS
<1> USE ConstantsAssumption DEF Init, NoUpload
<1>1. Len(<<>>) = 0 /\ \A S : <<>> \in Seq(S)
  BY EmptySeq
<1>2. TypeOK
  <2>1. MaxRetry \in Nat /\ setting \in Settings /\ setting.maxOps \in Nat
    OBVIOUS
  <2>2. signals \in Seq(Signals) /\ DOMAIN items = {}
    BY <1>1
  <2>3. upload.count = 0 /\ Len(upload.got) = 0
    BY <1>1
  <2>4. {timer, connected, resume, ok} \subseteq BOOLEAN
    OBVIOUS
  <2>5. ops \in 0..setting.maxOps /\ retryCount \in 0..(MaxRetry + 1)
    BY <2>1
  <2>6. toRead = {} /\ toWrite = {} /\ sent = {} /\ readCount \in Nat
    OBVIOUS
  <2>7. transaction \in Transactions /\ kind \in Kinds /\ expectedAck \in Acks
    BY DEF Transactions, Kinds, Acks
  <2> HIDE DEF Init
  <2> QED BY <2>1, <2>2, <2>3, <2>4, <2>5, <2>6, <2>7 DEF TypeOK
<1>3. onboard \in Seq(Item)
  BY PlansTyped
<1>4. Typed
  BY <1>1, <1>3 DEF Typed
<1>5. Phase
  BY DEF Phase, Idle, Busy, Reading, Writing, Removing, Resuming
<1>6. Wanted /\ ReadIsComplete /\ WriteSentEverything /\ SignalsItsEnd
  BY DEF Wanted, ReadIsComplete, WriteSentEverything, SignalsItsEnd
<1> QED BY <1>2, <1>4, <1>5, <1>6 DEF IInv

\* What a call begins: the transaction, which call it was, the answer it waits for.
Started(t, k, ack) ==
    \/ t = "read" /\ k = "read" /\ ack = "count"
    \/ t = "write" /\ k \in {"write", "resume"} /\ ack = "request"
    \/ t = "write" /\ k = "guided" /\ ack = "guided"
    \/ t = "removeAll" /\ k = "removeAll" /\ ack = "clearAll"

LEMMA BeginIInv ==
  ASSUME IInv, NEW t, NEW k, NEW ack, NEW m, Started(t, k, ack),
         Begin(t, k), BeginSending(m, ack),
         m.msg = "COUNT" => m.count \in Nat, m.msg \notin {"REQUEST", "ITEM"},
         UNCHANGED readCount, toRead' = {},
         retryCount' \in 0..(MaxRetry + 1),
         items' \in {items, <<>>}, t = "read" => items' = <<>>,
         writeItems' \in Seq(Item), toWrite' = Indices(Len(writeItems')),
         ack # "request" => writeItems' = <<>>,
         resume' = (k = "resume")
  PROVE  IInv'
<1> USE DEF Begin, BeginSending, Started, vehicleVars
<1>1. Len(<<>>) = 0 /\ \A S : <<>> \in Seq(S)
  BY EmptySeq
<1>2. Len(writeItems') \in Nat /\ (writeItems' = <<>> => toWrite' = {})
  BY <1>1, LenProperties DEF Indices
<1>3. items' \in Seq([seq : Nat, item : Item])
  BY <1>1 DEF IInv, Typed
<1>4. TypeOK'
  <2>1. \A i \in DOMAIN items' : items'[i].seq \in Nat
    BY <1>3, ListTyped
  <2>2. toWrite' \subseteq 0..(Len(writeItems') - 1)
    BY <1>2 DEF Indices
  <2>3. ops' \in 0..setting.maxOps
    BY ConstantsAssumption DEF IInv, TypeOK
  <2>4. signals' \in Seq(Signals)
    BY <1>1
  <2> QED
    BY <1>2, <2>1, <2>2, <2>3, <2>4 DEF IInv, TypeOK, Transactions, Kinds, Acks
<1>5. Typed'
  <2>1. toGcs' \subseteq toGcs /\ toVehicle' \subseteq toVehicle \cup {m}
    OBVIOUS
  <2> QED BY <1>3, <2>1 DEF IInv, Typed
<1>6. Phase'
  BY <1>2 DEF Phase, Idle, Busy, Reading, Writing, Removing, Resuming
<1>7. Wanted' /\ ReadIsComplete' /\ SignalsItsEnd'
  BY DEF Wanted, ReadIsComplete, SignalsItsEnd
<1>8. WriteSentEverything'
  BY DEF WriteSentEverything
<1> QED BY <1>4, <1>5, <1>6, <1>7, <1>8 DEF IInv

LEMMA IdleState ==
  ASSUME IInv, transaction = "none"
  PROVE  /\ toRead = {} /\ toWrite = {} /\ writeItems = <<>> /\ resume = FALSE
         /\ Indices(Len(writeItems)) = {}
<1>1. Len(<<>>) = 0
  BY EmptySeq
<1>2. writeItems = <<>>
  BY DEF IInv, Phase, Idle
<1>3. Indices(Len(writeItems)) = {}
  BY <1>1, <1>2 DEF Indices
<1> QED BY <1>2, <1>3 DEF IInv, Phase, Idle, Resuming, TypeOK

LEMMA Resumable ==
  ASSUME IInv, NEW k \in 1..Len(items)
  PROVE  LET list == [i \in 1..Len(items) |-> items[i].item]
             home == IF setting.sendHome /\ k > 1 THEN <<list[1]>> ELSE <<>>
         IN  home \o SubSeq(list, k, Len(list)) \in Seq(Item)
<1> DEFINE list == [i \in 1..Len(items) |-> items[i].item]
<1> DEFINE home == IF setting.sendHome /\ k > 1 THEN <<list[1]>> ELSE <<>>
<1>1. items \in Seq([seq : Nat, item : Item])
  BY DEF IInv, Typed
<1>2. Len(items) \in Nat /\ \A i \in 1..Len(items) : items[i] \in [seq : Nat, item : Item]
  BY <1>1, LenProperties, ElementOfSeq
<1>3. list \in [1..Len(items) -> Item]
  BY <1>2
<1>4. list \in Seq(Item) /\ Len(list) = Len(items)
  BY <1>2, <1>3, IsSeq
<1>5. list[1] \in Item
  BY <1>2, <1>3
<1> HIDE DEF list
<1>6. home \in Seq(Item)
  BY <1>5, EmptySeq
<1>7. SubSeq(list, k, Len(list)) \in Seq(Item)
  BY <1>2, <1>4, ElementOfSeq, SubSeqProperties
<1> HIDE DEF home
<1>8. home \o SubSeq(list, k, Len(list)) \in Seq(Item)
  BY <1>6, <1>7, ConcatProperties
<1> QED BY <1>8 DEF list, home

LEMMA CallsIInv == IInv /\ Calls => IInv'
<1> SUFFICES ASSUME IInv, Calls PROVE IInv'
  OBVIOUS
<1>1. transaction = "none"
  BY DEF Calls, loadFromVehicle, removeAll, writeArduPilotGuidedMissionItem,
         writeMissionItems, generateResumeMission, Begin
<1>2. /\ toRead = {} /\ toWrite = {} /\ writeItems = <<>> /\ resume = FALSE
      /\ toWrite = Indices(Len(writeItems))
  BY <1>1, IdleState
<1>3. writeItems \in Seq(Item) /\ retryCount \in 0..(MaxRetry + 1) /\ MaxRetry \in Nat
  BY ConstantsAssumption DEF IInv, Typed, TypeOK
<1>4. ASSUME loadFromVehicle PROVE IInv'
  <2> DEFINE m == [msg |-> "REQUEST_LIST"]
  <2>1. Begin("read", "read") /\ BeginSending(m, "count")
    BY <1>4 DEF loadFromVehicle
  <2>2. Started("read", "read", "count") /\ m.msg \notin {"REQUEST", "ITEM", "COUNT"}
    BY DEF Started
  <2> HIDE DEF m
  <2>3. /\ UNCHANGED readCount /\ toRead' = {} /\ items' = <<>> /\ retryCount' = 0
        /\ writeItems' = <<>> /\ resume' = FALSE
        /\ writeItems' \in Seq(Item) /\ toWrite' = Indices(Len(writeItems'))
    BY <1>2, <1>3, <1>4 DEF loadFromVehicle
  <2>4. resume' = ("read" = "resume")
    BY <2>3
  <2>5. retryCount' \in 0..(MaxRetry + 1)
    BY <1>3, <2>3
  <2> QED BY <2>1, <2>2, <2>3, <2>4, <2>5, BeginIInv
<1>5. ASSUME removeAll PROVE IInv'
  <2> DEFINE m == [msg |-> "CLEAR_ALL"]
  <2>1. Begin("removeAll", "removeAll") /\ BeginSending(m, "clearAll")
    BY <1>5 DEF removeAll
  <2>2. Started("removeAll", "removeAll", "clearAll") /\ m.msg \notin {"REQUEST", "ITEM", "COUNT"}
    BY DEF Started
  <2> HIDE DEF m
  <2>3. /\ UNCHANGED readCount /\ toRead' = {} /\ items' = <<>> /\ retryCount' = 0
        /\ writeItems' = <<>> /\ resume' = FALSE
        /\ writeItems' \in Seq(Item) /\ toWrite' = Indices(Len(writeItems'))
    BY <1>2, <1>3, <1>5 DEF removeAll, listVars
  <2>4. resume' = ("removeAll" = "resume")
    BY <2>3
  <2>5. retryCount' \in 0..(MaxRetry + 1)
    BY <1>3, <2>3
  <2> QED BY <2>1, <2>2, <2>3, <2>4, <2>5, BeginIInv
<1>6. ASSUME writeArduPilotGuidedMissionItem PROVE IInv'
  <2> DEFINE m == [msg |-> "GUIDED"]
  <2>1. Begin("write", "guided") /\ BeginSending(m, "guided")
    BY <1>6 DEF writeArduPilotGuidedMissionItem
  <2>2. Started("write", "guided", "guided") /\ m.msg \notin {"REQUEST", "ITEM", "COUNT"}
    BY DEF Started
  <2> HIDE DEF m
  <2> QED
    BY <1>2, <1>3, <1>6, <2>1, <2>2, BeginIInv DEF writeArduPilotGuidedMissionItem, listVars
<1>7. ASSUME NEW k \in {"write", "resume"}, NEW plan \in Seq(Item), Begin("write", k),
             WriteWorker(plan), resume' = (k = "resume")
      PROVE  IInv'
  <2> DEFINE m == [msg |-> "COUNT", count |-> Len(plan)]
  <2>1. BeginSending(m, "request")
    BY <1>7 DEF WriteWorker
  <2>2. Started("write", k, "request") /\ m.msg = "COUNT" /\ m.count = Len(plan)
    BY <1>7 DEF Started
  <2>3. Len(plan) \in Nat
    BY LenProperties
  <2> HIDE DEF m
  <2> QED BY <1>2, <1>3, <1>7, <2>1, <2>2, <2>3, BeginIInv DEF WriteWorker
<1>8. ASSUME NEW plan \in Plans, writeMissionItems(plan) PROVE IInv'
  <2>1. ForVehicle(plan) \in Seq(Item)
    BY PlansTyped, Keeping DEF IInv
  <2> QED BY <1>2, <1>7, <1>8, <2>1 DEF writeMissionItems
<1>9. ASSUME NEW k \in 1..Len(items), generateResumeMission(k) PROVE IInv'
  BY <1>7, <1>9, Resumable DEF generateResumeMission
<1> QED BY <1>4, <1>5, <1>6, <1>8, <1>9 DEF Calls

\* A message that is handled is one of this manager's own, of a transaction.
LEMMA Arrived ==
  ASSUME IInv, NEW msg, NEW m \in Arriving(msg), m.type = "mission"
  PROVE  m \in toGcs /\ m.msg = msg /\ transaction # "none"
<1>1. \A s \in Strays : s.type = "fence"
  BY DEF Strays
<1>2. m \in toGcs \cup Strays /\ connected /\ m.msg = msg
  BY DEF Arriving
<1> QED BY <1>1, <1>2 DEF IInv, Phase, Idle

\* What _expectedAck says of the transaction.
LEMMA Expected ==
  ASSUME IInv, transaction # "none"
  PROVE  /\ expectedAck \in {"count", "item"} <=> transaction = "read"
         /\ expectedAck = "request" <=> transaction = "write" /\ kind \in {"write", "resume"}
         /\ expectedAck = "guided" <=> transaction = "write" /\ kind = "guided"
         /\ expectedAck = "clearAll" <=> transaction = "removeAll"
         /\ transaction = "read" => kind = "read"
         /\ transaction = "removeAll" => kind = "removeAll"
         /\ transaction \in {"read", "write", "removeAll"}
BY DEF IInv, TypeOK, Transactions, Phase, Reading, Writing, Removing

LEMMA RequestsLeast ==
  ASSUME NEW wanted, wanted \subseteq Nat, wanted # {}, RequestNext(wanted)
  PROVE  \E i \in wanted : /\ \A j \in wanted : i <= j
                           /\ SendAndWait([msg |-> "REQUEST", seq |-> i], "item")
BY Least DEF RequestNext

LEMMA CountIInv ==
  ASSUME IInv, NEW m \in Arriving("COUNT"), handleMissionCount(m)
  PROVE  IInv'
<1>1. m.type = "mission" /\ expectedAck = "count" /\ retryCount' = 0 /\ Handled
  BY DEF handleMissionCount
<1>2. m \in toGcs /\ m.msg = "COUNT" /\ transaction = "read" /\ kind = "read"
  BY <1>1, Arrived, Expected
<1>3. m.count \in Nat
  BY <1>2 DEF IInv, Typed
<1>4. items = <<>>
  BY <1>1, <1>2 DEF IInv, Phase, Reading
<1>5. retryCount' \in 0..(MaxRetry + 1)
  BY <1>1, ConstantsAssumption
<1>6. CASE m.count = 0
  <2>1. Finish(TRUE, FALSE, items, "none") /\ UNCHANGED <<readCount, sent, toVehicle>>
    <3>1. ~(m.count > 0)
      BY <1>6
    <3> QED BY <3>1, Zenon DEF handleMissionCount
  <2>2. Len(items) = 0 /\ Seqs(items) = {} /\ items \in Seq([seq : Nat, item : Item])
    BY <1>4, EmptySeq, SeqsOfNothing
  <2>3. Complete(items)
    BY <2>2, FS_EmptySet DEF Complete
  <2>4. Deserved(FALSE, items)
    BY <1>2, <2>3 DEF Deserved
  <2> QED BY <1>1, <1>2, <1>5, <2>1, <2>4, FinishIInv DEF Acks
<1>7. CASE m.count > 0
  <2> USE DEF Continues, Handled, endVars, vehicleVars
  <2>1. /\ toRead' = Indices(m.count) /\ readCount' = m.count /\ RequestNext(Indices(m.count))
        /\ Continues /\ UNCHANGED <<toWrite, items, writeItems, sent>>
    <3>1. m.count # 0
      BY <1>3, <1>7
    <3> QED BY <3>1, Zenon DEF handleMissionCount
  <2>2. toRead' \subseteq Nat /\ 0 \in toRead' /\ toRead' = 0..(readCount' - 1)
    BY <1>3, <1>7, <2>1 DEF Indices
  <2>3. PICK i \in toRead' : SendAndWait([msg |-> "REQUEST", seq |-> i], "item")
    BY <2>1, <2>2, RequestsLeast
  <2>4. TypeOK'
    <3>1. timer' = TRUE /\ expectedAck' = "item" /\ readCount' \in Nat
      BY <1>3, <2>1, <2>3 DEF SendAndWait
    <3> QED BY <1>1, <1>5, <2>1, <2>2, <3>1 DEF IInv, TypeOK, Acks
  <2>5. Typed'
    <3>1. toVehicle' = toVehicle \cup {[msg |-> "REQUEST", seq |-> i]} /\ i \in Nat
      BY <2>2, <2>3 DEF SendAndWait
    <3> QED BY <1>1, <2>1, <3>1 DEF IInv, Typed
  <2>6. Phase'
    BY <1>1, <1>2, <1>4, <2>1, <2>2, <2>3
       DEF SendAndWait, IInv, Phase, Idle, Busy, Reading, Writing, Removing, Resuming
  <2>7. Wanted' /\ ReadIsComplete'
    <3>1. Len(items') = 0 /\ Seqs(items') = {} /\ Seqs(items)' = {}
      BY <1>4, <2>1, EmptySeq, SeqsOfNothing DEF Seqs
    <3>2. Cardinality({}) = 0
      BY FS_EmptySet
    <3> QED BY <2>1, <3>1, <3>2 DEF Wanted, ReadIsComplete, Indices
  <2>8. WriteSentEverything' /\ SignalsItsEnd'
    BY <1>1, <1>2, <2>1 DEF IInv, Phase, Busy, SignalsItsEnd, WriteSentEverything
  <2> QED BY <2>4, <2>5, <2>6, <2>7, <2>8 DEF IInv
<1> QED BY <1>6, <1>7 DEF handleMissionCount

\* The item that was wanted last completes the list.
LEMMA ItemCompletes ==
  ASSUME IInv, NEW m \in toGcs, m.msg = "ITEM", transaction = "read", expectedAck = "item",
         m.seq \in toRead
  PROVE  LET list == Append(items, [seq |-> m.seq, item |-> FromVehicle(m.item)])
             rest == toRead \ {m.seq}
         IN  /\ list \in Seq([seq : Nat, item : Item])
             /\ Cardinality(Seqs(list)) = Len(list)
             /\ rest \cap Seqs(list) = {} /\ rest \cup Seqs(list) = Indices(readCount)
             /\ rest = {} => Deserved(FALSE, list)
<1> DEFINE e == [seq |-> m.seq, item |-> FromVehicle(m.item)]
<1> DEFINE list == Append(items, e)
<1> DEFINE rest == toRead \ {m.seq}
<1>1. items \in Seq([seq : Nat, item : Item]) /\ kind = "read"
  BY DEF IInv, Typed, Phase, Reading
<1>2. e \in [seq : Nat, item : Item] /\ e.seq = m.seq
  BY Shifting DEF IInv, Typed, FromVehicle
<1> HIDE DEF e
<1>3. list \in Seq([seq : Nat, item : Item]) /\ Len(list) = Len(items) + 1
  BY <1>1, <1>2, AppendProperties
<1>4. Seqs(list) = Seqs(items) \cup {m.seq}
  BY <1>1, <1>2, SeqsGrow
<1>5. /\ toRead \cap Seqs(items) = {} /\ Cardinality(Seqs(items)) = Len(items)
      /\ toRead \cup Seqs(items) = Indices(readCount)
  BY DEF IInv, Wanted, ReadIsComplete
<1>6. Cardinality(Seqs(list)) = Len(list)
  <2>1. Seqs(items) \subseteq 0..(readCount - 1) /\ readCount \in Nat
    BY <1>5 DEF IInv, TypeOK, Indices
  <2>2. IsFiniteSet(0..(readCount - 1))
    BY <2>1, FS_Interval
  <2>3. IsFiniteSet(Seqs(items))
    BY <2>1, <2>2, FS_Subset
  <2>4. m.seq \notin Seqs(items)
    BY <1>5
  <2>5. Cardinality(Seqs(items) \cup {m.seq}) = Cardinality(Seqs(items)) + 1
    BY <2>3, <2>4, FS_AddElement
  <2> QED BY <1>3, <1>4, <1>5, <2>5
<1>7. rest \cap Seqs(list) = {} /\ rest \cup Seqs(list) = Indices(readCount)
  BY <1>4, <1>5
<1> HIDE DEF list
<1>8. rest = {} => Deserved(FALSE, list)
  BY <1>1, <1>3, <1>6, <1>7 DEF Deserved, Complete
<1> QED BY <1>3, <1>6, <1>7, <1>8 DEF list, e

LEMMA ItemIInv ==
  ASSUME IInv, NEW m \in Arriving("ITEM"), handleMissionItem(m)
  PROVE  IInv'
<1> DEFINE e == [seq |-> m.seq, item |-> FromVehicle(m.item)]
<1> DEFINE list == Append(items, e)
<1> DEFINE rest == toRead \ {m.seq}
<1>1. m.type = "mission" /\ expectedAck = "item" /\ Handled
  BY DEF handleMissionItem
<1>2. m \in toGcs /\ m.msg = "ITEM" /\ transaction = "read" /\ kind = "read"
  BY <1>1, Arrived, Expected
<1>4. toRead \subseteq Nat
  BY DEF IInv, TypeOK
<1> HIDE DEF e
<1> USE DEF Continues, Handled, endVars, vehicleVars
<1>8. CASE Unrequested(m)
  <2> USE <1>8 DEF Unrequested, listVars
  <2>1. TypeOK'
    BY <1>1 DEF IInv, TypeOK, Acks
  <2>2. Typed'
    BY <1>1 DEF IInv, Typed
  <2>3. Phase'
    BY <1>1, <1>2 DEF IInv, Phase, Idle, Busy, Reading, Writing, Removing, Resuming
  <2>4. Wanted' /\ ReadIsComplete' /\ WriteSentEverything' /\ SignalsItsEnd'
    BY <1>1, <1>2 DEF IInv, Wanted, ReadIsComplete, WriteSentEverything, SignalsItsEnd, Seqs
  <2> QED BY <2>1, <2>2, <2>3, <2>4 DEF IInv
<1>9. CASE Requested(m)
  <2>1. m.seq \in toRead /\ retryCount' = 0 /\ retryCount' \in 0..(MaxRetry + 1)
    BY <1>9, ConstantsAssumption DEF Requested
  <2>2. /\ list \in Seq([seq : Nat, item : Item]) /\ Cardinality(Seqs(list)) = Len(list)
        /\ rest \cap Seqs(list) = {} /\ rest \cup Seqs(list) = Indices(readCount)
        /\ rest = {} => Deserved(FALSE, list)
    BY <1>1, <1>2, <2>1, ItemCompletes DEF e
  <2>5. CASE rest = {}
    <3>1. Finish(TRUE, FALSE, list, "none") /\ UNCHANGED <<readCount, sent, toVehicle>>
      BY <1>9, <2>5 DEF Requested, e
    <3> HIDE DEF list
    <3> QED BY <1>1, <1>2, <2>1, <2>2, <2>5, <3>1, FinishIInv DEF Acks
  <2>6. CASE rest # {}
    <3>1. /\ toRead' = rest /\ items' = list /\ RequestNext(rest) /\ Continues
          /\ UNCHANGED <<readCount, toWrite, writeItems, sent>>
      BY <1>9, <2>6 DEF Requested, e
    <3> HIDE DEF list
    <3>2. rest \subseteq Nat
      BY <1>4
    <3>3. PICK i \in rest : SendAndWait([msg |-> "REQUEST", seq |-> i], "item")
      BY <2>6, <3>1, <3>2, RequestsLeast
    <3>4. toVehicle' = toVehicle \cup {[msg |-> "REQUEST", seq |-> i]} /\ i \in Nat
      BY <3>2, <3>3 DEF SendAndWait
    <3>5. timer' = TRUE /\ expectedAck' = "item"
      BY <3>3 DEF SendAndWait
    <3>6. TypeOK'
      <4>1. \A n \in DOMAIN items' : items'[n].seq \in Nat
        BY <2>2, <3>1, ListTyped
      <4> QED BY <1>1, <2>1, <3>1, <3>5, <4>1 DEF IInv, TypeOK, Acks
    <3>7. Typed'
      BY <1>1, <2>2, <3>1, <3>4 DEF IInv, Typed
    <3>8. Phase'
      BY <1>1, <1>2, <2>6, <3>1, <3>5
         DEF IInv, Phase, Idle, Busy, Reading, Writing, Removing, Resuming
    <3>9. Wanted' /\ ReadIsComplete'
      <4>1. Seqs(items)' = Seqs(list)
        BY <3>1 DEF Seqs
      <4> QED BY <2>2, <3>1, <4>1 DEF Wanted, ReadIsComplete, Indices
    <3>10. WriteSentEverything' /\ SignalsItsEnd'
      BY <1>1, <1>2, <3>1 DEF IInv, Phase, Busy, WriteSentEverything, SignalsItsEnd
    <3> QED BY <3>6, <3>7, <3>8, <3>9, <3>10 DEF IInv
  <2> QED BY <2>5, <2>6
<1> QED BY <1>8, <1>9 DEF handleMissionItem

LEMMA FailIInv ==
  ASSUME IInv, transaction # "none", NEW ack \in Acks, Finish(FALSE, FALSE, items, ack),
         UNCHANGED <<retryCount, readCount, sent, toVehicle>>, Handled
  PROVE  IInv'
<1>1. retryCount' \in 0..(MaxRetry + 1)
  BY DEF IInv, TypeOK
<1> QED BY <1>1, FinishIInv

LEMMA RequestIInv ==
  ASSUME IInv, NEW m \in Arriving("REQUEST"), handleMissionRequest(m)
  PROVE  IInv'
<1>1. m.type = "mission" /\ expectedAck = "request" /\ Handled
  BY DEF handleMissionRequest
<1>2. m \in toGcs /\ m.msg = "REQUEST" /\ transaction = "write" /\ kind \in {"write", "resume"}
  BY <1>1, Arrived, Expected
<1>3. CASE OutOfRange(m)
  <2>1. Finish(FALSE, FALSE, items, "none") /\ UNCHANGED <<retryCount, readCount, sent, toVehicle>>
    BY <1>3 DEF OutOfRange, Fail
  <2> QED BY <1>1, <1>2, <2>1, FailIInv DEF Acks
<1>4. CASE InRange(m)
  <2> DEFINE answer == [msg |-> "ITEM", seq |-> m.seq, item |-> writeItems[m.seq + 1]]
  <2> USE DEF Continues, Handled, endVars, vehicleVars
  <2>1. writeItems \in Seq(Item) /\ Len(writeItems) \in Nat /\ m.seq \in Nat
    BY <1>2, LenProperties DEF IInv, Typed
  <2>2. m.seq \in Indices(Len(writeItems)) /\ m.seq + 1 \in 1..Len(writeItems)
    BY <1>4, <2>1 DEF InRange, Indices
  <2>3. writeItems[m.seq + 1] \in Item
    BY <2>1, <2>2, ElementOfSeq
  <2>4. /\ toWrite' = toWrite \ {m.seq} /\ sent' = sent \cup {m.seq}
        /\ toVehicle' = toVehicle \cup {answer} /\ expectedAck' = "request" /\ timer' = TRUE
        /\ Continues /\ UNCHANGED <<retryCount, toRead, readCount, items, writeItems>>
    BY <1>4 DEF InRange, SendAndWait
  <2>5. /\ answer.msg = "ITEM" /\ answer.seq = m.seq /\ answer.item \in Item
    BY <2>3
  <2> HIDE DEF answer
  <2>6. TypeOK'
    BY <1>1, <2>1, <2>4 DEF IInv, TypeOK, Acks
  <2>7. Typed'
    BY <1>1, <2>1, <2>4, <2>5 DEF IInv, Typed
  <2>8. Phase'
    BY <1>1, <1>2, <2>4 DEF IInv, Phase, Idle, Busy, Reading, Writing, Removing, Resuming
  <2>9. Wanted' /\ ReadIsComplete' /\ SignalsItsEnd'
    BY <1>1, <1>2, <2>4 DEF IInv, Phase, Busy, Wanted, ReadIsComplete, SignalsItsEnd
  <2>10. WriteSentEverything'
    <3>1. toWrite \cup sent = Indices(Len(writeItems)) /\ toWrite \cap sent = {}
      BY <1>2 DEF IInv, WriteSentEverything
    <3>2. toWrite' \cup sent' = Indices(Len(writeItems)) /\ toWrite' \cap sent' = {}
      BY <2>2, <2>4, <3>1
    <3>3. ~ok' /\ Indices(Len(writeItems))' = Indices(Len(writeItems))
      BY <1>2, <2>4 DEF IInv, Phase, Busy, Indices
    <3> QED BY <3>2, <3>3 DEF WriteSentEverything
  <2> QED BY <2>6, <2>7, <2>8, <2>9, <2>10 DEF IInv
<1> QED BY <1>3, <1>4 DEF handleMissionRequest

LEMMA AckIInv ==
  ASSUME IInv, NEW m \in Arriving("ACK"), handleMissionAck(m)
  PROVE  IInv'
<1>1. m.type = "mission" /\ Handled
  BY DEF handleMissionAck, Believed
<1>2. transaction # "none"
  BY <1>1, Arrived
<1>3. ASSUME NEW success \in BOOLEAN, NEW guided \in BOOLEAN, Ends(success, guided),
             guided => kind = "guided", success => Deserved(guided, items)
      PROVE  IInv'
  <2>1. Finish(success, guided, items, "none") /\ UNCHANGED <<readCount, sent, toVehicle>>
    BY <1>3 DEF Ends
  <2>2. retryCount' \in 0..(MaxRetry + 1) /\ "none" \in Acks
    BY <1>3 DEF Ends, IInv, TypeOK, Acks
  <2> QED BY <1>1, <1>2, <1>3, <2>1, <2>2, FinishIInv
<1>4. CASE AckDuringRead
  <2>1. Finish(FALSE, FALSE, items, "none") /\ UNCHANGED <<retryCount, readCount, sent, toVehicle>>
    BY <1>4 DEF AckDuringRead, Fail
  <2> QED BY <1>1, <1>2, <2>1, FailIInv DEF Acks
<1>5. CASE AckDuringWrite(m)
  <2>1. transaction = "write" /\ kind \in {"write", "resume"}
    BY <1>2, <1>5, Expected DEF AckDuringWrite
  <2>2. (m.result = "accepted" /\ toWrite = {}) => Deserved(FALSE, items)
    BY <2>1 DEF Deserved
  <2>3. Ends(m.result = "accepted" /\ toWrite = {}, FALSE)
    BY <1>5 DEF AckDuringWrite
  <2>4. (m.result = "accepted" /\ toWrite = {}) \in BOOLEAN
    OBVIOUS
  <2> QED BY <1>3, <2>2, <2>3, <2>4
<1>6. CASE AckOfClearAll(m)
  <2>1. transaction = "removeAll" /\ kind = "removeAll"
    BY <1>2, <1>6, Expected DEF AckOfClearAll
  <2>2. Deserved(FALSE, items)
    BY <2>1 DEF Deserved
  <2>3. Ends(m.result = "accepted", FALSE)
    BY <1>6 DEF AckOfClearAll
  <2> QED BY <1>3, <2>2, <2>3
<1>7. CASE AckOfGuided(m)
  <2>1. transaction = "write" /\ kind = "guided"
    BY <1>2, <1>7, Expected DEF AckOfGuided
  <2>2. Deserved(TRUE, items)
    BY <2>1 DEF Deserved
  <2>3. Ends(m.result = "accepted", TRUE)
    BY <1>7 DEF AckOfGuided
  <2> QED BY <1>3, <2>1, <2>2, <2>3
<1> QED BY <1>4, <1>5, <1>6, <1>7 DEF handleMissionAck

\* A retry sends again what it waits for; the lists it resets are empty by then.
LEMMA RetryIInv ==
  ASSUME IInv, transaction # "none", NEW m, SendAndWait(m, expectedAck),
         m.msg = "COUNT" => m.count \in Nat, m.msg = "REQUEST" => m.seq \in Nat,
         m.msg # "ITEM", ~Exhausted, retryCount' = retryCount + 1,
         Continues, UNCHANGED <<listVars, items, writeItems, sent>>, Handled
  PROVE  IInv'
<1> USE DEF SendAndWait, Continues, Handled, endVars, vehicleVars, listVars
<1>1. TypeOK'
  <2>1. retryCount' \in 0..(MaxRetry + 1)
    BY ConstantsAssumption DEF Exhausted, IInv, TypeOK
  <2> QED BY <2>1 DEF IInv, TypeOK
<1>2. Typed'
  BY DEF IInv, Typed
<1>3. Phase'
  BY DEF IInv, Phase, Idle, Busy, Reading, Writing, Removing, Resuming
<1>4. Wanted' /\ ReadIsComplete' /\ WriteSentEverything' /\ SignalsItsEnd'
  BY DEF IInv, Wanted, ReadIsComplete, WriteSentEverything, SignalsItsEnd, Seqs
<1> QED BY <1>1, <1>2, <1>3, <1>4 DEF IInv

LEMMA TimeoutIInv == ASSUME IInv, ackTimeout PROVE IInv'
<1>1. transaction # "none" /\ Handled
  BY DEF ackTimeout, IInv, Phase, Idle
<1>2. expectedAck \in Acks /\ toRead \subseteq Nat /\ Len(writeItems) \in Nat
  BY LenProperties DEF IInv, TypeOK, Typed
<1>3. CASE CountTimeout
  <2> DEFINE m == [msg |-> "REQUEST_LIST"]
  <2>1. /\ expectedAck = "count" /\ ~Exhausted /\ toRead' = {} /\ items' = <<>>
        /\ SendAndWait(m, expectedAck) /\ retryCount' = retryCount + 1
        /\ Continues /\ UNCHANGED <<readCount, toWrite, writeItems, sent>>
    BY <1>3 DEF CountTimeout, Resend
  <2>2. toRead = {} /\ items = <<>>
    BY <1>1, <2>1, Expected DEF IInv, Phase, Reading
  <2>3. UNCHANGED <<listVars, items, writeItems, sent>>
    BY <2>1, <2>2 DEF listVars
  <2>4. m.msg \notin {"COUNT", "REQUEST", "ITEM"}
    OBVIOUS
  <2> HIDE DEF m
  <2> QED BY <1>1, <2>1, <2>3, <2>4, RetryIInv
<1>4. CASE ItemTimeout
  <2>1. /\ expectedAck = "item" /\ ~Exhausted /\ retryCount' = retryCount + 1
        /\ RequestNext(toRead) /\ Continues
        /\ UNCHANGED <<listVars, items, writeItems, sent>>
    BY <1>4 DEF ItemTimeout
  <2>2. toRead # {}
    BY <1>1, <2>1, Expected DEF IInv, Phase, Reading
  <2>3. PICK i \in toRead : SendAndWait([msg |-> "REQUEST", seq |-> i], "item")
    BY <1>2, <2>1, <2>2, RequestsLeast
  <2> DEFINE m == [msg |-> "REQUEST", seq |-> i]
  <2>4. m.msg = "REQUEST" /\ m.seq \in Nat
    BY <1>2
  <2>5. SendAndWait(m, expectedAck)
    BY <2>1, <2>3
  <2> HIDE DEF m
  <2> QED BY <1>1, <2>1, <2>4, <2>5, RetryIInv
<1>5. CASE ClearAllTimeout
  <2> DEFINE m == [msg |-> "CLEAR_ALL"]
  <2>1. /\ ~Exhausted /\ SendAndWait(m, expectedAck) /\ retryCount' = retryCount + 1
        /\ Continues /\ UNCHANGED <<listVars, items, writeItems, sent>>
    BY <1>5 DEF ClearAllTimeout, Resend, listVars
  <2>2. m.msg \notin {"COUNT", "REQUEST", "ITEM"}
    OBVIOUS
  <2> HIDE DEF m
  <2> QED BY <1>1, <2>1, <2>2, RetryIInv
<1>6. CASE WriteCountTimeout
  <2> DEFINE m == [msg |-> "COUNT", count |-> Len(writeItems)]
  <2>1. /\ ~Exhausted /\ SendAndWait(m, expectedAck) /\ retryCount' = retryCount + 1
        /\ Continues /\ UNCHANGED <<listVars, items, writeItems, sent>>
    BY <1>6 DEF WriteCountTimeout, Resend, listVars
  <2>2. m.msg = "COUNT" /\ m.count \in Nat
    BY <1>2
  <2> HIDE DEF m
  <2> QED BY <1>1, <2>1, <2>2, RetryIInv
<1>7. CASE RetriesTimeout \/ FinalAckTimeout \/ ItemsLeftTimeout \/ GuidedTimeout
  <2>1. PICK ack \in Acks : /\ Finish(FALSE, FALSE, items, ack)
                            /\ UNCHANGED <<retryCount, readCount, sent, toVehicle>>
    BY <1>2, <1>7 DEF RetriesTimeout, FinalAckTimeout, ItemsLeftTimeout, GuidedTimeout,
                      GivesUp, Fail, Acks
  <2> QED BY <1>1, <2>1, FailIInv
<1> QED BY <1>3, <1>4, <1>5, <1>6, <1>7 DEF ackTimeout

LEMMA VehicleIInv == ASSUME IInv, NEW m \in toVehicle, Vehicle(m) PROVE IInv'
<1> USE DEF gcsVars, ackVars, listVars, endVars, historyVars
<1>1. UNCHANGED gcsVars
  BY DEF Vehicle
<1>2. /\ m.msg = "COUNT" => m.count \in Nat
      /\ m.msg = "REQUEST" => m.seq \in Nat
      /\ m.msg = "ITEM" => m.seq \in Nat /\ m.item \in Item
  BY DEF IInv, Typed
<1>3. /\ onboard \in Seq(Item) /\ Len(onboard) \in Nat
      /\ \A i \in 1..Len(onboard) : onboard[i] \in Item
  BY LenProperties, ElementOfSeq DEF IInv, Typed
<1>4. /\ upload \in [count : Nat, got : Seq(Item)] /\ upload.got \in Seq(Item)
      /\ Len(upload.got) \in Nat /\ (upload.count # 0 => Len(upload.got) < upload.count)
  BY LenProperties DEF IInv, Typed
<1>5. Len(<<>>) = 0 /\ <<>> \in Seq(Item)
  BY EmptySeq
<1> DEFINE Fine(a) == /\ a.msg = "COUNT" => a.count \in Nat
                      /\ a.msg = "REQUEST" => a.seq \in Nat
                      /\ a.msg = "ITEM" => a.seq \in Nat /\ a.item \in Item
<1> DEFINE Kept == /\ onboard' \in Seq(Item)
                   /\ upload' \in [count : Nat, got : Seq(Item)]
                   /\ upload'.count # 0 => Len(upload'.got) < upload'.count
                   /\ upload'.count = 0 => Len(upload'.got) = 0
<1>6. ASSUME NEW a, Fine(a), toGcs' = toGcs \cup {a}, Kept PROVE IInv'
  <2>1. TypeOK'
    <3>1. upload'.count \in Nat /\ upload'.got \in Seq(Item)
      BY <1>6
    <3>2. Len(upload'.got) \in Nat
      BY <3>1, LenProperties
    <3>3. Len(upload'.got) <= upload'.count
      BY <1>6, <3>1, <3>2
    <3> QED BY <1>1, <3>1, <3>3 DEF IInv, TypeOK
  <2>2. Typed'
    BY <1>1, <1>6 DEF IInv, Typed
  <2>3. Phase'
    BY <1>1 DEF IInv, Phase, Idle, Busy, Reading, Writing, Removing, Resuming
  <2>4. Wanted' /\ ReadIsComplete' /\ WriteSentEverything' /\ SignalsItsEnd'
    BY <1>1 DEF IInv, Wanted, ReadIsComplete, WriteSentEverything, SignalsItsEnd, Seqs
  <2> QED BY <2>1, <2>2, <2>3, <2>4 DEF IInv
<1>7. upload.count = 0 => Len(upload.got) = 0
  BY <1>4 DEF IInv, TypeOK
<1>8. UNCHANGED vehicleVars => Kept
  BY <1>3, <1>4, <1>7 DEF vehicleVars
<1>9. upload' = NoUpload /\ onboard' \in Seq(Item) => Kept
  BY <1>5 DEF NoUpload
<1>10. ASSUME NEW outcome, Ack(outcome), Kept PROVE IInv'
  <2> DEFINE a == [msg |-> "ACK", result |-> outcome, type |-> "mission"]
  <2>1. Fine(a) /\ toGcs' = toGcs \cup {a}
    BY <1>10 DEF Ack, Answer
  <2> HIDE DEF a, Fine, Kept
  <2> QED BY <1>6, <1>10, <2>1
<1>11. ASSUME NEW i \in Nat, Kept, Answer([msg |-> "REQUEST", seq |-> i, type |-> "mission"])
       PROVE  IInv'
  <2> DEFINE a == [msg |-> "REQUEST", seq |-> i, type |-> "mission"]
  <2>1. Fine(a) /\ toGcs' = toGcs \cup {a}
    BY <1>11 DEF Answer
  <2> HIDE DEF a, Fine, Kept
  <2> QED BY <1>6, <1>11, <2>1
<1>12. CASE VehicleList(m)
  <2> DEFINE a == [msg |-> "COUNT", count |-> Len(onboard), type |-> "mission"]
  <2>1. Fine(a) /\ toGcs' = toGcs \cup {a} /\ UNCHANGED vehicleVars
    BY <1>3, <1>12 DEF VehicleList, Answer
  <2> HIDE DEF a, Fine, Kept
  <2> QED BY <1>6, <1>8, <2>1
<1>13. CASE VehicleItem(m)
  <2>1. UNCHANGED vehicleVars /\ m.seq \in Nat
    BY <1>2, <1>13 DEF VehicleItem
  <2>2. CASE m.seq < Len(onboard)
    <3> DEFINE a == [msg |-> "ITEM", seq |-> m.seq, item |-> onboard[m.seq + 1],
                     type |-> "mission"]
    <3>1. m.seq + 1 \in 1..Len(onboard)
      BY <1>3, <2>1, <2>2
    <3>2. Fine(a) /\ toGcs' = toGcs \cup {a}
      BY <1>3, <1>13, <2>1, <2>2, <3>1 DEF VehicleItem, Answer
    <3> HIDE DEF a, Fine, Kept
    <3> QED BY <1>6, <1>8, <2>1, <3>2
  <2>3. CASE ~(m.seq < Len(onboard))
    <3>1. Ack("invalidSequence")
      BY <1>13, <2>3 DEF VehicleItem
    <3> HIDE DEF Fine, Kept
    <3> QED BY <1>8, <1>10, <2>1, <3>1
  <2> QED BY <2>2, <2>3
<1>14. CASE VehicleCount(m)
  <2>1. m.count \in Nat
    BY <1>2, <1>14 DEF VehicleCount
  <2>2. CASE m.count = 0
    <3>1. onboard' = <<>> /\ upload' = NoUpload /\ Ack("accepted")
      BY <1>14, <2>2 DEF VehicleCount
    <3> HIDE DEF Fine, Kept
    <3> QED BY <1>5, <1>9, <1>10, <3>1
  <2>3. CASE m.count # 0
    <3>1. /\ upload' = [count |-> m.count, got |-> <<>>] /\ UNCHANGED onboard
          /\ Answer([msg |-> "REQUEST", seq |-> 0, type |-> "mission"])
      BY <1>14, <2>3 DEF VehicleCount
    <3>2. Kept
      BY <1>3, <1>5, <2>1, <2>3, <3>1
    <3> HIDE DEF Fine, Kept
    <3> QED BY <1>11, <3>1, <3>2
  <2> QED BY <2>2, <2>3
<1>15. CASE VehicleReceives(m)
  <2> DEFINE got == Append(upload.got, m.item)
  <2>1. m.seq \in Nat /\ m.item \in Item /\ upload.count > 0 /\ m.seq = Len(upload.got)
    BY <1>2, <1>15 DEF VehicleReceives
  <2>2. got \in Seq(Item) /\ Len(got) = Len(upload.got) + 1
    BY <1>4, <2>1, AppendProperties
  <2>3. CASE Len(got) = upload.count
    <3>1. onboard' = got /\ upload' = NoUpload /\ Ack("accepted")
      BY <1>15, <2>3 DEF VehicleReceives
    <3> HIDE DEF Fine, Kept, got
    <3> QED BY <1>9, <1>10, <2>2, <3>1
  <2>4. CASE Len(got) # upload.count
    <3>1. /\ upload' = [upload EXCEPT !.got = got] /\ UNCHANGED onboard
          /\ Answer([msg |-> "REQUEST", seq |-> m.seq + 1, type |-> "mission"])
      BY <1>15, <2>4 DEF VehicleReceives
    <3> HIDE DEF got
    <3>2. upload'.count = upload.count /\ upload'.got = got /\ upload.count \in Nat
      BY <1>4, <3>1
    <3>3. upload' \in [count : Nat, got : Seq(Item)] /\ onboard' \in Seq(Item)
      BY <1>3, <1>4, <2>2, <3>1
    <3>4. Len(got) < upload.count /\ upload.count # 0
      BY <1>4, <2>1, <2>2, <2>4, <3>2
    <3>5. Kept
      BY <3>2, <3>3, <3>4
    <3> HIDE DEF Fine, Kept
    <3>6. m.seq + 1 \in Nat
      BY <2>1
    <3> QED BY <1>11, <3>1, <3>5, <3>6
  <2> QED BY <2>3, <2>4
<1>16. CASE VehicleClears(m)
  <2>1. onboard' = <<>> /\ upload' = NoUpload /\ Ack("accepted")
    BY <1>16 DEF VehicleClears
  <2> HIDE DEF Fine, Kept
  <2> QED BY <1>5, <1>9, <1>10, <2>1
<1>17. CASE VehicleGuided(m)
  <2>1. Ack("accepted") /\ UNCHANGED vehicleVars
    BY <1>17 DEF VehicleGuided
  <2> HIDE DEF Fine, Kept
  <2> QED BY <1>8, <1>10, <2>1
<1>18. CASE VehicleRefuses
  <2>1. upload' = NoUpload /\ Ack("error") /\ onboard' \in Seq(Item)
    BY <1>3, <1>18 DEF VehicleRefuses
  <2> HIDE DEF Fine, Kept
  <2> QED BY <1>9, <1>10, <2>1
<1> QED
  BY <1>12, <1>13, <1>14, <1>15, <1>16, <1>17, <1>18 DEF Vehicle

LEMMA StutterIInv == IInv /\ UNCHANGED vars => IInv'
<1> SUFFICES ASSUME IInv, UNCHANGED vars PROVE IInv'
  OBVIOUS
<1> USE DEF vars, ackVars, listVars, endVars, historyVars, vehicleVars
<1>1. TypeOK'
  BY DEF IInv, TypeOK
<1>2. Typed'
  BY DEF IInv, Typed
<1>3. Phase'
  BY DEF IInv, Phase, Idle, Busy, Reading, Writing, Removing, Resuming
<1>4. Wanted' /\ ReadIsComplete' /\ WriteSentEverything' /\ SignalsItsEnd'
  BY DEF IInv, Wanted, ReadIsComplete, WriteSentEverything, SignalsItsEnd, Seqs
<1> QED BY <1>1, <1>2, <1>3, <1>4 DEF IInv

LEMMA NextIInv == IInv /\ [Next]_vars => IInv'
BY CallsIInv, CountIInv, ItemIInv, RequestIInv, AckIInv, TimeoutIInv, VehicleIInv,
   StutterIInv DEF Next

LEMMA AlwaysIInv == Spec => []IInv
BY InitIInv, NextIInv, PTL DEF Spec

-----------------------------------------------------------------------------
(* The refinement *)

LEMMA AppendIsOneMore ==
  ASSUME NEW list \in Seq([seq : Nat, item : Item]), NEW e \in [seq : Nat, item : Item]
  PROVE  Transaction!OneMore(list, Append(list, e))
<1> DEFINE longer == Append(list, e)
<1> DEFINE begin == SubSeq(longer, 1, Len(list))
<1>1. /\ longer \in Seq([seq : Nat, item : Item]) /\ Len(list) \in Nat
      /\ Len(longer) = Len(list) + 1
      /\ \A i \in 1..Len(list) : longer[i] = list[i]
  BY AppendProperties, LenProperties
<1> HIDE DEF longer
<1>2. \A i \in 1..Len(list) : longer[i] \in [seq : Nat, item : Item]
  BY <1>1, ElementOfSeq
<1>3. /\ begin \in Seq([seq : Nat, item : Item]) /\ Len(begin) = Len(list)
      /\ \A i \in 1..Len(list) : begin[i] = longer[i]
  BY <1>1, <1>2, SubSeqProperties
<1> HIDE DEF begin
<1>4. begin = list
  BY <1>1, <1>3, SeqEqual
<1> QED BY <1>1, <1>4 DEF longer, begin, Transaction!OneMore

\* A transaction ends as the abstract one does.
LEMMA FinishImplements ==
  ASSUME IInv, transaction # "none", NEW success \in BOOLEAN, NEW guided \in BOOLEAN,
         NEW list, NEW ack, Finish(success, guided, list, ack), kind' = kind,
         guided => kind = "guided",
         success => Deserved(guided, list),
         success /\ transaction = "read" => list = items \/ Transaction!OneMore(items, list)
  PROVE  Transaction!End
<1> USE DEF Finish, FinishRead, FinishWrite, FinishGuided, FinishRemoveAll
<1>1. ok' = success /\ transaction' = "none"
  OBVIOUS
<1>2. writeItems' = <<>> /\ Numbered(writeItems)' = <<>>
  BY NumberedNothing DEF IInv, Phase, Reading, Writing, Removing, TypeOK, Transactions, Numbered
<1>3. CASE transaction = "read"
  <2>1. Transaction!EndRead
    BY <1>1, <1>3 DEF Transaction!EndRead
  <2> QED BY <1>1, <1>2, <2>1 DEF Transaction!End
<1>4. CASE transaction = "removeAll"
  <2>1. Transaction!EndOther
    BY <1>4 DEF Transaction!EndOther
  <2> QED BY <1>1, <1>2, <2>1 DEF Transaction!End
<1>5. CASE transaction = "write" /\ kind = "guided"
  <2>1. items' = items
    BY <1>5 DEF Deserved
  <2>2. Transaction!EndOther
    BY <1>5, <2>1 DEF Transaction!EndOther
  <2> QED BY <1>1, <1>2, <2>2 DEF Transaction!End
<1>6. CASE transaction = "write" /\ kind # "guided"
  <2>1. items' = IF success THEN Numbered(writeItems) ELSE items
    BY <1>6
  <2>2. Transaction!EndWrite
    BY <1>1, <1>6, <2>1 DEF Transaction!EndWrite
  <2> QED BY <1>1, <1>2, <2>2 DEF Transaction!End
<1> QED BY <1>3, <1>4, <1>5, <1>6 DEF IInv, TypeOK, Transactions

LEMMA FailImplements ==
  ASSUME IInv, transaction # "none", NEW ack, Finish(FALSE, FALSE, items, ack), Handled
  PROVE  Transaction!End
BY FinishImplements DEF Handled

\* What leaves the lists and the transaction alone.
LEMMA SameTransaction ==
  ASSUME UNCHANGED <<transaction, kind, items, writeItems, ok>>
  PROVE  UNCHANGED Transaction!vars
BY DEF Transaction!vars, Numbered

LEMMA CallsImplement == ASSUME IInv, Calls PROVE Transaction!Next
<1> USE DEF Begin
<1>1. ASSUME loadFromVehicle PROVE Transaction!Start("read")
  BY <1>1 DEF loadFromVehicle, Transaction!Start, Numbered
<1>2. ASSUME removeAll PROVE Transaction!Start("removeAll")
  BY <1>2 DEF removeAll, Transaction!Start, Numbered
<1>3. ASSUME writeArduPilotGuidedMissionItem PROVE Transaction!Start("guided")
  BY <1>3 DEF writeArduPilotGuidedMissionItem, Transaction!Start, Numbered
<1>4. ASSUME NEW plan \in Plans, writeMissionItems(plan) PROVE Transaction!Start("write")
  BY <1>4 DEF writeMissionItems, WriteWorker, Transaction!Start
<1>5. ASSUME NEW k \in 1..Len(items), generateResumeMission(k)
      PROVE  Transaction!Start("write")
  BY <1>5 DEF generateResumeMission, WriteWorker, Transaction!Start
<1> QED BY <1>1, <1>2, <1>3, <1>4, <1>5 DEF Calls, Transaction!Next

LEMMA CountImplements ==
  ASSUME IInv, NEW m \in Arriving("COUNT"), handleMissionCount(m)
  PROVE  Transaction!Next \/ UNCHANGED Transaction!vars
<1>1. m.type = "mission" /\ expectedAck = "count" /\ Handled
  BY DEF handleMissionCount
<1>2. transaction = "read" /\ kind = "read"
  BY <1>1, Arrived, Expected
<1>3. CASE Finish(TRUE, FALSE, items, "none")
  <2>1. Complete(items)
    <3>1. items = <<>>
      BY <1>1, <1>2 DEF IInv, Phase, Reading
    <3>2. Len(items) = 0 /\ Seqs(items) = {} /\ items \in Seq([seq : Nat, item : Item])
      BY <3>1, EmptySeq, SeqsOfNothing
    <3> QED BY <3>2, FS_EmptySet DEF Complete
  <2>2. Deserved(FALSE, items)
    BY <1>2, <2>1 DEF Deserved
  <2>3. Transaction!End
    BY <1>1, <1>2, <1>3, <2>2, FinishImplements DEF Handled
  <2> QED BY <2>3 DEF Transaction!Next
<1>4. CASE Continues /\ UNCHANGED <<toWrite, items, writeItems, sent>>
  BY <1>1, <1>4, SameTransaction DEF Continues, Handled, endVars
<1> QED BY <1>3, <1>4, Zenon DEF handleMissionCount

LEMMA ItemImplements ==
  ASSUME IInv, NEW m \in Arriving("ITEM"), handleMissionItem(m)
  PROVE  Transaction!Next \/ UNCHANGED Transaction!vars
<1> DEFINE e == [seq |-> m.seq, item |-> FromVehicle(m.item)]
<1> DEFINE list == Append(items, e)
<1>1. m.type = "mission" /\ expectedAck = "item" /\ Handled
  BY DEF handleMissionItem
<1>2. m \in toGcs /\ m.msg = "ITEM" /\ transaction = "read" /\ kind = "read"
  BY <1>1, Arrived, Expected
<1>3. items \in Seq([seq : Nat, item : Item]) /\ e \in [seq : Nat, item : Item]
  BY <1>2, Shifting DEF IInv, Typed, FromVehicle
<1> HIDE DEF e
<1>4. Transaction!OneMore(items, list)
  BY <1>3, AppendIsOneMore
<1>5. CASE Unrequested(m)
  BY <1>1, <1>5, SameTransaction DEF Unrequested, Continues, Handled, endVars
<1>6. CASE Requested(m) /\ toRead \ {m.seq} = {}
  <2>1. Finish(TRUE, FALSE, list, "none")
    BY <1>6 DEF Requested, e
  <2>2. Deserved(FALSE, list)
    BY <1>1, <1>2, <1>6, ItemCompletes DEF e, Requested
  <2> HIDE DEF list
  <2>3. Transaction!End
    BY <1>1, <1>2, <1>4, <2>1, <2>2, FinishImplements DEF Handled
  <2> QED BY <2>3 DEF Transaction!Next
<1>7. CASE Requested(m) /\ toRead \ {m.seq} # {}
  <2>1. items' = list /\ Continues /\ UNCHANGED writeItems
    BY <1>7 DEF Requested, e
  <2> HIDE DEF list
  <2>2. Transaction!Receive
    BY <1>1, <1>2, <1>4, <2>1 DEF Continues, Handled, endVars, Transaction!Receive, Numbered
  <2> QED BY <2>2 DEF Transaction!Next
<1> QED BY <1>5, <1>6, <1>7 DEF handleMissionItem

LEMMA RequestImplements ==
  ASSUME IInv, NEW m \in Arriving("REQUEST"), handleMissionRequest(m)
  PROVE  Transaction!Next \/ UNCHANGED Transaction!vars
<1>1. m.type = "mission" /\ Handled
  BY DEF handleMissionRequest
<1>2. transaction # "none"
  BY <1>1, Arrived
<1>3. CASE OutOfRange(m)
  BY <1>1, <1>2, <1>3, FailImplements DEF OutOfRange, Fail, Transaction!Next
<1>4. CASE InRange(m)
  BY <1>1, <1>4, SameTransaction DEF InRange, Continues, Handled, endVars
<1> QED BY <1>3, <1>4 DEF handleMissionRequest

LEMMA AckImplements ==
  ASSUME IInv, NEW m \in Arriving("ACK"), handleMissionAck(m)
  PROVE  Transaction!End
<1>1. m.type = "mission" /\ Handled /\ kind' = kind
  BY DEF handleMissionAck, Believed, Handled
<1>2. transaction # "none"
  BY <1>1, Arrived
<1>3. CASE AckDuringRead
  BY <1>1, <1>2, <1>3, FailImplements DEF AckDuringRead, Fail
<1>4. CASE AckDuringWrite(m)
  <2>1. transaction = "write" /\ kind \in {"write", "resume"}
    BY <1>2, <1>4, Expected DEF AckDuringWrite
  <2>2. (m.result = "accepted" /\ toWrite = {}) => Deserved(FALSE, items)
    BY <2>1 DEF Deserved
  <2>3. Finish(m.result = "accepted" /\ toWrite = {}, FALSE, items, "none")
    BY <1>4 DEF AckDuringWrite, Ends
  <2>4. (m.result = "accepted" /\ toWrite = {}) \in BOOLEAN
    OBVIOUS
  <2> QED BY <1>1, <1>2, <2>2, <2>3, <2>4, FinishImplements
<1>5. CASE AckOfClearAll(m)
  <2>1. Deserved(FALSE, items)
    BY <1>2, <1>5, Expected DEF AckOfClearAll, Deserved
  <2>2. Finish(m.result = "accepted", FALSE, items, "none")
    BY <1>5 DEF AckOfClearAll, Ends
  <2> QED BY <1>1, <1>2, <2>1, <2>2, FinishImplements
<1>6. CASE AckOfGuided(m)
  <2>1. Deserved(TRUE, items) /\ kind = "guided"
    BY <1>2, <1>6, Expected DEF AckOfGuided, Deserved
  <2>2. Finish(m.result = "accepted", TRUE, items, "none")
    BY <1>6 DEF AckOfGuided, Ends
  <2> QED BY <1>1, <1>2, <2>1, <2>2, FinishImplements
<1> QED BY <1>3, <1>4, <1>5, <1>6 DEF handleMissionAck

LEMMA TimeoutImplements ==
  ASSUME IInv, ackTimeout
  PROVE  Transaction!Next \/ UNCHANGED Transaction!vars
<1>1. transaction # "none" /\ Handled
  BY DEF ackTimeout, IInv, Phase, Idle
<1>2. CASE CountTimeout
  <2>1. expectedAck = "count" /\ items' = <<>> /\ Continues /\ UNCHANGED writeItems
    BY <1>2 DEF CountTimeout, Resend
  <2>2. items = <<>>
    BY <1>1, <2>1, Expected DEF IInv, Phase, Reading
  <2> QED BY <1>1, <2>1, <2>2, SameTransaction DEF Continues, Handled, endVars
<1>3. CASE ItemTimeout \/ ClearAllTimeout \/ WriteCountTimeout
  BY <1>1, <1>3, SameTransaction
     DEF ItemTimeout, ClearAllTimeout, WriteCountTimeout, Resend, Continues, Handled, endVars
<1>4. CASE RetriesTimeout \/ FinalAckTimeout \/ ItemsLeftTimeout \/ GuidedTimeout
  <2>1. \E ack : Finish(FALSE, FALSE, items, ack)
    BY <1>4 DEF RetriesTimeout, FinalAckTimeout, ItemsLeftTimeout, GuidedTimeout,
                GivesUp, Fail
  <2> QED BY <1>1, <2>1, FailImplements DEF Transaction!Next
<1> QED BY <1>2, <1>3, <1>4 DEF ackTimeout

LEMMA StepImplements == IInv /\ [Next]_vars => [Transaction!Next]_Transaction!vars
<1> SUFFICES ASSUME IInv, [Next]_vars
             PROVE  Transaction!Next \/ UNCHANGED Transaction!vars
  OBVIOUS
<1>1. ASSUME NEW m \in toVehicle, Vehicle(m) PROVE UNCHANGED Transaction!vars
  BY <1>1, SameTransaction DEF Vehicle, gcsVars, endVars, historyVars
<1>2. ASSUME UNCHANGED vars PROVE UNCHANGED Transaction!vars
  BY <1>2, SameTransaction DEF vars, endVars, historyVars
<1> QED
  BY <1>1, <1>2, CallsImplement, CountImplements, ItemImplements, RequestImplements,
     AckImplements, TimeoutImplements DEF Next, Transaction!Next

LEMMA InitImplements == Init => Transaction!Init
BY NumberedNothing DEF Init, Transaction!Init

-----------------------------------------------------------------------------
(* Agreement with the vehicle *)

FreshAgrees == ReadAgrees /\ WriteAgrees /\ RemoveAgrees

LEMMA FailAgrees ==
  ASSUME NEW ack, Finish(FALSE, FALSE, items, ack)
  PROVE  FreshAgrees'
BY DEF Finish, FreshAgrees, ReadAgrees, WriteAgrees, RemoveAgrees

LEMMA BeginAgrees ==
  ASSUME IInv, NEW t, NEW k, NEW ack, NEW m, Started(t, k, ack), ~setting.stale,
         Begin(t, k), BeginSending(m, ack),
         k = "read" => m.msg = "REQUEST_LIST" /\ items' = <<>>,
         k \in {"write", "resume"} => m.msg = "COUNT" /\ m.count = Len(writeItems'),
         k = "removeAll" => m.msg = "CLEAR_ALL" /\ items' = <<>>
  PROVE  FreshAgrees'
<1>1. /\ toVehicle' = {m} /\ toGcs' = {} /\ transaction' = t /\ kind' = k /\ ok' = FALSE
      /\ expectedAck' = ack /\ onboard' = onboard
  BY DEF Begin, BeginSending, vehicleVars
<1>2. Len(<<>>) = 0 /\ Len(onboard) \in Nat
  BY EmptySeq, LenProperties DEF IInv, Typed
<1>3. ReadAgrees'
  BY <1>1, <1>2 DEF ReadAgrees, Started
<1>4. WriteAgrees'
  BY <1>1 DEF WriteAgrees, Started, Uploaded
<1>5. RemoveAgrees'
  BY <1>1 DEF RemoveAgrees, Started
<1> QED BY <1>3, <1>4, <1>5 DEF FreshAgrees

LEMMA CallsAgree == ASSUME IInv, Calls, ~setting.stale PROVE FreshAgrees'
<1>1. ASSUME loadFromVehicle PROVE FreshAgrees'
  <2> DEFINE m == [msg |-> "REQUEST_LIST"]
  <2>1. Begin("read", "read") /\ BeginSending(m, "count") /\ items' = <<>>
    BY <1>1 DEF loadFromVehicle
  <2>2. Started("read", "read", "count") /\ m.msg = "REQUEST_LIST"
    BY DEF Started
  <2> HIDE DEF m
  <2> QED BY <2>1, <2>2, BeginAgrees
<1>2. ASSUME removeAll PROVE FreshAgrees'
  <2> DEFINE m == [msg |-> "CLEAR_ALL"]
  <2>1. Begin("removeAll", "removeAll") /\ BeginSending(m, "clearAll") /\ items' = <<>>
    BY <1>2 DEF removeAll
  <2>2. Started("removeAll", "removeAll", "clearAll") /\ m.msg = "CLEAR_ALL"
    BY DEF Started
  <2> HIDE DEF m
  <2> QED BY <2>1, <2>2, BeginAgrees
<1>3. ASSUME writeArduPilotGuidedMissionItem PROVE FreshAgrees'
  <2>1. Begin("write", "guided") /\ BeginSending([msg |-> "GUIDED"], "guided")
    BY <1>3 DEF writeArduPilotGuidedMissionItem
  <2>2. Started("write", "guided", "guided")
    BY DEF Started
  <2> QED BY <2>1, <2>2, BeginAgrees
<1>4. ASSUME NEW k \in {"write", "resume"}, NEW plan, Begin("write", k), WriteWorker(plan)
      PROVE  FreshAgrees'
  <2> DEFINE m == [msg |-> "COUNT", count |-> Len(plan)]
  <2>1. BeginSending(m, "request") /\ writeItems' = plan
    BY <1>4 DEF WriteWorker
  <2>2. Started("write", k, "request") /\ m.msg = "COUNT" /\ m.count = Len(plan)
    BY <1>4 DEF Started
  <2> HIDE DEF m
  <2> QED BY <1>4, <2>1, <2>2, BeginAgrees
<1>5. ASSUME NEW plan \in Plans, writeMissionItems(plan) PROVE FreshAgrees'
  BY <1>4, <1>5 DEF writeMissionItems
<1>6. ASSUME NEW k \in 1..Len(items), generateResumeMission(k) PROVE FreshAgrees'
  BY <1>4, <1>6 DEF generateResumeMission
<1> QED BY <1>1, <1>2, <1>3, <1>5, <1>6 DEF Calls

LEMMA CountAgrees ==
  ASSUME IInv, FreshAgrees, NEW m \in Arriving("COUNT"), handleMissionCount(m)
  PROVE  FreshAgrees'
<1>1. m.type = "mission" /\ expectedAck = "count" /\ Handled
  BY DEF handleMissionCount
<1>2. m \in toGcs /\ m.msg = "COUNT" /\ transaction = "read" /\ kind = "read"
  BY <1>1, Arrived, Expected
<1>3. m.count = Len(onboard) /\ Len(onboard) \in Nat /\ ReadAgrees
  BY <1>2, LenProperties DEF FreshAgrees, ReadAgrees, IInv, Typed
<1>4. items = <<>> /\ Len(items) = 0
  BY <1>1, <1>2, EmptySeq DEF IInv, Phase, Reading
<1>5. kind' = "read" /\ onboard' = onboard /\ toGcs' = toGcs /\ setting' = setting
  BY <1>1, <1>2 DEF Handled, vehicleVars
<1>6. WriteAgrees' /\ RemoveAgrees'
  BY <1>5 DEF WriteAgrees, RemoveAgrees
<1>7. CASE m.count = 0
  <2>1. ~(m.count > 0)
    BY <1>7
  <2>2. Finish(TRUE, FALSE, items, "none") /\ UNCHANGED <<readCount, sent, toVehicle>>
    BY <2>1, Zenon DEF handleMissionCount
  <2>3. items' = items /\ expectedAck' = "none" /\ toVehicle' = toVehicle
    BY <1>2, <2>2 DEF Finish, FinishRead, FinishRemoveAll, FinishWrite, FinishGuided
  <2>4. ReadAgrees'
    BY <1>2, <1>3, <1>4, <1>5, <1>7, <2>3 DEF ReadAgrees, FromVehicle, Shifted
  <2> QED BY <1>6, <2>4 DEF FreshAgrees
<1>8. CASE m.count # 0
  <2>1. /\ toRead' = Indices(m.count) /\ readCount' = m.count /\ RequestNext(Indices(m.count))
        /\ Continues /\ UNCHANGED <<toWrite, items, writeItems, sent>>
    BY <1>8, Zenon DEF handleMissionCount
  <2>2. Indices(m.count) = 0..(m.count - 1) /\ 0 \in Indices(m.count)
    BY <1>3, <1>8 DEF Indices
  <2>3. Indices(m.count) \subseteq Nat
    BY <2>2
  <2>4. PICK i \in Indices(m.count) :
            /\ \A j \in Indices(m.count) : i <= j
            /\ SendAndWait([msg |-> "REQUEST", seq |-> i], "item")
    BY <2>1, <2>2, <2>3, RequestsLeast
  <2>5. i = 0
    BY <2>2, <2>4
  <2>6. toVehicle' = toVehicle \cup {[msg |-> "REQUEST", seq |-> 0]} /\ ok' = ok /\ items' = items
    BY <2>1, <2>4, <2>5 DEF SendAndWait, Continues, endVars
  <2>7. ReadAgrees'
    <3>1. ~ok
      BY <1>2 DEF IInv, Phase, Busy
    <3> QED
      BY <1>2, <1>3, <1>4, <1>5, <2>1, <2>2, <2>6, <3>1 DEF ReadAgrees
  <2> QED BY <1>6, <2>7 DEF FreshAgrees
<1> QED BY <1>7, <1>8

LEMMA ItemAgrees ==
  ASSUME IInv, FreshAgrees, NEW m \in Arriving("ITEM"), handleMissionItem(m)
  PROVE  FreshAgrees'
<1> DEFINE e == [seq |-> m.seq, item |-> FromVehicle(m.item)]
<1> DEFINE list == Append(items, e)
<1>1. m.type = "mission" /\ expectedAck = "item" /\ Handled
  BY DEF handleMissionItem
<1>2. m \in toGcs /\ m.msg = "ITEM" /\ transaction = "read" /\ kind = "read" /\ ~ok
  BY <1>1, Arrived, Expected DEF IInv, Phase, Busy
<1>3. /\ ReadAgrees /\ m.seq <= Len(items) /\ m.seq < Len(onboard)
      /\ m.item = onboard[m.seq + 1]
      /\ readCount = Len(onboard) /\ toRead = Len(items)..(readCount - 1)
  BY <1>1, <1>2 DEF FreshAgrees, ReadAgrees
<1>4. /\ items \in Seq([seq : Nat, item : Item]) /\ Len(items) \in Nat
      /\ m.seq \in Nat /\ m.item \in Item /\ Len(onboard) \in Nat
  BY <1>2, LenProperties DEF IInv, Typed
<1>5. e \in [seq : Nat, item : Item]
  BY <1>4, Shifting DEF FromVehicle
<1>6. /\ kind' = "read" /\ onboard' = onboard /\ toGcs' = toGcs
      /\ \A x : FromVehicle(x)' = FromVehicle(x)
  BY <1>1, <1>2 DEF Handled, vehicleVars, FromVehicle, Shifted
<1>7. WriteAgrees' /\ RemoveAgrees'
  BY <1>6 DEF WriteAgrees, RemoveAgrees
<1>8. CASE Unrequested(m)
  <2>1. UNCHANGED <<transaction, ok, toVehicle, items, toRead, readCount, expectedAck>>
    BY <1>1, <1>8 DEF Unrequested, Continues, endVars, listVars
  <2>2. ReadAgrees'
    BY <1>2, <1>3, <1>6, <2>1 DEF ReadAgrees
  <2> QED BY <1>7, <2>2 DEF FreshAgrees
<1>9. CASE Requested(m)
  <2>1. m.seq = Len(items) /\ m.seq \in toRead
    BY <1>3, <1>4, <1>9 DEF Requested
  <2>2. e = [seq |-> Len(items), item |-> FromVehicle(onboard[Len(items) + 1])]
    BY <1>3, <2>1
  <2> HIDE DEF e
  <2>3. /\ Len(list) = Len(items) + 1 /\ list[Len(items) + 1] = e
        /\ \A i \in 1..Len(items) : list[i] = items[i]
    BY <1>4, <1>5, AppendProperties
  <2>4. \A i \in 1..Len(list) : list[i] = [seq |-> i - 1, item |-> FromVehicle(onboard[i])]
    <3> SUFFICES ASSUME NEW i \in 1..Len(list)
                 PROVE  list[i] = [seq |-> i - 1, item |-> FromVehicle(onboard[i])]
      OBVIOUS
    <3>1. CASE i = Len(items) + 1
      <4>1. i - 1 = Len(items)
        BY <1>4, <3>1
      <4> QED BY <2>2, <2>3, <3>1, <4>1
    <3>2. CASE i \in 1..Len(items)
      BY <1>2, <1>3, <2>3, <3>2 DEF ReadAgrees
    <3>3. i = Len(items) + 1 \/ i \in 1..Len(items)
      BY <1>4, <2>3
    <3> QED BY <3>1, <3>2, <3>3
  <2>5. toRead \ {m.seq} = Len(list)..(readCount - 1)
    BY <1>3, <1>4, <2>1, <2>3
  <2>6. /\ \A a \in toVehicle : \/ a.msg = "REQUEST_LIST"
                                \/ a.msg = "REQUEST" /\ a.seq <= Len(list)
        /\ \A a \in toGcs : a.msg = "COUNT" => a.count = Len(onboard)
        /\ \A a \in toGcs : a.msg = "ITEM" => /\ a.seq <= Len(list) /\ a.seq < Len(onboard)
                                              /\ a.item = onboard[a.seq + 1]
    <3>1. \A a \in toVehicle : a.msg = "REQUEST" => a.seq \in Nat /\ a.seq <= Len(items)
      BY <1>2, <1>3 DEF ReadAgrees, IInv, Typed
    <3>2. \A a \in toGcs : a.msg = "ITEM" => a.seq \in Nat /\ a.seq <= Len(items)
      BY <1>2, <1>3 DEF ReadAgrees, IInv, Typed
    <3>3. \A n \in Nat : n <= Len(items) => n <= Len(list)
      BY <1>4, <2>3
    <3> QED BY <1>2, <1>3, <3>1, <3>2, <3>3 DEF ReadAgrees
  <2>7. Len(list) <= Len(onboard)
    BY <1>3, <1>4, <2>1, <2>3
  <2>8. CASE toRead \ {m.seq} = {}
    <3>1. Finish(TRUE, FALSE, list, "none") /\ toVehicle' = toVehicle
      BY <1>9, <2>8 DEF Requested, e
    <3>2. items' = list /\ expectedAck' = "none"
      BY <1>2, <3>1 DEF Finish, FinishRead, FinishRemoveAll, FinishWrite, FinishGuided
    <3>3. Len(list) = Len(onboard)
      BY <1>3, <1>4, <2>3, <2>5, <2>7, <2>8
    <3> HIDE DEF list
    <3>4. ReadAgrees'
      BY <1>6, <2>4, <2>6, <2>7, <3>1, <3>2, <3>3 DEF ReadAgrees
    <3> QED BY <1>7, <3>4 DEF FreshAgrees
  <2>9. CASE toRead \ {m.seq} # {}
    <3>1. /\ toRead' = toRead \ {m.seq} /\ items' = list /\ RequestNext(toRead \ {m.seq})
          /\ Continues /\ readCount' = readCount
      BY <1>9, <2>9 DEF Requested, e
    <3>2. toRead \ {m.seq} \subseteq Nat
      BY <1>3, <1>4
    <3>3. PICK i \in toRead \ {m.seq} :
              /\ \A j \in toRead \ {m.seq} : i <= j
              /\ SendAndWait([msg |-> "REQUEST", seq |-> i], "item")
      BY <2>9, <3>1, <3>2, RequestsLeast
    <3>4. i <= Len(list)
      <4>1. Len(list) \in Nat /\ i \in Len(list)..(readCount - 1) /\ readCount \in Nat
        BY <1>3, <1>4, <2>3, <2>5
      <4>2. Len(list) \in toRead \ {m.seq}
        BY <2>5, <4>1
      <4> QED BY <3>3, <4>2
    <3>5. toVehicle' = toVehicle \cup {[msg |-> "REQUEST", seq |-> i]} /\ ok' = ok
      BY <3>1, <3>3 DEF SendAndWait, Continues, endVars
    <3> HIDE DEF list
    <3>6. ReadAgrees'
      BY <1>2, <1>3, <1>6, <2>4, <2>5, <2>6, <2>7, <3>1, <3>4, <3>5 DEF ReadAgrees
    <3> QED BY <1>7, <3>6 DEF FreshAgrees
  <2> QED BY <2>8, <2>9
<1> QED BY <1>8, <1>9 DEF handleMissionItem

LEMMA RequestAgrees ==
  ASSUME IInv, FreshAgrees, NEW m \in Arriving("REQUEST"), handleMissionRequest(m)
  PROVE  FreshAgrees'
<1>1. m.type = "mission" /\ expectedAck = "request" /\ Handled
  BY DEF handleMissionRequest
<1>2. /\ m \in toGcs /\ m.msg = "REQUEST" /\ transaction = "write"
      /\ kind \in {"write", "resume"} /\ ~ok
  BY <1>1, Arrived, Expected DEF IInv, Phase, Busy
<1>3. CASE OutOfRange(m)
  BY <1>3, FailAgrees DEF OutOfRange, Fail
<1>4. CASE InRange(m)
  <2> DEFINE answer == [msg |-> "ITEM", seq |-> m.seq, item |-> writeItems[m.seq + 1]]
  <2>1. /\ toVehicle' = toVehicle \cup {answer}
        /\ UNCHANGED <<transaction, kind, ok, writeItems, toGcs, onboard, upload>>
    BY <1>1, <1>4 DEF InRange, SendAndWait, Continues, Handled, endVars, vehicleVars
  <2>2. Len(writeItems) \in Nat /\ m.seq \in Nat
    BY <1>2, LenProperties DEF IInv, Typed
  <2>3. m.seq < Len(writeItems)
    BY <1>4, <2>2 DEF InRange
  <2>4. /\ answer.msg = "ITEM" /\ answer.seq < Len(writeItems)
        /\ answer.item = writeItems[answer.seq + 1]
    BY <2>3
  <2> HIDE DEF answer
  <2>5. Uploaded = writeItems /\ Uploaded' = writeItems
    BY <1>2, <2>1 DEF Uploaded
  <2>6. WriteAgrees
    BY DEF FreshAgrees
  <2>7. /\ \A a \in toVehicle : \/ a.msg = "COUNT" /\ a.count = Len(writeItems)
                                \/ /\ a.msg = "ITEM" /\ a.seq < Len(writeItems)
                                   /\ a.item = writeItems[a.seq + 1]
        /\ \/ upload.count = 0
           \/ /\ upload.count = Len(writeItems)
              /\ \A i \in 1..Len(upload.got) : upload.got[i] = writeItems[i]
        /\ \A a \in toGcs : a.msg = "ACK" /\ a.result = "accepted" => onboard = writeItems
    BY <1>2, <2>5, <2>6 DEF WriteAgrees
  <2>8. WriteAgrees'
    BY <1>2, <2>1, <2>4, <2>5, <2>7 DEF WriteAgrees
  <2>9. ReadAgrees' /\ RemoveAgrees'
    BY <1>2, <2>1 DEF ReadAgrees, RemoveAgrees
  <2> QED BY <2>8, <2>9 DEF FreshAgrees
<1> QED BY <1>3, <1>4 DEF handleMissionRequest

LEMMA AckAgrees ==
  ASSUME IInv, FreshAgrees, NEW m \in Arriving("ACK"), handleMissionAck(m)
  PROVE  FreshAgrees'
<1>1. m.type = "mission" /\ Handled
  BY DEF handleMissionAck, Believed
<1>2. m \in toGcs /\ m.msg = "ACK" /\ transaction # "none"
  BY <1>1, Arrived
<1>3. UNCHANGED <<kind, toGcs, onboard, upload>>
  BY <1>1 DEF Handled, vehicleVars
<1>4. ASSUME NEW success \in BOOLEAN, ~success, Ends(success, FALSE) PROVE FreshAgrees'
  <2>1. Finish(FALSE, FALSE, items, "none")
    BY <1>4 DEF Ends
  <2> QED BY <2>1, FailAgrees
<1>5. CASE AckDuringRead
  BY <1>5, FailAgrees DEF AckDuringRead, Fail
<1>6. CASE AckDuringWrite(m)
  <2>1. transaction = "write" /\ kind \in {"write", "resume"}
    BY <1>2, <1>6, Expected DEF AckDuringWrite
  <2>2. CASE m.result = "accepted" /\ toWrite = {}
    <3>1. Ends(TRUE, FALSE)
      BY <1>6, <2>2 DEF AckDuringWrite
    <3>2. items' = Numbered(writeItems) /\ transaction' = "none" /\ toVehicle' = toVehicle
      BY <2>1, <3>1 DEF Ends, Finish, FinishRead, FinishRemoveAll, FinishWrite, FinishGuided
    <3>3. writeItems \in Seq(Item) /\ Len(writeItems) \in Nat
      BY LenProperties DEF IInv, Typed
    <3>4. Uploaded' = writeItems
      <4>1. Uploaded' = [i \in 1..Len(items') |-> items'[i].item]
        BY <3>2 DEF Uploaded
      <4>2. Uploaded' = [i \in 1..Len(writeItems) |-> writeItems[i]]
        <5>1. Len(items') = Len(writeItems)
          BY <3>2, <3>3, Numbering
        <5>2. \A i \in 1..Len(writeItems) :
                 Numbered(writeItems)[i] = [seq |-> i - 1, item |-> writeItems[i]]
          BY <3>3, Numbering
        <5>3. ASSUME NEW i \in 1..Len(writeItems)
              PROVE  Numbered(writeItems)[i].item = writeItems[i]
          <6>1. Numbered(writeItems)[i] = [seq |-> i - 1, item |-> writeItems[i]]
            BY <5>2
          <6> QED BY <6>1
        <5>4. Uploaded' = [i \in 1..Len(writeItems) |-> Numbered(writeItems)[i].item]
          BY <3>2, <4>1, <5>1
        <5> QED BY <5>3, <5>4
      <4>3. writeItems = [i \in 1..Len(writeItems) |-> writeItems[i]]
        BY <3>3, LenProperties
      <4> QED BY <4>2, <4>3
    <3>5. Uploaded = writeItems /\ WriteAgrees
      BY <2>1 DEF Uploaded, FreshAgrees
    <3>6. onboard = writeItems
      BY <1>2, <2>1, <2>2, <3>5 DEF WriteAgrees
    <3>7. WriteAgrees'
      BY <1>3, <2>1, <3>2, <3>4, <3>5, <3>6 DEF WriteAgrees, Numbered
    <3>8. ReadAgrees' /\ RemoveAgrees'
      BY <1>3, <2>1 DEF ReadAgrees, RemoveAgrees
    <3> QED BY <3>7, <3>8 DEF FreshAgrees
  <2>3. CASE ~(m.result = "accepted" /\ toWrite = {})
    <3>1. Ends(FALSE, FALSE)
      BY <1>6, <2>3 DEF AckDuringWrite
    <3> QED BY <1>4, <3>1
  <2> QED BY <2>2, <2>3
<1>7. CASE AckOfClearAll(m)
  <2>1. transaction = "removeAll" /\ kind = "removeAll"
    BY <1>2, <1>7, Expected DEF AckOfClearAll
  <2>2. CASE m.result = "accepted"
    <3>1. Ends(TRUE, FALSE)
      BY <1>7, <2>2 DEF AckOfClearAll
    <3>2. items' = items /\ transaction' = "none" /\ toVehicle' = toVehicle
      BY <2>1, <3>1 DEF Ends, Finish, FinishRead, FinishRemoveAll, FinishWrite, FinishGuided
    <3>3. RemoveAgrees'
      BY <1>2, <1>3, <2>1, <2>2, <3>2 DEF FreshAgrees, RemoveAgrees
    <3>4. ReadAgrees' /\ WriteAgrees'
      BY <1>3, <2>1 DEF ReadAgrees, WriteAgrees
    <3> QED BY <3>3, <3>4 DEF FreshAgrees
  <2>3. CASE m.result # "accepted"
    <3>1. Ends(FALSE, FALSE)
      BY <1>7, <2>3 DEF AckOfClearAll
    <3> QED BY <1>4, <3>1
  <2> QED BY <2>2, <2>3
<1>8. CASE AckOfGuided(m)
  <2>1. kind = "guided"
    BY <1>2, <1>8, Expected DEF AckOfGuided
  <2> QED BY <1>3, <2>1 DEF FreshAgrees, ReadAgrees, WriteAgrees, RemoveAgrees
<1> QED BY <1>5, <1>6, <1>7, <1>8 DEF handleMissionAck

LEMMA TimeoutAgrees == ASSUME IInv, FreshAgrees, ackTimeout PROVE FreshAgrees'
<1>1. transaction # "none" /\ ~ok /\ Handled
  BY DEF ackTimeout, IInv, Phase, Idle, Busy
<1>2. UNCHANGED <<kind, toGcs, onboard, upload, setting>>
  BY <1>1 DEF Handled, vehicleVars
<1>3. \A x : FromVehicle(x)' = FromVehicle(x)
  BY <1>2 DEF FromVehicle, Shifted
<1>4. CASE CountTimeout
  <2>1. /\ expectedAck = "count" /\ expectedAck' = "count" /\ items' = <<>>
        /\ toVehicle' = toVehicle \cup {[msg |-> "REQUEST_LIST"]}
        /\ transaction' = transaction /\ ok' = ok
    BY <1>4 DEF CountTimeout, Resend, SendAndWait, Continues, endVars
  <2>2. items = <<>> /\ kind = "read" /\ transaction = "read"
    BY <1>1, <2>1, Expected DEF IInv, Phase, Reading
  <2>3. ReadAgrees'
    BY <1>2, <1>3, <2>1, <2>2 DEF FreshAgrees, ReadAgrees
  <2>4. WriteAgrees' /\ RemoveAgrees'
    BY <1>2, <2>2 DEF WriteAgrees, RemoveAgrees
  <2> QED BY <2>3, <2>4 DEF FreshAgrees
<1>5. CASE ItemTimeout
  <2>1. /\ expectedAck = "item" /\ RequestNext(toRead)
        /\ UNCHANGED <<transaction, ok, items, toRead, readCount>>
    BY <1>5 DEF ItemTimeout, Continues, endVars, listVars
  <2>2. transaction = "read" /\ kind = "read" /\ toRead \subseteq Nat /\ toRead # {}
    BY <1>1, <2>1, Expected DEF IInv, TypeOK, Phase, Reading
  <2>3. PICK i \in toRead : /\ \A j \in toRead : i <= j
                            /\ SendAndWait([msg |-> "REQUEST", seq |-> i], "item")
    BY <2>1, <2>2, RequestsLeast
  <2>4. ReadAgrees /\ toRead = Len(items)..(readCount - 1) /\ Len(items) \in Nat
    BY <2>1, <2>2, LenProperties DEF FreshAgrees, ReadAgrees, IInv, Typed
  <2>5. i <= Len(items)
    <3>1. readCount \in Nat
      BY DEF IInv, TypeOK
    <3>2. i \in Len(items)..(readCount - 1)
      BY <2>4
    <3>3. Len(items) \in toRead
      BY <2>4, <3>1, <3>2
    <3> QED BY <2>3, <3>3
  <2>6. toVehicle' = toVehicle \cup {[msg |-> "REQUEST", seq |-> i]} /\ expectedAck' = "item"
    BY <2>3 DEF SendAndWait
  <2>7. ReadAgrees'
    BY <1>2, <1>3, <2>1, <2>2, <2>4, <2>5, <2>6 DEF ReadAgrees
  <2>8. WriteAgrees' /\ RemoveAgrees'
    BY <1>2, <2>2 DEF WriteAgrees, RemoveAgrees
  <2> QED BY <2>7, <2>8 DEF FreshAgrees
<1>6. CASE ClearAllTimeout
  <2>1. /\ expectedAck = "clearAll" /\ toVehicle' = toVehicle \cup {[msg |-> "CLEAR_ALL"]}
        /\ UNCHANGED <<transaction, ok, items>>
    BY <1>6 DEF ClearAllTimeout, Resend, SendAndWait, Continues, endVars
  <2>2. kind = "removeAll" /\ transaction = "removeAll"
    BY <1>1, <2>1, Expected
  <2>3. RemoveAgrees'
    BY <1>2, <2>1, <2>2 DEF FreshAgrees, RemoveAgrees
  <2>4. ReadAgrees' /\ WriteAgrees'
    BY <1>2, <2>2 DEF ReadAgrees, WriteAgrees
  <2> QED BY <2>3, <2>4 DEF FreshAgrees
<1>7. CASE WriteCountTimeout
  <2> DEFINE again == [msg |-> "COUNT", count |-> Len(writeItems)]
  <2>1. /\ expectedAck = "request" /\ toVehicle' = toVehicle \cup {again}
        /\ UNCHANGED <<transaction, ok, items, writeItems>>
    BY <1>7 DEF WriteCountTimeout, Resend, SendAndWait, Continues, endVars
  <2>2. kind \in {"write", "resume"} /\ transaction = "write"
    BY <1>1, <2>1, Expected
  <2>3. again.msg = "COUNT" /\ again.count = Len(writeItems)
    OBVIOUS
  <2> HIDE DEF again
  <2>4. Uploaded = writeItems /\ Uploaded' = writeItems
    BY <2>1, <2>2 DEF Uploaded
  <2>5. (\E a \in toVehicle' : a.msg = "ITEM") => (\E a \in toVehicle : a.msg = "ITEM")
    BY <2>1, <2>3
  <2>6. WriteAgrees'
    BY <1>1, <1>2, <2>1, <2>2, <2>3, <2>4, <2>5 DEF FreshAgrees, WriteAgrees
  <2>7. ReadAgrees' /\ RemoveAgrees'
    BY <1>2, <2>2 DEF ReadAgrees, RemoveAgrees
  <2> QED BY <2>6, <2>7 DEF FreshAgrees
<1>8. CASE RetriesTimeout \/ FinalAckTimeout \/ ItemsLeftTimeout \/ GuidedTimeout
  BY <1>8, FailAgrees
     DEF RetriesTimeout, FinalAckTimeout, ItemsLeftTimeout, GuidedTimeout, GivesUp, Fail
<1> QED BY <1>4, <1>5, <1>6, <1>7, <1>8 DEF ackTimeout

\* The vehicle answers a download from a plan that stands still.
LEMMA VehicleReadAgrees ==
  ASSUME IInv, ReadAgrees, NEW m \in toVehicle, Vehicle(m),
         kind = "read" /\ (transaction = "read" \/ ok)
  PROVE  ReadAgrees'
<1> USE DEF gcsVars, ackVars, listVars, endVars, historyVars, vehicleVars
<1>1. UNCHANGED gcsVars /\ \A x : FromVehicle(x)' = FromVehicle(x)
  BY DEF Vehicle, FromVehicle, Shifted
<1>2. m.msg = "REQUEST_LIST" \/ (m.msg = "REQUEST" /\ m.seq <= Len(items))
  BY DEF ReadAgrees
<1>3. ASSUME NEW a, Answer(a), UNCHANGED onboard,
             a.msg = "COUNT" => a.count = Len(onboard),
             a.msg = "ITEM" => /\ a.seq <= Len(items) /\ a.seq < Len(onboard)
                               /\ a.item = onboard[a.seq + 1]
      PROVE  ReadAgrees'
  BY <1>1, <1>3 DEF Answer, ReadAgrees
<1>4. ASSUME NEW outcome, Ack(outcome), UNCHANGED onboard PROVE ReadAgrees'
  <2> DEFINE a == [msg |-> "ACK", result |-> outcome, type |-> "mission"]
  <2>1. Answer(a) /\ a.msg = "ACK"
    BY <1>4 DEF Ack
  <2> HIDE DEF a
  <2> QED BY <1>3, <1>4, <2>1
<1>5. CASE VehicleList(m)
  <2> DEFINE a == [msg |-> "COUNT", count |-> Len(onboard), type |-> "mission"]
  <2>1. Answer(a) /\ UNCHANGED onboard /\ a.msg = "COUNT" /\ a.count = Len(onboard)
    BY <1>5 DEF VehicleList
  <2> HIDE DEF a
  <2> QED BY <1>3, <2>1
<1>6. CASE VehicleItem(m) /\ m.seq < Len(onboard)
  <2> DEFINE a == [msg |-> "ITEM", seq |-> m.seq, item |-> onboard[m.seq + 1],
                   type |-> "mission"]
  <2>1. Answer(a) /\ UNCHANGED onboard
    BY <1>6 DEF VehicleItem
  <2>2. /\ a.msg = "ITEM" /\ a.seq <= Len(items) /\ a.seq < Len(onboard)
        /\ a.item = onboard[a.seq + 1]
    BY <1>2, <1>6 DEF VehicleItem
  <2> HIDE DEF a
  <2> QED BY <1>3, <2>1, <2>2
<1>7. CASE VehicleItem(m) /\ ~(m.seq < Len(onboard))
  <2>1. Ack("invalidSequence") /\ UNCHANGED onboard
    BY <1>7 DEF VehicleItem
  <2> QED BY <1>4, <2>1
<1>8. CASE VehicleRefuses
  BY <1>4, <1>8 DEF VehicleRefuses
<1> QED
  BY <1>2, <1>5, <1>6, <1>7, <1>8
     DEF Vehicle, VehicleCount, VehicleReceives, VehicleClears, VehicleGuided

\* What the vehicle takes over is the plan, or what it had.
LEMMA VehicleWriteAgrees ==
  ASSUME IInv, WriteAgrees, NEW m \in toVehicle, Vehicle(m),
         kind \in {"write", "resume"} /\ (transaction = "write" \/ ok)
  PROVE  WriteAgrees'
<1> DEFINE P == Uploaded
<1> DEFINE Current == \/ upload.count = 0
                      \/ /\ upload.count = Len(P)
                         /\ \A i \in 1..Len(upload.got) : upload.got[i] = P[i]
<1> USE DEF gcsVars, ackVars, listVars, endVars, historyVars
<1>1. UNCHANGED gcsVars /\ P' = P /\ Numbered(P)' = Numbered(P)
  BY DEF Vehicle, Uploaded, Numbered
<1>2. \/ m.msg = "COUNT" /\ m.count = Len(P)
      \/ m.msg = "ITEM" /\ m.seq < Len(P) /\ m.item = P[m.seq + 1]
  BY DEF WriteAgrees
<1>3. P \in Seq(Item) /\ Len(P) \in Nat
  <2>1. CASE transaction = "write"
    BY <2>1, LenProperties DEF Uploaded, IInv, Typed
  <2>2. CASE transaction # "write"
    BY <2>2, LenProperties DEF WriteAgrees, IInv, Typed
  <2> QED BY <2>1, <2>2
<1>4. /\ upload \in [count : Nat, got : Seq(Item)] /\ upload.got \in Seq(Item)
      /\ Len(upload.got) \in Nat
      /\ m.msg = "ITEM" => m.seq \in Nat /\ m.item \in Item
  BY LenProperties DEF IInv, Typed
<1>5. m.msg = "ITEM" => Current
  BY DEF WriteAgrees
<1> HIDE DEF P
<1>6. ASSUME NEW a, Answer(a), Current', onboard' = onboard \/ onboard' = P,
             a.msg = "ACK" /\ a.result = "accepted" => onboard' = P
      PROVE  WriteAgrees'
  <2>1. Uploaded = P /\ Uploaded' = P
    BY <1>1 DEF P
  <2>2. /\ \A b \in toVehicle' : \/ b.msg = "COUNT" /\ b.count = Len(P)
                                 \/ b.msg = "ITEM" /\ b.seq < Len(P) /\ b.item = P[b.seq + 1]
        /\ ok' => items' = Numbered(P)
    BY <1>1, <2>1 DEF WriteAgrees
  <2>3. \A b \in toGcs' : b.msg = "ACK" /\ b.result = "accepted" => onboard' = P
    BY <1>6, <2>1 DEF WriteAgrees, Answer
  <2>4. ok' => onboard' = P
    BY <1>1, <1>6, <2>1 DEF WriteAgrees
  <2>5. \/ upload'.count = 0
        \/ /\ upload'.count = Len(P)
           /\ \A i \in 1..Len(upload'.got) : upload'.got[i] = P[i]
    BY <1>1, <1>6
  <2> HIDE DEF Current
  <2>6. Numbered(Uploaded)' = Numbered(P)
    BY <1>1 DEF P
  <2> QED BY <2>1, <2>2, <2>3, <2>4, <2>5, <2>6 DEF WriteAgrees
<1>7. upload' = NoUpload => Current'
  BY DEF NoUpload
<1>8. ASSUME NEW outcome, Ack(outcome), upload' = NoUpload,
             onboard' = P \/ (onboard' = onboard /\ outcome # "accepted")
      PROVE  WriteAgrees'
  <2> DEFINE a == [msg |-> "ACK", result |-> outcome, type |-> "mission"]
  <2>1. Answer(a) /\ a.msg = "ACK" /\ a.result = outcome
    BY <1>8 DEF Ack
  <2> HIDE DEF a, Current
  <2> QED BY <1>6, <1>7, <1>8, <2>1
<1>9. ASSUME NEW i, Answer([msg |-> "REQUEST", seq |-> i, type |-> "mission"]),
             UNCHANGED onboard, Current'
      PROVE  WriteAgrees'
  <2> DEFINE a == [msg |-> "REQUEST", seq |-> i, type |-> "mission"]
  <2>1. Answer(a) /\ a.msg = "REQUEST"
    BY <1>9
  <2> HIDE DEF a, Current
  <2> QED BY <1>6, <1>9, <2>1
<1>10. CASE VehicleCount(m)
  <2>1. m.count = Len(P)
    BY <1>2, <1>10 DEF VehicleCount
  <2>2. CASE m.count = 0
    <3>1. onboard' = <<>> /\ upload' = NoUpload /\ Ack("accepted")
      BY <1>10, <2>2 DEF VehicleCount
    <3>2. P = <<>>
      BY <1>3, <2>1, <2>2, EmptySeq
    <3> HIDE DEF Current
    <3> QED BY <1>8, <3>1, <3>2
  <2>3. CASE m.count # 0
    <3>1. /\ upload' = [count |-> m.count, got |-> <<>>] /\ UNCHANGED onboard
          /\ Answer([msg |-> "REQUEST", seq |-> 0, type |-> "mission"])
      BY <1>10, <2>3 DEF VehicleCount
    <3>2. upload'.count = Len(P) /\ Len(upload'.got) = 0
      BY <2>1, <3>1, EmptySeq
    <3>3. Current'
      BY <1>1, <3>2
    <3> HIDE DEF Current
    <3> QED BY <1>9, <3>1, <3>3
  <2> QED BY <2>2, <2>3
<1>11. CASE VehicleReceives(m)
  <2> DEFINE got == Append(upload.got, m.item)
  <2>1. m.msg = "ITEM" /\ upload.count > 0 /\ m.seq = Len(upload.got)
    BY <1>11 DEF VehicleReceives
  <2>2. /\ upload.count = Len(P) /\ m.item = P[Len(upload.got) + 1]
        /\ \A i \in 1..Len(upload.got) : upload.got[i] = P[i]
    BY <1>2, <1>4, <1>5, <2>1
  <2>3. /\ got \in Seq(Item) /\ Len(got) = Len(upload.got) + 1
        /\ got[Len(upload.got) + 1] = m.item
        /\ \A i \in 1..Len(upload.got) : got[i] = upload.got[i]
    BY <1>4, <2>1, AppendProperties
  <2> HIDE DEF got
  <2>4. \A i \in 1..Len(got) : got[i] = P[i]
    <3>1. \A i \in 1..Len(got) : i = Len(upload.got) + 1 \/ i \in 1..Len(upload.got)
      BY <1>4, <2>3
    <3> QED BY <2>2, <2>3, <3>1
  <2>5. CASE Len(got) = upload.count
    <3>1. onboard' = got /\ upload' = NoUpload /\ Ack("accepted")
      BY <1>11, <2>5 DEF VehicleReceives, got
    <3>2. got = P
      BY <1>3, <2>2, <2>3, <2>4, <2>5, SeqEqual
    <3> HIDE DEF Current
    <3> QED BY <1>8, <3>1, <3>2
  <2>6. CASE Len(got) # upload.count
    <3>1. /\ upload' = [upload EXCEPT !.got = got] /\ UNCHANGED onboard
          /\ Answer([msg |-> "REQUEST", seq |-> m.seq + 1, type |-> "mission"])
      BY <1>11, <2>6 DEF VehicleReceives, got
    <3>2. upload'.count = upload.count /\ upload'.got = got
      BY <1>4, <3>1
    <3>3. Current'
      BY <1>1, <2>2, <2>4, <3>2
    <3> HIDE DEF Current
    <3> QED BY <1>9, <3>1, <3>3
  <2> QED BY <2>5, <2>6
<1>12. CASE VehicleRefuses
  <2>1. Ack("error") /\ upload' = NoUpload /\ onboard' = onboard
    BY <1>12 DEF VehicleRefuses
  <2> HIDE DEF Current
  <2> QED BY <1>8, <2>1
<1> HIDE DEF Current
<1> QED
  BY <1>2, <1>10, <1>11, <1>12
     DEF Vehicle, VehicleList, VehicleItem, VehicleClears, VehicleGuided

LEMMA VehicleRemoveAgrees ==
  ASSUME RemoveAgrees, NEW m \in toVehicle, Vehicle(m),
         kind = "removeAll" /\ (transaction = "removeAll" \/ ok)
  PROVE  RemoveAgrees'
<1> USE DEF gcsVars, ackVars, listVars, endVars, historyVars
<1>1. UNCHANGED gcsVars
  BY DEF Vehicle
<1>2. m.msg = "CLEAR_ALL"
  BY DEF RemoveAgrees
<1>3. CASE VehicleClears(m)
  BY <1>1, <1>3 DEF VehicleClears, Ack, Answer, RemoveAgrees
<1>4. CASE VehicleRefuses
  BY <1>1, <1>4 DEF VehicleRefuses, Ack, Answer, RemoveAgrees
<1> QED
  BY <1>2, <1>3, <1>4
     DEF Vehicle, VehicleList, VehicleItem, VehicleCount, VehicleReceives, VehicleGuided

LEMMA VehicleAgrees ==
  ASSUME IInv, FreshAgrees, NEW m \in toVehicle, Vehicle(m)
  PROVE  FreshAgrees'
<1>1. UNCHANGED <<kind, transaction, ok>>
  BY DEF Vehicle, gcsVars, endVars, historyVars
<1>2. ReadAgrees'
  BY <1>1, VehicleReadAgrees DEF FreshAgrees, ReadAgrees
<1>3. WriteAgrees'
  BY <1>1, VehicleWriteAgrees DEF FreshAgrees, WriteAgrees
<1>4. RemoveAgrees'
  BY <1>1, VehicleRemoveAgrees DEF FreshAgrees, RemoveAgrees
<1> QED BY <1>2, <1>3, <1>4 DEF FreshAgrees

LEMMA NextAgrees == IInv /\ Agrees /\ [Next]_vars => Agrees'
<1> SUFFICES ASSUME IInv, Agrees, [Next]_vars, ~setting'.stale PROVE FreshAgrees'
  BY DEF Agrees, FreshAgrees
<1>1. setting' = setting
  BY DEF Next, Calls, loadFromVehicle, removeAll, writeArduPilotGuidedMissionItem,
         writeMissionItems, generateResumeMission, Begin, handleMissionCount,
         handleMissionItem, handleMissionRequest, handleMissionAck, ackTimeout, Handled,
         Vehicle, gcsVars, vars
<1>2. FreshAgrees /\ ~setting.stale
  BY <1>1 DEF Agrees, FreshAgrees
<1>3. ASSUME UNCHANGED vars PROVE FreshAgrees'
  <2> USE DEF vars, ackVars, listVars, endVars, historyVars, vehicleVars
  <2>1. ReadAgrees'
    BY <1>2, <1>3 DEF FreshAgrees, ReadAgrees, FromVehicle, Shifted
  <2>2. WriteAgrees'
    <3>1. Uploaded' = Uploaded /\ Numbered(Uploaded)' = Numbered(Uploaded)
      BY <1>3 DEF Uploaded, Numbered
    <3> QED BY <1>2, <1>3, <3>1 DEF FreshAgrees, WriteAgrees
  <2>3. RemoveAgrees'
    BY <1>2, <1>3 DEF FreshAgrees, RemoveAgrees
  <2> QED BY <2>1, <2>2, <2>3 DEF FreshAgrees
<1> QED
  BY <1>2, <1>3, CallsAgree, CountAgrees, ItemAgrees, RequestAgrees, AckAgrees,
     TimeoutAgrees, VehicleAgrees DEF Next

LEMMA InitAgrees == Init => Agrees
BY DEF Init, Agrees, ReadAgrees, WriteAgrees, RemoveAgrees

LEMMA AlwaysAgrees == Spec => []Agrees
BY InitAgrees, AlwaysIInv, NextAgrees, PTL DEF Spec

\* A jump is where the two sides' numbers may differ.
LEMMA AgreementMatches ==
  ASSUME NoJumps \/ \A s \in Settings : s.sendHome, IInv, Agrees
  PROVE  FreshItemsMatchVehicle
<1> DEFINE received == [i \in 1..Len(onboard) |-> FromVehicle(onboard[i])]
<1> SUFFICES ASSUME ~setting.stale, transaction = "none", ok, kind # "guided"
             PROVE  items = Numbered(received)
  BY DEF FreshItemsMatchVehicle, ItemsMatchVehicle
<1>1. /\ onboard \in Seq(Item) /\ Len(onboard) \in Nat /\ DOMAIN onboard = 1..Len(onboard)
      /\ items \in Seq([seq : Nat, item : Item])
  BY LenProperties DEF IInv, Typed
<1>2. \A i \in 1..Len(onboard) : FromVehicle(onboard[i]) \in Item
  BY <1>1, ElementOfSeq, Shifting DEF FromVehicle
<1>3. received \in Seq(Item) /\ Len(received) = Len(onboard)
  BY <1>1, <1>2, IsSeq
<1>4. CASE kind = "read"
  <2>1. /\ Len(items) = Len(onboard)
        /\ \A i \in 1..Len(items) : items[i] = [seq |-> i - 1, item |-> FromVehicle(onboard[i])]
    BY <1>4 DEF Agrees, ReadAgrees
  <2>2. /\ Numbered(received) \in Seq([seq : Nat, item : Item])
        /\ Len(Numbered(received)) = Len(onboard)
        /\ \A i \in 1..Len(onboard) :
             Numbered(received)[i] = [seq |-> i - 1, item |-> FromVehicle(onboard[i])]
    BY <1>3, Numbering
  <2> HIDE DEF received
  <2> QED BY <1>1, <2>1, <2>2, SeqEqual
<1>5. CASE kind \in {"write", "resume"}
  <2>1. onboard = Uploaded /\ items = Numbered(Uploaded)
    BY <1>5 DEF Agrees, WriteAgrees
  <2>2. NoJumps \/ setting.sendHome
    BY DEF IInv, TypeOK
  <2>3. \A i \in 1..Len(onboard) : FromVehicle(onboard[i]) = onboard[i]
    BY <1>1, <2>2, ElementOfSeq, Shifting DEF FromVehicle
  <2>4. received = onboard
    BY <1>1, <2>3
  <2> QED BY <2>1, <2>4
<1>6. CASE kind = "removeAll"
  <2>1. onboard = <<>> /\ items = <<>>
    BY <1>6 DEF Agrees, RemoveAgrees
  <2>2. Len(received) = 0
    BY <1>3, <2>1, EmptySeq
  <2>3. received = <<>>
    BY <1>3, <2>2, EmptySeq
  <2> QED BY <2>1, <2>3, NumberedNothing
<1> QED BY <1>4, <1>5, <1>6 DEF IInv, TypeOK, Kinds, Phase

-----------------------------------------------------------------------------
(* The theorems *)

\* PlanManager.cc: the variables keep their types; in particular no index is wanted or
\* unsent that the plan does not have, and no message is repeated more than
\* _maxRetryCount + 1 times.
THEOREM TransfersTypeCorrect == Spec => []TypeOK
BY AlwaysIInv, PTL DEF IInv

\* _handleMissionItem: whatever is repeated, reordered or late, a download that succeeds
\* has each index exactly once.
THEOREM DownloadsComplete == Spec => []ReadIsComplete
BY AlwaysIInv, PTL DEF IInv

\* _handleMissionRequest, _handleMissionAck: an upload succeeds only when the vehicle has
\* been sent every item of the plan.
THEOREM UploadsComplete == Spec => []WriteSentEverything
BY AlwaysIInv, PTL DEF IInv

\* _finishTransaction: a transaction signals its end once, and by its own signal.
THEOREM TransactionsSignalled == Spec => []SignalsItsEnd
BY AlwaysIInv, PTL DEF IInv

\* PlanManager implements PlanTransaction: a transfer that fails or is refused, a message
\* that is repeated or lost, never leaves a partial list or replaces it.
THEOREM ManagerImplementsTransaction == Spec => ImplementsTransaction
BY InitImplements, AlwaysIInv, StepImplements, PTL
   DEF Spec, ImplementsTransaction, Transaction!Spec

\* "Set of mission items on vehicle": while no message outlives its transaction, a
\* transfer that succeeded leaves the same plan on both sides, in the same order; unless
\* a jump is planned or held and the firmware does not keep home.
THEOREM FreshTransfersAgree ==
  ASSUME NoJumps \/ \A s \in Settings : s.sendHome
  PROVE  Spec => []FreshItemsMatchVehicle
<1>1. IInv /\ Agrees => FreshItemsMatchVehicle
  BY AgreementMatches
<1> QED BY <1>1, AlwaysIInv, AlwaysAgrees, PTL

=============================================================================
