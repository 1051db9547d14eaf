------------------------ MODULE FTPExactness_proofs ------------------------
(***************************************************************************)
(* What FTPManager transfers is what was asked for, for every choice of    *)
(* the constants, every number of calls and every loss, repetition or      *)
(* overtaking, as long as no message outlives half of the 16-bit numbers   *)
(* (Timely) and every request finds a link.                                *)
(*                                                                         *)
(* Each handler is shown first to move the number forward by little and to *)
(* ask for what its stage wants (Turn, Asks).  From that follow, one on    *)
(* top of the other: Traffic, what numbers the messages on their way have; *)
(* Listing, that an answer which can be taken tells what is so; and        *)
(* Uploading and Downloading, how the vehicle's file and session match the *)
(* stage of the manager.  Downloads also assume that no block of a burst   *)
(* that was given up passes for one of the next burst (NoLeftover).        *)
(***************************************************************************)
EXTENDS FTPManager_proofs

-----------------------------------------------------------------------------
(* The age of a message, and the assumption about it *)

\* The numbers there are, and how many of them _mavlinkMessageReceived takes
\* for old ones (max / 2).
Wrap == 65536
Half == 32767

\* How many numbers ago `n` was the one expected: the answer to the request
\* made last has 0, that request 1, and the blocks of a burst that still come
\* have almost Wrap.
Behind(e, n) == Seq16(e - n)

Past(e, n) == Behind(e, n) <= Half
Near(e, n) == Past(e, n) \/ Behind(e, n) >= Wrap - Burst

Answers == Range(toGcs) \cup {vehicle.last}

\* The numbers on their way, and the one the vehicle answered last, are recent:
\* _mavlinkMessageReceived can tell an old one from a new one.
Timely ==
    /\ \A r \in Range(toVehicle) : Near(gcs.expected, r.seq)
    /\ \A m \in Answers : Near(gcs.expected, m.seq)

\* A burst is much shorter than the range of the numbers.
BurstsFit == 2 * Burst + 10 < Half

LEMMA BehindRange == \A e, n \in Numbers : Behind(e, n) \in Nat /\ Behind(e, n) < Wrap
  BY SMT DEF Behind, Seq16, Numbers, Wrap

LEMMA BehindZero == \A e, n \in Numbers : Behind(e, n) = 0 <=> e = n
  BY SMT DEF Behind, Seq16, Numbers

LEMMA BehindOne == \A e, n \in Numbers : Behind(e, n) = 1 <=> n = Seq16(e - 1)
  BY SMT DEF Behind, Seq16, Numbers

LEMMA ExpectedMoves ==
  \A e, n \in Numbers : \A d \in Nat : d < Half =>
      Behind(Seq16(e + d), n) = IF Behind(e, n) + d < Wrap THEN Behind(e, n) + d
                                ELSE Behind(e, n) + d - Wrap
  BY SMT DEF Behind, Seq16, Numbers, Half, Wrap

LEMMA NumberMoves ==
  \A e, n \in Numbers : \A k \in Nat : k < Half =>
      Behind(e, Seq16(n + k)) = IF Behind(e, n) >= k THEN Behind(e, n) - k
                                ELSE Behind(e, n) - k + Wrap
  BY SMT DEF Behind, Seq16, Numbers, Half, Wrap

LEMMA Halves == Half \in Nat /\ Wrap = Half + Half + 2
  BY SMT DEF Half, Wrap

LEMMA OldIsBehind ==
  ASSUME NEW g \in GcsType, NEW m \in Replies
  PROVE  IsOld(g, m) <=> Behind(g.expected, m.seq) >= 1 /\ Behind(g.expected, m.seq) <= Half
<1> DEFINE e == g.expected
           n == m.seq
<1>1. e \in Numbers /\ n \in Numbers
  BY DEF GcsType, Replies
<1>2. IsOld(g, m) <=> Seq16(e - 1 - n) < Half
  BY SMT DEF IsOld, Half
<1> HIDE DEF e, n
<1>5. e - n >= 1 \/ e - n < 1
  BY <1>1, SMT DEF Numbers
<1>6. Seq16(e - 1 - n) < Half <=> Behind(e, n) >= 1 /\ Behind(e, n) <= Half
  <2>1. ASSUME e - n >= 1
        PROVE  Seq16(e - 1 - n) < Half <=> Behind(e, n) >= 1 /\ Behind(e, n) <= Half
    BY <1>1, <2>1, SMT DEF Behind, Seq16, Numbers, Half
  <2>2. ASSUME e - n < 1
        PROVE  Seq16(e - 1 - n) < Half <=> Behind(e, n) >= 1 /\ Behind(e, n) <= Half
    BY <1>1, <2>2, SMT DEF Behind, Seq16, Numbers, Half
  <2> QED BY <1>5, <2>1, <2>2
<1> QED BY <1>2, <1>6 DEF e, n

LEMMA NumbersAdd ==
  /\ \A e \in Numbers : Seq16(e + 0) = e /\ Seq16(Seq16(e - 2) + 2) = e
  /\ \A e \in Numbers : Seq16(Seq16(e + 2) - 1) = Seq16(e + 1) /\ Seq16(e + 2) \in Numbers
  /\ \A e \in Numbers : \A a, b \in Nat : Seq16(Seq16(e + a) + b) = Seq16(e + (a + b))
<1>1. \A e \in Numbers : Seq16(e + 0) = e /\ Seq16(Seq16(e - 2) + 2) = e
  BY SMT DEF Seq16, Numbers
<1>2. \A e \in Numbers : Seq16(Seq16(e + 2) - 1) = Seq16(e + 1) /\ Seq16(e + 2) \in Numbers
  BY SMT DEF Seq16, Numbers
<1>3. \A e \in Numbers : \A a, b \in Nat : Seq16(Seq16(e + a) + b) = Seq16(e + (a + b))
  BY SMT DEF Seq16, Numbers
<1> QED BY <1>1, <1>2, <1>3

-----------------------------------------------------------------------------
(* What a request asks, and what a handler does with numbers and requests *)

OpcodeOf(g) ==
    CASE g.stage = "fill" -> "read"
      [] g.stage = "list" -> ListOpcode(g)
      [] g.stage \in {"terminate", "terminateUpload"} -> "terminate"
      [] OTHER -> g.stage

\* r is what the stage of g asks.
Asked(g, r) ==
    g.stage # "idle" =>
        /\ r.op = OpcodeOf(g)
        /\ g.stage = "open" => r.path = g.dl.path
        /\ g.stage = "write" => r.session = g.ul.session /\ r.offset = g.ul.sent
        /\ g.stage = "list" => r.path = g.ls.path /\ r.offset = g.ls.offset

\* h is g after a request, with a number that is d further.
Requested(g, h, d) ==
    h.unsent \/ /\ ~g.unsent /\ h.expected = Seq16(g.expected + d)
                /\ \E r \in Requests : h.out = <<r>> /\ r.seq = Seq16(h.expected - 1) /\ Asked(h, r)

SameQuestion(g, h) ==
    /\ h.stage = g.stage /\ h.machine = g.machine /\ h.ls = g.ls /\ h.dl.path = g.dl.path
    /\ h.ul.session = g.ul.session /\ h.ul.sent = g.ul.sent

\* Unless a request finds no link: the number grows by little, stays only if the
\* question does, and is 1 behind for at most the request made now.
Turn(g, h) ==
    h.unsent \/ /\ ~g.unsent
                /\ \E d \in Nat :
                      /\ d <= Burst + 3 /\ h.expected = Seq16(g.expected + d)
                      /\ d = 0 => h.stage = "idle" \/ SameQuestion(g, h)
                      /\ \/ h.out = <<>> /\ (d = 0 \/ h.stage = "burst")
                         \/ /\ h.stage # "idle"
                            /\ \E r \in Requests :
                                  h.out = <<r>> /\ r.seq = Seq16(h.expected - 1) /\ Asked(h, r)

LEMMA AskedAgain ==
  ASSUME NEW g, NEW h, SameFiles(g, h), h.stage = g.stage,
         NEW r \in Requests, NEW n \in Numbers, Asked(g, r)
  PROVE  [r EXCEPT !.seq = n] \in Requests /\ Asked(h, [r EXCEPT !.seq = n])
         /\ [r EXCEPT !.seq = n].seq = n
<1> DEFINE q == [r EXCEPT !.seq = n]
<1>1. q \in Requests /\ q.seq = n /\ q.op = r.op /\ q.path = r.path /\ q.session = r.session
      /\ q.offset = r.offset
  BY DEF Requests
<1> HIDE DEF q
<1>2. OpcodeOf(h) = OpcodeOf(g)
  BY DEF OpcodeOf, ListOpcode, SameFiles
<1>3. Asked(h, q)
  BY <1>1, <1>2 DEF Asked, SameFiles
<1> QED BY <1>1, <1>3 DEF q

LEMMA SendAsks ==
  ASSUME NEW g \in GcsType, NEW r \in Requests, Asked(g, r)
  PROVE  Requested(g, sendRequestExpectAck(g, r), 2)
<1> DEFINE n == Seq16(g.expected + 1)
           e == Seq16(g.expected + 2)
           q == [r EXCEPT !.seq = n]
           sent == [g EXCEPT !.timer = TRUE, !.expected = e, !.out = <<q>>]
           kept == [g EXCEPT !.timer = TRUE, !.unsent = TRUE]
<1>1. g.expected \in Numbers
  BY DEF GcsType
<1>2. n \in Numbers /\ Seq16(e - 1) = n /\ e \in Numbers
  BY <1>1, NumbersMove, NumbersAdd
<1>3. sendRequestExpectAck(g, r) = IF linked THEN sent ELSE kept
  BY DEF sendRequestExpectAck
<1>4. kept.unsent
  BY DEF GcsType
<1>5. ASSUME ~g.unsent
      PROVE  Requested(g, sent, 2)
  <2> HIDE DEF n, e
  <2>1. SameFiles(g, sent) /\ sent.stage = g.stage /\ sent.expected = e /\ sent.out = <<q>>
    BY DEF GcsType, SameFiles
  <2> HIDE DEF sent
  <2>2. q \in Requests /\ q.seq = n /\ Asked(sent, q)
    BY <1>2, <2>1, AskedAgain
  <2> HIDE DEF q
  <2>3. sent.expected = Seq16(g.expected + 2)
    BY <2>1 DEF e
  <2> QED BY <1>2, <1>5, <2>1, <2>2, <2>3 DEF Requested
<1>6. g.unsent => sent.unsent
  BY DEF GcsType
<1>7. Requested(g, kept, 2) /\ (g.unsent => Requested(g, sent, 2))
  BY <1>4, <1>6, Zenon DEF Requested
<1> HIDE DEF sent, kept
<1> QED BY <1>3, <1>5, <1>7, Zenon

\* A worker: the request of stage s, made first or again.
Asks(g, h, s, d) ==
    /\ h.machine = g.machine /\ h.call = g.call /\ h.signals = g.signals /\ h.waiting = g.waiting
    /\ h.orphan = g.orphan /\ h.stage = s /\ SameFiles(g, h) /\ h \in GcsType
    /\ s # "idle" /\ Requested(g, h, d)

LEMMA WorkerAsks ==
  ASSUME NEW g \in GcsType, NEW s \in Stages, s # "idle", NEW r \in Requests,
         Asked([g EXCEPT !.stage = s], r)
  PROVE  Asks(g, sendRequestExpectAck([g EXCEPT !.stage = s], r), s, 2)
<1> DEFINE k == [g EXCEPT !.stage = s]
           h == sendRequestExpectAck(k, r)
<1>1. k \in GcsType /\ k.expected = g.expected /\ k.unsent = g.unsent
  BY DEF GcsType
<1>2. Sends(g, h, s) /\ SameFiles(g, h)
  BY SendsAt
<1> HIDE DEF k
<1>3. Requested(k, h, 2)
  BY <1>1, SendAsks DEF k
<1> HIDE DEF h
<1>4. Requested(g, h, 2)
  BY <1>1, <1>3 DEF Requested
<1> QED BY <1>2, <1>4 DEF Asks, Sends, SameCall, h, k

LEMMA WorkerAsksAgain ==
  ASSUME NEW g \in GcsType, NEW s \in Stages, s # "idle", NEW r \in Requests,
         NEW firstRequest \in BOOLEAN,
         Asked([SameNumber(g, firstRequest) EXCEPT !.stage = s], r)
  PROVE  Asks(g, sendRequestExpectAck([SameNumber(g, firstRequest) EXCEPT !.stage = s], r), s,
              IF firstRequest THEN 2 ELSE 0)
<1> DEFINE k == SameNumber(g, firstRequest)
           h == sendRequestExpectAck([k EXCEPT !.stage = s], r)
<1>1. k \in GcsType /\ SameCall(g, k) /\ SameFiles(g, k)
  BY SameNumberDoes
<1>2. k.unsent = g.unsent /\ k.expected = IF firstRequest THEN g.expected ELSE Seq16(g.expected - 2)
  BY DEF SameNumber, GcsType
<1> HIDE DEF k
<1>3. Asks(k, h, s, 2)
  BY <1>1, WorkerAsks DEF k
<1> HIDE DEF h
<1>4. Requested(g, h, IF firstRequest THEN 2 ELSE 0)
  <2>1. CASE firstRequest
    BY <1>2, <1>3, <2>1 DEF Asks, Requested
  <2>2. CASE ~firstRequest
    <3>1. g.expected \in Numbers
      BY DEF GcsType
    <3>2. Seq16(k.expected + 2) = Seq16(g.expected + 0)
      BY <1>2, <2>2, <3>1, NumbersAdd
    <3> QED BY <1>2, <1>3, <2>2, <3>2 DEF Asks, Requested
  <2> QED BY <2>1, <2>2
<1>5. Asks(g, h, s, IF firstRequest THEN 2 ELSE 0)
  BY <1>1, <1>3, <1>4 DEF Asks, SameCall, SameFiles
<1> QED BY <1>5 DEF h, k

LEMMA RequestFields ==
  ASSUME NEW op, NEW n, NEW s, NEW o
  PROVE  /\ Request(op).op = op
         /\ Named(op, n).op = op /\ Named(op, n).path = n
         /\ InSession(op, s).op = op
         /\ At(op, s, o).op = op /\ At(op, s, o).session = s /\ At(op, s, o).offset = o
         /\ [Named(op, n) EXCEPT !.offset = o].op = op
         /\ [Named(op, n) EXCEPT !.offset = o].path = n
         /\ [Named(op, n) EXCEPT !.offset = o].offset = o
  BY DEF Request, Named, InSession, At

\* The stage at which g is put, and what else it holds, decide what is asked.
LEMMA StageAsks ==
  ASSUME NEW g \in GcsType, NEW s \in Stages
  PROVE  LET k == [g EXCEPT !.stage = s] IN
         /\ k \in GcsType /\ k.stage = s /\ SameFiles(g, k) /\ ListOpcode(k) = ListOpcode(g)
         /\ \A r : Asked(k, r) <=>
               (s # "idle" =>
                   /\ r.op = CASE s = "fill" -> "read"
                               [] s = "list" -> ListOpcode(g)
                               [] s \in {"terminate", "terminateUpload"} -> "terminate"
                               [] OTHER -> s
                   /\ s = "open" => r.path = g.dl.path
                   /\ s = "write" => r.session = g.ul.session /\ r.offset = g.ul.sent
                   /\ s = "list" => r.path = g.ls.path /\ r.offset = g.ls.offset)
<1> DEFINE k == [g EXCEPT !.stage = s]
<1>1. k \in GcsType /\ k.stage = s /\ SameFiles(g, k)
  BY AtStageDoes
<1> HIDE DEF k
<1>2. ListOpcode(k) = ListOpcode(g)
  BY <1>1 DEF ListOpcode, SameFiles
<1>3. k \in GcsType /\ k.stage = s /\ SameFiles(g, k) /\ ListOpcode(k) = ListOpcode(g)
      /\ \A r : Asked(k, r) <=>
               (s # "idle" =>
                   /\ r.op = CASE s = "fill" -> "read"
                               [] s = "list" -> ListOpcode(g)
                               [] s \in {"terminate", "terminateUpload"} -> "terminate"
                               [] OTHER -> s
                   /\ s = "open" => r.path = g.dl.path
                   /\ s = "write" => r.session = g.ul.session /\ r.offset = g.ul.sent
                   /\ s = "list" => r.path = g.ls.path /\ r.offset = g.ls.offset)
  BY <1>1, <1>2 DEF Asked, OpcodeOf, SameFiles
<1> QED BY <1>3 DEF k

LEMMA OpenAsks ==
  ASSUME NEW g \in GcsType
  PROVE  Asks(g, openFileROBegin(g), "open", 2)
<1> DEFINE r == Named("open", g.dl.path)
<1>1. r \in Requests /\ r.op = "open" /\ r.path = g.dl.path /\ "open" \in Stages
  <2>1. r \in Requests
    BY OwnFields, RequestTypes DEF Opcodes
  <2>2. r.op = "open" /\ r.path = g.dl.path
    BY RequestFields
  <2> QED BY <2>1, <2>2 DEF Stages
<1>2. openFileROBegin(g) = sendRequestExpectAck([g EXCEPT !.stage = "open"], r)
  BY DEF openFileROBegin
<1> HIDE DEF r
<1>3. Asked([g EXCEPT !.stage = "open"], r)
  BY <1>1, StageAsks
<1> QED BY <1>1, <1>2, <1>3, WorkerAsks

LEMMA ResetAsks ==
  ASSUME NEW g \in GcsType
  PROVE  Asks(g, resetSessionsBegin(g), "reset", 2)
<1> DEFINE r == Request("reset")
<1>1. r \in Requests /\ r.op = "reset" /\ "reset" \in Stages
  BY RequestTypes, RequestFields DEF Opcodes, Stages
<1>2. resetSessionsBegin(g) = sendRequestExpectAck([g EXCEPT !.stage = "reset"], r)
  BY DEF resetSessionsBegin
<1> HIDE DEF r
<1>3. Asked([g EXCEPT !.stage = "reset"], r)
  BY <1>1, StageAsks
<1> QED BY <1>1, <1>2, <1>3, WorkerAsks

LEMMA CreateAsks ==
  ASSUME NEW g \in GcsType
  PROVE  Asks(g, createFileBegin(g), "create", 2)
<1> DEFINE r == Request("create")
<1>1. r \in Requests /\ r.op = "create" /\ "create" \in Stages
  BY RequestTypes, RequestFields DEF Opcodes, Stages
<1>2. createFileBegin(g) = sendRequestExpectAck([g EXCEPT !.stage = "create"], r)
  BY DEF createFileBegin
<1> HIDE DEF r
<1>3. Asked([g EXCEPT !.stage = "create"], r)
  BY <1>1, StageAsks
<1> QED BY <1>1, <1>2, <1>3, WorkerAsks

LEMMA RemoveAsks ==
  ASSUME NEW g \in GcsType
  PROVE  Asks(g, deleteFileBegin(g), "remove", 2)
<1> DEFINE r == Request("remove")
<1>1. r \in Requests /\ r.op = "remove" /\ "remove" \in Stages
  BY RequestTypes, RequestFields DEF Opcodes, Stages
<1>2. deleteFileBegin(g) = sendRequestExpectAck([g EXCEPT !.stage = "remove"], r)
  BY DEF deleteFileBegin
<1> HIDE DEF r
<1>3. Asked([g EXCEPT !.stage = "remove"], r)
  BY <1>1, StageAsks
<1> QED BY <1>1, <1>2, <1>3, WorkerAsks

LEMMA TerminateAsks ==
  ASSUME NEW g \in GcsType
  PROVE  /\ Asks(g, terminateSessionBegin(g), "terminate", 2)
         /\ Asks(g, terminateUploadSessionBegin(g), "terminateUpload", 2)
<1> DEFINE r == InSession("terminate", g.dl.session)
           q == InSession("terminate", g.ul.session)
<1>1. /\ r \in Requests /\ r.op = "terminate" /\ q \in Requests /\ q.op = "terminate"
      /\ "terminate" \in Stages /\ "terminateUpload" \in Stages
  <2>1. r \in Requests /\ q \in Requests
    BY OwnFields, RequestTypes DEF Opcodes
  <2>2. r.op = "terminate" /\ q.op = "terminate"
    BY RequestFields
  <2> QED BY <2>1, <2>2 DEF Stages
<1>2. /\ terminateSessionBegin(g) = sendRequestExpectAck([g EXCEPT !.stage = "terminate"], r)
      /\ terminateUploadSessionBegin(g)
         = sendRequestExpectAck([g EXCEPT !.stage = "terminateUpload"], q)
  BY DEF terminateSessionBegin, terminateUploadSessionBegin
<1> HIDE DEF r, q
<1>3. Asked([g EXCEPT !.stage = "terminate"], r) /\ Asked([g EXCEPT !.stage = "terminateUpload"], q)
  BY <1>1, StageAsks
<1> QED BY <1>1, <1>2, <1>3, WorkerAsks

\* The numbers a worker goes on by.
Further(first) == IF first THEN 2 ELSE 0

LEMMA BurstAsks ==
  ASSUME NEW g \in GcsType, NEW first \in BOOLEAN
  PROVE  Asks(g, burstReadFileWorker(g, first), "burst", Further(first))
<1> DEFINE r == At("burst", g.dl.session, g.dl.offset)
           n == SameNumber(g, first)
<1>1. r \in Requests /\ r.op = "burst" /\ "burst" \in Stages
  <2>1. r \in Requests
    BY OwnFields, RequestTypes DEF Opcodes
  <2>2. r.op = "burst"
    BY RequestFields
  <2> QED BY <2>1, <2>2 DEF Stages
<1>2. burstReadFileWorker(g, first) = sendRequestExpectAck([n EXCEPT !.stage = "burst"], r)
  BY DEF burstReadFileWorker
<1>3. n \in GcsType
  BY SameNumberDoes
<1> HIDE DEF r
<1>4. Asked([n EXCEPT !.stage = "burst"], r)
  <2> HIDE DEF n
  <2> QED BY <1>1, <1>3, StageAsks
<1> QED BY <1>1, <1>2, <1>4, WorkerAsksAgain DEF Further

LEMMA ListAsks ==
  ASSUME NEW g \in GcsType, NEW first \in BOOLEAN
  PROVE  Asks(g, listDirectoryWorker(g, first), "list", Further(first))
<1> DEFINE r == [Named(ListOpcode(g), g.ls.path) EXCEPT !.offset = g.ls.offset]
           n == SameNumber(g, first)
<1>1. r \in Requests /\ r.op = ListOpcode(g) /\ r.path = g.ls.path /\ r.offset = g.ls.offset
      /\ "list" \in Stages
  <2>1. ListOpcode(g) \in Opcodes
    BY DEF ListOpcode, Opcodes
  <2>2. r \in Requests
    BY <2>1, OwnFields, RequestTypes
  <2>3. r.op = ListOpcode(g) /\ r.path = g.ls.path /\ r.offset = g.ls.offset
    BY RequestFields
  <2> QED BY <2>2, <2>3 DEF Stages
<1>2. listDirectoryWorker(g, first) = sendRequestExpectAck([n EXCEPT !.stage = "list"], r)
  BY DEF listDirectoryWorker
<1>3. n \in GcsType /\ SameFiles(g, n)
  BY SameNumberDoes
<1> HIDE DEF r
<1>4. Asked([n EXCEPT !.stage = "list"], r)
  <2> HIDE DEF n
  <2>1. ListOpcode(n) = ListOpcode(g) /\ n.ls = g.ls
    BY <1>3 DEF ListOpcode, SameFiles
  <2>2. r.op = ListOpcode(n) /\ r.path = n.ls.path /\ r.offset = n.ls.offset
    BY <1>1, <2>1
  <2> QED BY <1>1, <1>3, <2>2, StageAsks
<1> QED BY <1>1, <1>2, <1>4, WorkerAsksAgain DEF Further

\* The workers that change a transfer ask as g would with the change made.
LEMMA FillAsks ==
  ASSUME NEW g \in GcsType, NEW first \in BOOLEAN, g.dl.holes # <<>>
  PROVE  LET d == [g.dl EXCEPT !.offset = Head(g.dl.holes).offset]
             k == [g EXCEPT !.dl = d]
         IN  d \in DownloadType /\ Asks(k, fillMissingBlocksWorker(g, first), "fill", Further(first))
<1> DEFINE o == Head(g.dl.holes).offset
           d == [g.dl EXCEPT !.offset = o]
           k == [g EXCEPT !.dl = d]
           n == SameNumber(g, first)
           m == SameNumber(k, first)
           r == At("read", g.dl.session, o)
<1>1. o \in Nat
  <2>1. g.dl.holes \in Seq(Holes)
    BY OwnFields DEF DownloadType
  <2>2. Head(g.dl.holes) \in Holes
    BY <2>1, HeadTailProperties
  <2> QED BY <2>2 DEF Holes
<1>2. fillMissingBlocksWorker(g, first)
      = sendRequestExpectAck([n EXCEPT !.stage = "fill", !.dl.offset = o], r)
  BY DEF fillMissingBlocksWorker
<1> HIDE DEF o
<1>3. d \in DownloadType
  BY <1>1, OwnFields DEF DownloadType
<1>4. r \in Requests /\ r.op = "read" /\ "fill" \in Stages
  <2>1. r \in Requests
    BY <1>1, OwnFields, RequestTypes DEF Opcodes
  <2>2. r.op = "read"
    BY RequestFields
  <2> QED BY <2>1, <2>2 DEF Stages
<1> HIDE DEF r
<1>5. n \in GcsType /\ n.dl = g.dl
  BY SameNumberDoes DEF SameFiles
<1>6. k \in GcsType
  BY <1>3 DEF GcsType
<1>7. [n EXCEPT !.stage = "fill", !.dl.offset = o] = [m EXCEPT !.stage = "fill"]
  <2>1. m = [n EXCEPT !.dl = d]
    <3> HIDE DEF d
    <3> QED BY DEF SameNumber, GcsType
  <2>2. [n EXCEPT !.stage = "fill", !.dl.offset = o] = [n EXCEPT !.stage = "fill", !.dl = d]
    <3> HIDE DEF n
    <3> QED BY <1>5
  <2> HIDE DEF n, m, d
  <2> QED BY <1>5, <2>1, <2>2 DEF GcsType
<1>8. m \in GcsType
  BY <1>6, SameNumberDoes
<1>9. Asked([m EXCEPT !.stage = "fill"], r)
  <2> HIDE DEF m
  <2> QED BY <1>4, <1>8, StageAsks
<1> HIDE DEF k, n, d
<1>10. Asks(k, sendRequestExpectAck([m EXCEPT !.stage = "fill"], r), "fill", Further(first))
  BY <1>4, <1>6, <1>9, WorkerAsksAgain DEF Further
<1> QED BY <1>2, <1>3, <1>7, <1>10 DEF k, d, o

LEMMA WriteAsks ==
  ASSUME NEW g \in GcsType, NEW first \in BOOLEAN, g.ul.sent < g.ul.size
  PROVE  LET u == [g.ul EXCEPT !.chunk = 1]
             k == [g EXCEPT !.ul = u]
         IN  u \in UploadType /\ Asks(k, writeFileWorker(g, first), "write", Further(first))
<1> DEFINE u == [g.ul EXCEPT !.chunk = 1]
           k == [g EXCEPT !.ul = u]
           n == SameNumber(g, first)
           m == SameNumber(k, first)
           r == At("write", g.ul.session, g.ul.sent)
<1>1. ~(g.ul.sent >= g.ul.size)
  <2>1. g.ul.sent \in Nat /\ g.ul.size \in Nat
    BY OwnFields DEF UploadType
  <2> QED BY <2>1
<1>2. writeFileWorker(g, first) = sendRequestExpectAck([n EXCEPT !.stage = "write", !.ul.chunk = 1], r)
  BY <1>1 DEF writeFileWorker
<1>3. u \in UploadType /\ u.session = g.ul.session /\ u.sent = g.ul.sent
  BY OwnFields DEF UploadType
<1>4. r \in Requests /\ r.op = "write" /\ r.session = g.ul.session /\ r.offset = g.ul.sent
      /\ "write" \in Stages
  <2>1. r \in Requests
    BY OwnFields, RequestTypes DEF Opcodes
  <2>2. r.op = "write" /\ r.session = g.ul.session /\ r.offset = g.ul.sent
    BY RequestFields
  <2> QED BY <2>1, <2>2 DEF Stages
<1> HIDE DEF r
<1>5. n \in GcsType /\ n.ul = g.ul
  BY SameNumberDoes DEF SameFiles
<1>6. k \in GcsType /\ k.ul = u
  BY <1>3 DEF GcsType
<1>7. [n EXCEPT !.stage = "write", !.ul.chunk = 1] = [m EXCEPT !.stage = "write"]
  <2>1. m = [n EXCEPT !.ul = u]
    <3> HIDE DEF u
    <3> QED BY DEF SameNumber, GcsType
  <2>2. [n EXCEPT !.stage = "write", !.ul.chunk = 1] = [n EXCEPT !.stage = "write", !.ul = u]
    <3> HIDE DEF n
    <3> QED BY <1>5
  <2> HIDE DEF n, m, u
  <2> QED BY <1>5, <2>1, <2>2 DEF GcsType
<1>8. m \in GcsType /\ m.ul = u
  BY <1>6, SameNumberDoes DEF SameFiles
<1>9. Asked([m EXCEPT !.stage = "write"], r)
  <2> HIDE DEF m, u
  <2> QED BY <1>3, <1>4, <1>8, StageAsks
<1> HIDE DEF k, n, u
<1>10. Asks(k, sendRequestExpectAck([m EXCEPT !.stage = "write"], r), "write", Further(first))
  BY <1>4, <1>6, <1>9, WorkerAsksAgain DEF Further
<1> QED BY <1>2, <1>3, <1>7, <1>10 DEF k, u

-----------------------------------------------------------------------------
(* The end of a call, and the turns of the manager *)

Ended(g, h, kind, o) ==
    /\ h \in GcsType /\ h.machine = "none" /\ h.stage = "idle" /\ h.call = g.call
    /\ h.signals = Append(g.signals, <<kind, o>>) /\ h.waiting = g.waiting \ {kind}
    /\ h.expected = g.expected /\ h.out = g.out /\ h.unsent = g.unsent

LEMMA SignalEnds ==
  ASSUME NEW g \in GcsType, NEW k \in GcsType, NEW kind \in Operations, NEW o \in Outcomes,
         k.machine = "none", k.stage = "idle", k.call = g.call, k.signals = g.signals,
         k.waiting = g.waiting, k.expected = g.expected, k.out = g.out, k.unsent = g.unsent
  PROVE  Ended(g, Signal(k, kind, o), kind, o) /\ SameFiles(k, Signal(k, kind, o))
<1> DEFINE ss == Append(k.signals, <<kind, o>>)
           ww == k.waiting \ {kind}
           h == [k EXCEPT !.signals = ss, !.waiting = ww]
<1>1. ss \in Seq(Operations \X Outcomes) /\ ww \in SUBSET Operations
  <2>1. k.signals \in Seq(Operations \X Outcomes) /\ k.waiting \in SUBSET Operations
    BY DEF GcsType
  <2>2. ss \in Seq(Operations \X Outcomes)
    BY <2>1
  <2>3. ww \in SUBSET Operations
    BY <2>1
  <2> QED BY <2>2, <2>3
<1>2. Signal(k, kind, o) = h
  BY DEF Signal
<1>3. ss = Append(g.signals, <<kind, o>>) /\ ww = g.waiting \ {kind}
  OBVIOUS
<1> HIDE DEF ss, ww
<1>4. /\ h \in GcsType /\ h.machine = k.machine /\ h.stage = k.stage /\ h.call = k.call
      /\ h.waiting = ww /\ h.signals = ss /\ h.expected = k.expected /\ h.out = k.out
      /\ h.unsent = k.unsent /\ SameFiles(k, h)
  BY <1>1 DEF GcsType, SameFiles
<1> HIDE DEF h
<1> QED BY <1>2, <1>3, <1>4 DEF Ended

LEMMA IdleKeeps ==
  ASSUME NEW g \in GcsType
  PROVE  LET k == Idle(g) IN
         /\ k \in GcsType /\ k.machine = "none" /\ k.stage = "idle" /\ k.call = g.call
         /\ k.signals = g.signals /\ k.waiting = g.waiting /\ k.expected = g.expected
         /\ k.out = g.out /\ k.unsent = g.unsent /\ SameFiles(g, k)
  BY DEF Idle, GcsType, Machines, Stages, SameFiles

LEMMA DownloadEnded ==
  ASSUME NEW g \in GcsType, NEW o \in Outcomes
  PROVE  LET h == downloadComplete(g, o) IN
         /\ Ended(g, h, "download", o) /\ h.ul = g.ul /\ h.ls = g.ls
         /\ h.dl.path = g.dl.path /\ h.dl.checksize = g.dl.checksize
         /\ o = "ok" => h.dl.written = g.dl.written
<1> DEFINE i == Idle(g)
           d == [i.dl EXCEPT !.open = FALSE,
                             !.written = IF g.dl.open /\ o # "ok" THEN {} ELSE @]
           k == [i EXCEPT !.dl = d]
<1>1. /\ i \in GcsType /\ i.machine = "none" /\ i.stage = "idle" /\ i.call = g.call
      /\ i.signals = g.signals /\ i.waiting = g.waiting /\ i.expected = g.expected
      /\ i.out = g.out /\ i.unsent = g.unsent /\ SameFiles(g, i)
  BY IdleKeeps
<1>2. downloadComplete(g, o) = Signal(k, "download", o)
  BY DEF downloadComplete
<1> HIDE DEF i
<1>3. /\ d \in DownloadType /\ d.path = g.dl.path /\ d.checksize = g.dl.checksize
      /\ o = "ok" => d.written = g.dl.written
  <2>1. i.dl \in DownloadType /\ i.dl = g.dl
    BY <1>1, OwnFields DEF SameFiles
  <2> QED BY <2>1 DEF DownloadType
<1> HIDE DEF d
<1>4. /\ k \in GcsType /\ k.machine = "none" /\ k.stage = "idle" /\ k.call = g.call
      /\ k.signals = g.signals /\ k.waiting = g.waiting /\ k.expected = g.expected
      /\ k.out = g.out /\ k.unsent = g.unsent /\ k.ul = g.ul /\ k.ls = g.ls /\ k.dl = d
  BY <1>1, <1>3 DEF GcsType, SameFiles
<1> HIDE DEF k
<1>5. Ended(g, Signal(k, "download", o), "download", o) /\ SameFiles(k, Signal(k, "download", o))
  BY <1>4, SignalEnds DEF Operations
<1> QED BY <1>2, <1>3, <1>4, <1>5 DEF SameFiles

LEMMA ListEnded ==
  ASSUME NEW g \in GcsType, NEW o \in Outcomes
  PROVE  LET h == listDirectoryComplete(g, o) IN
         /\ Ended(g, h, "list", o) /\ h.ul = g.ul /\ h.dl = g.dl
         /\ o = "ok" => h.ls.entries = g.ls.entries
<1> DEFINE i == Idle(g)
           es == IF o = "ok" THEN g.ls.entries ELSE <<>>
           l == [NoList EXCEPT !.entries = es]
           k == [i EXCEPT !.ls = l]
<1>1. /\ i \in GcsType /\ i.machine = "none" /\ i.stage = "idle" /\ i.call = g.call
      /\ i.signals = g.signals /\ i.waiting = g.waiting /\ i.expected = g.expected
      /\ i.out = g.out /\ i.unsent = g.unsent /\ SameFiles(g, i)
  BY IdleKeeps
<1>2. listDirectoryComplete(g, o) = Signal(k, "list", o)
  BY DEF listDirectoryComplete
<1> HIDE DEF i
<1>3. es \in Seq(Nat) /\ (o = "ok" => es = g.ls.entries)
  <2>1. g.ls.entries \in Seq(Nat)
    BY OwnFields DEF ListType
  <2> QED BY <2>1
<1> HIDE DEF es
<1>4. l \in ListType /\ l.entries = es
  BY <1>3, NothingTypes DEF ListType
<1> HIDE DEF l
<1>5. /\ k \in GcsType /\ k.machine = "none" /\ k.stage = "idle" /\ k.call = g.call
      /\ k.signals = g.signals /\ k.waiting = g.waiting /\ k.expected = g.expected
      /\ k.out = g.out /\ k.unsent = g.unsent /\ k.ul = g.ul /\ k.ls = l /\ k.dl = g.dl
  BY <1>1, <1>4 DEF GcsType, SameFiles
<1> HIDE DEF k
<1>6. Ended(g, Signal(k, "list", o), "list", o) /\ SameFiles(k, Signal(k, "list", o))
  BY <1>5, SignalEnds DEF Operations
<1> QED BY <1>2, <1>3, <1>4, <1>5, <1>6 DEF SameFiles

LEMMA DeleteEnded ==
  ASSUME NEW g \in GcsType, NEW o \in Outcomes
  PROVE  LET h == deleteComplete(g, o) IN Ended(g, h, "delete", o) /\ SameFiles(g, h)
<1> DEFINE i == Idle(g)
           k == [i EXCEPT !.del = FALSE]
<1>1. /\ i \in GcsType /\ i.machine = "none" /\ i.stage = "idle" /\ i.call = g.call
      /\ i.signals = g.signals /\ i.waiting = g.waiting /\ i.expected = g.expected
      /\ i.out = g.out /\ i.unsent = g.unsent /\ SameFiles(g, i)
  BY IdleKeeps
<1>2. deleteComplete(g, o) = Signal(k, "delete", o)
  BY DEF deleteComplete
<1> HIDE DEF i
<1>3. /\ k \in GcsType /\ k.machine = "none" /\ k.stage = "idle" /\ k.call = g.call
      /\ k.signals = g.signals /\ k.waiting = g.waiting /\ k.expected = g.expected
      /\ k.out = g.out /\ k.unsent = g.unsent /\ SameFiles(g, k)
  BY <1>1 DEF GcsType, SameFiles
<1> HIDE DEF k
<1>4. Ended(g, Signal(k, "delete", o), "delete", o) /\ SameFiles(k, Signal(k, "delete", o))
  BY <1>3, SignalEnds DEF Operations
<1> QED BY <1>2, <1>3, <1>4 DEF SameFiles

LEMMA UploadEnded ==
  ASSUME NEW g \in GcsType, NEW o \in Outcomes
  PROVE  LET h == uploadComplete(g, o) IN
         Ended(g, h, "upload", o) /\ h.dl = g.dl /\ h.ls = g.ls
<1> DEFINE i == Idle(g)
           k == [i EXCEPT !.ul = NoUpload]
<1>1. /\ i \in GcsType /\ i.machine = "none" /\ i.stage = "idle" /\ i.call = g.call
      /\ i.signals = g.signals /\ i.waiting = g.waiting /\ i.expected = g.expected
      /\ i.out = g.out /\ i.unsent = g.unsent /\ SameFiles(g, i)
  BY IdleKeeps
<1>2. uploadComplete(g, o) = Signal(k, "upload", o)
  BY DEF uploadComplete
<1> HIDE DEF i
<1>3. /\ k \in GcsType /\ k.machine = "none" /\ k.stage = "idle" /\ k.call = g.call
      /\ k.signals = g.signals /\ k.waiting = g.waiting /\ k.expected = g.expected
      /\ k.out = g.out /\ k.unsent = g.unsent /\ k.dl = g.dl /\ k.ls = g.ls
  BY <1>1, NothingTypes DEF GcsType, SameFiles
<1> HIDE DEF k
<1>4. Ended(g, Signal(k, "upload", o), "upload", o) /\ SameFiles(k, Signal(k, "upload", o))
  BY <1>3, SignalEnds DEF Operations
<1> QED BY <1>2, <1>3, <1>4 DEF SameFiles

LEMMA EndTurns ==
  ASSUME NEW g \in GcsType, g.out = <<>>, NEW h, NEW kind, NEW o, Ended(g, h, kind, o)
  PROVE  Turn(g, h)
<1>1. h.expected = Seq16(g.expected + 0)
  BY OwnFields, NumbersAdd DEF Ended
<1>2. Burst \in Nat /\ 0 <= Burst + 3
  BY FtpAssumption
<1>3. CASE h.unsent
  BY <1>3 DEF Turn
<1>4. CASE ~h.unsent
  <2>1. ~g.unsent /\ h.out = <<>> /\ h.stage = "idle"
    BY <1>4 DEF Ended
  <2> QED BY <1>1, <1>2, <2>1 DEF Turn
<1> QED BY <1>3, <1>4

LEMMA WaitTurns ==
  ASSUME NEW g \in GcsType, g.out = <<>>, NEW h, SameQuestion(g, h),
         h.expected = g.expected, h.out = g.out, h.unsent = g.unsent
  PROVE  Turn(g, h)
<1>1. h.expected = Seq16(g.expected + 0)
  BY OwnFields, NumbersAdd
<1>2. Burst \in Nat /\ 0 <= Burst + 3
  BY FtpAssumption
<1> QED BY <1>1, <1>2 DEF Turn

LEMMA AskTurns ==
  ASSUME NEW g \in GcsType, NEW h, NEW d \in Nat, d <= Burst + 3, Requested(g, h, d),
         h.stage # "idle", d = 0 => SameQuestion(g, h)
  PROVE  Turn(g, h)
  BY DEF Turn, Requested

-----------------------------------------------------------------------------
(* Handlers of a download *)

\* What a handler does for the call of a kind: the machine goes on, or ends it.
Acts(g, h, kind) ==
    /\ h \in GcsType /\ h.call = g.call
    /\ \/ h.machine = g.machine /\ h.signals = g.signals /\ h.waiting = g.waiting
       \/ \E o \in Outcomes : Ended(g, h, kind, o)

DownloadTurn(g, h) ==
    /\ Turn(g, h) /\ Acts(g, h, "download") /\ h.ls = g.ls /\ h.ul = g.ul
    /\ h.dl.path = g.dl.path /\ h.dl.checksize = g.dl.checksize

\* k is g on the way through a handler.
Over(g, k) ==
    /\ k \in GcsType /\ k.machine = g.machine /\ k.call = g.call /\ k.signals = g.signals
    /\ k.waiting = g.waiting /\ k.stage = g.stage /\ k.out = g.out /\ k.unsent = g.unsent
    /\ k.ls = g.ls /\ k.ul = g.ul /\ k.dl.path = g.dl.path /\ k.dl.checksize = g.dl.checksize

LEMMA OverSelf == \A g \in GcsType : Over(g, g)
  BY DEF Over

LEMMA OverOver ==
  ASSUME NEW g, NEW k, NEW h, Over(g, k), Over(k, h)
  PROVE  Over(g, h)
  BY DEF Over

LEMMA OverData ==
  ASSUME NEW g \in GcsType
  PROVE  /\ \A d \in DownloadType : d.path = g.dl.path /\ d.checksize = g.dl.checksize =>
               LET k == [g EXCEPT !.dl = d] IN Over(g, k) /\ k.dl = d /\ k.expected = g.expected
         /\ \A n \in Numbers : LET k == [g EXCEPT !.expected = n] IN
               Over(g, k) /\ k.dl = g.dl /\ k.expected = n
         /\ \A n \in Retries : LET k == [g EXCEPT !.retry = n] IN
               Over(g, k) /\ k.dl = g.dl /\ k.expected = g.expected
         /\ \A b \in BOOLEAN : LET k == [g EXCEPT !.timer = b] IN
               Over(g, k) /\ k.dl = g.dl /\ k.expected = g.expected
         /\ \A b \in BOOLEAN : LET k == [g EXCEPT !.orphan = b] IN
               Over(g, k) /\ k.dl = g.dl /\ k.expected = g.expected
<1>1. \A d \in DownloadType : d.path = g.dl.path /\ d.checksize = g.dl.checksize =>
         LET k == [g EXCEPT !.dl = d] IN Over(g, k) /\ k.dl = d /\ k.expected = g.expected
  BY DEF Over, GcsType
<1>2. \A n \in Numbers : LET k == [g EXCEPT !.expected = n] IN
         Over(g, k) /\ k.dl = g.dl /\ k.expected = n
  BY DEF Over, GcsType
<1>3. \A n \in Retries : LET k == [g EXCEPT !.retry = n] IN
         Over(g, k) /\ k.dl = g.dl /\ k.expected = g.expected
  BY DEF Over, GcsType
<1>4. \A b \in BOOLEAN : LET k == [g EXCEPT !.timer = b] IN
         Over(g, k) /\ k.dl = g.dl /\ k.expected = g.expected
  BY DEF Over, GcsType
<1>5. \A b \in BOOLEAN : LET k == [g EXCEPT !.orphan = b] IN
         Over(g, k) /\ k.dl = g.dl /\ k.expected = g.expected
  BY DEF Over, GcsType
<1> QED BY <1>1, <1>2, <1>3, <1>4, <1>5

LEMMA OverAsks ==
  ASSUME NEW g \in GcsType, NEW k, Over(g, k), NEW a \in Nat, k.expected = Seq16(g.expected + a),
         NEW d \in Nat, NEW s, NEW h, Asks(k, h, s, d), a + d <= Burst + 3,
         a + d = 0 => s = g.stage
  PROVE  DownloadTurn(g, h) /\ h.dl = k.dl /\ h.stage = s /\ h.machine = g.machine
         /\ h.signals = g.signals /\ h.waiting = g.waiting
<1>1. Requested(g, h, a + d)
  <2>1. Seq16(k.expected + d) = Seq16(g.expected + (a + d))
    BY OwnFields, NumbersAdd
  <2>2. k.unsent = g.unsent
    BY DEF Over
  <2> QED BY <2>1, <2>2 DEF Asks, Requested
<1>2. /\ h \in GcsType /\ h.machine = g.machine /\ h.call = g.call /\ h.signals = g.signals
      /\ h.waiting = g.waiting /\ h.stage = s /\ h.ls = g.ls /\ h.ul = g.ul /\ h.dl = k.dl
      /\ h.dl.path = g.dl.path /\ h.dl.checksize = g.dl.checksize
  BY DEF Over, Asks, SameFiles
<1>3. a + d = 0 => SameQuestion(g, h)
  BY <1>2 DEF SameQuestion
<1>4. Turn(g, h)
  <2>1. h.stage # "idle"
    BY DEF Asks
  <2> QED BY <1>1, <1>3, <2>1, AskTurns
<1> QED BY <1>2, <1>4 DEF DownloadTurn, Acts

LEMMA OverEnds ==
  ASSUME NEW g \in GcsType, g.out = <<>>, NEW k, Over(g, k), k.expected = g.expected, NEW o \in Outcomes
  PROVE  LET h == downloadComplete(k, o) IN
         DownloadTurn(g, h) /\ Ended(g, h, "download", o) /\ (o = "ok" => h.dl.written = k.dl.written)
<1> DEFINE h == downloadComplete(k, o)
<1>1. /\ Ended(k, h, "download", o) /\ h.ul = k.ul /\ h.ls = k.ls
      /\ h.dl.path = k.dl.path /\ h.dl.checksize = k.dl.checksize
      /\ o = "ok" => h.dl.written = k.dl.written
  BY DownloadEnded DEF Over
<1> HIDE DEF h
<1>2. Ended(g, h, "download", o)
  BY <1>1 DEF Over, Ended
<1>3. Turn(g, h)
  BY <1>2, EndTurns
<1>4. Acts(g, h, "download")
  BY <1>2 DEF Acts, Ended
<1>5. DownloadTurn(g, h) /\ Ended(g, h, "download", o) /\ (o = "ok" => h.dl.written = k.dl.written)
  BY <1>1, <1>2, <1>3, <1>4 DEF DownloadTurn, Over
<1> QED BY <1>5 DEF h

LEMMA OverWaits ==
  ASSUME NEW g \in GcsType, g.out = <<>>, NEW h, Over(g, h), h.expected = g.expected
  PROVE  DownloadTurn(g, h)
<1>1. SameQuestion(g, h)
  BY DEF Over, SameQuestion
<1>2. Turn(g, h)
  BY <1>1, WaitTurns DEF Over
<1> QED BY <1>2 DEF DownloadTurn, Acts, Over

\* An answer that is recent and not old has a number of the burst that comes, and
\* if it is no block of a burst the very number expected.
LEMMA NewNumber ==
  ASSUME BurstsFit, NEW g \in GcsType, NEW m \in Replies, ~IsOld(g, m)
  PROVE  /\ Near(g.expected, m.seq) =>
               \E a \in Nat : a <= Burst /\ m.seq = Seq16(g.expected + a)
         /\ Past(g.expected, m.seq) => m.seq = g.expected
<1> DEFINE e == g.expected
           n == m.seq
           b == Behind(e, n)
<1>1. e \in Numbers /\ n \in Numbers
  BY OwnFields, ReplyTypes
<1>2. b \in Nat /\ b < Wrap /\ (b = 0 <=> e = n) /\ ~(b >= 1 /\ b <= Half)
  BY <1>1, BehindRange, BehindZero, OldIsBehind
<1>3. Half \in Nat /\ Wrap = Half + Half + 2 /\ Burst \in Nat /\ 2 * Burst + 10 < Half
  BY Halves, FtpAssumption DEF BurstsFit
<1>4. b >= Wrap - Burst => \E a \in Nat : a <= Burst /\ n = Seq16(e + a)
  <2> SUFFICES ASSUME b >= Wrap - Burst
               PROVE  \E a \in Nat : a <= Burst /\ n = Seq16(e + a)
    OBVIOUS
  <2>1. n = Seq16(e + (Wrap - b))
    BY <1>1, SMT DEF Behind, Seq16, Numbers, Wrap
  <2>2. Wrap - b \in Nat /\ Wrap - b <= Burst
    BY <1>2, <1>3
  <2> QED BY <2>1, <2>2
<1> HIDE DEF b
<1>5. b <= Half => n = e
  BY <1>2
<1>6. n = e => \E a \in Nat : a <= Burst /\ n = Seq16(e + a)
  BY <1>1, <1>3, NumbersAdd
<1> QED BY <1>4, <1>5, <1>6 DEF Near, Past, b, e, n

\* A machine that is at work serves the call that was accepted last.
CallGood(g) ==
    g.stage # "idle" /\ g.machine \in Operations => g.call.kind = g.machine /\ g.signals = <<>>

\* A download has no more than the file that was asked for, and with the size check
\* nothing less when it ends well.
DownloadGood(g) ==
    /\ g.machine = "download" => g.dl.path = g.call.size
    /\ g.stage = "burst" => g.dl.offset <= g.dl.path /\ g.dl.path <= g.dl.size
    /\ g.stage = "fill" => /\ g.dl.path <= g.dl.size
                          /\ \E n \in Nat : n <= g.dl.path /\ Covered(g.dl, n)
    /\ g.stage = "reset" /\ g.machine = "download" /\ g.dl.checksize =>
           g.dl.written = Blocks(g.dl.path)
    /\ g.call.kind = "download" /\ g.signals = <<<<"download", "ok">>>> =>
           /\ g.machine \in {"none", "abortUpload"} /\ "download" \notin g.waiting
           /\ g.dl.checksize => g.dl.written = Blocks(g.call.size)

LEMMA ActsCall ==
  ASSUME NEW g, NEW h, NEW kind, g.stage # "idle", CallGood(g), Acts(g, h, kind)
  PROVE  CallGood(h)
  BY DEF CallGood, Acts, Ended

LEMMA LastSignal ==
  ASSUME NEW g \in GcsType, NEW h, NEW kind, NEW o, Ended(g, h, kind, o), NEW k, NEW p,
         h.signals = <<<<k, p>>>>
  PROVE  kind = k /\ o = p
<1>1. g.signals \in Seq(Operations \X Outcomes)
  BY DEF GcsType
<1>2. h.signals = Append(g.signals, <<kind, o>>)
  BY DEF Ended
<1>3. Len(h.signals) = 1 /\ h.signals[1] = <<k, p>>
  OBVIOUS
<1>4. Len(h.signals) = Len(g.signals) + 1 /\ h.signals[Len(g.signals) + 1] = <<kind, o>>
  BY <1>1, <1>2
<1>5. Len(g.signals) = 0
  BY <1>1, <1>3, <1>4
<1>6. <<kind, o>> = <<k, p>>
  BY <1>3, <1>4, <1>5
<1> QED BY <1>6

LEMMA EndGood ==
  ASSUME NEW g \in GcsType, NEW h, NEW kind, NEW o, Ended(g, h, kind, o),
         h.dl.checksize = g.dl.checksize,
         kind = "download" /\ o = "ok" /\ g.call.kind = "download" =>
             (g.dl.checksize => h.dl.written = Blocks(g.call.size))
  PROVE  DownloadGood(h)
<1>1. h.machine = "none" /\ h.stage = "idle" /\ h.call = g.call /\ h.waiting = g.waiting \ {kind}
  BY DEF Ended
<1>2. h.call.kind = "download" /\ h.signals = <<<<"download", "ok">>>> =>
           /\ h.machine \in {"none", "abortUpload"} /\ "download" \notin h.waiting
           /\ h.dl.checksize => h.dl.written = Blocks(h.call.size)
  BY <1>1, LastSignal
<1> QED BY <1>1, <1>2 DEF DownloadGood

LEMMA AskGood ==
  ASSUME NEW g, DownloadGood(g), NEW h, h.machine = g.machine, h.call = g.call,
         h.signals = g.signals, h.waiting = g.waiting, h.dl.path = g.dl.path,
         g.machine = "download",
         h.stage = "burst" => h.dl.offset <= h.dl.path /\ h.dl.path <= h.dl.size,
         h.stage = "fill" => /\ h.dl.path <= h.dl.size
                             /\ \E n \in Nat : n <= h.dl.path /\ Covered(h.dl, n),
         h.stage = "reset" /\ h.dl.checksize => h.dl.written = Blocks(h.dl.path)
  PROVE  DownloadGood(h)
  BY DEF DownloadGood

\* What the answer says of the file: as long as the one asked for, and its blocks.
DownloadTold(g, m) ==
    /\ g.stage = "open" /\ Fits(g, m, "open") /\ m.kind = "ack" => m.size >= g.dl.path
    /\ g.stage = "burst" /\ m.op = "burst" /\ m.kind = "ack" /\ ~IsOld(g, m) =>
           m.offset < g.dl.path

\* The file is open, and its first blocks are asked for.
Opened(g, h, m) ==
    /\ g.stage = "open" /\ Fits(g, m, "open") /\ m.kind = "ack"
    /\ h.unsent \/ h.expected = Seq16(g.expected + 2)

DownloadDoes(g, h, m) ==
    /\ DownloadTurn(g, h) /\ (DownloadGood(g) /\ DownloadTold(g, m) => DownloadGood(h))
    /\ h.stage = "open" => h = g
    /\ h.stage = "burst" => g.stage = "burst" \/ Opened(g, h, m)

LEMMA FailureGood ==
  ASSUME NEW g \in GcsType, g.out = <<>>
  PROVE  LET h == downloadComplete(g, "failed") IN
         DownloadTurn(g, h) /\ DownloadGood(h) /\ h.stage = "idle"
<1> DEFINE h == downloadComplete(g, "failed")
<1>1. "failed" \in Outcomes
  BY DEF Outcomes
<1>2. DownloadTurn(g, h) /\ Ended(g, h, "download", "failed")
  BY <1>1, OverSelf, OverEnds
<1> HIDE DEF h
<1>3. DownloadGood(h) /\ h.stage = "idle"
  BY <1>2, EndGood DEF DownloadTurn, Ended
<1> QED BY <1>2, <1>3 DEF h

\* A worker asks for the next block of a burst.
LEMMA BurstsOn ==
  ASSUME NEW g \in GcsType, NEW k, Over(g, k), NEW a \in Nat, k.expected = Seq16(g.expected + a),
         NEW first \in BOOLEAN, a + Further(first) <= Burst + 3,
         a + Further(first) = 0 => g.stage = "burst"
  PROVE  LET h == burstReadFileWorker(k, first) IN
         /\ DownloadTurn(g, h) /\ h.dl = k.dl /\ h.stage = "burst"
         /\ h.unsent \/ h.expected = Seq16(k.expected + Further(first))
         /\ DownloadGood(g) /\ g.machine = "download" /\ k.dl.offset <= g.dl.path /\ g.dl.path <= k.dl.size =>
                DownloadGood(h)
<1> DEFINE h == burstReadFileWorker(k, first)
<1>1. Asks(k, h, "burst", Further(first))
  BY BurstAsks DEF Over
<1> HIDE DEF h
<1>2. Further(first) \in Nat
  BY DEF Further
<1>3. DownloadTurn(g, h) /\ h.dl = k.dl /\ h.stage = "burst" /\ h.machine = g.machine
      /\ h.signals = g.signals /\ h.waiting = g.waiting
  BY <1>1, <1>2, OverAsks
<1>4. DownloadGood(g) /\ g.machine = "download" /\ k.dl.offset <= g.dl.path /\ g.dl.path <= k.dl.size =>
          DownloadGood(h)
  BY <1>3, AskGood DEF DownloadTurn, Acts
<1>5. h.unsent \/ h.expected = Seq16(k.expected + Further(first))
  BY <1>1 DEF Asks, Requested
<1> QED BY <1>3, <1>4, <1>5 DEF h

LEMMA OpenGood ==
  ASSUME NEW g \in GcsType, g.out = <<>>, g.stage = "open", g.machine = "download",
         NEW m \in Replies
  PROVE  DownloadDoes(g, openFileROAckOrNak(g, m), m)
<1>1. CASE ~Fits(g, m, "open")
  <2>1. openFileROAckOrNak(g, m) = g
    BY <1>1 DEF openFileROAckOrNak
  <2> QED BY <2>1, OverSelf, OverWaits DEF DownloadDoes
<1>2. CASE Fits(g, m, "open") /\ m.kind = "ack"
  <2> DEFINE d == [g.dl EXCEPT !.session = m.session, !.size = m.size, !.offset = 0, !.open = TRUE]
             k == [g EXCEPT !.dl = d]
             h == burstReadFileWorker(k, TRUE)
  <2>1. d \in DownloadType /\ d.path = g.dl.path /\ d.checksize = g.dl.checksize
        /\ d.offset = 0 /\ d.size = m.size
    BY ReplyTypes, OwnFields DEF DownloadType
  <2>2. openFileROAckOrNak(g, m) = h
    <3>1. [g EXCEPT !.dl.session = m.session, !.dl.size = m.size, !.dl.offset = 0, !.dl.open = TRUE] = k
      BY DEF GcsType
    <3> QED BY <1>2, <3>1 DEF openFileROAckOrNak
  <2> HIDE DEF d
  <2>3. Over(g, k) /\ k.dl = d /\ k.expected = g.expected
    BY <2>1, OverData
  <2> HIDE DEF k
  <2> DEFINE zero == 0
  <2>5. /\ zero \in Nat /\ k.expected = Seq16(g.expected + zero)
        /\ zero + Further(TRUE) <= Burst + 3 /\ zero + Further(TRUE) # 0
    BY <2>3, OwnFields, NumbersAdd, FtpAssumption DEF Further
  <2> HIDE DEF zero
  <2>6. /\ DownloadTurn(g, h) /\ h.stage = "burst"
        /\ h.unsent \/ h.expected = Seq16(k.expected + Further(TRUE))
        /\ DownloadGood(g) /\ g.machine = "download" /\ k.dl.offset <= g.dl.path /\ g.dl.path <= k.dl.size =>
               DownloadGood(h)
    BY <2>3, <2>5, BurstsOn
  <2> HIDE DEF h
  <2>7. m.size >= g.dl.path => k.dl.offset <= g.dl.path /\ g.dl.path <= k.dl.size
    <3>1. g.dl.path \in Nat /\ m.size \in Nat
      BY OwnFields, SizesAreNumbers, ReplyTypes
    <3> QED BY <2>1, <2>3, <3>1
  <2>8. h.unsent \/ h.expected = Seq16(g.expected + 2)
    BY <2>3, <2>6 DEF Further
  <2>9. Opened(g, h, m)
    BY <1>2, <2>8 DEF Opened
  <2> QED BY <1>2, <2>2, <2>6, <2>7, <2>9 DEF DownloadDoes, DownloadTold
<1>3. CASE Fits(g, m, "open") /\ m.kind # "ack"
  <2>1. openFileROAckOrNak(g, m) = downloadComplete(g, "failed")
    BY <1>3 DEF openFileROAckOrNak
  <2> QED BY <2>1, FailureGood DEF DownloadDoes
<1> QED BY <1>1, <1>2, <1>3

\* As many blocks as the file has, and none beyond its end, are all its blocks.
LEMMA FullIsWhole ==
  ASSUME NEW d \in DownloadType, NEW n \in Nat, Covered(d, n), n <= d.path, d.path <= d.size,
         d.bytes = d.size
  PROVE  d.written = Blocks(d.path)
<1>1. d.path \in Nat /\ d.size \in Nat /\ d.bytes \in Nat
  BY SizesAreNumbers DEF DownloadType
<1>2. d.written \subseteq 0 .. n - 1 /\ d.bytes = Cardinality(d.written)
  BY DEF Covered, Blocks
<1>3. IsFiniteSet(0 .. n - 1) /\ Cardinality(0 .. n - 1) = n
  <2>1. 0 \in Int /\ n - 1 \in Int
    OBVIOUS
  <2>2. /\ IsFiniteSet(0 .. n - 1)
        /\ Cardinality(0 .. n - 1) = IF 0 > n - 1 THEN 0 ELSE (n - 1) - 0 + 1
    BY <2>1, FS_Interval
  <2> QED BY <2>2
<1>4. Cardinality(d.written) <= n /\ (Cardinality(d.written) = n => d.written = 0 .. n - 1)
  <2>1. /\ IsFiniteSet(d.written) /\ Cardinality(d.written) <= Cardinality(0 .. n - 1)
        /\ Cardinality(d.written) = Cardinality(0 .. n - 1) => d.written = 0 .. n - 1
    BY <1>2, <1>3, FS_Subset
  <2> QED BY <1>3, <2>1
<1>5. n = d.path /\ Cardinality(d.written) = n
  BY <1>1, <1>2, <1>4
<1> QED BY <1>4, <1>5 DEF Blocks

\* A worker reads the next block that is missing, or there is none.
LEMMA FillsOn ==
  ASSUME NEW g \in GcsType, g.out = <<>>, NEW k, Over(g, k), k.expected = g.expected,
         NEW first \in BOOLEAN, first \/ (g.stage = "fill" /\ k.dl.holes # <<>>),
         NEW n \in Nat, Covered(k.dl, n)
  PROVE  LET h == fillMissingBlocksWorker(k, first) IN
         /\ DownloadTurn(g, h) /\ h.stage \in {"fill", "reset", "idle"}
         /\ DownloadGood(g) /\ g.machine = "download" /\ n <= g.dl.path /\ g.dl.path <= k.dl.size =>
                DownloadGood(h)
<1> DEFINE h == fillMissingBlocksWorker(k, first)
<1>0. k \in GcsType /\ k.dl.path = g.dl.path /\ k.dl.checksize = g.dl.checksize /\ k.out = <<>>
      /\ k.machine = g.machine
  BY DEF Over
<1>1. CASE k.dl.holes # <<>>
  <2> DEFINE d == [k.dl EXCEPT !.offset = Head(k.dl.holes).offset]
             p == [k EXCEPT !.dl = d]
  <2>1. d \in DownloadType /\ Asks(p, h, "fill", Further(first))
    BY <1>0, <1>1, FillAsks
  <2>2. Covered(d, n) /\ d.path = g.dl.path /\ d.checksize = g.dl.checksize /\ d.size = k.dl.size
    <3>1. k.dl \in DownloadType
      BY <1>0, OwnFields
    <3>2. Covered(d, n)
      BY <3>1, OffsetCovered
    <3> QED BY <1>0, <3>1, <3>2 DEF DownloadType
  <2> HIDE DEF h, d
  <2>3. Over(k, p) /\ p.dl = d /\ p.expected = k.expected
    BY <1>0, <2>1, <2>2, OverData
  <2> HIDE DEF p
  <2>4. Over(g, p) /\ p.expected = Seq16(g.expected + 0)
    BY <2>3, OverOver, OwnFields, NumbersAdd
  <2>5. Further(first) \in Nat /\ 0 + Further(first) <= Burst + 3 /\ (0 + Further(first) = 0 => g.stage = "fill")
    BY FtpAssumption DEF Further
  <2>6. DownloadTurn(g, h) /\ h.dl = d /\ h.stage = "fill" /\ h.machine = g.machine
        /\ h.signals = g.signals /\ h.waiting = g.waiting
    BY <2>1, <2>3, <2>4, <2>5, OverAsks
  <2>7. DownloadGood(g) /\ g.machine = "download" /\ n <= g.dl.path /\ g.dl.path <= k.dl.size =>
            DownloadGood(h)
    BY <2>2, <2>6, AskGood DEF DownloadTurn, Acts
  <2> QED BY <2>6, <2>7 DEF h
<1>2. CASE k.dl.holes = <<>> /\ FullFile(k)
  <2>1. h = resetSessionsBegin(k)
    BY <1>2 DEF fillMissingBlocksWorker
  <2>2. Asks(k, h, "reset", 2)
    BY <1>0, <2>1, ResetAsks
  <2> HIDE DEF h
  <2>3. k.expected = Seq16(g.expected + 0) /\ 0 + 2 <= Burst + 3
    BY OwnFields, NumbersAdd, FtpAssumption
  <2>4. DownloadTurn(g, h) /\ h.dl = k.dl /\ h.stage = "reset" /\ h.machine = g.machine
        /\ h.signals = g.signals /\ h.waiting = g.waiting
    BY <2>2, <2>3, OverAsks
  <2>5. n <= g.dl.path /\ g.dl.path <= k.dl.size /\ k.dl.checksize => k.dl.written = Blocks(k.dl.path)
    <3>1. k.dl.checksize => k.dl.bytes = k.dl.size
      BY <1>2 DEF FullFile
    <3>2. k.dl \in DownloadType
      BY <1>0, OwnFields
    <3> QED BY <1>0, <3>1, <3>2, FullIsWhole
  <2>6. DownloadGood(g) /\ g.machine = "download" /\ n <= g.dl.path /\ g.dl.path <= k.dl.size =>
            DownloadGood(h)
    BY <2>4, <2>5, AskGood DEF DownloadTurn, Acts
  <2> QED BY <2>4, <2>6 DEF h
<1>3. CASE k.dl.holes = <<>> /\ ~FullFile(k)
  <2>1. h = downloadComplete(k, "failed")
    BY <1>3 DEF fillMissingBlocksWorker
  <2>2. "failed" \in Outcomes
    BY DEF Outcomes
  <2>3. DownloadTurn(g, h) /\ Ended(g, h, "download", "failed")
    BY <2>1, <2>2, OverEnds
  <2> HIDE DEF h
  <2>4. DownloadGood(h) /\ h.stage = "idle"
    BY <2>3, EndGood DEF DownloadTurn, Ended
  <2> QED BY <2>3, <2>4 DEF h
<1> QED BY <1>1, <1>2, <1>3

\* A block of a burst is recorded.
LEMMA BlockOver ==
  ASSUME NEW g \in GcsType, NEW m \in Replies
  PROVE  LET w == [WriteBlock(HoleBefore(g, m), m) EXCEPT !.dl.offset = m.offset + 1] IN
         Over(g, w) /\ w.expected = g.expected /\ w.dl.size = g.dl.size /\ w.dl.offset = m.offset + 1
<1> DEFINE hs == IF m.offset > g.dl.offset
                 THEN Append(g.dl.holes, Hole(g.dl.offset, m.offset - g.dl.offset))
                 ELSE g.dl.holes
           a == [g EXCEPT !.dl = [@ EXCEPT !.holes = hs]]
           o == m.offset + 1
           ws == g.dl.written \cup {m.offset}
           b == g.dl.bytes + 1
           d == [g.dl EXCEPT !.holes = hs, !.written = ws, !.bytes = b, !.offset = o]
           w == [WriteBlock(HoleBefore(g, m), m) EXCEPT !.dl.offset = o]
           k == [g EXCEPT !.dl = d]
<1>1. hs \in Seq(Holes)
  <2>1. HoleBefore(g, m) \in GcsType /\ HoleBefore(g, m).dl.holes = hs
    BY HoleBeforeKeeps DEF Keeps
  <2> HIDE DEF hs
  <2>2. HoleBefore(g, m).dl \in DownloadType
    BY <2>1, OwnFields
  <2> QED BY <2>1, <2>2 DEF DownloadType
<1>2. HoleBefore(g, m) = a
  <2>1. CASE m.offset > g.dl.offset
    BY <2>1 DEF HoleBefore
  <2>2. CASE ~(m.offset > g.dl.offset)
    <3>1. hs = g.dl.holes /\ HoleBefore(g, m) = g
      BY <2>2 DEF HoleBefore
    <3>2. [g.dl EXCEPT !.holes = g.dl.holes] = g.dl
      BY OwnFields DEF DownloadType
    <3>3. [g EXCEPT !.dl = g.dl] = g
      BY DEF GcsType
    <3> QED BY <3>1, <3>2, <3>3
  <2> QED BY <2>1, <2>2
<1>3. ws \in SUBSET Nat /\ b \in Nat /\ o \in Nat
  BY OwnFields, ReplyTypes DEF DownloadType
<1> HIDE DEF hs
<1>4. WriteBlock(a, m) = [a EXCEPT !.dl = [@ EXCEPT !.written = ws, !.bytes = b]]
  <2>1. a.dl.written = g.dl.written /\ a.dl.bytes = g.dl.bytes
    BY DEF GcsType, DownloadType
  <2> HIDE DEF a
  <2> QED BY <2>1 DEF WriteBlock
<1>5. w = k
  <2> HIDE DEF ws, b, o
  <2>1. w = [[a EXCEPT !.dl = [@ EXCEPT !.written = ws, !.bytes = b]] EXCEPT !.dl = [@ EXCEPT !.offset = o]]
    BY <1>2, <1>4
  <2> HIDE DEF w
  <2> QED BY <2>1 DEF GcsType, DownloadType
<1> HIDE DEF w, ws, b, o
<1>6. d \in DownloadType /\ d.path = g.dl.path /\ d.checksize = g.dl.checksize
      /\ d.size = g.dl.size /\ d.offset = o
  BY <1>1, <1>3, OwnFields DEF DownloadType
<1> HIDE DEF d
<1>7. Over(g, k) /\ k.dl = d /\ k.expected = g.expected
  BY <1>6, OverData
<1> QED BY <1>5, <1>6, <1>7 DEF w, o

LEMMA BlockGood ==
  ASSUME NEW g \in GcsType, g.out = <<>>, g.stage = "burst", NEW k, Over(g, k), k.dl = g.dl,
         k.expected = g.expected,
         g.machine = "download", NEW m \in Replies,
         NEW a \in Nat, a <= Burst, m.seq = Seq16(g.expected + a)
  PROVE  LET h == burstReadFileBlock(k, m) IN
         /\ DownloadTurn(g, h) /\ h.stage = "burst"
         /\ DownloadGood(g) /\ m.offset < g.dl.path => DownloadGood(h)
<1> DEFINE w == [WriteBlock(HoleBefore(k, m), m) EXCEPT !.dl.offset = m.offset + 1]
           h == burstReadFileBlock(k, m)
<1>0. k \in GcsType /\ k.expected = g.expected
  BY DEF Over
<1>1. h = IF m.complete THEN burstReadFileWorker([w EXCEPT !.expected = m.seq], TRUE)
          ELSE [w EXCEPT !.expected = Seq16(m.seq + 1), !.timer = TRUE]
  BY DEF burstReadFileBlock
<1>2. Over(k, w) /\ w.expected = k.expected /\ w.dl.size = k.dl.size /\ w.dl.offset = m.offset + 1
  BY <1>0, BlockOver
<1> HIDE DEF w, h
<1>3. Over(g, w)
  BY <1>2, OverOver
<1>4. DownloadGood(g) /\ m.offset < g.dl.path => w.dl.offset <= g.dl.path /\ g.dl.path <= w.dl.size
  <2>1. m.offset \in Nat /\ g.dl.path \in Nat
    BY ReplyTypes, OwnFields, SizesAreNumbers
  <2>2. m.offset < g.dl.path => m.offset + 1 <= g.dl.path
    BY <2>1
  <2> QED BY <1>2, <2>2 DEF DownloadGood
<1>5. m.seq \in Numbers
  BY ReplyTypes
<1>6. CASE m.complete
  <2> DEFINE p == [w EXCEPT !.expected = m.seq]
  <2>1. Over(w, p) /\ p.dl = w.dl /\ p.expected = m.seq
    BY <1>3, <1>5, OverData DEF Over
  <2>2. h = burstReadFileWorker(p, TRUE)
    BY <1>1, <1>6
  <2> HIDE DEF p
  <2>3. Over(g, p)
    BY <1>3, <2>1, OverOver
  <2>4. a + Further(TRUE) <= Burst + 3 /\ a + Further(TRUE) # 0
    BY FtpAssumption DEF Further
  <2>5. /\ DownloadTurn(g, h) /\ h.stage = "burst"
        /\ DownloadGood(g) /\ g.machine = "download" /\ p.dl.offset <= g.dl.path /\ g.dl.path <= p.dl.size =>
               DownloadGood(h)
    BY <2>1, <2>2, <2>3, <2>4, BurstsOn
  <2> QED BY <1>4, <2>1, <2>5 DEF h
<1>7. CASE ~m.complete
  <2> DEFINE n == Seq16(m.seq + 1)
             p == [w EXCEPT !.expected = n]
             q == [p EXCEPT !.timer = TRUE]
  <2>1. n \in Numbers /\ n = Seq16(g.expected + (a + 1)) /\ w \in GcsType
    <3>1. g.expected \in Numbers /\ a \in Nat /\ 1 \in Nat
      BY OwnFields
    <3>2. Seq16(Seq16(g.expected + a) + 1) = Seq16(g.expected + (a + 1))
      BY <3>1, NumbersAdd
    <3>3. n \in Numbers
      BY <1>5, NumbersMove
    <3> QED BY <1>3, <3>2, <3>3 DEF Over
  <2> HIDE DEF n
  <2>2. h = q
    <3>1. h = [w EXCEPT !.expected = n, !.timer = TRUE]
      BY <1>1, <1>7 DEF n
    <3> QED BY <2>1, <3>1 DEF GcsType
  <2>3. Over(w, p) /\ p.dl = w.dl /\ p.expected = n
    BY <2>1, OverData
  <2> HIDE DEF p
  <2>4. Over(p, q) /\ q.dl = p.dl /\ q.expected = n
    BY <2>3, OverData DEF Over
  <2> HIDE DEF q
  <2>5. Over(g, h) /\ h.dl = w.dl /\ h.expected = n
    BY <1>3, <2>2, <2>3, <2>4, OverOver
  <2>6. a + 1 \in Nat /\ a + 1 <= Burst + 3 /\ a + 1 # 0
    BY FtpAssumption
  <2>7. h.out = <<>> /\ h.stage = "burst" /\ h.unsent = g.unsent
    BY <2>5 DEF Over
  <2>8. Turn(g, h)
    BY <2>1, <2>5, <2>6, <2>7 DEF Turn
  <2>9. DownloadTurn(g, h)
    BY <2>5, <2>8 DEF DownloadTurn, Acts, Over
  <2>10. DownloadGood(g) /\ m.offset < g.dl.path => DownloadGood(h)
    <3>1. h.machine = g.machine /\ h.call = g.call /\ h.signals = g.signals /\ h.waiting = g.waiting
          /\ h.dl.path = g.dl.path
      BY <2>5 DEF Over
    <3> QED BY <1>4, <2>5, <2>7, <3>1, AskGood
  <2> QED BY <2>7, <2>9, <2>10 DEF h
<1> QED BY <1>6, <1>7

LEMMA BurstEofGood ==
  ASSUME NEW g \in GcsType, g.out = <<>>, g.stage = "burst", NEW k, Over(g, k), k.dl = g.dl,
         k.expected = g.expected, Recorded(g),
         g.machine = "download", NEW m \in Replies,
         NEW a \in Nat, a <= Burst, m.seq = Seq16(g.expected + a)
  PROVE  LET h == burstReadFileEof(k, m) IN
         /\ DownloadTurn(g, h) /\ h.stage \in {"burst", "fill", "reset", "idle"}
         /\ DownloadGood(g) => DownloadGood(h)
<1> DEFINE p == [k EXCEPT !.expected = m.seq]
           h == burstReadFileEof(k, m)
<1>1. h = IF m.seq # k.expected THEN burstReadFileWorker(p, TRUE) ELSE fillMissingBlocksWorker(k, TRUE)
  BY DEF burstReadFileEof
<1>2. m.seq \in Numbers
  BY ReplyTypes
<1>3. Over(k, p) /\ p.dl = k.dl /\ p.expected = m.seq
  BY <1>2, OverData DEF Over
<1> HIDE DEF p, h
<1>4. Over(g, p)
  BY <1>3, OverOver
<1>5. a + Further(TRUE) <= Burst + 3 /\ a + Further(TRUE) # 0
  BY FtpAssumption DEF Further
<1>6. DownloadGood(g) => k.dl.offset <= g.dl.path /\ g.dl.path <= k.dl.size
  BY DEF DownloadGood
<1>7. LET b == burstReadFileWorker(p, TRUE) IN
         DownloadTurn(g, b) /\ b.stage = "burst" /\ (DownloadGood(g) => DownloadGood(b))
  BY <1>3, <1>4, <1>5, <1>6, BurstsOn
<1>8. LET b == fillMissingBlocksWorker(k, TRUE) IN
         DownloadTurn(g, b) /\ b.stage \in {"fill", "reset", "idle"} /\ (DownloadGood(g) => DownloadGood(b))
  <2>1. Covered(k.dl, k.dl.offset) /\ k.dl.offset \in Nat
    BY OwnFields DEF Recorded
  <2> QED BY <1>6, <2>1, FillsOn
<1> QED BY <1>1, <1>7, <1>8 DEF h

LEMMA BurstGood ==
  ASSUME BurstsFit, NEW g \in GcsType, g.out = <<>>, g.stage = "burst", g.machine = "download",
         Recorded(g), NEW m \in Replies, ~IsOld(g, m), Near(g.expected, m.seq)
  PROVE  DownloadDoes(g, burstReadFileAckOrNak(g, m), m)
<1> DEFINE k == Stopped(g)
           t == [g EXCEPT !.timer = TRUE]
<1>1. PICK a \in Nat : a <= Burst /\ m.seq = Seq16(g.expected + a)
  BY NewNumber
<1>2. Over(g, k) /\ k.dl = g.dl /\ k.expected = g.expected
  BY OverData DEF Stopped
<1>3. Over(g, t) /\ t.dl = g.dl /\ t.expected = g.expected
  BY OverData
<1> HIDE DEF k, t
<1>4. DownloadDoes(g, g, m) /\ DownloadDoes(g, k, m) /\ DownloadDoes(g, t, m)
  <2>1. \A h : Over(g, h) /\ h.dl = g.dl => (DownloadGood(g) => DownloadGood(h))
    BY DEF Over, DownloadGood
  <2>2. DownloadTurn(g, g) /\ DownloadTurn(g, k) /\ DownloadTurn(g, t)
    BY <1>2, <1>3, OverSelf, OverWaits
  <2>3. k.stage = "burst" /\ t.stage = "burst"
    BY <1>2, <1>3 DEF Over
  <2> QED BY <1>2, <1>3, <2>1, <2>2, <2>3, OverSelf DEF DownloadDoes
<1>5. DownloadDoes(g, burstReadFileEof(k, m), m)
  BY <1>1, <1>2, BurstEofGood DEF DownloadDoes
<1>6. DownloadDoes(g, downloadComplete(g, "failed"), m)
  BY FailureGood DEF DownloadDoes
<1>7. m.op = "burst" /\ m.kind = "ack" => DownloadDoes(g, burstReadFileBlock(k, m), m)
  BY <1>1, <1>2, BlockGood DEF DownloadDoes, DownloadTold
<1>8. \/ burstReadFileAckOrNak(g, m) \in {g, k, t, burstReadFileEof(k, m), downloadComplete(g, "failed")}
      \/ m.op = "burst" /\ m.kind = "ack" /\ burstReadFileAckOrNak(g, m) = burstReadFileBlock(k, m)
  <2>1. m.seq \in Nat /\ g.expected \in Nat /\ m.offset \in Nat /\ g.dl.offset \in Nat
    BY ReplyTypes, OwnFields DEF Numbers
  <2> QED BY <2>1 DEF burstReadFileAckOrNak, k, t
<1> QED BY <1>4, <1>5, <1>6, <1>7, <1>8

LEMMA FillGood ==
  ASSUME NEW g \in GcsType, g.out = <<>>, g.stage = "fill", g.machine = "download",
         Recorded(g), NEW m \in Replies
  PROVE  DownloadDoes(g, fillMissingBlocksAckOrNak(g, m), m)
<1>1. PICK c \in Nat : Covered(g.dl, c) /\ (DownloadGood(g) => c <= g.dl.path /\ g.dl.path <= g.dl.size)
  <2>1. CASE DownloadGood(g)
    BY <2>1 DEF DownloadGood
  <2>2. CASE ~DownloadGood(g)
    BY <2>2 DEF Recorded
  <2> QED BY <2>1, <2>2
<1>2. g.dl \in DownloadType /\ g.dl.holes # <<>> /\ g.dl.offset = Head(g.dl.holes).offset
  BY OwnFields DEF Recorded
<1>3. DownloadDoes(g, g, m)
  BY OverSelf, OverWaits DEF DownloadDoes
<1>4. DownloadDoes(g, downloadComplete(g, "failed"), m)
  BY FailureGood DEF DownloadDoes
<1>5. FullFile(g) => DownloadDoes(g, resetSessionsBegin(g), m)
  <2> DEFINE h == resetSessionsBegin(g)
           zero == 0
           two == 2
           s == "reset"
  <2>1. Asks(g, h, s, two)
    BY ResetAsks
  <2> HIDE DEF h
  <2>2. /\ Over(g, g) /\ g.expected = Seq16(g.expected + zero)
        /\ zero \in Nat /\ two \in Nat /\ zero + two <= Burst + 3 /\ zero + two # 0
    BY OverSelf, OwnFields, NumbersAdd, FtpAssumption
  <2> HIDE DEF zero, two, s
  <2>7. PICK k : k = g
    OBVIOUS
  <2>8. /\ Over(g, k) /\ k.expected = Seq16(g.expected + zero) /\ Asks(k, h, s, two)
        /\ zero \in Nat /\ two \in Nat /\ zero + two <= Burst + 3 /\ (zero + two = 0 => s = g.stage)
    BY <2>1, <2>2, <2>7
  <2>9. DownloadTurn(g, h) /\ h.dl = k.dl /\ h.stage = s /\ h.machine = g.machine
        /\ h.signals = g.signals /\ h.waiting = g.waiting
    BY <2>8, OverAsks
  <2>6. DownloadTurn(g, h) /\ h.dl = g.dl /\ h.stage = s /\ h.machine = g.machine
        /\ h.signals = g.signals /\ h.waiting = g.waiting
    BY <2>7, <2>9
  <2>3. DownloadTurn(g, h) /\ h.dl = g.dl /\ h.stage = "reset" /\ h.machine = g.machine
        /\ h.signals = g.signals /\ h.waiting = g.waiting
    BY <2>6 DEF s
  <2>4. FullFile(g) /\ DownloadGood(g) /\ g.dl.checksize => g.dl.written = Blocks(g.dl.path)
    <3>1. FullFile(g) /\ g.dl.checksize => g.dl.bytes = g.dl.size
      BY DEF FullFile
    <3> QED BY <1>1, <1>2, <3>1, FullIsWhole
  <2>5. FullFile(g) /\ DownloadGood(g) => DownloadGood(h)
    BY <2>3, <2>4, AskGood DEF DownloadTurn, Acts
  <2> QED BY <2>3, <2>5 DEF h, DownloadDoes
<1>6. g.retry < MaxRetry => DownloadDoes(g, fillMissingBlocksWorker([g EXCEPT !.retry = @ + 1], FALSE), m)
  <2> SUFFICES ASSUME g.retry < MaxRetry
               PROVE  DownloadDoes(g, fillMissingBlocksWorker([g EXCEPT !.retry = g.retry + 1], FALSE), m)
    OBVIOUS
  <2> DEFINE n == g.retry + 1
             k == [g EXCEPT !.retry = n]
  <2>1. n \in Retries
    BY OwnFields, RetriesMove
  <2> HIDE DEF n
  <2>2. Over(g, k) /\ k.dl = g.dl /\ k.expected = g.expected
    BY <2>1, OverData
  <2> HIDE DEF k
  <2>3. DownloadDoes(g, fillMissingBlocksWorker(k, FALSE), m)
    BY <1>1, <1>2, <2>2, FillsOn DEF DownloadDoes
  <2> QED BY <2>3 DEF k, n
<1>7. m.offset = g.dl.offset =>
          DownloadDoes(g, fillMissingBlocksWorker([WriteBlock(g, m) EXCEPT !.dl.holes = ShrinkHole(@)], TRUE), m)
  <2> SUFFICES ASSUME m.offset = g.dl.offset
               PROVE  DownloadDoes(g, fillMissingBlocksWorker(
                                 [WriteBlock(g, m) EXCEPT !.dl.holes = ShrinkHole(@)], TRUE), m)
    OBVIOUS
  <2> DEFINE ws == g.dl.written \cup {m.offset}
             b == g.dl.bytes + 1
             hs == ShrinkHole(g.dl.holes)
             d == [g.dl EXCEPT !.holes = hs, !.written = ws, !.bytes = b]
             k == [g EXCEPT !.dl = d]
  <2>1. ws \in SUBSET Nat /\ b \in Nat
    BY OwnFields, ReplyTypes DEF DownloadType
  <2>2. hs \in Seq(Holes)
    BY <1>2, ShrinkHoleType DEF DownloadType
  <2>3. [WriteBlock(g, m) EXCEPT !.dl.holes = ShrinkHole(@)] = k
    <3>1. WriteBlock(g, m) = [g EXCEPT !.dl = [@ EXCEPT !.written = ws, !.bytes = b]]
      BY DEF WriteBlock
    <3>2. WriteBlock(g, m).dl.holes = g.dl.holes
      BY WriteBlockKeeps
    <3>3. [WriteBlock(g, m) EXCEPT !.dl.holes = ShrinkHole(@)]
          = [WriteBlock(g, m) EXCEPT !.dl = [@ EXCEPT !.holes = hs]]
      BY <3>2
    <3> HIDE DEF ws, b, hs
    <3>4. [WriteBlock(g, m) EXCEPT !.dl = [@ EXCEPT !.holes = hs]]
          = [g EXCEPT !.dl = [[@ EXCEPT !.written = ws, !.bytes = b] EXCEPT !.holes = hs]]
      BY <3>1 DEF GcsType
    <3>5. [[g.dl EXCEPT !.written = ws, !.bytes = b] EXCEPT !.holes = hs] = d
      BY OwnFields DEF DownloadType
    <3> HIDE DEF d
    <3> QED BY <3>3, <3>4, <3>5
  <2> HIDE DEF ws, b, hs
  <2>4. d \in DownloadType /\ d.written = ws /\ d.bytes = b /\ d.holes = hs /\ d.path = g.dl.path
        /\ d.checksize = g.dl.checksize /\ d.size = g.dl.size
    BY <2>1, <2>2, OwnFields DEF DownloadType
  <2> HIDE DEF d
  <2>5. Covered(d, c)
    BY <1>1, <1>2, <2>4, FillCovered DEF ws, b, hs
  <2>6. Over(g, k) /\ k.dl = d /\ k.expected = g.expected
    BY <2>4, OverData
  <2> HIDE DEF k
  <2>7. DownloadDoes(g, fillMissingBlocksWorker(k, TRUE), m)
    BY <1>1, <2>4, <2>5, <2>6, FillsOn DEF DownloadDoes
  <2> QED BY <2>3, <2>7
<1> DEFINE again == fillMissingBlocksWorker([g EXCEPT !.retry = @ + 1], FALSE)
           next == fillMissingBlocksWorker([WriteBlock(g, m) EXCEPT !.dl.holes = ShrinkHole(@)], TRUE)
           failed == downloadComplete(g, "failed")
           reset == resetSessionsBegin(g)
<1>8. fillMissingBlocksAckOrNak(g, m) =
          IF ~Fits(g, m, "read") \/ m.session # g.dl.session THEN g
          ELSE CASE m.kind = "ack" /\ m.offset # g.dl.offset ->
                      IF g.retry >= MaxRetry THEN failed ELSE again
                 [] m.kind = "ack" /\ m.offset = g.dl.offset -> next
                 [] m.kind = "eof" /\ FullFile(g) -> reset
                 [] OTHER -> failed
  BY DEF fillMissingBlocksAckOrNak
<1>9. g.retry < MaxRetry \/ g.retry >= MaxRetry
  BY OwnFields, RetriesMove
<1> HIDE DEF again, next, failed, reset
<1>10. \/ fillMissingBlocksAckOrNak(g, m) \in {g, failed}
       \/ FullFile(g) /\ fillMissingBlocksAckOrNak(g, m) = reset
       \/ m.offset = g.dl.offset /\ fillMissingBlocksAckOrNak(g, m) = next
       \/ g.retry < MaxRetry /\ fillMissingBlocksAckOrNak(g, m) = again
  BY <1>8, <1>9
<1> QED BY <1>3, <1>4, <1>5, <1>6, <1>7, <1>10 DEF again, next, failed, reset

-----------------------------------------------------------------------------
(* Handlers of the other calls *)

\* k is g on the way through a handler of any kind.
OverCall(g, k) ==
    /\ k \in GcsType /\ k.machine = g.machine /\ k.call = g.call /\ k.signals = g.signals
    /\ k.waiting = g.waiting /\ k.stage = g.stage /\ k.out = g.out /\ k.unsent = g.unsent

LEMMA OverCallData ==
  ASSUME NEW g \in GcsType
  PROVE  /\ \A u \in UploadType : LET k == [g EXCEPT !.ul = u] IN
               OverCall(g, k) /\ k.ul = u /\ k.dl = g.dl /\ k.ls = g.ls /\ k.expected = g.expected
         /\ \A l \in ListType : LET k == [g EXCEPT !.ls = l] IN
               OverCall(g, k) /\ k.ls = l /\ k.dl = g.dl /\ k.ul = g.ul /\ k.expected = g.expected
         /\ \A n \in Numbers : LET k == [g EXCEPT !.expected = n] IN
               OverCall(g, k) /\ SameFiles(g, k) /\ k.expected = n
         /\ \A n \in Retries : LET k == [g EXCEPT !.retry = n] IN
               OverCall(g, k) /\ SameFiles(g, k) /\ k.expected = g.expected
         /\ \A b \in BOOLEAN : LET k == [g EXCEPT !.timer = b] IN
               OverCall(g, k) /\ SameFiles(g, k) /\ k.expected = g.expected
         /\ \A b \in BOOLEAN : LET k == [g EXCEPT !.withTime = b] IN
               OverCall(g, k) /\ SameFiles(g, k) /\ k.expected = g.expected
         /\ \A b \in BOOLEAN : LET k == [g EXCEPT !.orphan = b] IN
               OverCall(g, k) /\ SameFiles(g, k) /\ k.expected = g.expected
<1>1. \A u \in UploadType : LET k == [g EXCEPT !.ul = u] IN
         OverCall(g, k) /\ k.ul = u /\ k.dl = g.dl /\ k.ls = g.ls /\ k.expected = g.expected
  BY DEF OverCall, GcsType
<1>2. \A l \in ListType : LET k == [g EXCEPT !.ls = l] IN
         OverCall(g, k) /\ k.ls = l /\ k.dl = g.dl /\ k.ul = g.ul /\ k.expected = g.expected
  BY DEF OverCall, GcsType
<1>3. \A n \in Numbers : LET k == [g EXCEPT !.expected = n] IN
         OverCall(g, k) /\ SameFiles(g, k) /\ k.expected = n
  BY DEF OverCall, GcsType, SameFiles
<1>4. \A n \in Retries : LET k == [g EXCEPT !.retry = n] IN
         OverCall(g, k) /\ SameFiles(g, k) /\ k.expected = g.expected
  BY DEF OverCall, GcsType, SameFiles
<1>5. \A b \in BOOLEAN : LET k == [g EXCEPT !.timer = b] IN
         OverCall(g, k) /\ SameFiles(g, k) /\ k.expected = g.expected
  BY DEF OverCall, GcsType, SameFiles
<1>6. \A b \in BOOLEAN : LET k == [g EXCEPT !.withTime = b] IN
         OverCall(g, k) /\ SameFiles(g, k) /\ k.expected = g.expected
  BY DEF OverCall, GcsType, SameFiles
<1>7. \A b \in BOOLEAN : LET k == [g EXCEPT !.orphan = b] IN
         OverCall(g, k) /\ SameFiles(g, k) /\ k.expected = g.expected
  BY DEF OverCall, GcsType, SameFiles
<1> QED BY <1>1, <1>2, <1>3, <1>4, <1>5, <1>6, <1>7

LEMMA OverCallOver ==
  ASSUME NEW g, NEW k, NEW h, OverCall(g, k), OverCall(k, h)
  PROVE  OverCall(g, h)
  BY DEF OverCall

LEMMA GoesOn ==
  ASSUME NEW g \in GcsType, NEW k, OverCall(g, k), NEW a \in Nat, k.expected = Seq16(g.expected + a),
         NEW d \in Nat, NEW s, NEW h, Asks(k, h, s, d), a + d <= Burst + 3,
         a + d = 0 => s = g.stage /\ k.ls = g.ls /\ k.dl.path = g.dl.path
                      /\ k.ul.session = g.ul.session /\ k.ul.sent = g.ul.sent
  PROVE  /\ Turn(g, h) /\ h \in GcsType /\ h.machine = g.machine /\ h.call = g.call
         /\ h.signals = g.signals /\ h.waiting = g.waiting /\ h.stage = s /\ SameFiles(k, h)
         /\ \A kind : Acts(g, h, kind)
         /\ h.unsent \/ h.expected = Seq16(g.expected + (a + d))
<1>1. Requested(g, h, a + d)
  <2>1. Seq16(k.expected + d) = Seq16(g.expected + (a + d))
    BY OwnFields, NumbersAdd
  <2>2. k.unsent = g.unsent
    BY DEF OverCall
  <2> QED BY <2>1, <2>2 DEF Asks, Requested
<1>2. /\ h \in GcsType /\ h.machine = g.machine /\ h.call = g.call /\ h.signals = g.signals
      /\ h.waiting = g.waiting /\ h.stage = s /\ SameFiles(k, h)
  BY DEF OverCall, Asks
<1>3. a + d = 0 => SameQuestion(g, h)
  BY <1>2 DEF SameQuestion, SameFiles
<1>4. Turn(g, h)
  <2>1. h.stage # "idle"
    BY DEF Asks
  <2> QED BY <1>1, <1>3, <2>1, AskTurns
<1>5. \A kind : Acts(g, h, kind)
  BY <1>2 DEF Acts
<1> QED BY <1>1, <1>2, <1>4, <1>5 DEF Requested

LEMMA GoesOnNow ==
  ASSUME NEW g \in GcsType, NEW k, OverCall(g, k), k.expected = g.expected,
         NEW d \in Nat, NEW s, NEW h, Asks(k, h, s, d), d <= Burst + 3,
         d = 0 => s = g.stage /\ k.ls = g.ls /\ k.dl.path = g.dl.path
                  /\ k.ul.session = g.ul.session /\ k.ul.sent = g.ul.sent
  PROVE  /\ Turn(g, h) /\ h \in GcsType /\ h.machine = g.machine /\ h.call = g.call
         /\ h.signals = g.signals /\ h.waiting = g.waiting /\ h.stage = s /\ SameFiles(k, h)
         /\ \A kind : Acts(g, h, kind)
         /\ h.unsent \/ h.expected = Seq16(g.expected + d)
<1>1. Requested(g, h, d)
  <2>1. k.unsent = g.unsent
    BY DEF OverCall
  <2> QED BY <2>1 DEF Asks, Requested
<1>2. /\ h \in GcsType /\ h.machine = g.machine /\ h.call = g.call /\ h.signals = g.signals
      /\ h.waiting = g.waiting /\ h.stage = s /\ SameFiles(k, h)
  BY DEF OverCall, Asks
<1>3. d = 0 => SameQuestion(g, h)
  BY <1>2 DEF SameQuestion, SameFiles
<1>4. Turn(g, h)
  <2>1. h.stage # "idle"
    BY DEF Asks
  <2> QED BY <1>1, <1>3, <2>1, AskTurns
<1>5. \A kind : Acts(g, h, kind)
  BY <1>2 DEF Acts
<1> QED BY <1>1, <1>2, <1>4, <1>5 DEF Requested

LEMMA ComesToEnd ==
  ASSUME NEW g \in GcsType, g.out = <<>>, NEW k, OverCall(g, k), k.expected = g.expected,
         NEW kind, NEW o \in Outcomes, NEW h, Ended(k, h, kind, o)
  PROVE  Turn(g, h) /\ Ended(g, h, kind, o) /\ Acts(g, h, kind)
<1>1. Ended(g, h, kind, o)
  BY DEF OverCall, Ended
<1>2. Turn(g, h)
  BY <1>1, EndTurns
<1> QED BY <1>1, <1>2 DEF Acts, Ended

LEMMA Waits ==
  ASSUME NEW g \in GcsType, g.out = <<>>, NEW h, OverCall(g, h), SameFiles(g, h),
         h.expected = g.expected
  PROVE  Turn(g, h) /\ \A kind : Acts(g, h, kind)
<1>1. SameQuestion(g, h)
  BY DEF OverCall, SameQuestion, SameFiles
<1>2. Turn(g, h)
  BY <1>1, WaitTurns DEF OverCall
<1> QED BY <1>2 DEF Acts, OverCall

LEMMA OverCallSelf == \A g \in GcsType : OverCall(g, g) /\ SameFiles(g, g)
  BY DEF OverCall, SameFiles

-----------------------------------------------------------------------------
(* Handlers of a listing and of a deletion *)

\* The first n entries of a directory.
UpTo(n) == [i \in 1..n |-> i - 1]

\* A listing has the entries so far, once and in order.
ListGood(g) ==
    /\ g.stage = "list" => /\ g.ls.path = g.call.size /\ g.ls.offset <= g.ls.path
                          /\ g.ls.entries = UpTo(g.ls.offset)
    /\ g.call.kind = "list" /\ g.signals = <<<<"list", "ok">>>> =>
           g.ls.entries = UpTo(g.call.size)

ListTurn(g, h) == Turn(g, h) /\ Acts(g, h, "list") /\ h.dl = g.dl /\ h.ul = g.ul

\* The entries that are asked for, or that there are none.
ListTold(g, m) ==
    g.stage = "list" /\ Fits(g, m, ListOpcode(g)) =>
        /\ m.kind = "ack" => /\ g.ls.offset < g.ls.path /\ m.offset = g.ls.offset
                             /\ m.size \in 1 .. g.ls.path - g.ls.offset
        /\ m.kind = "eof" => g.ls.offset >= g.ls.path

ListDoes(g, h, m) == ListTurn(g, h) /\ (ListGood(g) /\ ListTold(g, m) => ListGood(h))

LEMMA UpToMore ==
  ASSUME NEW n \in Nat, NEW k \in Nat
  PROVE  UpTo(n) \o [i \in 1..k |-> n + i - 1] = UpTo(n + k) /\ UpTo(n) \in Seq(Nat)
<1> DEFINE s == UpTo(n)
           t == [i \in 1..k |-> n + i - 1]
           u == UpTo(n + k)
<1>1. s \in Seq(Nat) /\ Len(s) = n /\ \A i \in 1..n : s[i] = i - 1
  BY DEF UpTo
<1>2. t \in Seq(Nat) /\ Len(t) = k /\ \A i \in 1..k : t[i] = n + i - 1
  OBVIOUS
<1>3. u \in Seq(Nat) /\ Len(u) = n + k /\ \A i \in 1 .. n + k : u[i] = i - 1
  BY DEF UpTo
<1> HIDE DEF s, t, u
<1>4. s \o t \in Seq(Nat) /\ Len(s \o t) = n + k
      /\ \A i \in 1 .. n + k : (s \o t)[i] = IF i <= n THEN s[i] ELSE t[i - n]
  BY <1>1, <1>2, ConcatProperties
<1>5. \A i \in 1 .. n + k : (s \o t)[i] = u[i]
  <2> TAKE i \in 1 .. n + k
  <2>1. CASE i <= n
    BY <1>1, <1>3, <1>4, <2>1
  <2>2. CASE i > n
    <3>1. i - n \in 1..k
      BY <2>2
    <3>2. t[i - n] = n + (i - n) - 1
      BY <1>2, <3>1
    <3>3. n + (i - n) - 1 = i - 1 /\ ~(i <= n)
      BY <2>2
    <3>4. (s \o t)[i] = t[i - n] /\ u[i] = i - 1
      BY <1>3, <1>4, <3>3
    <3> QED BY <3>2, <3>3, <3>4
  <2>3. i <= n \/ i > n
    OBVIOUS
  <2> QED BY <2>1, <2>2, <2>3
<1>6. s \o t = u
  BY <1>3, <1>4, <1>5, SeqEqual
<1> QED BY <1>1, <1>6 DEF s, t, u

\* The next entries are asked for.
LEMMA ListsOn ==
  ASSUME NEW g \in GcsType, g.stage = "list", g.machine = "list",
         NEW k, OverCall(g, k), k.expected = g.expected, k.dl = g.dl, k.ul = g.ul, CallGood(g),
         NEW first \in BOOLEAN, ~first => k.ls = g.ls
  PROVE  LET h == listDirectoryWorker(k, first) IN
         /\ ListTurn(g, h)
         /\ k.ls.path = g.ls.path /\ k.ls.offset <= g.ls.path /\ k.ls.entries = UpTo(k.ls.offset)
            /\ ListGood(g) => ListGood(h)
<1> DEFINE h == listDirectoryWorker(k, first)
<1>1. Asks(k, h, "list", Further(first))
  BY ListAsks DEF OverCall
<1> HIDE DEF h
<1>2. Further(first) \in Nat /\ 0 + Further(first) <= Burst + 3 /\ (0 + Further(first) = 0 => ~first)
  BY FtpAssumption DEF Further
<1>3. k.expected = Seq16(g.expected + 0)
  BY OwnFields, NumbersAdd
<1>4. /\ Turn(g, h) /\ h \in GcsType /\ h.machine = g.machine /\ h.call = g.call
      /\ h.signals = g.signals /\ h.waiting = g.waiting /\ h.stage = "list" /\ SameFiles(k, h)
      /\ \A kind : Acts(g, h, kind)
  BY <1>1, <1>2, <1>3, GoesOn
<1>5. ListTurn(g, h)
  BY <1>4 DEF ListTurn, SameFiles
<1>6. g.signals = <<>>
  BY DEF CallGood, Operations
<1>7. k.ls.path = g.ls.path /\ k.ls.offset <= g.ls.path /\ k.ls.entries = UpTo(k.ls.offset)
         /\ ListGood(g) => ListGood(h)
  BY <1>4, <1>6 DEF ListGood, SameFiles
<1> QED BY <1>5, <1>7 DEF h

LEMMA ListEndGood ==
  ASSUME NEW g \in GcsType, NEW h, NEW kind, NEW o, Ended(g, h, kind, o),
         kind = "list" /\ o = "ok" => h.ls.entries = UpTo(g.call.size)
  PROVE  ListGood(h)
<1>1. h.stage = "idle" /\ h.call = g.call
  BY DEF Ended
<1>2. h.signals = <<<<"list", "ok">>>> => kind = "list" /\ o = "ok"
  BY LastSignal
<1> QED BY <1>1, <1>2 DEF ListGood

LEMMA ListAnswers ==
  ASSUME NEW g \in GcsType, g.out = <<>>, g.stage = "list", g.machine = "list", CallGood(g),
         NEW m \in Replies, m.seq = g.expected
  PROVE  ListDoes(g, listDirectoryAckOrNak(g, m), m)
<1>0. g.ls \in ListType /\ g.ls.offset \in Nat /\ m.size \in Nat /\ m.offset \in Nat /\ m.seq \in Numbers
      /\ g.ls.entries \in Seq(Nat) /\ g.ls.path \in Nat
  BY OwnFields, ReplyTypes, SizesAreNumbers DEF ListType
<1>1. ListDoes(g, g, m)
  BY Waits, OverCallSelf DEF ListDoes, ListTurn
<1>2. m.op = ListOpcode(g) /\ m.kind = "ack" =>
         ListDoes(g, listDirectoryWorker([AppendEntries(g, m) EXCEPT !.expected = m.seq], TRUE), m)
  <2> SUFFICES ASSUME m.op = ListOpcode(g), m.kind = "ack"
               PROVE  ListDoes(g, listDirectoryWorker([AppendEntries(g, m) EXCEPT !.expected = m.seq], TRUE), m)
    OBVIOUS
  <2> DEFINE t == [i \in 1..m.size |-> m.offset + i - 1]
             es == g.ls.entries \o t
             o == g.ls.offset + m.size
             l == [g.ls EXCEPT !.entries = es, !.offset = o]
             p == [g EXCEPT !.ls = l]
             k == [p EXCEPT !.expected = m.seq]
  <2>1. t \in Seq(Nat)
    BY <1>0
  <2>2. es \in Seq(Nat) /\ o \in Nat
    <3> HIDE DEF t
    <3> QED BY <1>0, <2>1, ConcatProperties
  <2>3. [AppendEntries(g, m) EXCEPT !.expected = m.seq] = k
    <3>1. AppendEntries(g, m) = [g EXCEPT !.ls.entries = es, !.ls.offset = o]
      BY DEF AppendEntries
    <3> HIDE DEF es, o
    <3>2. AppendEntries(g, m) = p
      BY <3>1 DEF GcsType, ListType
    <3> QED BY <3>2
  <2> HIDE DEF es, o
  <2>4. l \in ListType /\ l.path = g.ls.path /\ l.entries = es /\ l.offset = o
    BY <1>0, <2>2 DEF ListType
  <2> HIDE DEF l
  <2>5. OverCall(g, p) /\ p.ls = l /\ p.dl = g.dl /\ p.ul = g.ul
    BY <2>4, OverCallData
  <2> HIDE DEF p
  <2>6. OverCall(p, k) /\ SameFiles(p, k) /\ k.expected = m.seq
    BY <1>0, <2>5, OverCallData DEF OverCall
  <2> HIDE DEF k
  <2>7. OverCall(g, k) /\ k.expected = g.expected /\ k.dl = g.dl /\ k.ul = g.ul /\ k.ls = l
    BY <2>5, <2>6, OverCallOver DEF SameFiles
  <2>8. /\ ListTurn(g, listDirectoryWorker(k, TRUE))
        /\ k.ls.path = g.ls.path /\ k.ls.offset <= g.ls.path /\ k.ls.entries = UpTo(k.ls.offset)
           /\ ListGood(g) => ListGood(listDirectoryWorker(k, TRUE))
    BY <2>7, ListsOn
  <2>9. ListGood(g) /\ ListTold(g, m) => o <= g.ls.path /\ es = UpTo(o)
    <3> SUFFICES ASSUME ListGood(g), ListTold(g, m)
                 PROVE  o <= g.ls.path /\ es = UpTo(o)
      OBVIOUS
    <3>1. m.offset = g.ls.offset /\ m.size \in 1 .. g.ls.path - g.ls.offset
      BY DEF ListTold, Fits
    <3>2. g.ls.entries = UpTo(g.ls.offset)
      BY DEF ListGood
    <3>3. UpTo(g.ls.offset) \o [i \in 1..m.size |-> g.ls.offset + i - 1] = UpTo(g.ls.offset + m.size)
      BY <1>0, UpToMore
    <3>4. [i \in 1..m.size |-> m.offset + i - 1] = [i \in 1..m.size |-> g.ls.offset + i - 1]
      BY <3>1
    <3>5. es = UpTo(o)
      BY <3>2, <3>3, <3>4 DEF es, o
    <3>6. o <= g.ls.path
      BY <1>0, <3>1 DEF o
    <3> QED BY <3>5, <3>6
  <2> QED BY <2>3, <2>4, <2>7, <2>8, <2>9 DEF ListDoes
<1>3. g.ls.withTime => ListDoes(g, listDirectoryWorker(
                      [g EXCEPT !.withTime = FALSE, !.expected = m.seq,
                                !.ls = [@ EXCEPT !.withTime = FALSE, !.offset = 0,
                                                 !.entries = <<>>]], TRUE), m)
  <2> DEFINE l == [g.ls EXCEPT !.withTime = FALSE, !.offset = 0, !.entries = <<>>]
             p == [g EXCEPT !.ls = l]
             q == [p EXCEPT !.withTime = FALSE]
             k == [q EXCEPT !.expected = m.seq]
  <2>1. l \in ListType /\ l.path = g.ls.path /\ l.entries = <<>> /\ l.offset = 0
    <3> DEFINE none == <<>>
    <3>1. none \in Seq(Nat) /\ 0 \in Nat
      OBVIOUS
    <3>2. l = [g.ls EXCEPT !.withTime = FALSE, !.offset = 0, !.entries = none]
      OBVIOUS
    <3> HIDE DEF none, l
    <3>3. l \in ListType /\ l.path = g.ls.path /\ l.entries = none /\ l.offset = 0
      BY <1>0, <3>1, <3>2 DEF ListType
    <3> QED BY <3>3 DEF none
  <2>2. [g EXCEPT !.withTime = FALSE, !.expected = m.seq,
                  !.ls = [@ EXCEPT !.withTime = FALSE, !.offset = 0, !.entries = <<>>]] = k
    <3>1. [g EXCEPT !.withTime = FALSE, !.expected = m.seq,
                  !.ls = [@ EXCEPT !.withTime = FALSE, !.offset = 0, !.entries = <<>>]]
          = [g EXCEPT !.withTime = FALSE, !.expected = m.seq, !.ls = l]
      OBVIOUS
    <3> HIDE DEF l
    <3> QED BY <3>1 DEF GcsType
  <2> HIDE DEF l
  <2>3. OverCall(g, p) /\ p.ls = l /\ p.dl = g.dl /\ p.ul = g.ul
    BY <2>1, OverCallData
  <2> HIDE DEF p
  <2>4. OverCall(p, q) /\ SameFiles(p, q)
    BY <2>3, OverCallData DEF OverCall
  <2> HIDE DEF q
  <2>5. OverCall(q, k) /\ SameFiles(q, k) /\ k.expected = m.seq
    BY <1>0, <2>4, OverCallData DEF OverCall
  <2> HIDE DEF k
  <2>6. OverCall(g, k)
    BY <2>3, <2>4, <2>5, OverCallOver
  <2>7. k.expected = g.expected /\ k.dl = g.dl /\ k.ul = g.ul /\ k.ls = l
    BY <2>3, <2>4, <2>5 DEF SameFiles
  <2>8. /\ ListTurn(g, listDirectoryWorker(k, TRUE))
        /\ k.ls.path = g.ls.path /\ k.ls.offset <= g.ls.path /\ k.ls.entries = UpTo(k.ls.offset)
           /\ ListGood(g) => ListGood(listDirectoryWorker(k, TRUE))
    BY <2>6, <2>7, ListsOn
  <2>9. <<>> = UpTo(0) /\ 0 <= g.ls.path
    BY <1>0 DEF UpTo
  <2> QED BY <2>1, <2>2, <2>7, <2>8, <2>9 DEF ListDoes
<1>4. m.op = ListOpcode(g) /\ m.kind = "eof" => ListDoes(g, listDirectoryComplete(g, "ok"), m)
  <2> DEFINE h == listDirectoryComplete(g, "ok")
  <2>1. "ok" \in Outcomes
    BY DEF Outcomes
  <2>2. Ended(g, h, "list", "ok") /\ h.ul = g.ul /\ h.dl = g.dl /\ h.ls.entries = g.ls.entries
    BY <2>1, ListEnded
  <2> HIDE DEF h
  <2>3. ListTurn(g, h)
    BY <2>1, <2>2, OverCallSelf, ComesToEnd DEF ListTurn
  <2>4. m.op = ListOpcode(g) /\ m.kind = "eof" /\ ListGood(g) /\ ListTold(g, m) =>
            g.ls.entries = UpTo(g.call.size)
    BY <1>0 DEF ListGood, ListTold, Fits
  <2>5. m.op = ListOpcode(g) /\ m.kind = "eof" /\ ListGood(g) /\ ListTold(g, m) => ListGood(h)
    BY <2>2, <2>4, ListEndGood
  <2> QED BY <2>3, <2>5 DEF ListDoes, h
<1>5. ListDoes(g, listDirectoryComplete(g, "failed"), m)
  <2> DEFINE h == listDirectoryComplete(g, "failed")
  <2>1. "failed" \in Outcomes
    BY DEF Outcomes
  <2>2. Ended(g, h, "list", "failed") /\ h.ul = g.ul /\ h.dl = g.dl
    BY <2>1, ListEnded
  <2> HIDE DEF h
  <2>3. ListTurn(g, h)
    BY <2>1, <2>2, OverCallSelf, ComesToEnd DEF ListTurn
  <2>4. ListGood(h)
    BY <2>2, ListEndGood
  <2> QED BY <2>3, <2>4 DEF ListDoes, h
<1> DEFINE more == listDirectoryWorker([AppendEntries(g, m) EXCEPT !.expected = m.seq], TRUE)
           anew == listDirectoryWorker(
                      [g EXCEPT !.withTime = FALSE, !.expected = m.seq,
                                !.ls = [@ EXCEPT !.withTime = FALSE, !.offset = 0,
                                                 !.entries = <<>>]], TRUE)
           ok == listDirectoryComplete(g, "ok")
           failed == listDirectoryComplete(g, "failed")
<1>6. \/ listDirectoryAckOrNak(g, m) \in {g, failed}
      \/ m.op = ListOpcode(g) /\ m.kind = "ack" /\ listDirectoryAckOrNak(g, m) = more
      \/ g.ls.withTime /\ listDirectoryAckOrNak(g, m) = anew
      \/ m.op = ListOpcode(g) /\ m.kind = "eof" /\ listDirectoryAckOrNak(g, m) = ok
  <2>1. m.seq \in Nat /\ ~(m.seq < g.expected)
    BY <1>0 DEF Numbers
  <2> HIDE DEF more, anew, ok, failed
  <2>2. listDirectoryAckOrNak(g, m) =
    IF m.op # ListOpcode(g) THEN g
    ELSE CASE m.kind = "ack" /\ m.seq < g.expected -> Stopped(g)
           [] m.kind = "ack" /\ m.seq >= g.expected -> more
           [] m.kind = "eof" /\ m.seq # g.expected -> [g EXCEPT !.timer = TRUE]
           [] m.kind = "eof" /\ m.seq = g.expected -> ok
           [] m.kind = "unknown" /\ g.ls.withTime -> anew
           [] OTHER -> failed
    BY DEF listDirectoryAckOrNak, more, anew, ok, failed
  <2> QED BY <2>1, <2>2
<1> QED BY <1>1, <1>2, <1>3, <1>4, <1>5, <1>6

LEMMA DeleteDoes ==
  ASSUME NEW g \in GcsType, g.out = <<>>, NEW m \in Replies
  PROVE  LET h == deleteFileAckOrNak(g, m) IN
         Turn(g, h) /\ Acts(g, h, "delete") /\ SameFiles(g, h) /\ h.stage \in {g.stage, "idle"}
<1>1. Turn(g, g) /\ Acts(g, g, "delete") /\ SameFiles(g, g)
  BY Waits, OverCallSelf
<1>2. \A o \in Outcomes : LET h == deleteComplete(g, o) IN
         Turn(g, h) /\ Acts(g, h, "delete") /\ SameFiles(g, h) /\ h.stage = "idle"
  <2> TAKE o \in Outcomes
  <2> DEFINE h == deleteComplete(g, o)
  <2>1. Ended(g, h, "delete", o) /\ SameFiles(g, h)
    BY DeleteEnded
  <2> HIDE DEF h
  <2>2. Turn(g, h) /\ Acts(g, h, "delete")
    BY <2>1, OverCallSelf, ComesToEnd
  <2> QED BY <2>1, <2>2 DEF h, Ended
<1>3. deleteFileAckOrNak(g, m) \in {g, deleteComplete(g, "ok"), deleteComplete(g, "failed")}
  BY DEF deleteFileAckOrNak
<1> QED BY <1>1, <1>2, <1>3 DEF Outcomes

-----------------------------------------------------------------------------
(* Handlers of an upload *)

\* The blocks up to the one in the buffer are with the vehicle or on their way.
UploadGood(g) ==
    /\ g.machine = "upload" => g.ul.size = g.call.size
    /\ g.machine = "abortUpload" => g.ul.cancelled
    /\ g.stage = "create" => g.ul.sent = 0 /\ g.ul.chunk = 0
    /\ g.stage = "write" => g.ul.chunk = 1 /\ g.ul.sent < g.ul.size
    /\ g.stage = "reset" /\ g.machine = "upload" => g.ul.sent = g.ul.size

UploadTurn(g, h) == Turn(g, h) /\ Acts(g, h, "upload") /\ h.dl = g.dl /\ h.ls = g.ls

\* The acknowledgement of the session or of a block, and the request after it.
Acknowledged(g, h, m) ==
    /\ m.kind = "ack" /\ m.seq = g.expected /\ (h.unsent \/ h.expected = Seq16(g.expected + 2))
    /\ h.machine = "upload" /\ h.signals = g.signals /\ h.stage \in {"write", "reset"}
    /\ \/ g.stage = "create" /\ m.op = "create" /\ h.ul.session = m.session /\ h.ul.sent = g.ul.sent
       \/ /\ g.stage = "write" /\ m.op = "write" /\ h.ul.session = g.ul.session
          /\ h.ul.sent = g.ul.sent + g.ul.chunk

\* The ways an upload goes on: as before, by one step, or to its end.
UploadMove(g, h, m) ==
    \/ SameQuestion(g, h) /\ h.signals = g.signals /\ (h.unsent \/ h.expected = g.expected)
    \/ Acknowledged(g, h, m)
    \/ \E kind \in {"upload", "download"}, o \in Outcomes :
          /\ Ended(g, h, kind, o)
          /\ kind = "upload" /\ o = "ok" => g.stage = "reset" /\ m.kind = "ack" /\ Fits(g, m, "reset")

UploadDoes(g, h, m) ==
    /\ UploadTurn(g, h) /\ (UploadGood(g) => UploadGood(h))
    /\ g.machine = "upload" => UploadMove(g, h, m)

LEMMA UploadWaits ==
  ASSUME NEW g \in GcsType, g.out = <<>>, NEW h, OverCall(g, h), SameFiles(g, h),
         h.expected = g.expected, NEW m
  PROVE  UploadDoes(g, h, m)
<1>1. Turn(g, h) /\ Acts(g, h, "upload")
  BY Waits
<1>2. UploadGood(g) => UploadGood(h)
  BY DEF UploadGood, OverCall, SameFiles
<1>3. SameQuestion(g, h) /\ h.signals = g.signals
  BY DEF SameQuestion, OverCall, SameFiles
<1> QED BY <1>1, <1>2, <1>3 DEF UploadDoes, UploadTurn, UploadMove, SameFiles

LEMMA UploadEndDoes ==
  ASSUME NEW g \in GcsType, g.out = <<>>, NEW o \in Outcomes, NEW m,
         o = "ok" /\ g.machine = "upload" => g.stage = "reset" /\ m.kind = "ack" /\ Fits(g, m, "reset")
  PROVE  UploadDoes(g, uploadComplete(g, o), m)
<1> DEFINE h == uploadComplete(g, o)
<1>1. Ended(g, h, "upload", o) /\ h.dl = g.dl /\ h.ls = g.ls
  BY UploadEnded
<1> HIDE DEF h
<1>2. Turn(g, h) /\ Acts(g, h, "upload")
  BY <1>1, OverCallSelf, ComesToEnd
<1>3. UploadGood(h)
  BY <1>1 DEF UploadGood, Ended
<1>4. g.machine = "upload" => UploadMove(g, h, m)
  BY <1>1 DEF UploadMove
<1> QED BY <1>1, <1>2, <1>3, <1>4 DEF UploadDoes, UploadTurn, h

\* The next block is sent, the same again, or there is none.
LEMMA WritesOn ==
  ASSUME NEW g \in GcsType, g.machine = "upload",
         NEW k, OverCall(g, k), k.expected = g.expected, k.dl = g.dl, k.ls = g.ls,
         NEW first \in BOOLEAN,
         ~first => g.stage = "write" /\ k.ul.session = g.ul.session /\ k.ul.sent = g.ul.sent
  PROVE  LET h == writeFileWorker(k, first) IN
         /\ UploadTurn(g, h) /\ h.machine = "upload" /\ h.signals = g.signals
         /\ h.stage \in {"write", "reset"}
         /\ h.ul.session = k.ul.session /\ h.ul.sent = k.ul.sent
         /\ first => h.unsent \/ h.expected = Seq16(g.expected + 2)
         /\ ~first /\ k.ul.sent < k.ul.size => SameQuestion(g, h) /\ (h.unsent \/ h.expected = g.expected)
         /\ UploadGood(g) /\ k.ul.size = g.ul.size /\ k.ul.sent <= k.ul.size => UploadGood(h)
<1> DEFINE h == writeFileWorker(k, first)
<1>0. k \in GcsType /\ k.machine = g.machine /\ k.ul \in UploadType /\ k.ul.sent \in Nat /\ k.ul.size \in Nat
  <2>1. k \in GcsType /\ k.machine = g.machine
    BY DEF OverCall
  <2> QED BY <2>1, OwnFields DEF UploadType
<1>1. /\ Further(first) \in Nat /\ Further(first) <= Burst + 3 /\ 2 <= Burst + 3
      /\ Further(first) = (IF first THEN 2 ELSE 0)
  BY FtpAssumption DEF Further
<1>2. CASE k.ul.sent < k.ul.size
  <2> DEFINE u == [k.ul EXCEPT !.chunk = 1]
             p == [k EXCEPT !.ul = u]
  <2>1. u \in UploadType /\ Asks(p, h, "write", Further(first))
    BY <1>0, <1>2, WriteAsks
  <2>2. u.chunk = 1 /\ u.session = k.ul.session /\ u.sent = k.ul.sent /\ u.size = k.ul.size
    BY <1>0 DEF UploadType
  <2> HIDE DEF u, h
  <2>3. OverCall(k, p) /\ p.ul = u /\ p.dl = k.dl /\ p.ls = k.ls /\ p.expected = k.expected
    BY <1>0, <2>1, OverCallData
  <2> HIDE DEF p
  <2>4. OverCall(g, p)
    BY <2>3, OverCallOver
  <2>5. /\ Turn(g, h) /\ h \in GcsType /\ h.machine = g.machine /\ h.call = g.call
        /\ h.signals = g.signals /\ h.waiting = g.waiting /\ h.stage = "write" /\ SameFiles(p, h)
        /\ \A kind : Acts(g, h, kind)
        /\ h.unsent \/ h.expected = Seq16(g.expected + Further(first))
    <3>1. Further(first) = 0 => ~first
      BY <1>1
    <3> QED BY <1>1, <2>1, <2>2, <2>3, <2>4, <3>1, GoesOnNow
  <2>6. UploadTurn(g, h)
    BY <2>3, <2>5 DEF UploadTurn, SameFiles
  <2>7. UploadGood(g) /\ k.ul.size = g.ul.size => UploadGood(h)
    BY <1>2, <2>2, <2>3, <2>5 DEF UploadGood, SameFiles
  <2>8. ~first => SameQuestion(g, h) /\ (h.unsent \/ h.expected = g.expected)
    <3>1. ~first => h.unsent \/ h.expected = g.expected
      BY <1>1, <2>5, OwnFields, NumbersAdd
    <3> QED BY <2>2, <2>3, <2>5, <3>1 DEF SameQuestion, SameFiles
  <2>9. first => h.unsent \/ h.expected = Seq16(g.expected + 2)
    BY <1>1, <2>5
  <2> QED BY <2>2, <2>3, <2>5, <2>6, <2>7, <2>8, <2>9 DEF h, SameFiles
<1>3. CASE ~(k.ul.sent < k.ul.size)
  <2>1. h = resetSessionsBegin(k)
    BY <1>0, <1>3 DEF writeFileWorker
  <2>2. Asks(k, h, "reset", 2)
    BY <1>0, <2>1, ResetAsks
  <2> HIDE DEF h
  <2>3. /\ Turn(g, h) /\ h \in GcsType /\ h.machine = g.machine /\ h.call = g.call
        /\ h.signals = g.signals /\ h.waiting = g.waiting /\ h.stage = "reset" /\ SameFiles(k, h)
        /\ \A kind : Acts(g, h, kind)
        /\ h.unsent \/ h.expected = Seq16(g.expected + 2)
    <3> DEFINE two == 2
    <3>1. two \in Nat /\ two # 0 /\ two <= Burst + 3 /\ Asks(k, h, "reset", two)
      BY <1>1, <2>2
    <3> HIDE DEF two
    <3>2. /\ Turn(g, h) /\ h \in GcsType /\ h.machine = g.machine /\ h.call = g.call
          /\ h.signals = g.signals /\ h.waiting = g.waiting /\ h.stage = "reset" /\ SameFiles(k, h)
          /\ \A kind : Acts(g, h, kind)
          /\ h.unsent \/ h.expected = Seq16(g.expected + two)
      BY <3>1, GoesOnNow
    <3> QED BY <3>2 DEF two
  <2>4. UploadTurn(g, h)
    BY <2>3 DEF UploadTurn, SameFiles
  <2>5. k.ul.sent <= k.ul.size => k.ul.sent = k.ul.size
    BY <1>0, <1>3
  <2>6. UploadGood(g) /\ k.ul.size = g.ul.size /\ k.ul.sent <= k.ul.size => UploadGood(h)
    BY <2>3, <2>5 DEF UploadGood, SameFiles
  <2> QED BY <1>3, <2>3, <2>4, <2>6 DEF h, SameFiles
<1> QED BY <1>2, <1>3

LEMMA CreateDoes ==
  ASSUME NEW g \in GcsType, g.out = <<>>, g.stage = "create", g.machine = "upload", NEW m \in Replies
  PROVE  UploadDoes(g, createFileAckOrNak(g, m), m)
<1>1. CASE ~Fits(g, m, "create")
  BY <1>1, UploadWaits, OverCallSelf DEF createFileAckOrNak
<1>2. CASE Fits(g, m, "create") /\ m.kind = "ack"
  <2> DEFINE u == [g.ul EXCEPT !.session = m.session]
             k == [g EXCEPT !.ul = u]
             h == writeFileWorker(k, TRUE)
  <2>1. u \in UploadType /\ u.session = m.session /\ u.sent = g.ul.sent /\ u.size = g.ul.size
    BY ReplyTypes, OwnFields DEF UploadType
  <2>2. createFileAckOrNak(g, m) = h
    <3>1. [g EXCEPT !.ul.session = m.session] = k
      BY DEF GcsType
    <3> QED BY <1>2, <3>1 DEF createFileAckOrNak
  <2> HIDE DEF u
  <2>3. OverCall(g, k) /\ k.ul = u /\ k.dl = g.dl /\ k.ls = g.ls /\ k.expected = g.expected
    BY <2>1, OverCallData
  <2> HIDE DEF k
  <2>4. /\ UploadTurn(g, h) /\ h.machine = "upload" /\ h.signals = g.signals
        /\ h.stage \in {"write", "reset"}
        /\ h.ul.session = k.ul.session /\ h.ul.sent = k.ul.sent
        /\ h.unsent \/ h.expected = Seq16(g.expected + 2)
        /\ UploadGood(g) /\ k.ul.size = g.ul.size /\ k.ul.sent <= k.ul.size => UploadGood(h)
    BY <2>3, WritesOn
  <2> HIDE DEF h
  <2>5. Acknowledged(g, h, m)
    BY <1>2, <2>1, <2>3, <2>4 DEF Acknowledged, Fits
  <2>6. UploadGood(g) => k.ul.size = g.ul.size /\ k.ul.sent <= k.ul.size
    <3>1. g.ul.size \in Nat
      BY OwnFields DEF UploadType
    <3> QED BY <2>1, <2>3, <3>1 DEF UploadGood
  <2> QED BY <2>2, <2>4, <2>5, <2>6 DEF UploadDoes, UploadMove
<1>3. CASE Fits(g, m, "create") /\ m.kind # "ack"
  <2>1. createFileAckOrNak(g, m) = uploadComplete(g, "failed")
    BY <1>3 DEF createFileAckOrNak
  <2> QED BY <2>1, UploadEndDoes DEF Outcomes
<1> QED BY <1>1, <1>2, <1>3

LEMMA WriteDoesGood ==
  ASSUME NEW g \in GcsType, g.out = <<>>, g.stage = "write", g.machine = "upload", NEW m \in Replies,
         m.op = "write" => m.seq = g.expected
  PROVE  UploadDoes(g, writeFileAckOrNak(g, m), m)
<1> DEFINE s == g.ul.sent + g.ul.chunk
           u == [g.ul EXCEPT !.sent = s, !.chunk = 0]
           p == [g EXCEPT !.timer = FALSE]
           q == [p EXCEPT !.ul = u]
           k == [q EXCEPT !.expected = m.seq]
           h == writeFileWorker(k, TRUE)
<1>1. UploadDoes(g, g, m) /\ UploadDoes(g, uploadComplete(g, "failed"), m)
  BY UploadWaits, UploadEndDoes, OverCallSelf DEF Outcomes
<1>2. m.op = "write" /\ m.kind = "ack" => UploadDoes(g, h, m)
  <2> SUFFICES ASSUME m.op = "write", m.kind = "ack"
               PROVE  UploadDoes(g, h, m)
    OBVIOUS
  <2>0. s \in Nat /\ g.ul.sent \in Nat /\ g.ul.chunk \in {0, 1} /\ g.ul.size \in Nat
    BY OwnFields DEF UploadType
  <2>1. UploadGood(g) => s <= g.ul.size
    BY <2>0 DEF UploadGood
  <2> HIDE DEF s
  <2>2. u \in UploadType /\ u.session = g.ul.session /\ u.sent = s /\ u.size = g.ul.size
    BY <2>0, OwnFields DEF UploadType
  <2> HIDE DEF u
  <2>3. OverCall(g, p) /\ SameFiles(g, p) /\ p.expected = g.expected
    BY OverCallData
  <2> HIDE DEF p
  <2>4. OverCall(p, q) /\ q.ul = u /\ q.dl = p.dl /\ q.ls = p.ls
    BY <2>2, <2>3, OverCallData DEF OverCall
  <2> HIDE DEF q
  <2>5. OverCall(q, k) /\ SameFiles(q, k) /\ k.expected = m.seq
    BY <2>4, ReplyTypes, OverCallData DEF OverCall
  <2> HIDE DEF k
  <2>6. OverCall(g, k)
    BY <2>3, <2>4, <2>5, OverCallOver
  <2>7. k.expected = g.expected /\ k.dl = g.dl /\ k.ls = g.ls /\ k.ul = u
    BY <2>3, <2>4, <2>5 DEF SameFiles
  <2>8. /\ UploadTurn(g, h) /\ h.machine = "upload" /\ h.signals = g.signals
        /\ h.stage \in {"write", "reset"}
        /\ h.ul.session = k.ul.session /\ h.ul.sent = k.ul.sent
        /\ h.unsent \/ h.expected = Seq16(g.expected + 2)
        /\ UploadGood(g) /\ k.ul.size = g.ul.size /\ k.ul.sent <= k.ul.size => UploadGood(h)
    BY <2>6, <2>7, WritesOn
  <2> HIDE DEF h
  <2>9. Acknowledged(g, h, m)
    BY <2>2, <2>7, <2>8 DEF Acknowledged, s
  <2> QED BY <2>1, <2>2, <2>7, <2>8, <2>9 DEF UploadDoes, UploadMove
<1>3. [Stopped(g) EXCEPT !.ul.sent = @ + g.ul.chunk, !.ul.chunk = 0, !.expected = m.seq] = k
  <2>1. Stopped(g) = p
    BY DEF Stopped
  <2>2. p.ul = g.ul
    BY DEF GcsType
  <2>3. [p EXCEPT !.ul.sent = @ + g.ul.chunk, !.ul.chunk = 0, !.expected = m.seq]
        = [p EXCEPT !.ul = u, !.expected = m.seq]
    <3> HIDE DEF p
    <3> QED BY <2>2
  <2> HIDE DEF u
  <2> QED BY <2>1, <2>3 DEF GcsType
<1>4. \/ writeFileAckOrNak(g, m) \in {g, uploadComplete(g, "failed")}
      \/ m.op = "write" /\ m.kind = "ack" /\ writeFileAckOrNak(g, m) = h
  <2>1. m.op = "write" => ~(m.seq < g.expected) /\ m.seq >= g.expected
    BY OwnFields, ReplyTypes DEF Numbers
  <2> HIDE DEF k
  <2>2. writeFileAckOrNak(g, m) =
    IF m.op # "write" \/ m.session # g.ul.session THEN g
    ELSE CASE m.kind = "ack" /\ m.seq < g.expected -> Stopped(g)
           [] m.kind = "ack" /\ m.seq >= g.expected -> h
           [] OTHER -> uploadComplete(g, "failed")
    BY <1>3 DEF writeFileAckOrNak
  <2> HIDE DEF h
  <2> QED BY <2>1, <2>2
<1> HIDE DEF h
<1> QED BY <1>1, <1>2, <1>4

LEMMA TerminateUploadDoes ==
  ASSUME NEW g \in GcsType, g.out = <<>>, g.machine # "upload", NEW m \in Replies
  PROVE  LET h == terminateUploadSessionAckOrNak(g, m) IN
         /\ UploadDoes(g, h, m)
         /\ h = g \/ \E o \in Outcomes : Ended(g, h, "upload", o) /\ (g.ul.cancelled => o # "ok")
<1> DEFINE h == terminateUploadSessionAckOrNak(g, m)
<1>1. UploadDoes(g, g, m)
  BY UploadWaits, OverCallSelf
<1>2. \A o \in Outcomes : UploadDoes(g, uploadComplete(g, o), m)
                          /\ Ended(g, uploadComplete(g, o), "upload", o)
  BY UploadEndDoes, UploadEnded
<1>3. h = g \/ \E o \in Outcomes : h = uploadComplete(g, o) /\ (g.ul.cancelled => o # "ok")
  BY DEF terminateUploadSessionAckOrNak, uploadFinalize, Outcomes
<1> HIDE DEF h
<1> QED BY <1>1, <1>2, <1>3 DEF h

-----------------------------------------------------------------------------
(* Every answer and every timeout *)

\* What a handler of another call leaves alone.
LEMMA Aside ==
  ASSUME NEW g \in GcsType, NEW h, NEW kind, Acts(g, h, kind)
  PROVE  /\ kind # "list" /\ h.ls = g.ls /\ h.stage # "list" /\ ListGood(g) => ListGood(h)
         /\ kind # "download" /\ h.dl = g.dl /\ h.stage \notin {"burst", "fill"}
            /\ g.machine # "download" /\ DownloadGood(g) => DownloadGood(h)
         /\ h.ul = g.ul /\ h.stage \notin {"create", "write"} /\ g.machine # "upload"
            /\ UploadGood(g) => UploadGood(h)
<1>1. CASE h.machine = g.machine /\ h.signals = g.signals /\ h.waiting = g.waiting
  <2>1. h.call = g.call
    BY DEF Acts
  <2>2. h.ls = g.ls /\ h.stage # "list" /\ ListGood(g) => ListGood(h)
    BY <1>1, <2>1 DEF ListGood
  <2>3. h.dl = g.dl /\ h.stage \notin {"burst", "fill"} /\ g.machine # "download" /\ DownloadGood(g) =>
            DownloadGood(h)
    BY <1>1, <2>1 DEF DownloadGood
  <2>4. h.ul = g.ul /\ h.stage \notin {"create", "write"} /\ g.machine # "upload" /\ UploadGood(g) =>
            UploadGood(h)
    BY <1>1, <2>1 DEF UploadGood
  <2> QED BY <2>2, <2>3, <2>4
<1>2. CASE \E o \in Outcomes : Ended(g, h, kind, o)
  <2>1. PICK o \in Outcomes : Ended(g, h, kind, o)
    BY <1>2
  <2>2. kind # "list" => ListGood(h)
    BY <2>1, ListEndGood
  <2>3. kind # "download" /\ h.dl = g.dl => DownloadGood(h)
    BY <2>1, EndGood
  <2>4. UploadGood(h)
    BY <2>1 DEF UploadGood, Ended
  <2> QED BY <2>2, <2>3, <2>4
<1> QED BY <1>1, <1>2 DEF Acts

Moves(g, h, m) ==
    /\ g.machine = "upload" => UploadMove(g, h, m)
    /\ h.signals = <<<<"upload", "ok">>>> => g.signals = h.signals \/ g.machine = "upload" \/ ~UploadGood(g)
    /\ h.stage = "open" => SameQuestion(g, h) /\ h.expected = g.expected
    /\ h.stage = "burst" =>
          /\ g.stage = "burst" \/ Opened(g, h, m)
          /\ h.dl.path = g.dl.path

\* What the answer m makes of the manager g.
Does(g, h, m) ==
    /\ Turn(g, h) /\ \E kind \in Operations : Acts(g, h, kind)
    /\ ListGood(g) /\ ListTold(g, m) => ListGood(h)
    /\ DownloadGood(g) /\ DownloadTold(g, m) => DownloadGood(h)
    /\ UploadGood(g) => UploadGood(h)
    /\ Moves(g, h, m)

\* h is of a machine that g is of, or idle.
LEMMA MachineStages ==
  ASSUME NEW g, NEW h, NEW kind, Acts(g, h, kind), Sound(h), NEW a, g.machine = a
  PROVE  h.stage \in StagesOf(a) \cup {"idle"}
<1>1. h.stage = "idle" \/ h.machine = a
  BY DEF Acts, Ended
<1>2. h.stage = "idle" \/ h.stage \in StagesOf(h.machine)
  BY DEF Sound, Working, Resting
<1> QED BY <1>1, <1>2

LEMMA DownloadAnswers ==
  ASSUME NEW g \in GcsType, g.machine = "download", NEW m, NEW h, Sound(h), DownloadDoes(g, h, m)
  PROVE  Does(g, h, m)
<1>1. Turn(g, h) /\ Acts(g, h, "download") /\ h.ls = g.ls /\ h.ul = g.ul /\ h.dl.path = g.dl.path
  BY DEF DownloadDoes, DownloadTurn
<1>2. h.stage \in {"open", "burst", "fill", "reset", "idle"}
  BY <1>1, MachineStages DEF StagesOf
<1>3. ListGood(g) => ListGood(h)
  BY <1>1, <1>2, Aside
<1>4. UploadGood(g) => UploadGood(h)
  BY <1>1, <1>2, Aside
<1>5. h.signals = <<<<"upload", "ok">>>> => g.signals = h.signals
  BY <1>1, LastSignal DEF Acts
<1>6. h.stage = "open" => SameQuestion(g, h) /\ h.expected = g.expected
  BY DEF DownloadDoes, SameQuestion
<1> QED BY <1>1, <1>3, <1>4, <1>5, <1>6 DEF Does, DownloadDoes, Moves, Operations

LEMMA UploadAnswers ==
  ASSUME NEW g \in GcsType, g.machine \in {"upload", "abortUpload"}, NEW m, NEW h, Sound(h),
         UploadDoes(g, h, m),
         g.machine = "abortUpload" =>
             h = g \/ \E o \in Outcomes : Ended(g, h, "upload", o) /\ (g.ul.cancelled => o # "ok")
  PROVE  Does(g, h, m)
<1>1. Turn(g, h) /\ Acts(g, h, "upload") /\ h.ls = g.ls /\ h.dl = g.dl
  BY DEF UploadDoes, UploadTurn
<1>2. h.stage \in {"create", "write", "reset", "terminateUpload", "idle"}
  BY <1>1, MachineStages DEF StagesOf
<1>3. ListGood(g) => ListGood(h)
  BY <1>1, <1>2, Aside
<1>4. DownloadGood(g) => DownloadGood(h)
  BY <1>1, <1>2, Aside
<1>5. h.signals = <<<<"upload", "ok">>>> => g.signals = h.signals \/ g.machine = "upload" \/ ~UploadGood(g)
  BY LastSignal DEF UploadGood
<1> QED BY <1>1, <1>2, <1>3, <1>4, <1>5 DEF Does, UploadDoes, Moves, Operations

LEMMA ListingAnswers ==
  ASSUME NEW g \in GcsType, g.machine = "list", NEW m, NEW h, Sound(h), ListDoes(g, h, m)
  PROVE  Does(g, h, m)
<1>1. Turn(g, h) /\ Acts(g, h, "list") /\ h.ul = g.ul /\ h.dl = g.dl
  BY DEF ListDoes, ListTurn
<1>2. h.stage \in {"list", "idle"}
  BY <1>1, MachineStages DEF StagesOf
<1>3. DownloadGood(g) => DownloadGood(h)
  BY <1>1, <1>2, Aside
<1>4. UploadGood(g) => UploadGood(h)
  BY <1>1, <1>2, Aside
<1>5. h.signals = <<<<"upload", "ok">>>> => g.signals = h.signals
  BY <1>1, LastSignal DEF Acts
<1> QED BY <1>1, <1>2, <1>3, <1>4, <1>5 DEF Does, ListDoes, Moves, Operations

LEMMA DeletionAnswers ==
  ASSUME NEW g \in GcsType, g.machine = "delete", NEW m, NEW h, Sound(h), Turn(g, h),
         Acts(g, h, "delete"), SameFiles(g, h)
  PROVE  Does(g, h, m)
<1>2. h.stage \in {"remove", "idle"}
  BY MachineStages DEF StagesOf
<1>3. /\ ListGood(g) => ListGood(h)
      /\ DownloadGood(g) => DownloadGood(h)
      /\ UploadGood(g) => UploadGood(h)
  BY <1>2, Aside DEF SameFiles
<1>5. h.signals = <<<<"upload", "ok">>>> => g.signals = h.signals
  BY LastSignal DEF Acts
<1> QED BY <1>2, <1>3, <1>5 DEF Does, Moves, Operations

\* An aborted download, and the end of an upload that a download is told of.
LEMMA AbortAnswers ==
  ASSUME NEW g \in GcsType, g.machine \in {"abortDownload", "upload"}, NEW m, NEW h, Sound(h),
         DownloadTurn(g, h), DownloadGood(g) => DownloadGood(h),
         g.machine = "upload" => h = g \/ \E o \in Outcomes : Ended(g, h, "download", o)
  PROVE  Does(g, h, m)
<1>1. Turn(g, h) /\ Acts(g, h, "download") /\ h.ls = g.ls /\ h.ul = g.ul /\ h.dl.path = g.dl.path
  BY DEF DownloadTurn
<1>2. h.stage \in {"create", "write", "reset", "terminate", "idle"}
  BY <1>1, MachineStages DEF StagesOf
<1>3. ListGood(g) => ListGood(h)
  BY <1>1, <1>2, Aside
<1>4. UploadGood(g) => UploadGood(h)
  <2>1. CASE g.machine # "upload"
    <3>1. h.stage \in {"terminate", "idle"}
      BY <2>1, <1>1, MachineStages DEF StagesOf
    <3> QED BY <1>1, <2>1, <3>1, Aside
  <2>2. CASE h = g
    BY <2>2
  <2>3. CASE \E o \in Outcomes : Ended(g, h, "download", o)
    BY <2>3 DEF UploadGood, Ended
  <2> QED BY <2>1, <2>2, <2>3
<1>5. h.signals = <<<<"upload", "ok">>>> => g.signals = h.signals
  BY <1>1, LastSignal DEF Acts
<1>6. g.machine = "upload" => UploadMove(g, h, m)
  BY DEF UploadMove, SameQuestion
<1> QED BY <1>1, <1>2, <1>3, <1>4, <1>5, <1>6 DEF Does, Moves, Operations

LEMMA NothingDone ==
  ASSUME NEW g \in GcsType, g.out = <<>>, NEW m
  PROVE  Does(g, g, m)
<1>1. Turn(g, g) /\ Acts(g, g, "list")
  BY Waits, OverCallSelf
<1>2. SameQuestion(g, g)
  BY DEF SameQuestion
<1>3. g.stage = "burst" => g.stage = "burst"
  OBVIOUS
<1> QED BY <1>1, <1>2 DEF Does, Moves, UploadMove, Operations

\* The end of a transfer, well or for the reason that no answer came.
LEMMA WellDone ==
  ASSUME NEW g \in GcsType, g.out = <<>>, g.stage = "reset", g.machine \in {"download", "upload"},
         CallGood(g), NEW b \in BOOLEAN, NEW m, NEW h, h = downloadComplete([g EXCEPT !.orphan = b], "ok"),
         Sound(h)
  PROVE  Does(g, h, m)
<1> DEFINE k == [g EXCEPT !.orphan = b]
<1>0. h = downloadComplete(k, "ok")
  OBVIOUS
<1>1. Over(g, k) /\ k.dl = g.dl /\ k.expected = g.expected
  BY OverData
<1> HIDE DEF k
<1>2. "ok" \in Outcomes
  BY DEF Outcomes
<1>3. DownloadTurn(g, h) /\ Ended(g, h, "download", "ok") /\ h.dl.written = g.dl.written
  BY <1>0, <1>1, <1>2, OverEnds
<1>4. DownloadGood(g) => DownloadGood(h)
  <2>1. g.call.kind = g.machine
    BY DEF CallGood, Operations
  <2>2. DownloadGood(g) /\ g.machine = "download" /\ g.dl.checksize => h.dl.written = Blocks(g.call.size)
    BY <1>3 DEF DownloadGood
  <2>3. h.dl.checksize = g.dl.checksize
    BY <1>3 DEF DownloadTurn
  <2> QED BY <1>3, <2>1, <2>2, <2>3, EndGood
<1>5. CASE g.machine = "upload"
  BY <1>2, <1>3, <1>4, <1>5, AbortAnswers
<1>6. CASE g.machine = "download"
  <2>1. h.stage = "idle"
    BY <1>3 DEF Ended
  <2>2. DownloadDoes(g, h, m)
    BY <1>3, <1>4, <2>1 DEF DownloadDoes
  <2> QED BY <1>6, <2>2, DownloadAnswers
<1> QED BY <1>5, <1>6

LEMMA ResetDoes ==
  ASSUME NEW g \in GcsType, g.out = <<>>, g.stage = "reset", g.machine \in {"download", "upload"},
         CallGood(g), NEW m \in Replies, Sound(resetSessionsAckOrNak(g, m))
  PROVE  Does(g, resetSessionsAckOrNak(g, m), m)
<1> DEFINE h == resetSessionsAckOrNak(g, m)
<1>1. CASE ~Fits(g, m, "reset")
  <2>1. h = g
    BY <1>1 DEF resetSessionsAckOrNak
  <2> QED BY <2>1, NothingDone
<1>2. CASE Fits(g, m, "reset") /\ m.kind = "ack" /\ g.machine = "upload"
  <2>1. h = uploadFinalize(g)
    BY <1>2 DEF resetSessionsAckOrNak
  <2>2. h = uploadComplete(g, "ok") \/ h = uploadComplete(g, "aborted")
    BY <2>1 DEF uploadFinalize
  <2> HIDE DEF h
  <2>3. UploadDoes(g, h, m)
    BY <1>2, <2>2, UploadEndDoes DEF Outcomes
  <2>4. Sound(h)
    BY DEF h
  <2>5. Does(g, h, m)
    BY <1>2, <2>3, <2>4, UploadAnswers
  <2> QED BY <2>5 DEF h
<1>3. CASE Fits(g, m, "reset") /\ m.kind = "ack" /\ g.machine # "upload"
  <2>1. h = downloadComplete(g, "ok")
    BY <1>3 DEF resetSessionsAckOrNak
  <2>2. [g EXCEPT !.orphan = g.orphan] = g /\ g.orphan \in BOOLEAN
    BY DEF GcsType
  <2>3. h = downloadComplete([g EXCEPT !.orphan = g.orphan], "ok")
    BY <2>1, <2>2
  <2> QED BY <2>2, <2>3, WellDone
<1>4. CASE Fits(g, m, "reset") /\ m.kind # "ack"
  <2> DEFINE b == g.orphan \/ g.machine = "upload"
  <2>1. h = downloadComplete([g EXCEPT !.orphan = b], "ok")
    BY <1>4 DEF resetSessionsAckOrNak
  <2>2. b \in BOOLEAN
    BY DEF GcsType
  <2> QED BY <2>1, <2>2, WellDone
<1> QED BY <1>1, <1>2, <1>3, <1>4

LEMMA TerminateDoes ==
  ASSUME NEW g \in GcsType, g.out = <<>>, g.machine = "abortDownload", NEW m, NEW o \in Outcomes, o # "ok",
         NEW h, h = downloadComplete(g, o), Sound(h), NEW n
  PROVE  Does(g, h, n)
<1>1. DownloadTurn(g, h) /\ Ended(g, h, "download", o)
  BY OverSelf, OverEnds
<1>2. DownloadGood(h)
  BY <1>1, EndGood DEF DownloadTurn
<1> QED BY <1>1, <1>2, AbortAnswers

\* Every answer does what it should.
LEMMA ReceivedDoes ==
  ASSUME BurstsFit, NEW g \in GcsType, g.out = <<>>, Sound(g), Recorded(g), CallGood(g),
         NEW m \in Replies, Near(g.expected, m.seq), m.op # "burst" => Past(g.expected, m.seq)
  PROVE  Does(g, mavlinkMessageReceived(g, m), m)
<1>1. Sound(mavlinkMessageReceived(g, m))
  BY ReceivedServes DEF Serves
<1>2. CASE g.stage = "idle" \/ IsOld(g, m)
  BY <1>2, NothingDone DEF mavlinkMessageReceived
<1>3. CASE g.stage # "idle" /\ ~IsOld(g, m)
  <2> DEFINE h == AckOrNak(g, m)
  <2>0. mavlinkMessageReceived(g, m) = h
    BY <1>3 DEF mavlinkMessageReceived
  <2>1. Sound(h) /\ Working(g)
    BY <1>1, <1>3, <2>0 DEF Sound, Resting
  <2>2. g.stage \in Stages \ {"idle"}
    BY <1>3 DEF GcsType
  <2>3. m.op # "burst" => m.seq = g.expected
    BY <1>3, NewNumber
  <2>4. CASE g.stage = "open"
    <3>1. g.machine = "download" /\ h = openFileROAckOrNak(g, m)
      BY <2>1, <2>4, StageTells DEF AckOrNak
    <3> QED BY <2>0, <2>1, <2>4, <3>1, OpenGood, DownloadAnswers
  <2>5. CASE g.stage = "burst"
    <3>1. g.machine = "download" /\ h = burstReadFileAckOrNak(g, m)
      BY <2>1, <2>5, StageTells DEF AckOrNak
    <3>2. DownloadDoes(g, h, m)
      BY <1>3, <2>5, <3>1, BurstGood
    <3> QED BY <2>0, <2>1, <3>1, <3>2, DownloadAnswers
  <2>6. CASE g.stage = "fill"
    <3>1. g.machine = "download" /\ h = fillMissingBlocksAckOrNak(g, m)
      BY <2>1, <2>6, StageTells DEF AckOrNak
    <3> QED BY <2>0, <2>1, <2>6, <3>1, FillGood, DownloadAnswers
  <2>7. CASE g.stage = "reset"
    <3>1. g.machine \in {"download", "upload"} /\ h = resetSessionsAckOrNak(g, m)
      BY <2>1, <2>7, StageTells DEF AckOrNak
    <3> QED BY <2>0, <2>1, <2>7, <3>1, ResetDoes
  <2>8. CASE g.stage = "create"
    <3>1. g.machine = "upload" /\ h = createFileAckOrNak(g, m)
      BY <2>1, <2>8, StageTells DEF AckOrNak
    <3> QED BY <2>0, <2>1, <2>8, <3>1, CreateDoes, UploadAnswers
  <2>9. CASE g.stage = "write"
    <3>1. g.machine = "upload" /\ h = writeFileAckOrNak(g, m)
      BY <2>1, <2>9, StageTells DEF AckOrNak
    <3> QED BY <2>0, <2>1, <2>3, <2>9, <3>1, WriteDoesGood, UploadAnswers
  <2>10. CASE g.stage = "list"
    <3>1. g.machine = "list" /\ h = listDirectoryAckOrNak(g, m)
      BY <2>1, <2>10, StageTells DEF AckOrNak
    <3>2. CASE m.op = "burst"
      <4>1. h = g
        BY <3>1, <3>2 DEF listDirectoryAckOrNak, ListOpcode
      <4> QED BY <2>0, <4>1, NothingDone
    <3>3. CASE m.op # "burst"
      BY <2>0, <2>1, <2>3, <2>10, <3>1, <3>3, ListAnswers, ListingAnswers
    <3> QED BY <3>2, <3>3
  <2>11. CASE g.stage = "remove"
    <3>1. g.machine = "delete" /\ h = deleteFileAckOrNak(g, m)
      BY <2>1, <2>11, StageTells DEF AckOrNak
    <3> QED BY <2>0, <2>1, <3>1, DeleteDoes, DeletionAnswers
  <2>12. CASE g.stage = "terminate"
    <3>1. g.machine = "abortDownload" /\ h = terminateSessionAckOrNak(g, m)
      BY <2>1, <2>12, StageTells DEF AckOrNak
    <3>2. h = g \/ h = downloadComplete(g, "aborted")
      BY <3>1 DEF terminateSessionAckOrNak
    <3> QED BY <2>0, <2>1, <3>1, <3>2, TerminateDoes, NothingDone DEF Outcomes
  <2>13. CASE g.stage = "terminateUpload"
    <3>1. g.machine = "abortUpload" /\ h = terminateUploadSessionAckOrNak(g, m)
      BY <2>1, <2>13, StageTells DEF AckOrNak
    <3>2. UploadDoes(g, h, m)
          /\ (h = g \/ \E o \in Outcomes : Ended(g, h, "upload", o) /\ (g.ul.cancelled => o # "ok"))
      BY <3>1, TerminateUploadDoes
    <3> QED BY <2>0, <2>1, <3>1, <3>2, UploadAnswers
  <2> HIDE DEF h
  <2> QED BY <2>2, <2>4, <2>5, <2>6, <2>7, <2>8, <2>9, <2>10, <2>11, <2>12, <2>13 DEF Stages
<1> QED BY <1>2, <1>3

\* A timeout is like an answer that says nothing.
Silence == [NoReply EXCEPT !.kind = "nak"]

LEMMA SilenceTells ==
  \A g : ListTold(g, Silence) /\ DownloadTold(g, Silence)
<1>1. Silence.kind = "nak"
  BY DEF Silence, NoReply
<1> QED BY <1>1 DEF ListTold, DownloadTold

\* k differs from g in what no promise is about.
Alike(g, k) == OverCall(g, k) /\ SameFiles(g, k) /\ k.expected = g.expected

LEMMA DoesFrom ==
  ASSUME NEW g, NEW k, Alike(g, k), NEW h, NEW m, Does(k, h, m)
  PROVE  Does(g, h, m)
<1>1. /\ k.machine = g.machine /\ k.call = g.call /\ k.signals = g.signals
      /\ k.waiting = g.waiting /\ k.stage = g.stage /\ k.out = g.out /\ k.unsent = g.unsent
      /\ k.dl = g.dl /\ k.ul = g.ul /\ k.ls = g.ls /\ k.expected = g.expected
  BY DEF Alike, OverCall, SameFiles
<1>2. \A a : SameQuestion(k, a) <=> SameQuestion(g, a)
  BY <1>1 DEF SameQuestion
<1>3. Turn(g, h)
  BY <1>1, <1>2 DEF Turn, Does
<1>4. \A kind, o : Ended(k, h, kind, o) <=> Ended(g, h, kind, o)
  BY <1>1 DEF Ended
<1>5. \E kind \in Operations : Acts(g, h, kind)
  BY <1>1, <1>4 DEF Acts, Does
<1>6. ListGood(g) /\ ListTold(g, m) => ListGood(k) /\ ListTold(k, m)
  BY <1>1 DEF ListGood, ListTold, ListOpcode, Fits
<1>7. DownloadGood(g) /\ DownloadTold(g, m) => DownloadGood(k) /\ DownloadTold(k, m)
  <2>1. IsOld(k, m) <=> IsOld(g, m)
    BY <1>1, SMT DEF IsOld
  <2> QED BY <1>1, <2>1 DEF DownloadGood, DownloadTold, Covered, Fits
<1>8. UploadGood(g) <=> UploadGood(k)
  BY <1>1 DEF UploadGood
<1>9. Acknowledged(k, h, m) <=> Acknowledged(g, h, m)
  BY <1>1 DEF Acknowledged
<1>10. UploadMove(k, h, m) => UploadMove(g, h, m)
  BY <1>1, <1>2, <1>4, <1>9 DEF UploadMove, Fits
<1>11. Moves(g, h, m)
  BY <1>1, <1>2, <1>8, <1>10 DEF Does, Moves, Fits, Opened
<1> QED BY <1>3, <1>5, <1>6, <1>7, <1>8, <1>11 DEF Does

LEMMA GiveUpDoes ==
  ASSUME NEW g \in GcsType, g.out = <<>>, Working(g), CallGood(g)
  PROVE  Does(g, GiveUp(g), Silence)
<1> DEFINE h == GiveUp(g)
<1>1. Sound(h)
  BY GiveUpServes DEF Serves
<1>2. g.stage \in Stages \ {"idle"}
  BY StageTells DEF GcsType
<1>3. "failed" \in Outcomes
  BY DEF Outcomes
<1>4. CASE g.stage \in {"open", "burst", "fill"}
  <2>1. h = downloadComplete(g, "failed") /\ g.machine = "download"
    BY <1>4, StageTells DEF GiveUp
  <2>2. DownloadDoes(g, downloadComplete(g, "failed"), Silence)
    BY FailureGood DEF DownloadDoes
  <2> QED BY <1>1, <2>1, <2>2, DownloadAnswers
<1>5. CASE g.stage = "terminate"
  <2>1. h = downloadComplete(g, "failed") /\ g.machine = "abortDownload"
    BY <1>5, StageTells DEF GiveUp
  <2> QED BY <1>1, <1>3, <2>1, TerminateDoes
<1>6. CASE g.stage = "reset"
  <2> DEFINE b == g.orphan \/ g.machine = "upload"
  <2>1. h = downloadComplete([g EXCEPT !.orphan = b], "ok") /\ g.machine \in {"download", "upload"}
    BY <1>6, StageTells DEF GiveUp
  <2>2. b \in BOOLEAN
    BY DEF GcsType
  <2> HIDE DEF b
  <2> QED BY <1>1, <1>6, <2>1, <2>2, WellDone
<1>7. CASE g.stage \in {"create", "write", "terminateUpload"}
  <2>1. h = uploadComplete(g, "failed") /\ g.machine \in {"upload", "abortUpload"}
    BY <1>7, StageTells DEF GiveUp
  <2>2. UploadDoes(g, h, Silence) /\ Ended(g, h, "upload", "failed")
    BY <1>3, <2>1, UploadEndDoes, UploadEnded
  <2> QED BY <1>1, <1>3, <2>1, <2>2, UploadAnswers
<1>8. CASE g.stage = "list"
  <2>1. h = listDirectoryComplete(g, "failed") /\ g.machine = "list"
    BY <1>8, StageTells DEF GiveUp
  <2>2. Ended(g, h, "list", "failed") /\ h.ul = g.ul /\ h.dl = g.dl
    BY <1>3, <2>1, ListEnded
  <2>3. ListTurn(g, h)
    BY <1>3, <2>2, OverCallSelf, ComesToEnd DEF ListTurn
  <2>4. ListGood(h)
    BY <2>2, ListEndGood
  <2> QED BY <1>1, <2>1, <2>3, <2>4, ListingAnswers DEF ListDoes
<1>9. CASE g.stage = "remove"
  <2>1. h = deleteComplete(g, "failed") /\ g.machine = "delete"
    BY <1>9, StageTells DEF GiveUp
  <2>2. Ended(g, h, "delete", "failed") /\ SameFiles(g, h)
    BY <1>3, <2>1, DeleteEnded
  <2>3. Turn(g, h) /\ Acts(g, h, "delete")
    BY <1>3, <2>2, OverCallSelf, ComesToEnd
  <2> QED BY <1>1, <2>1, <2>2, <2>3, DeletionAnswers
<1> QED BY <1>2, <1>4, <1>5, <1>6, <1>7, <1>8, <1>9 DEF Stages

LEMMA RetryDoes ==
  ASSUME NEW g \in GcsType, g.out = <<>>, Working(g), Recorded(g), CallGood(g), g.stage \in Retried
  PROVE  UploadGood(g) => Does(g, Retry(g), Silence)
<1> DEFINE h == Retry(g)
<1>1. Sound(h)
  BY RetryServes DEF Serves
<1>2. OverCall(g, g) /\ SameFiles(g, g) /\ Over(g, g)
  BY OverCallSelf, OverSelf
<1>3. g.expected = Seq16(g.expected + 0) /\ Burst \in Nat
  BY OwnFields, NumbersAdd, FtpAssumption
<1>4. CASE g.stage = "burst"
  <2>1. h = burstReadFileWorker(g, FALSE) /\ g.machine = "download"
    BY <1>4, StageTells DEF Retry
  <2>2. DownloadTurn(g, h) /\ h.stage = "burst"
        /\ (DownloadGood(g) /\ g.machine = "download" /\ g.dl.offset <= g.dl.path /\ g.dl.path <= g.dl.size =>
                DownloadGood(h))
    <3>1. 0 + Further(FALSE) <= Burst + 3
      BY <1>3 DEF Further
    <3> QED BY <1>2, <1>3, <1>4, <2>1, <3>1, BurstsOn
  <2>3. DownloadDoes(g, h, Silence)
    BY <1>4, <2>1, <2>2 DEF DownloadDoes, DownloadGood
  <2> QED BY <1>1, <2>1, <2>3, DownloadAnswers
<1>5. CASE g.stage = "fill"
  <2>1. h = fillMissingBlocksWorker(g, FALSE) /\ g.machine = "download" /\ g.dl.holes # <<>>
    BY <1>5, StageTells DEF Retry, Recorded
  <2>2. PICK c \in Nat : Covered(g.dl, c) /\ (DownloadGood(g) => c <= g.dl.path /\ g.dl.path <= g.dl.size)
    <3>1. CASE DownloadGood(g)
      BY <1>5, <3>1 DEF DownloadGood
    <3>2. CASE ~DownloadGood(g)
      BY <1>5, <3>2 DEF Recorded
    <3> QED BY <3>1, <3>2
  <2>3. DownloadTurn(g, h) /\ h.stage \in {"fill", "reset", "idle"} /\ (DownloadGood(g) => DownloadGood(h))
    BY <1>2, <1>5, <2>1, <2>2, FillsOn
  <2>4. DownloadDoes(g, h, Silence)
    BY <2>3 DEF DownloadDoes
  <2> QED BY <1>1, <2>1, <2>4, DownloadAnswers
<1>6. CASE g.stage = "write"
  <2> HIDE DEF h
  <2>1. h = writeFileWorker(g, FALSE) /\ g.machine = "upload"
    BY <1>6, StageTells DEF Retry, h
  <2>2. UploadGood(g) => g.ul.sent < g.ul.size
    BY <1>6 DEF UploadGood
  <2>3. /\ UploadTurn(g, h) /\ h.signals = g.signals
        /\ g.ul.sent < g.ul.size => SameQuestion(g, h) /\ (h.unsent \/ h.expected = g.expected)
        /\ UploadGood(g) /\ g.ul.sent <= g.ul.size => UploadGood(h)
    BY <1>2, <1>6, <2>1, WritesOn
  <2>4. UploadGood(g) => UploadDoes(g, h, Silence)
    <3>1. g.ul.sent \in Nat /\ g.ul.size \in Nat
      BY OwnFields DEF UploadType
    <3>2. UploadGood(g) => g.ul.sent <= g.ul.size
      BY <2>2, <3>1
    <3> QED BY <2>2, <2>3, <3>2 DEF UploadDoes, UploadMove
  <2> QED BY <1>1, <2>1, <2>4, UploadAnswers DEF h
<1>7. CASE g.stage = "list"
  <2>1. h = listDirectoryWorker(g, FALSE) /\ g.machine = "list"
    BY <1>7, StageTells DEF Retry
  <2>2. /\ ListTurn(g, h)
        /\ g.ls.offset <= g.ls.path /\ g.ls.entries = UpTo(g.ls.offset) /\ ListGood(g) => ListGood(h)
    BY <1>2, <1>7, <2>1, ListsOn
  <2>3. ListDoes(g, h, Silence)
    BY <1>7, <2>2 DEF ListDoes, ListGood
  <2> QED BY <1>1, <2>1, <2>3, ListingAnswers
<1> DEFINE two == 2
<1>8. two \in Nat /\ two # 0 /\ two <= Burst + 3
  BY <1>3
<1>9. CASE g.stage = "remove"
  <2>1. h = deleteFileBegin(g) /\ g.machine = "delete"
    BY <1>9, StageTells DEF Retry
  <2>2. Asks(g, h, "remove", two)
    BY <2>1, RemoveAsks
  <2> HIDE DEF two, h
  <2>3. Turn(g, h) /\ SameFiles(g, h) /\ Acts(g, h, "delete")
    BY <1>2, <1>8, <2>2, GoesOnNow
  <2> QED BY <1>1, <2>1, <2>3, DeletionAnswers DEF h
<1>10. CASE g.stage = "terminate"
  <2>1. h = terminateSessionBegin(g) /\ g.machine = "abortDownload"
    BY <1>10, StageTells DEF Retry
  <2>2. Asks(g, h, "terminate", two)
    BY <2>1, TerminateAsks
  <2> HIDE DEF two, h
  <2>3. Turn(g, h) /\ SameFiles(g, h) /\ Acts(g, h, "download") /\ h.machine = g.machine
        /\ h.stage = "terminate" /\ h.signals = g.signals /\ h.waiting = g.waiting /\ h.call = g.call
    BY <1>2, <1>8, <2>2, GoesOnNow
  <2>4. DownloadTurn(g, h)
    BY <2>3 DEF DownloadTurn, SameFiles
  <2>5. DownloadGood(g) => DownloadGood(h)
    BY <2>1, <2>3 DEF DownloadGood, SameFiles
  <2> QED BY <1>1, <2>1, <2>4, <2>5, AbortAnswers DEF h
<1>11. CASE g.stage = "terminateUpload"
  <2>1. h = terminateUploadSessionBegin(g) /\ g.machine = "abortUpload"
    BY <1>11, StageTells DEF Retry
  <2>2. Asks(g, h, "terminateUpload", two)
    BY <2>1, TerminateAsks
  <2> HIDE DEF two, h
  <2>3. Turn(g, h) /\ SameFiles(g, h) /\ Acts(g, h, "upload") /\ h.machine = g.machine
        /\ h.stage = "terminateUpload" /\ h.signals = g.signals
    BY <1>2, <1>8, <2>2, GoesOnNow
  <2>4. ListGood(g) => ListGood(h)
    BY <2>3, Aside DEF SameFiles
  <2>5. DownloadGood(g) => DownloadGood(h)
    BY <2>1, <2>3, Aside DEF SameFiles
  <2>6. UploadGood(g) => UploadGood(h)
    BY <2>1, <2>3, Aside DEF SameFiles
  <2>7. Does(g, h, Silence)
    BY <2>1, <2>3, <2>4, <2>5, <2>6 DEF Does, Moves, Operations
  <2> QED BY <2>7 DEF h
<1> QED BY <1>4, <1>5, <1>6, <1>7, <1>9, <1>10, <1>11 DEF Retried

LEMMA TimeoutDoes ==
  ASSUME NEW g \in GcsType, g.out = <<>>, Sound(g), Recorded(g), CallGood(g), UploadGood(g), g.timer
  PROVE  Does(g, ackOrNakTimeout(g), Silence)
<1> DEFINE s == Stopped(g)
           n == s.retry + 1
           k == [s EXCEPT !.retry = n]
<1>1. Working(g)
  BY DEF Sound, Resting
<1>2. Alike(g, s) /\ s \in GcsType /\ s.retry = g.retry
  <2>1. s.retry = g.retry
    BY DEF Stopped, GcsType
  <2> QED BY <2>1, OverCallData DEF Stopped, Alike, OverCall
<1>3. ackOrNakTimeout(g) = IF g.stage \in Retried /\ g.retry < MaxRetry THEN Retry(k) ELSE GiveUp(s)
  BY DEF ackOrNakTimeout
<1>4. Keeps(g, s) /\ s.dl = g.dl
  BY StoppedKeeps
<1>5. Working(s) /\ Recorded(s)
  BY <1>1, <1>4, KeepsServes, KeepsRecords
<1> HIDE DEF s
<1>6. \A a : Alike(g, a) /\ a \in GcsType => CallGood(a) /\ UploadGood(a) /\ a.out = <<>>
  BY DEF Alike, OverCall, SameFiles, CallGood, UploadGood
<1>7. CASE g.stage \in Retried /\ g.retry < MaxRetry
  <2>1. n \in Retries
    BY <1>2, <1>7, OwnFields, RetriesMove
  <2> HIDE DEF n
  <2>2. Keeps(s, k) /\ k \in GcsType /\ k.dl = s.dl
    <3>1. Keeps(s, k)
      BY <1>2, <2>1, KeepsData
    <3>2. k.dl = s.dl
      BY <1>2 DEF GcsType
    <3> QED BY <3>1, <3>2 DEF Keeps
  <2>3. OverCall(s, k) /\ SameFiles(s, k) /\ k.expected = s.expected
    BY <1>2, <2>1, OverCallData
  <2> HIDE DEF k
  <2>4. Working(k) /\ Recorded(k) /\ k.stage = g.stage
    BY <1>4, <1>5, <2>2, KeepsServes, KeepsRecords DEF Keeps
  <2>5. Alike(g, k)
    BY <1>2, <2>3, OverCallOver DEF Alike, SameFiles
  <2>6. Does(k, Retry(k), Silence)
    BY <1>6, <1>7, <2>2, <2>4, <2>5, RetryDoes
  <2>7. Does(g, Retry(k), Silence)
    BY <2>5, <2>6, DoesFrom
  <2> QED BY <1>3, <1>7, <2>7
<1>8. CASE ~(g.stage \in Retried /\ g.retry < MaxRetry)
  <2>1. Does(s, GiveUp(s), Silence)
    BY <1>2, <1>5, <1>6, GiveUpDoes
  <2>2. Does(g, GiveUp(s), Silence)
    BY <1>2, <2>1, DoesFrom
  <2> QED BY <1>3, <1>8, <2>2
<1> QED BY <1>7, <1>8

-----------------------------------------------------------------------------
(* The calls *)

\* What a call or a cancel makes of the manager g.
Begun(g, h) ==
    /\ h \in GcsType /\ Turn(g, h) /\ CallGood(h) /\ UploadGood(h)
    /\ ListGood(g) => ListGood(h)
    /\ DownloadGood(g) => DownloadGood(h)
    /\ h.stage \in {"idle", "open", "create", "list", "remove", "terminate", "terminateUpload"}
    /\ h.stage # "idle" => h.unsent \/ h.expected = Seq16(g.expected + 2)
    /\ h.machine = "upload" => h.stage = "create"
    /\ h.signals = <<<<"upload", "ok">>>> => g.signals = h.signals /\ g.call = h.call

LEMMA AskBegins ==
  ASSUME NEW g \in GcsType, NEW k \in GcsType, k.expected = g.expected, k.unsent = g.unsent,
         NEW s, NEW h, Asks(k, h, s, 2)
  PROVE  /\ Turn(g, h) /\ h \in GcsType /\ (h.unsent \/ h.expected = Seq16(g.expected + 2))
         /\ h.machine = k.machine /\ h.call = k.call /\ h.signals = k.signals /\ h.stage = s
         /\ h.waiting = k.waiting /\ SameFiles(k, h)
<1> DEFINE two == 2
<1>1. two \in Nat /\ two # 0 /\ two <= Burst + 3
  BY FtpAssumption
<1>2. Asks(k, h, s, two)
  OBVIOUS
<1>3. h.unsent \/ h.expected = Seq16(g.expected + two)
  BY <1>2 DEF Asks, Requested
<1> HIDE DEF two
<1>4. Requested(g, h, two)
  BY <1>2 DEF Asks, Requested
<1>5. Turn(g, h)
  <2>1. h.stage # "idle"
    BY <1>2 DEF Asks
  <2> QED BY <1>1, <1>4, <2>1, AskTurns
<1> QED BY <1>2, <1>3, <1>5 DEF Asks, two

LEMMA FreshBegins ==
  ASSUME NEW g \in GcsType, NEW k \in GcsType, NEW kind \in Operations, NEW n,
         k.machine = kind, k.call = [kind |-> kind, size |-> n], k.signals = <<>>,
         k.expected = g.expected, k.unsent = g.unsent,
         NEW s \in StagesOf(kind), s \in {"open", "create", "list", "remove"},
         NEW h, Asks(k, h, s, 2),
         kind = "download" => k.dl.path = n,
         kind = "upload" => k.ul.size = n /\ k.ul.sent = 0 /\ k.ul.chunk = 0,
         kind = "list" => k.ls.path = n /\ k.ls.offset = 0 /\ k.ls.entries = <<>>
  PROVE  Begun(g, h)
<1>1. /\ Turn(g, h) /\ h \in GcsType /\ (h.unsent \/ h.expected = Seq16(g.expected + 2))
      /\ h.machine = kind /\ h.call = k.call /\ h.signals = <<>> /\ h.stage = s
      /\ SameFiles(k, h)
  BY AskBegins
<1>2. h.call.kind = kind /\ h.call.size = n
  BY <1>1
<1>3. /\ s = "open" => kind = "download"
      /\ s = "create" => kind = "upload"
      /\ s = "list" => kind = "list"
      /\ kind = "upload" => s = "create"
  BY DEF StagesOf, Operations
<1>4. CallGood(h)
  BY <1>1, <1>2 DEF CallGood
<1>5. UploadGood(h)
  BY <1>1, <1>2, <1>3 DEF UploadGood, SameFiles, Operations
<1>6. ListGood(h)
  <2>1. s = "list" => n \in Nat
    BY <1>3, OwnFields, SizesAreNumbers
  <2>2. s = "list" => h.ls.path = n /\ h.ls.offset = 0 /\ h.ls.entries = <<>>
    BY <1>1, <1>3 DEF SameFiles
  <2>3. <<>> = UpTo(0)
    BY DEF UpTo
  <2> QED BY <1>1, <1>2, <2>1, <2>2, <2>3 DEF ListGood
<1>7. DownloadGood(h)
  BY <1>1, <1>2, <1>3 DEF DownloadGood, SameFiles
<1> QED BY <1>1, <1>3, <1>4, <1>5, <1>6, <1>7 DEF Begun

LEMMA EndBegins ==
  ASSUME NEW g \in GcsType, g.out = <<>>, NEW k, OverCall(g, k), k.expected = g.expected,
         k.dl = g.dl, NEW kind, NEW o \in Outcomes, o # "ok", NEW h, Ended(k, h, kind, o),
         h.dl = k.dl
  PROVE  Begun(g, h)
<1>1. Turn(g, h) /\ Ended(g, h, kind, o)
  BY ComesToEnd
<1>2. ListGood(h)
  BY <1>1, ListEndGood
<1>3. DownloadGood(h)
  BY <1>1, EndGood
<1>4. h.signals # <<<<"upload", "ok">>>>
  BY <1>1, LastSignal
<1>5. CallGood(h) /\ UploadGood(h)
  BY <1>1 DEF Ended, CallGood, UploadGood
<1> QED BY <1>1, <1>2, <1>3, <1>4, <1>5 DEF Begun, Ended

LEMMA AcceptFields ==
  ASSUME gcs \in GcsType, NEW kind \in Operations, NEW n \in Sizes \cup {0}
  PROVE  LET a == Accept(kind, n) IN
         /\ a \in GcsType /\ a.machine = kind /\ a.call = [kind |-> kind, size |-> n]
         /\ a.signals = <<>> /\ a.expected = gcs.expected /\ a.unsent = gcs.unsent
<1> DEFINE c == [kind |-> kind, size |-> n]
           ww == gcs.waiting \cup {kind}
           none == <<>>
           a == [gcs EXCEPT !.machine = kind, !.call = c, !.signals = none, !.waiting = ww, !.retry = 0]
<1>1. c \in [kind : Operations \cup {"none"}, size : Sizes \cup {0}]
  OBVIOUS
<1>2. ww \in SUBSET Operations
  BY DEF GcsType
<1>3. kind \in Machines /\ 0 \in Retries /\ none \in Seq(Operations \X Outcomes)
  BY FtpAssumption DEF Machines, Retries
<1>4. Accept(kind, n) = a
  BY DEF Accept
<1> HIDE DEF c, ww, none
<1>5. a \in GcsType /\ a.machine = kind /\ a.call = c /\ a.signals = none
      /\ a.expected = gcs.expected /\ a.unsent = gcs.unsent
  BY <1>1, <1>2, <1>3 DEF GcsType
<1> HIDE DEF a
<1> QED BY <1>4, <1>5 DEF c, none

LEMMA DataKeeps ==
  ASSUME NEW a \in GcsType
  PROVE  /\ \A d \in DownloadType : LET k == [a EXCEPT !.dl = d] IN OverCall(a, k) /\ k.dl = d /\ k.expected = a.expected
         /\ \A b \in BOOLEAN : LET k == [a EXCEPT !.del = b] IN OverCall(a, k) /\ k.expected = a.expected
<1> USE DEF OverCall, GcsType
<1>1. \A d \in DownloadType : LET k == [a EXCEPT !.dl = d] IN OverCall(a, k) /\ k.dl = d /\ k.expected = a.expected
  OBVIOUS
<1>2. \A b \in BOOLEAN : LET k == [a EXCEPT !.del = b] IN OverCall(a, k) /\ k.expected = a.expected
  OBVIOUS
<1> QED BY <1>1, <1>2

\* The calls that are accepted.
LEMMA CallsBegin ==
  ASSUME gcs \in GcsType
  PROVE  /\ \A n \in Sizes, c \in BOOLEAN : download(n, c) => \E h : Becomes(h) /\ Begun(gcs, h)
         /\ \A n \in Sizes : upload(n) => \E h : Becomes(h) /\ Begun(gcs, h)
         /\ \A n \in Sizes : listDirectory(n) => \E h : Becomes(h) /\ Begun(gcs, h)
         /\ deleteFile => \E h : Becomes(h) /\ Begun(gcs, h)
<1>1. ASSUME NEW n \in Sizes, NEW c \in BOOLEAN, download(n, c)
      PROVE  \E h : Becomes(h) /\ Begun(gcs, h)
  <2> DEFINE a == Accept("download", n)
             d == [NoDownload EXCEPT !.path = n, !.checksize = c]
             e == [a EXCEPT !.dl = d]
             h == openFileROBegin(e)
  <2>1. "download" \in Operations /\ "open" \in StagesOf("download")
    BY DEF Operations, StagesOf
  <2>2. /\ a \in GcsType /\ a.machine = "download" /\ a.call = [kind |-> "download", size |-> n]
        /\ a.signals = <<>> /\ a.expected = gcs.expected /\ a.unsent = gcs.unsent
    BY <2>1, AcceptFields
  <2>3. d \in DownloadType /\ d.path = n
    BY NothingTypes DEF DownloadType, NoDownload
  <2>4. Becomes(h)
    BY <1>1 DEF download
  <2> HIDE DEF a, d
  <2>5. OverCall(a, e) /\ e.dl = d /\ e.expected = a.expected
    BY <2>2, <2>3, DataKeeps
  <2> HIDE DEF e
  <2>6. Asks(e, h, "open", 2)
    BY <2>5, OpenAsks DEF OverCall
  <2> HIDE DEF h
  <2>7. Begun(gcs, h)
    BY <2>1, <2>2, <2>3, <2>5, <2>6, FreshBegins DEF OverCall
  <2> QED BY <2>4, <2>7
<1>2. ASSUME NEW n \in Sizes, upload(n)
      PROVE  \E h : Becomes(h) /\ Begun(gcs, h)
  <2> DEFINE a == Accept("upload", n)
             u == [NoUpload EXCEPT !.open = TRUE, !.size = n]
             e == [a EXCEPT !.ul = u]
             h == createFileBegin(e)
  <2>1. "upload" \in Operations /\ "create" \in StagesOf("upload")
    BY DEF Operations, StagesOf
  <2>2. /\ a \in GcsType /\ a.machine = "upload" /\ a.call = [kind |-> "upload", size |-> n]
        /\ a.signals = <<>> /\ a.expected = gcs.expected /\ a.unsent = gcs.unsent
    BY <2>1, AcceptFields
  <2>3. u \in UploadType /\ u.size = n /\ u.sent = 0 /\ u.chunk = 0
    BY NothingTypes, FtpAssumption DEF UploadType, NoUpload
  <2>4. Becomes(h)
    BY <1>2 DEF upload
  <2> HIDE DEF a, u
  <2>5. OverCall(a, e) /\ e.ul = u /\ e.expected = a.expected
    BY <2>2, <2>3, OverCallData
  <2> HIDE DEF e
  <2>6. Asks(e, h, "create", 2)
    BY <2>5, CreateAsks DEF OverCall
  <2> HIDE DEF h
  <2>7. Begun(gcs, h)
    BY <2>1, <2>2, <2>3, <2>5, <2>6, FreshBegins DEF OverCall
  <2> QED BY <2>4, <2>7
<1>3. ASSUME NEW n \in Sizes, listDirectory(n)
      PROVE  \E h : Becomes(h) /\ Begun(gcs, h)
  <2> DEFINE a == Accept("list", n)
             l == [NoList EXCEPT !.asked = TRUE, !.path = n, !.withTime = gcs.withTime]
             e == [a EXCEPT !.ls = l]
             h == listDirectoryWorker(e, TRUE)
  <2>1. "list" \in Operations /\ "list" \in StagesOf("list")
    BY DEF Operations, StagesOf
  <2>2. /\ a \in GcsType /\ a.machine = "list" /\ a.call = [kind |-> "list", size |-> n]
        /\ a.signals = <<>> /\ a.expected = gcs.expected /\ a.unsent = gcs.unsent
    BY <2>1, AcceptFields
  <2>3. l \in ListType /\ l.path = n /\ l.offset = 0 /\ l.entries = <<>>
    <3>1. gcs.withTime \in BOOLEAN
      BY DEF GcsType
    <3>2. l \in ListType
      BY <3>1, NothingTypes DEF ListType
    <3>3. l.path = n /\ l.offset = 0 /\ l.entries = <<>>
      BY DEF NoList
    <3> QED BY <3>2, <3>3
  <2>4. Becomes(h)
    BY <1>3 DEF listDirectory
  <2> HIDE DEF a, l
  <2>5. OverCall(a, e) /\ e.ls = l /\ e.expected = a.expected
    BY <2>2, <2>3, OverCallData
  <2> HIDE DEF e
  <2>6. Asks(e, h, "list", 2)
    BY <2>5, ListAsks DEF OverCall, Further
  <2> HIDE DEF h
  <2>7. Begun(gcs, h)
    BY <2>1, <2>2, <2>3, <2>5, <2>6, FreshBegins DEF OverCall
  <2> QED BY <2>4, <2>7
<1>4. ASSUME deleteFile
      PROVE  \E h : Becomes(h) /\ Begun(gcs, h)
  <2> DEFINE a == Accept("delete", 0)
             e == [a EXCEPT !.del = TRUE]
             h == deleteFileBegin(e)
  <2>1. "delete" \in Operations /\ "remove" \in StagesOf("delete")
    BY DEF Operations, StagesOf
  <2>2. /\ a \in GcsType /\ a.machine = "delete" /\ a.call = [kind |-> "delete", size |-> 0]
        /\ a.signals = <<>> /\ a.expected = gcs.expected /\ a.unsent = gcs.unsent
    BY <2>1, AcceptFields
  <2>4. Becomes(h)
    BY <1>4 DEF deleteFile
  <2> HIDE DEF a
  <2>5. OverCall(a, e) /\ e.expected = a.expected
    BY <2>2, DataKeeps
  <2> HIDE DEF e
  <2>6. Asks(e, h, "remove", 2)
    BY <2>5, RemoveAsks DEF OverCall
  <2> HIDE DEF h
  <2>7. Begun(gcs, h)
    BY <2>1, <2>2, <2>5, <2>6, FreshBegins DEF OverCall
  <2> QED BY <2>4, <2>7
<1> QED BY <1>1, <1>2, <1>3, <1>4

\* A path with a foreign scheme.
LEMMA BadPathBegins ==
  ASSUME gcs \in GcsType, gcs.out = <<>>, Sound(gcs), NEW kind \in Operations, badPath(kind)
  PROVE  \E h : Becomes(h) /\ Begun(gcs, h)
<1> DEFINE mm == IF kind \in {"download", "list"} THEN kind ELSE gcs.machine
           d == IF kind = "download" THEN NoDownload ELSE gcs.dl
           u == IF kind = "upload" THEN NoUpload ELSE gcs.ul
           l == IF kind = "list" THEN [NoList EXCEPT !.asked = TRUE] ELSE gcs.ls
           b == gcs.del \/ kind = "delete"
           none == <<>>
           a == [gcs EXCEPT !.machine = mm, !.dl = d, !.ul = u]
           h == [a EXCEPT !.ls = l, !.del = b, !.call = NoCall, !.signals = none]
<1>1. Becomes(h)
  <2>1. badPath(kind) => Becomes([gcs EXCEPT !.machine = mm, !.dl = d, !.ul = u, !.ls = l, !.del = b,
                                             !.call = NoCall, !.signals = none])
    BY DEF badPath
  <2> HIDE DEF mm, d, u, l, b, none
  <2>2. [gcs EXCEPT !.machine = mm, !.dl = d, !.ul = u, !.ls = l, !.del = b,
                    !.call = NoCall, !.signals = none] = h
    BY DEF GcsType
  <2> HIDE DEF h
  <2> QED BY <2>1, <2>2
<1>2. gcs.stage = "idle" /\ gcs.machine = "none"
  <2>1. StagesOf("none") = {}
    BY DEF StagesOf
  <2> QED BY <2>1 DEF Sound, Working, Resting, Busy, badPath
<1>3. mm \in Machines /\ d \in DownloadType /\ u \in UploadType
  BY OwnFields, NothingTypes DEF GcsType, Machines
<1>4. l \in ListType /\ b \in BOOLEAN
  <2>1. [NoList EXCEPT !.asked = TRUE] \in ListType
    BY NothingTypes DEF ListType
  <2> QED BY <2>1, OwnFields DEF GcsType
<1>5. mm \in {"download", "list", "none"} /\ (mm = "download" => d.path = 0)
  BY <1>2 DEF NoDownload
<1>6. none \in Seq(Operations \X Outcomes) /\ none = <<>>
  OBVIOUS
<1>7. NoCall \in [kind : Operations \cup {"none"}, size : Sizes \cup {0}]
  BY NothingTypes
<1> HIDE DEF mm, d, u, l, b, none
<1>8. a \in GcsType /\ a.stage = gcs.stage /\ a.expected = gcs.expected /\ a.out = gcs.out
      /\ a.unsent = gcs.unsent /\ a.machine = mm /\ a.dl = d
  BY <1>3 DEF GcsType
<1> HIDE DEF a
<1> DEFINE c == [a EXCEPT !.ls = l, !.del = b]
<1>16. /\ c \in GcsType /\ c.stage = a.stage /\ c.expected = a.expected /\ c.out = a.out
       /\ c.unsent = a.unsent /\ c.machine = a.machine /\ c.dl = a.dl
  BY <1>4, <1>8 DEF GcsType
<1>17. h = [c EXCEPT !.call = NoCall, !.signals = none]
  BY <1>8 DEF GcsType
<1> HIDE DEF c, h
<1>9. h \in GcsType /\ h.stage = a.stage /\ h.expected = a.expected /\ h.out = a.out
      /\ h.unsent = a.unsent /\ h.machine = a.machine /\ h.dl = a.dl /\ h.call = NoCall
      /\ h.signals = none
  BY <1>6, <1>7, <1>16, <1>17 DEF GcsType
<1>10. NoCall.kind = "none" /\ NoCall.size = 0
  BY DEF NoCall
<1>11. h \in GcsType /\ h.stage = "idle" /\ h.machine \in {"download", "list", "none"}
       /\ (h.machine = "download" => h.dl.path = h.call.size) /\ h.call.kind = "none"
       /\ h.expected = gcs.expected /\ h.out = <<>> /\ h.unsent = gcs.unsent /\ h.signals = <<>>
  BY <1>2, <1>5, <1>6, <1>8, <1>9, <1>10
<1>12. Turn(gcs, h)
  <2>1. gcs.expected = Seq16(gcs.expected + 0) /\ 0 <= Burst + 3
    BY OwnFields, NumbersAdd, FtpAssumption
  <2> QED BY <1>11, <2>1 DEF Turn
<1>13. CallGood(h) /\ UploadGood(h) /\ ListGood(h) /\ DownloadGood(h)
  BY <1>11 DEF CallGood, UploadGood, ListGood, DownloadGood
<1>14. h.signals # <<<<"upload", "ok">>>>
  BY <1>11
<1>15. Begun(gcs, h)
  BY <1>11, <1>12, <1>13, <1>14, Zenon DEF Begun
<1> QED BY <1>1, <1>15

\* The manager that ends a session.
Aborting(g, e, machine) ==
    /\ e \in GcsType /\ e.expected = g.expected /\ e.unsent = g.unsent /\ e.machine = machine
    /\ e.call = g.call /\ e.signals = g.signals /\ e.waiting = g.waiting

LEMMA AbortFields ==
  ASSUME NEW k \in GcsType, NEW machine \in {"abortDownload", "abortUpload"}
  PROVE  LET e == [k EXCEPT !.machine = machine, !.retry = 0] IN
         Aborting(k, e, machine) /\ SameFiles(k, e)
<1> DEFINE e == [k EXCEPT !.machine = machine, !.retry = 0]
<1>1. machine \in Machines /\ 0 \in Retries
  BY FtpAssumption DEF Machines, Retries
<1>2. e \in GcsType /\ e.expected = k.expected /\ e.unsent = k.unsent /\ e.machine = machine
      /\ e.call = k.call /\ e.signals = k.signals /\ e.waiting = k.waiting /\ SameFiles(k, e)
  BY <1>1 DEF GcsType, SameFiles
<1> HIDE DEF e
<1>3. Aborting(k, e, machine) /\ SameFiles(k, e)
  BY <1>2 DEF Aborting
<1> QED BY <1>3 DEF e

\* The request that ends a session.
LEMMA AbortBegins ==
  ASSUME NEW g \in GcsType, NEW k, OverCall(g, k), k.expected = g.expected,
         k.dl = g.dl, k.ls = g.ls,
         NEW machine \in {"abortDownload", "abortUpload"}, NEW e,
         Aborting(k, e, machine), SameFiles(k, e),
         machine = "abortUpload" => k.ul.cancelled,
         machine = "abortDownload" => "download" \in g.waiting,
         NEW s \in {"terminate", "terminateUpload"}, NEW h, Asks(e, h, s, 2)
  PROVE  Begun(g, h)
<1>1. Aborting(g, e, machine)
  BY DEF Aborting, OverCall
<1>2. /\ Turn(g, h) /\ h \in GcsType /\ (h.unsent \/ h.expected = Seq16(g.expected + 2))
      /\ h.machine = machine /\ h.call = g.call /\ h.signals = g.signals /\ h.stage = s
      /\ h.waiting = g.waiting /\ SameFiles(k, h)
  <2>1. /\ Turn(g, h) /\ h \in GcsType /\ (h.unsent \/ h.expected = Seq16(g.expected + 2))
        /\ h.machine = e.machine /\ h.call = e.call /\ h.signals = e.signals /\ h.stage = s
        /\ h.waiting = e.waiting /\ SameFiles(e, h)
    BY <1>1, AskBegins DEF Aborting
  <2> QED BY <1>1, <2>1 DEF SameFiles, Aborting
<1>3. CallGood(h)
  BY <1>2 DEF CallGood, Operations
<1>4. UploadGood(h)
  BY <1>2 DEF UploadGood, SameFiles
<1>5. ListGood(g) => ListGood(h)
  BY <1>2 DEF ListGood, SameFiles
<1>6. DownloadGood(g) => DownloadGood(h)
  BY <1>2 DEF DownloadGood, SameFiles
<1> QED BY <1>2, <1>3, <1>4, <1>5, <1>6 DEF Begun

LEMMA CancelsBegin ==
  ASSUME gcs \in GcsType, gcs.out = <<>>
  PROVE  /\ cancelDownload => \E h : Becomes(h) /\ Begun(gcs, h)
         /\ cancelUpload => \E h : Becomes(h) /\ Begun(gcs, h)
         /\ cancelListDirectory => \E h : Becomes(h) /\ Begun(gcs, h)
         /\ cancelDelete => \E h : Becomes(h) /\ Begun(gcs, h)
<1>1. OverCall(gcs, gcs) /\ "aborted" \in Outcomes
  BY OverCallSelf DEF Outcomes
<1>2. ASSUME cancelDownload
      PROVE  \E h : Becomes(h) /\ Begun(gcs, h)
  <2> DEFINE e == [gcs EXCEPT !.machine = "abortDownload", !.retry = 0]
             h == terminateSessionBegin(e)
  <2>1. Becomes(h) /\ "download" \in gcs.waiting
    BY <1>2 DEF cancelDownload
  <2>2. Aborting(gcs, e, "abortDownload") /\ SameFiles(gcs, e)
    BY AbortFields
  <2> HIDE DEF e
  <2>3. Asks(e, h, "terminate", 2)
    BY <2>2, TerminateAsks DEF Aborting
  <2> HIDE DEF h
  <2>4. Begun(gcs, h)
    BY <1>1, <2>1, <2>2, <2>3, AbortBegins
  <2> QED BY <2>1, <2>4
<1>3. ASSUME cancelUpload
      PROVE  \E h : Becomes(h) /\ Begun(gcs, h)
  <2> DEFINE u == [gcs.ul EXCEPT !.cancelled = TRUE]
             k == [gcs EXCEPT !.ul = u]
             e == [k EXCEPT !.machine = "abortUpload", !.retry = 0]
             h == terminateUploadSessionBegin(e)
             f == uploadComplete(k, "aborted")
  <2>1. Becomes(IF gcs.ul.session # 0 THEN h ELSE f)
    BY <1>3 DEF cancelUpload
  <2>2. u \in UploadType /\ u.cancelled
    BY OwnFields DEF UploadType
  <2> HIDE DEF u
  <2>3. OverCall(gcs, k) /\ k.ul = u /\ k.dl = gcs.dl /\ k.ls = gcs.ls /\ k.expected = gcs.expected
    BY <2>2, OverCallData
  <2> HIDE DEF k
  <2>4. Aborting(k, e, "abortUpload") /\ SameFiles(k, e)
    BY <2>3, AbortFields DEF OverCall
  <2> HIDE DEF e
  <2>5. Asks(e, h, "terminateUpload", 2)
    BY <2>4, TerminateAsks DEF Aborting
  <2>6. Ended(k, f, "upload", "aborted") /\ f.dl = k.dl
    BY <1>1, <2>3, UploadEnded DEF OverCall
  <2> HIDE DEF h, f
  <2>7. Begun(gcs, h)
    BY <2>2, <2>3, <2>4, <2>5, AbortBegins
  <2>8. Begun(gcs, f)
    BY <1>1, <2>3, <2>6, EndBegins
  <2> QED BY <2>1, <2>7, <2>8
<1>4. ASSUME cancelListDirectory
      PROVE  \E h : Becomes(h) /\ Begun(gcs, h)
  <2> DEFINE h == listDirectoryComplete(gcs, "aborted")
  <2>1. Becomes(h)
    BY <1>4 DEF cancelListDirectory
  <2>2. Ended(gcs, h, "list", "aborted") /\ h.dl = gcs.dl
    BY <1>1, ListEnded
  <2> HIDE DEF h
  <2>3. Begun(gcs, h)
    BY <1>1, <2>2, EndBegins
  <2> QED BY <2>1, <2>3
<1>5. ASSUME cancelDelete
      PROVE  \E h : Becomes(h) /\ Begun(gcs, h)
  <2> DEFINE h == deleteComplete(gcs, "aborted")
  <2>1. Becomes(h)
    BY <1>5 DEF cancelDelete
  <2>2. Ended(gcs, h, "delete", "aborted") /\ h.dl = gcs.dl
    BY <1>1, DeleteEnded DEF SameFiles
  <2> HIDE DEF h
  <2>3. Begun(gcs, h)
    BY <1>1, <2>2, EndBegins
  <2> QED BY <2>1, <2>3
<1> QED BY <1>2, <1>3, <1>4, <1>5

-----------------------------------------------------------------------------
(* A request that finds no link is remembered *)

Unsent(g) == g \in GcsType /\ g.unsent

LEMMA UnsentData ==
  ASSUME NEW g, Unsent(g)
  PROVE  /\ \A d \in DownloadType : Unsent([g EXCEPT !.dl = d])
         /\ \A u \in UploadType : Unsent([g EXCEPT !.ul = u])
         /\ \A l \in ListType : Unsent([g EXCEPT !.ls = l])
         /\ \A n \in Numbers : Unsent([g EXCEPT !.expected = n])
         /\ \A n \in Retries : Unsent([g EXCEPT !.retry = n])
         /\ \A b \in BOOLEAN : Unsent([g EXCEPT !.timer = b])
         /\ \A b \in BOOLEAN : Unsent([g EXCEPT !.withTime = b])
         /\ \A b \in BOOLEAN : Unsent([g EXCEPT !.orphan = b])
<1>1. \A d \in DownloadType : Unsent([g EXCEPT !.dl = d])
  BY DataKeeps DEF Unsent, OverCall
<1> QED BY <1>1, OverCallData DEF Unsent, OverCall

LEMMA UnsentEnds ==
  ASSUME NEW g, Unsent(g), NEW o \in Outcomes
  PROVE  /\ Unsent(downloadComplete(g, o)) /\ Unsent(uploadComplete(g, o))
         /\ Unsent(listDirectoryComplete(g, o)) /\ Unsent(deleteComplete(g, o))
         /\ Unsent(uploadFinalize(g))
<1>1. \A p \in Outcomes : Unsent(uploadComplete(g, p))
  BY UploadEnded DEF Unsent, Ended
<1>2. Unsent(uploadFinalize(g))
  BY <1>1 DEF uploadFinalize, Outcomes
<1>3. Unsent(downloadComplete(g, o))
  BY DownloadEnded DEF Unsent, Ended
<1>4. Unsent(listDirectoryComplete(g, o))
  BY ListEnded DEF Unsent, Ended
<1>5. Unsent(deleteComplete(g, o))
  BY DeleteEnded DEF Unsent, Ended
<1> QED BY <1>1, <1>2, <1>3, <1>4, <1>5

LEMMA UnsentWorkers ==
  ASSUME NEW g, Unsent(g), NEW first \in BOOLEAN
  PROVE  /\ Unsent(resetSessionsBegin(g)) /\ Unsent(burstReadFileWorker(g, first))
         /\ Unsent(fillMissingBlocksWorker(g, first)) /\ Unsent(listDirectoryWorker(g, first))
         /\ Unsent(writeFileWorker(g, first)) /\ Unsent(deleteFileBegin(g))
         /\ Unsent(terminateSessionBegin(g)) /\ Unsent(terminateUploadSessionBegin(g))
<1>1. \A h, s, d : \A k : Unsent(k) /\ Asks(k, h, s, d) => Unsent(h)
  BY DEF Unsent, Asks, Requested
<1>2. Unsent(resetSessionsBegin(g)) /\ Unsent(burstReadFileWorker(g, first))
      /\ Unsent(listDirectoryWorker(g, first)) /\ Unsent(deleteFileBegin(g))
      /\ Unsent(terminateSessionBegin(g)) /\ Unsent(terminateUploadSessionBegin(g))
  BY <1>1, ResetAsks, BurstAsks, ListAsks, RemoveAsks, TerminateAsks DEF Unsent
<1>3. Unsent(fillMissingBlocksWorker(g, first))
  <2>1. CASE g.dl.holes # <<>>
    <3> DEFINE d == [g.dl EXCEPT !.offset = Head(g.dl.holes).offset]
               k == [g EXCEPT !.dl = d]
    <3>1. d \in DownloadType /\ Asks(k, fillMissingBlocksWorker(g, first), "fill", Further(first))
      BY <2>1, FillAsks DEF Unsent
    <3>2. Unsent(k)
      BY <3>1, UnsentData
    <3> QED BY <1>1, <3>1, <3>2
  <2>2. CASE g.dl.holes = <<>>
    <3>1. Unsent(downloadComplete(g, "failed"))
      BY UnsentEnds DEF Outcomes
    <3> QED BY <1>2, <2>2, <3>1 DEF fillMissingBlocksWorker
  <2> QED BY <2>1, <2>2
<1>4. Unsent(writeFileWorker(g, first))
  <2>1. g.ul.sent \in Nat /\ g.ul.size \in Nat
    BY OwnFields DEF UploadType, Unsent
  <2>2. CASE g.ul.sent < g.ul.size
    <3> DEFINE u == [g.ul EXCEPT !.chunk = 1]
               k == [g EXCEPT !.ul = u]
    <3>1. u \in UploadType /\ Asks(k, writeFileWorker(g, first), "write", Further(first))
      BY <2>2, WriteAsks DEF Unsent
    <3>2. Unsent(k)
      BY <3>1, UnsentData
    <3> QED BY <1>1, <3>1, <3>2
  <2>3. CASE g.ul.sent >= g.ul.size
    BY <1>2, <2>3 DEF writeFileWorker
  <2> QED BY <2>1, <2>2, <2>3
<1> QED BY <1>2, <1>3, <1>4

\* What a handler records before it sends.
LEMMA UnsentRecords ==
  ASSUME NEW g, Unsent(g), NEW m \in Replies
  PROVE  /\ Unsent(Stopped(g)) /\ Unsent(WriteBlock(g, m)) /\ Unsent(HoleBefore(g, m))
         /\ Unsent(AppendEntries(g, m))
<1>1. \A h : Keeps(g, h) /\ h.unsent = g.unsent => Unsent(h)
  BY DEF Keeps, Unsent
<1>2. g \in GcsType
  BY DEF Unsent
<1>3. Stopped(g).unsent = g.unsent /\ WriteBlock(g, m).unsent = g.unsent
      /\ AppendEntries(g, m).unsent = g.unsent
  BY <1>2 DEF Stopped, WriteBlock, AppendEntries, GcsType
<1>4. HoleBefore(g, m).unsent = g.unsent
  BY <1>2 DEF HoleBefore, GcsType
<1> QED BY <1>1, <1>2, <1>3, <1>4, StoppedKeeps, WriteBlockKeeps, HoleBeforeKeeps, EntriesKeep

LEMMA UnsentDownloads ==
  ASSUME NEW g, Unsent(g), NEW m \in Replies
  PROVE  /\ Unsent(openFileROAckOrNak(g, m)) /\ Unsent(burstReadFileAckOrNak(g, m))
         /\ Recorded(g) /\ g.stage = "fill" => Unsent(fillMissingBlocksAckOrNak(g, m))
<1>0. g \in GcsType /\ m.seq \in Numbers /\ m.offset \in Nat /\ g.expected \in Numbers /\ g.dl.offset \in Nat
  BY OwnFields, ReplyTypes DEF Unsent
<1>1. Unsent(downloadComplete(g, "failed"))
  BY UnsentEnds DEF Outcomes
<1>2. Unsent(openFileROAckOrNak(g, m))
  <2> DEFINE d == [g.dl EXCEPT !.session = m.session, !.size = m.size, !.offset = 0, !.open = TRUE]
             k == [g EXCEPT !.dl = d]
  <2>1. d \in DownloadType
    BY <1>0, ReplyTypes, OwnFields DEF DownloadType
  <2>2. [g EXCEPT !.dl.session = m.session, !.dl.size = m.size, !.dl.offset = 0, !.dl.open = TRUE] = k
    BY <1>0 DEF GcsType
  <2> HIDE DEF d
  <2>3. Unsent(k)
    BY <2>1, UnsentData
  <2> HIDE DEF k
  <2>4. Unsent(burstReadFileWorker(k, TRUE))
    BY <2>3, UnsentWorkers
  <2> QED BY <1>1, <2>2, <2>4 DEF openFileROAckOrNak
<1>3. Unsent(Stopped(g)) /\ Unsent([g EXCEPT !.timer = TRUE])
  BY UnsentRecords, UnsentData
<1>4. \A k : Unsent(k) => Unsent(burstReadFileEof(k, m))
  <2> SUFFICES ASSUME NEW k, Unsent(k)
               PROVE  Unsent(burstReadFileEof(k, m))
    OBVIOUS
  <2>1. Unsent([k EXCEPT !.expected = m.seq])
    BY <1>0, UnsentData
  <2> QED BY <2>1, UnsentWorkers DEF burstReadFileEof
<1>5. \A k : Unsent(k) => Unsent(burstReadFileBlock(k, m))
  <2> SUFFICES ASSUME NEW k, Unsent(k)
               PROVE  Unsent(burstReadFileBlock(k, m))
    OBVIOUS
  <2> DEFINE b == WriteBlock(HoleBefore(k, m), m)
             o == m.offset + 1
             d == [b.dl EXCEPT !.offset = o]
             w == [b EXCEPT !.dl = d]
             n == Seq16(m.seq + 1)
  <2>1. Unsent(b)
    BY UnsentRecords
  <2> HIDE DEF b
  <2>2. [b EXCEPT !.dl.offset = m.offset + 1] = w
    BY <2>1 DEF GcsType, Unsent
  <2>3. d \in DownloadType
    <3>1. b.dl \in DownloadType /\ o \in Nat
      BY <1>0, <2>1, OwnFields DEF Unsent
    <3> HIDE DEF o
    <3> QED BY <3>1 DEF DownloadType
  <2> HIDE DEF d
  <2>4. Unsent(w)
    BY <2>1, <2>3, UnsentData
  <2>5. n \in Numbers
    BY <1>0, NumbersMove
  <2> HIDE DEF w, n
  <2>6. Unsent([w EXCEPT !.expected = m.seq]) /\ Unsent([w EXCEPT !.expected = n])
    BY <1>0, <2>4, <2>5, UnsentData
  <2>7. Unsent([w EXCEPT !.expected = n, !.timer = TRUE])
    <3> DEFINE p == [w EXCEPT !.expected = n]
    <3>1. [w EXCEPT !.expected = n, !.timer = TRUE] = [p EXCEPT !.timer = TRUE]
      BY <2>4 DEF Unsent, GcsType
    <3> HIDE DEF p
    <3> QED BY <2>6, <3>1, UnsentData DEF p
  <2>8. Unsent(burstReadFileWorker([w EXCEPT !.expected = m.seq], TRUE))
    BY <2>6, UnsentWorkers
  <2>9. burstReadFileBlock(k, m) = IF m.complete THEN burstReadFileWorker([w EXCEPT !.expected = m.seq], TRUE)
                                   ELSE [w EXCEPT !.expected = n, !.timer = TRUE]
    BY <2>2 DEF burstReadFileBlock, b, n
  <2> QED BY <2>7, <2>8, <2>9
<1>6. burstReadFileAckOrNak(g, m) \in {g, Stopped(g), [g EXCEPT !.timer = TRUE],
          burstReadFileBlock(Stopped(g), m), burstReadFileEof(Stopped(g), m), downloadComplete(g, "failed")}
  <2>1. m.seq \in Nat /\ g.expected \in Nat
    BY <1>0 DEF Numbers
  <2> QED BY <1>0, <2>1 DEF burstReadFileAckOrNak
<1>7. Unsent(burstReadFileAckOrNak(g, m))
  BY <1>1, <1>3, <1>4, <1>5, <1>6
<1>8. ASSUME Recorded(g), g.stage = "fill"
      PROVE  Unsent(fillMissingBlocksAckOrNak(g, m))
  <2> DEFINE b == WriteBlock(g, m)
             hs == ShrinkHole(b.dl.holes)
             d == [b.dl EXCEPT !.holes = hs]
             k == [b EXCEPT !.dl = d]
             r == [g EXCEPT !.retry = g.retry + 1]
  <2>1. Unsent(b) /\ b.dl.holes = g.dl.holes
    BY <1>0, UnsentRecords, WriteBlockKeeps
  <2> HIDE DEF b
  <2>2. hs \in Seq(Holes)
    <3>1. b.dl.holes \in Seq(Holes) /\ b.dl.holes # <<>>
      BY <1>0, <1>8, <2>1, OwnFields DEF DownloadType, Recorded
    <3> QED BY <3>1, ShrinkHoleType
  <2>3. [b EXCEPT !.dl.holes = ShrinkHole(@)] = k
    BY <2>1 DEF GcsType, Unsent
  <2> HIDE DEF hs
  <2>4. d \in DownloadType
    BY <2>1, <2>2, OwnFields DEF DownloadType, Unsent
  <2> HIDE DEF d
  <2>5. Unsent(k)
    BY <2>1, <2>4, UnsentData
  <2> HIDE DEF k
  <2>6. Unsent(fillMissingBlocksWorker(k, TRUE)) /\ Unsent(resetSessionsBegin(g))
    BY <2>5, UnsentWorkers
  <2>7. ~(g.retry >= MaxRetry) => Unsent(fillMissingBlocksWorker(r, FALSE))
    <3>1. ~(g.retry >= MaxRetry) => g.retry + 1 \in Retries
      BY <1>0, OwnFields, RetriesMove
    <3>2. ~(g.retry >= MaxRetry) => Unsent(r)
      BY <3>1, UnsentData
    <3> HIDE DEF r
    <3> QED BY <3>2, UnsentWorkers
  <2>8. \/ fillMissingBlocksAckOrNak(g, m) \in {g, downloadComplete(g, "failed"),
              fillMissingBlocksWorker(k, TRUE), resetSessionsBegin(g)}
        \/ ~(g.retry >= MaxRetry) /\ fillMissingBlocksAckOrNak(g, m) = fillMissingBlocksWorker(r, FALSE)
    BY <2>3 DEF fillMissingBlocksAckOrNak, b
  <2> QED BY <1>1, <2>6, <2>7, <2>8
<1> QED BY <1>2, <1>7, <1>8

LEMMA UnsentOthers ==
  ASSUME NEW g, Unsent(g), NEW m \in Replies
  PROVE  /\ Unsent(resetSessionsAckOrNak(g, m)) /\ Unsent(listDirectoryAckOrNak(g, m))
         /\ Unsent(createFileAckOrNak(g, m)) /\ Unsent(writeFileAckOrNak(g, m))
         /\ Unsent(deleteFileAckOrNak(g, m)) /\ Unsent(terminateSessionAckOrNak(g, m))
         /\ Unsent(terminateUploadSessionAckOrNak(g, m))
<1>0. g \in GcsType /\ m.seq \in Numbers /\ g.ul \in UploadType /\ g.ls \in ListType
  BY OwnFields, ReplyTypes DEF Unsent
<1>1. \A k : Unsent(k) => \A o \in Outcomes : /\ Unsent(downloadComplete(k, o)) /\ Unsent(uploadComplete(k, o))
         /\ Unsent(listDirectoryComplete(k, o)) /\ Unsent(deleteComplete(k, o))
         /\ Unsent(uploadFinalize(k))
  BY UnsentEnds
<1>2. "ok" \in Outcomes /\ "failed" \in Outcomes /\ "aborted" \in Outcomes
  BY DEF Outcomes
<1>3. Unsent(resetSessionsAckOrNak(g, m))
  <2> DEFINE b == g.orphan \/ g.machine = "upload"
             k == [g EXCEPT !.orphan = b]
  <2>1. b \in BOOLEAN
    BY <1>0 DEF GcsType
  <2>2. [g EXCEPT !.orphan = @ \/ g.machine = "upload"] = k
    OBVIOUS
  <2> HIDE DEF b
  <2>3. Unsent(k)
    BY <2>1, UnsentData
  <2> HIDE DEF k
  <2>4. resetSessionsAckOrNak(g, m) \in {g, uploadFinalize(g), downloadComplete(g, "ok"), downloadComplete(k, "ok")}
    BY <2>2 DEF resetSessionsAckOrNak
  <2> QED BY <1>1, <1>2, <2>3, <2>4
<1>4. Unsent(listDirectoryAckOrNak(g, m))
  <2> DEFINE a == AppendEntries(g, m)
             l == [g.ls EXCEPT !.withTime = FALSE, !.offset = 0, !.entries = <<>>]
             p == [g EXCEPT !.ls = l]
             q == [p EXCEPT !.withTime = FALSE]
             k == [q EXCEPT !.expected = m.seq]
             more == listDirectoryWorker([a EXCEPT !.expected = m.seq], TRUE)
             anew == listDirectoryWorker(k, TRUE)
  <2>1. Unsent(more)
    <3>1. Unsent(a)
      BY UnsentRecords
    <3> HIDE DEF a
    <3>2. Unsent([a EXCEPT !.expected = m.seq])
      BY <1>0, <3>1, UnsentData
    <3> QED BY <3>2, UnsentWorkers
  <2>2. Unsent(anew)
    <3>1. l \in ListType
      <4> DEFINE none == <<>>
      <4>1. none \in Seq(Nat) /\ 0 \in Nat
        OBVIOUS
      <4>2. l = [g.ls EXCEPT !.withTime = FALSE, !.offset = 0, !.entries = none]
        OBVIOUS
      <4> HIDE DEF none, l
      <4> QED BY <1>0, <4>1, <4>2 DEF ListType
    <3> HIDE DEF l
    <3>2. Unsent(p)
      BY <3>1, UnsentData
    <3> HIDE DEF p
    <3>3. Unsent(q)
      BY <3>2, UnsentData
    <3> HIDE DEF q
    <3>4. Unsent(k)
      BY <1>0, <3>3, UnsentData
    <3> HIDE DEF k
    <3> QED BY <3>4, UnsentWorkers
  <2>3. [g EXCEPT !.withTime = FALSE, !.expected = m.seq,
                  !.ls = [@ EXCEPT !.withTime = FALSE, !.offset = 0, !.entries = <<>>]] = k
    <3>1. [g EXCEPT !.withTime = FALSE, !.expected = m.seq,
                  !.ls = [@ EXCEPT !.withTime = FALSE, !.offset = 0, !.entries = <<>>]]
          = [g EXCEPT !.withTime = FALSE, !.expected = m.seq, !.ls = l]
      OBVIOUS
    <3> HIDE DEF l
    <3> QED BY <1>0, <3>1 DEF GcsType
  <2>4. Unsent(Stopped(g)) /\ Unsent([g EXCEPT !.timer = TRUE])
    BY UnsentRecords, UnsentData
  <2> HIDE DEF a, k
  <2>5. listDirectoryAckOrNak(g, m) =
    IF m.op # ListOpcode(g) THEN g
    ELSE CASE m.kind = "ack" /\ m.seq < g.expected -> Stopped(g)
           [] m.kind = "ack" /\ m.seq >= g.expected -> more
           [] m.kind = "eof" /\ m.seq # g.expected -> [g EXCEPT !.timer = TRUE]
           [] m.kind = "eof" /\ m.seq = g.expected -> listDirectoryComplete(g, "ok")
           [] m.kind = "unknown" /\ g.ls.withTime -> anew
           [] OTHER -> listDirectoryComplete(g, "failed")
    BY <2>3 DEF listDirectoryAckOrNak, a
  <2>6. (m.seq < g.expected) \/ (m.seq >= g.expected)
    BY <1>0, OwnFields DEF Numbers
  <2> HIDE DEF more, anew
  <2> QED BY <1>1, <1>2, <2>1, <2>2, <2>4, <2>5, <2>6
<1>5. Unsent(createFileAckOrNak(g, m))
  <2> DEFINE u == [g.ul EXCEPT !.session = m.session]
             k == [g EXCEPT !.ul = u]
  <2>1. u \in UploadType
    BY <1>0, ReplyTypes DEF UploadType
  <2>2. [g EXCEPT !.ul.session = m.session] = k
    BY <1>0 DEF GcsType
  <2> HIDE DEF u
  <2>3. Unsent(k)
    BY <2>1, UnsentData
  <2> HIDE DEF k
  <2>4. Unsent(writeFileWorker(k, TRUE))
    BY <2>3, UnsentWorkers
  <2> QED BY <1>1, <1>2, <2>2, <2>4 DEF createFileAckOrNak
<1>6. Unsent(writeFileAckOrNak(g, m))
  <2> DEFINE s == Stopped(g)
             o == s.ul.sent + g.ul.chunk
             u == [s.ul EXCEPT !.sent = o, !.chunk = 0]
             p == [s EXCEPT !.ul = u]
             k == [p EXCEPT !.expected = m.seq]
  <2>1. Unsent(s)
    BY UnsentRecords
  <2>2. s.ul \in UploadType /\ o \in Nat
    <3>1. s.ul \in UploadType
      BY <2>1, OwnFields DEF Unsent
    <3> HIDE DEF s
    <3>2. s.ul.sent \in Nat /\ g.ul.chunk \in Nat
      BY <1>0, <3>1 DEF UploadType
    <3> QED BY <3>1, <3>2
  <2>3. [Stopped(g) EXCEPT !.ul.sent = @ + g.ul.chunk, !.ul.chunk = 0, !.expected = m.seq] = k
    <3> HIDE DEF s
    <3>1. [s EXCEPT !.ul.sent = @ + g.ul.chunk, !.ul.chunk = 0, !.expected = m.seq]
          = [s EXCEPT !.ul.sent = o, !.ul.chunk = 0, !.expected = m.seq]
      BY <2>1 DEF Unsent, GcsType
    <3> HIDE DEF o
    <3>2. [s EXCEPT !.ul.sent = o, !.ul.chunk = 0, !.expected = m.seq] = k
      BY <2>1, <2>2 DEF Unsent, GcsType, UploadType
    <3> QED BY <3>1, <3>2 DEF s
  <2> HIDE DEF s, o
  <2>4. u \in UploadType
    BY <2>2 DEF UploadType
  <2> HIDE DEF u
  <2>5. Unsent(p)
    BY <2>1, <2>4, UnsentData
  <2> HIDE DEF p
  <2>6. Unsent(k)
    BY <1>0, <2>5, UnsentData
  <2> HIDE DEF k
  <2>7. Unsent(writeFileWorker(k, TRUE))
    BY <2>6, UnsentWorkers
  <2>8. writeFileAckOrNak(g, m) \in {g, s, writeFileWorker(k, TRUE), uploadComplete(g, "failed")}
    <3>1. (m.seq < g.expected) \/ (m.seq >= g.expected)
      BY <1>0, OwnFields DEF Numbers
    <3> QED BY <2>3, <3>1 DEF writeFileAckOrNak, s
  <2> QED BY <1>1, <1>2, <2>1, <2>7, <2>8
<1>7. Unsent(deleteFileAckOrNak(g, m))
  <2>1. deleteFileAckOrNak(g, m) \in {g, deleteComplete(g, "ok"), deleteComplete(g, "failed")}
    BY DEF deleteFileAckOrNak
  <2> QED BY <1>1, <1>2, <2>1
<1>8. Unsent(terminateSessionAckOrNak(g, m))
  BY <1>1, <1>2 DEF terminateSessionAckOrNak
<1>9. Unsent(terminateUploadSessionAckOrNak(g, m))
  BY <1>1, <1>2 DEF terminateUploadSessionAckOrNak
<1> QED BY <1>3, <1>4, <1>5, <1>6, <1>7, <1>8, <1>9

LEMMA UnsentReceives ==
  ASSUME NEW g, Unsent(g), Recorded(g), NEW m \in Replies
  PROVE  Unsent(mavlinkMessageReceived(g, m))
<1>1. g.stage \in Stages
  BY DEF Unsent, GcsType
<1>2. g.stage # "idle" => Unsent(AckOrNak(g, m))
  BY <1>1, UnsentDownloads, UnsentOthers DEF Stages, AckOrNak
<1> QED BY <1>2 DEF mavlinkMessageReceived

LEMMA UnsentTimeouts ==
  ASSUME NEW g, Unsent(g), Sound(g), g.timer
  PROVE  Unsent(ackOrNakTimeout(g))
<1> DEFINE s == Stopped(g)
           n == s.retry + 1
           k == [s EXCEPT !.retry = n]
           b == s.orphan \/ s.machine = "upload"
           p == [s EXCEPT !.orphan = b]
<1>1. Working(g)
  BY DEF Sound, Resting
<1>2. s.stage = g.stage /\ g.stage \in Stages \ {"idle"}
  <2>1. g \in GcsType
    BY DEF Unsent
  <2> QED BY <1>1, <2>1, StoppedKeeps, StageTells DEF Keeps, GcsType
<1>3. Unsent(s) /\ s.retry = g.retry
  <2>1. s.retry = g.retry
    BY DEF Stopped, GcsType, Unsent
  <2> QED BY <2>1, UnsentData DEF Stopped
<1>4. ackOrNakTimeout(g) = IF g.stage \in Retried /\ g.retry < MaxRetry THEN Retry(k) ELSE GiveUp(s)
  BY DEF ackOrNakTimeout
<1> HIDE DEF s
<1>5. g.retry < MaxRetry => Unsent(k)
  <2>1. g.retry < MaxRetry => n \in Retries
    BY <1>3, OwnFields, RetriesMove DEF Unsent
  <2> HIDE DEF n
  <2> QED BY <1>3, <2>1, UnsentData
<1>6. b \in BOOLEAN
  BY <1>3 DEF GcsType, Unsent
<1>7. [s EXCEPT !.orphan = @ \/ s.machine = "upload"] = p
  OBVIOUS
<1> HIDE DEF b
<1>8. Unsent(p)
  BY <1>3, <1>6, UnsentData
<1>9. k.stage = g.stage
  BY <1>2, <1>3 DEF Unsent, GcsType
<1> HIDE DEF p, k
<1>10. Unsent(GiveUp(s))
  <2>1. "ok" \in Outcomes /\ "failed" \in Outcomes
    BY DEF Outcomes
  <2>2. GiveUp(s) \in {downloadComplete(s, "failed"), downloadComplete(p, "ok"), uploadComplete(s, "failed"),
                       listDirectoryComplete(s, "failed"), deleteComplete(s, "failed")}
    BY <1>2, <1>7 DEF GiveUp, Stages
  <2>3. Unsent(downloadComplete(p, "ok"))
    BY <1>8, <2>1, UnsentEnds
  <2>4. /\ Unsent(downloadComplete(s, "failed")) /\ Unsent(uploadComplete(s, "failed"))
        /\ Unsent(listDirectoryComplete(s, "failed")) /\ Unsent(deleteComplete(s, "failed"))
    BY <1>3, <2>1, UnsentEnds
  <2> QED BY <2>2, <2>3, <2>4
<1>11. g.stage \in Retried /\ g.retry < MaxRetry => Unsent(Retry(k))
  BY <1>5, <1>9, UnsentWorkers DEF Retry, Retried
<1> QED BY <1>4, <1>10, <1>11

-----------------------------------------------------------------------------
(* What is on its way *)

\* t has messages of s in their order, some of them perhaps twice.
Kept(s, t) ==
    /\ \A i \in DOMAIN t : \E a \in DOMAIN s : t[i] = s[a]
    /\ \A i, j \in DOMAIN t : i < j => \E a, b \in DOMAIN s : a <= b /\ t[i] = s[a] /\ t[j] = s[b]

LEMMA KeptSame ==
  ASSUME NEW S, NEW q \in Seq(S)
  PROVE  Kept(q, q) /\ Kept(q, <<>>)
<1>1. DOMAIN q = 1..Len(q) /\ Len(q) \in Nat
  OBVIOUS
<1>2. Kept(q, q)
  BY <1>1 DEF Kept
<1>3. Kept(q, <<>>)
  BY DEF Kept
<1> QED BY <1>2, <1>3

LEMMA KeptTail ==
  ASSUME NEW S, NEW q \in Seq(S), q # <<>>
  PROVE  Kept(q, Tail(q)) /\ Head(q) = q[1] /\ 1 \in DOMAIN q
<1>1. DOMAIN q = 1..Len(q) /\ Len(q) \in Nat /\ Len(q) # 0
  OBVIOUS
<1> DEFINE t == Tail(q)
<1>2. t \in Seq(S) /\ Len(t) = Len(q) - 1 /\ \A i \in 1..Len(t) : t[i] = q[i + 1]
  BY HeadTailProperties
<1> HIDE DEF t
<1>3. DOMAIN t = 1..Len(t)
  BY <1>2
<1>4. \A i \in DOMAIN t : i \in Int /\ i + 1 \in DOMAIN q /\ t[i] = q[i + 1]
  BY <1>1, <1>2, <1>3
<1>5. Kept(q, t)
  <2>1. \A i, j \in DOMAIN t : i < j => i + 1 <= j + 1
    BY <1>4
  <2> QED BY <1>4, <2>1 DEF Kept
<1>6. Head(q) = q[1] /\ 1 \in DOMAIN q
  BY <1>1
<1> QED BY <1>5, <1>6 DEF t

LEMMA KeptTwice ==
  ASSUME NEW S, NEW q \in Seq(S), q # <<>>
  PROVE  Kept(q, <<Head(q)>> \o q)
<1> DEFINE p == <<Head(q)>>
           t == p \o q
<1>1. DOMAIN q = 1..Len(q) /\ Len(q) \in Nat /\ Len(q) # 0 /\ Head(q) = q[1] /\ Head(q) \in S
  OBVIOUS
<1>2. p \in Seq(S) /\ Len(p) = 1 /\ p[1] = q[1]
  BY <1>1
<1> HIDE DEF p
<1>3. t \in Seq(S) /\ Len(t) = 1 + Len(q)
      /\ \A i \in 1 .. 1 + Len(q) : t[i] = IF i <= 1 THEN p[i] ELSE q[i - 1]
  <2>1. t \in Seq(S) /\ Len(t) = Len(p) + Len(q)
        /\ \A i \in 1 .. Len(p) + Len(q) : t[i] = IF i <= Len(p) THEN p[i] ELSE q[i - Len(p)]
    BY <1>2, ConcatProperties
  <2> QED BY <1>2, <2>1
<1> HIDE DEF t
<1>4. DOMAIN t = 1 .. 1 + Len(q)
  BY <1>3
<1> DEFINE a(i) == IF i <= 1 THEN 1 ELSE i - 1
<1>5. \A i \in DOMAIN t : a(i) \in DOMAIN q /\ t[i] = q[a(i)]
  BY <1>1, <1>2, <1>3, <1>4
<1>6. \A i, j \in DOMAIN t : i < j => a(i) <= a(j)
  BY <1>4
<1> HIDE DEF a
<1>7. Kept(q, t)
  BY <1>5, <1>6 DEF Kept
<1> QED BY <1>7 DEF t, p

LEMMA KeptRange ==
  ASSUME NEW s, NEW t, Kept(s, t)
  PROVE  Range(t) \subseteq Range(s)
  BY DEF Kept, Range

LEMMA RangeOfMore ==
  ASSUME NEW S, NEW q \in Seq(S), NEW t \in Seq(S)
  PROVE  Range(q \o t) = Range(q) \cup Range(t)
<1> DEFINE u == q \o t
<1>1. u \in Seq(S) /\ Len(u) = Len(q) + Len(t)
      /\ \A i \in 1 .. Len(q) + Len(t) : u[i] = IF i <= Len(q) THEN q[i] ELSE t[i - Len(q)]
  BY ConcatProperties
<1>2. DOMAIN q = 1..Len(q) /\ DOMAIN t = 1..Len(t) /\ Len(q) \in Nat /\ Len(t) \in Nat
  OBVIOUS
<1> HIDE DEF u
<1>3. DOMAIN u = 1 .. Len(q) + Len(t)
  BY <1>1
<1>4. \A i \in DOMAIN u : (i \in DOMAIN q /\ u[i] = q[i]) \/ (i - Len(q) \in DOMAIN t /\ u[i] = t[i - Len(q)])
  BY <1>1, <1>2, <1>3
<1>5. \A i \in DOMAIN q : i \in DOMAIN u /\ u[i] = q[i]
  BY <1>1, <1>2, <1>3
<1>6. \A i \in DOMAIN t : i + Len(q) \in DOMAIN u /\ u[i + Len(q)] = t[i]
  BY <1>1, <1>2, <1>3
<1>7. Range(u) = Range(q) \cup Range(t)
  BY <1>4, <1>5, <1>6 DEF Range
<1> QED BY <1>7 DEF u

LEMMA RangeOfOne ==
  ASSUME NEW x
  PROVE  Range(<<x>>) = {x}
  BY DEF Range

LEMMA RangeOfAppend ==
  ASSUME NEW S, NEW q \in Seq(S), NEW x \in S
  PROVE  Range(Append(q, x)) = Range(q) \cup {x}
<1> DEFINE u == Append(q, x)
<1>1. DOMAIN q = 1..Len(q) /\ Len(q) \in Nat
  OBVIOUS
<1>2. DOMAIN u = 1 .. Len(q) + 1 /\ u[Len(q) + 1] = x /\ \A i \in 1..Len(q) : u[i] = q[i]
  OBVIOUS
<1> HIDE DEF u
<1>3. Range(u) = Range(q) \cup {x}
  BY <1>1, <1>2 DEF Range
<1> QED BY <1>3 DEF u

LEMMA RangeOfRemoved ==
  ASSUME NEW S, NEW q \in Seq(S), NEW i \in DOMAIN q
  PROVE  Range(RemoveAt(q, i)) \subseteq Range(q)
<1> DEFINE a == SubSeq(q, 1, i - 1)
           b == SubSeq(q, i + 1, Len(q))
<1>1. i \in 1..Len(q) /\ Len(q) \in Nat /\ DOMAIN q = 1..Len(q)
  OBVIOUS
<1>2. a \in Seq(S) /\ b \in Seq(S)
  BY <1>1
<1>3. \A j \in DOMAIN a : j \in DOMAIN q /\ a[j] = q[j]
  BY <1>1
<1>4. \A j \in DOMAIN b : i + j \in DOMAIN q /\ b[j] = q[i + j]
  BY <1>1
<1>5. Range(a) \subseteq Range(q) /\ Range(b) \subseteq Range(q)
  BY <1>3, <1>4 DEF Range
<1> HIDE DEF a, b
<1>6. Range(a \o b) \subseteq Range(q)
  BY <1>2, <1>5, RangeOfMore
<1> QED BY <1>6 DEF RemoveAt, a, b

LEMMA InRange ==
  ASSUME NEW S, NEW q \in Seq(S)
  PROVE  /\ \A x \in Range(q) : x \in S
         /\ \A i \in DOMAIN q : q[i] \in Range(q)
  BY DEF Range

\* No request on its way has been answered, and only blocks of a burst are ahead.
Numbered ==
    /\ \A r \in Range(toVehicle) : Past(gcs.expected, r.seq) /\ r.seq # gcs.expected
    /\ \A m \in Answers : m.op # "burst" => Past(gcs.expected, m.seq)

InOrder ==
    \A i, j \in DOMAIN toVehicle : i < j =>
        Behind(gcs.expected, toVehicle[j].seq) <= Behind(gcs.expected, toVehicle[i].seq)

\* The requests with the number before the one expected are those of the stage.
AskedNow == \A r \in Range(toVehicle) : r.seq = Seq16(gcs.expected - 1) => Asked(gcs, r)

Traffic == Numbered /\ InOrder /\ AskedNow /\ CallGood(gcs) /\ UploadGood(gcs)

-----------------------------------------------------------------------------
(* The steps *)

\* The manager begins something, takes an answer or loses patience.
Managed ==
    \E h \in GcsType :
        /\ Becomes(h) /\ vehicle' = vehicle /\ Range(toGcs') \subseteq Range(toGcs)
        /\ gcs.unsent => h.unsent
        /\ ~gcs.unsent =>
              \/ Begun(gcs, h)
              \/ \E m \in Range(toGcs) \cup {Silence} : Does(gcs, h, m) /\ CallGood(h)

\* Messages get lost, or come twice.
VehicleRests ==
    /\ gcs' = gcs /\ Kept(toVehicle, toVehicle') /\ Answers' \subseteq Answers
    /\ vehicle'.last = vehicle.last /\ vehicle'.mode = vehicle.mode /\ vehicle'.path = vehicle.path
    /\ vehicle'.session = vehicle.session /\ vehicle'.blocks = vehicle.blocks

VehicleRefuses ==
    LET a == Reply(Head(toVehicle), 1, "nak")
    IN  /\ gcs' = gcs /\ toVehicle # <<>> /\ toVehicle' = Tail(toVehicle)
        /\ Answers' \subseteq Answers \cup {a} /\ vehicle' = [vehicle EXCEPT !.last = a]

VehicleServes ==
    LET r == Head(toVehicle)
    IN  /\ gcs' = gcs /\ toVehicle # <<>> /\ toVehicle' = Tail(toVehicle)
        /\ r.seq # Seq16(vehicle.last.seq - 1)
        /\ \E s \in Sessions \cup {0}, extra \in {0, 1}, withTime \in BOOLEAN :
              LET a == Answer(r, s, extra, withTime)
              IN  /\ Answers' \subseteq Answers \cup Range(a)
                  /\ vehicle' = [After(r, s) EXCEPT !.last = Last(a)]

LEMMA CallManages ==
  ASSUME IInv,
         NEW h, Becomes(h), Begun(gcs, h), vehicle' = vehicle, toGcs' = toGcs
  PROVE  Managed
<1>1. h \in GcsType /\ Turn(gcs, h)
  BY DEF Begun
<1>2. gcs.unsent => h.unsent
  BY <1>1 DEF Turn
<1> QED BY <1>1, <1>2 DEF Managed

LEMMA ManagerSteps ==
  ASSUME BurstsFit, IInv, Timely, gcs.unsent \/ Traffic
  PROVE  /\ \A n \in Sizes, c \in BOOLEAN : download(n, c) => Managed
         /\ \A n \in Sizes : upload(n) => Managed
         /\ \A n \in Sizes : listDirectory(n) => Managed
         /\ deleteFile => Managed
         /\ \A k \in Operations : badPath(k) => Managed
         /\ cancelDownload => Managed
         /\ cancelUpload => Managed
         /\ cancelListDirectory => Managed
         /\ cancelDelete => Managed
         /\ \A i \in 1..Len(toGcs), again \in BOOLEAN : Receive(i, again) => Managed
         /\ Timeout => Managed
<1>1. /\ gcs \in GcsType /\ gcs.out = <<>> /\ Sound(gcs) /\ Recorded(gcs)
      /\ toGcs \in Seq(Replies)
  BY DEF IInv, TypeOK
<1>2. ASSUME Called, \E h : Becomes(h) /\ Begun(gcs, h)
      PROVE  Managed
  BY <1>2, CallManages DEF Called
<1>3. \A n \in Sizes, c \in BOOLEAN : download(n, c) => Managed
  BY <1>1, <1>2, CallsBegin DEF download
<1>4. \A n \in Sizes : upload(n) => Managed
  BY <1>1, <1>2, CallsBegin DEF upload
<1>5. \A n \in Sizes : listDirectory(n) => Managed
  BY <1>1, <1>2, CallsBegin DEF listDirectory
<1>6. deleteFile => Managed
  BY <1>1, <1>2, CallsBegin DEF deleteFile
<1>7. \A k \in Operations : badPath(k) => Managed
  BY <1>1, <1>2, BadPathBegins DEF badPath
<1>8. cancelDownload => Managed
  BY <1>1, <1>2, CancelsBegin DEF cancelDownload
<1>9. cancelUpload => Managed
  BY <1>1, <1>2, CancelsBegin DEF cancelUpload
<1>10. cancelListDirectory => Managed
  BY <1>1, <1>2, CancelsBegin DEF cancelListDirectory
<1>11. cancelDelete => Managed
  BY <1>1, <1>2, CancelsBegin DEF cancelDelete
<1>12. ASSUME NEW i \in 1..Len(toGcs), NEW again \in BOOLEAN, Receive(i, again)
       PROVE  Managed
  <2> DEFINE m == toGcs[i]
             h == mavlinkMessageReceived(gcs, m)
  <2>1. i \in DOMAIN toGcs /\ m \in Replies /\ m \in Range(toGcs)
    BY <1>1, InRange
  <2>2. Becomes(h) /\ vehicle' = vehicle /\ toGcs' = (IF again THEN toGcs ELSE RemoveAt(toGcs, i))
    BY <1>12 DEF Receive
  <2>3. Range(toGcs') \subseteq Range(toGcs)
    BY <1>1, <2>1, <2>2, RangeOfRemoved
  <2>4. h \in GcsType
    BY <1>1, <2>1, ReceivedServes DEF Serves
  <2>5. gcs.unsent => h.unsent
    BY <1>1, <2>1, UnsentReceives DEF Unsent
  <2>6. m \in Answers
    BY <2>1 DEF Answers
  <2>7. Near(gcs.expected, m.seq)
    BY <2>6 DEF Timely
  <2> HIDE DEF m, h
  <2>8. ~gcs.unsent => Does(gcs, mavlinkMessageReceived(gcs, m), m)
    BY <1>1, <2>1, <2>6, <2>7, ReceivedDoes DEF Traffic, Numbered
  <2>9. ~gcs.unsent => CallGood(mavlinkMessageReceived(gcs, m))
    <3>1. CASE gcs.stage = "idle"
      BY <3>1 DEF mavlinkMessageReceived, Traffic
    <3>2. CASE gcs.stage # "idle"
      BY <2>8, <3>2, ActsCall DEF Does, Traffic
    <3> QED BY <3>1, <3>2
  <2> QED BY <2>1, <2>2, <2>3, <2>4, <2>5, <2>8, <2>9 DEF Managed, h
<1>13. ASSUME Timeout
       PROVE  Managed
  <2> DEFINE h == ackOrNakTimeout(gcs)
  <2>1. gcs.timer /\ Becomes(h) /\ vehicle' = vehicle /\ toGcs' = toGcs
    BY <1>13 DEF Timeout
  <2>2. h \in GcsType
    BY <1>1, <2>1, TimeoutServes DEF Serves
  <2>3. gcs.unsent => h.unsent
    BY <1>1, <2>1, UnsentTimeouts DEF Unsent
  <2>4. ~gcs.unsent => Does(gcs, h, Silence)
    BY <1>1, <2>1, TimeoutDoes DEF Traffic
  <2> HIDE DEF h
  <2>5. gcs.stage # "idle"
    BY <1>1, <2>1, StageTells DEF Sound, Resting, Working, StagesOf
  <2>6. ~gcs.unsent => CallGood(h)
    BY <2>4, <2>5, ActsCall DEF Does, Traffic
  <2> QED BY <2>1, <2>2, <2>3, <2>4, <2>6 DEF Managed
<1> QED BY <1>3, <1>4, <1>5, <1>6, <1>7, <1>8, <1>9, <1>10, <1>11, <1>12, <1>13

LEMMA VehicleSteps ==
  ASSUME IInv
  PROVE  /\ Serve => VehicleRests \/ VehicleServes
         /\ Refuse => VehicleRefuses
         /\ FallSilent => VehicleRests
         /\ Unheard => VehicleRests
         /\ LoseRequest => VehicleRests
         /\ RepeatRequest => VehicleRests
         /\ \A i \in 1..Len(toGcs) : LoseReply(i) => VehicleRests
         /\ LinkChange => VehicleRests
         /\ UNCHANGED vars => VehicleRests
<1>1. toVehicle \in Seq(Requests) /\ toGcs \in Seq(Replies) /\ vehicle \in VehicleType
      /\ vehicle.last \in Replies
  BY DEF IInv, TypeOK, VehicleType
<1>2. Kept(toVehicle, toVehicle) /\ Kept(toVehicle, <<>>)
  BY <1>1, KeptSame
<1>3. toVehicle # <<>> => Kept(toVehicle, Tail(toVehicle)) /\ Kept(toVehicle, <<Head(toVehicle)>> \o toVehicle)
                          /\ Head(toVehicle) \in Requests
  BY <1>1, KeptTail, KeptTwice, HeadTailProperties
<1>4. ASSUME gcs' = gcs, Kept(toVehicle, toVehicle'), Range(toGcs') \subseteq Range(toGcs) \cup {vehicle.last},
             vehicle' = vehicle
      PROVE  VehicleRests
  <2>1. Answers' \subseteq Answers
    BY <1>4 DEF Answers
  <2> QED BY <1>4, <2>1 DEF VehicleRests
<1>5. ASSUME Serve
      PROVE  VehicleRests \/ VehicleServes
  <2> DEFINE r == Head(toVehicle)
  <2>1. gcs' = gcs /\ toVehicle # <<>> /\ toVehicle' = Tail(toVehicle)
    BY <1>5 DEF Serve
  <2>2. CASE r.seq = Seq16(vehicle.last.seq - 1)
    <3>1. vehicle' = vehicle /\ toGcs' = Append(toGcs, vehicle.last)
      BY <1>5, <2>2 DEF Serve
    <3>2. Range(toGcs') = Range(toGcs) \cup {vehicle.last}
      BY <1>1, <3>1, RangeOfAppend
    <3>3. Kept(toVehicle, toVehicle')
      BY <1>3, <2>1
    <3> QED BY <1>4, <2>1, <3>1, <3>2, <3>3
  <2>3. CASE r.seq # Seq16(vehicle.last.seq - 1)
    <3>1. PICK s \in (IF r.op \in {"open", "create"} THEN Sessions ELSE {vehicle.session}),
               extra \in (IF r.op = "open" THEN {0, 1} ELSE {0}), withTime \in BOOLEAN :
               /\ toGcs' = toGcs \o Answer(r, s, extra, withTime)
               /\ vehicle' = [After(r, s) EXCEPT !.last = Last(Answer(r, s, extra, withTime))]
      BY <1>5, <2>3 DEF Serve
    <3>2. s \in Sessions \cup {0} /\ extra \in {0, 1} /\ r \in Requests
      BY <1>1, <1>3, <2>1 DEF VehicleType
    <3> DEFINE a == Answer(r, s, extra, withTime)
    <3>3. a \in Seq(Replies) /\ a # <<>>
      BY <1>1, <3>2, AnswerType
    <3>4. After(r, s) \in VehicleType
      BY <1>1, <3>2, AfterType
    <3> HIDE DEF a
    <3>5. Len(a) \in DOMAIN a /\ Last(a) = a[Len(a)]
      BY <3>3 DEF Last
    <3>6. Last(a) \in Range(a) /\ Last(a) \in Replies
      BY <3>3, <3>5, InRange
    <3>7. Range(toGcs') = Range(toGcs) \cup Range(a)
      BY <1>1, <3>1, <3>3, RangeOfMore DEF a
    <3>8. vehicle'.last = Last(a)
      <4>1. vehicle' = [After(r, s) EXCEPT !.last = Last(a)]
        BY <3>1 DEF a
      <4> QED BY <3>4, <4>1 DEF VehicleType
    <3>9. Answers' \subseteq Answers \cup Range(a)
      BY <3>6, <3>7, <3>8 DEF Answers
    <3>10. VehicleServes
      BY <2>1, <2>3, <3>1, <3>2, <3>9 DEF VehicleServes, a
    <3> QED BY <3>10
  <2> QED BY <2>2, <2>3
<1>6. ASSUME Refuse
      PROVE  VehicleRefuses
  <2> DEFINE a == Reply(Head(toVehicle), 1, "nak")
  <2>1. /\ gcs' = gcs /\ toVehicle # <<>> /\ toVehicle' = Tail(toVehicle)
        /\ toGcs' = Append(toGcs, a) /\ vehicle' = [vehicle EXCEPT !.last = a]
    BY <1>6 DEF Refuse
  <2>2. a \in Replies
    BY <1>1, <1>3, <2>1, ReplyType
  <2> HIDE DEF a
  <2>3. Range(toGcs') = Range(toGcs) \cup {a}
    BY <1>1, <2>1, <2>2, RangeOfAppend
  <2>4. vehicle'.last = a
    BY <1>1, <2>1 DEF VehicleType
  <2>5. Answers' \subseteq Answers \cup {a}
    BY <2>3, <2>4 DEF Answers
  <2> QED BY <2>1, <2>5 DEF VehicleRefuses, a
<1>7. ASSUME FallSilent
      PROVE  VehicleRests
  <2>1. gcs' = gcs /\ toVehicle' = toVehicle /\ toGcs' = toGcs
        /\ vehicle' = [vehicle EXCEPT !.alive = FALSE]
    BY <1>7 DEF FallSilent
  <2>2. vehicle'.last = vehicle.last /\ vehicle'.mode = vehicle.mode /\ vehicle'.path = vehicle.path
        /\ vehicle'.session = vehicle.session /\ vehicle'.blocks = vehicle.blocks
    BY <1>1, <2>1 DEF VehicleType
  <2>3. Answers' \subseteq Answers
    BY <2>1, <2>2 DEF Answers
  <2> QED BY <1>2, <2>1, <2>2, <2>3 DEF VehicleRests
<1>8. Unheard => VehicleRests
  BY <1>2, <1>4 DEF Unheard
<1>9. LoseRequest => VehicleRests
  BY <1>3, <1>4 DEF LoseRequest
<1>10. RepeatRequest => VehicleRests
  BY <1>3, <1>4 DEF RepeatRequest
<1>11. ASSUME NEW i \in 1..Len(toGcs), LoseReply(i)
       PROVE  VehicleRests
  <2>1. Range(toGcs') \subseteq Range(toGcs)
    BY <1>1, <1>11, RangeOfRemoved DEF LoseReply
  <2> QED BY <1>2, <1>4, <1>11, <2>1 DEF LoseReply
<1>12. LinkChange => VehicleRests
  BY <1>2, <1>4 DEF LinkChange
<1>13. UNCHANGED vars => VehicleRests
  BY <1>2, <1>4 DEF vars
<1> QED BY <1>5, <1>6, <1>7, <1>8, <1>9, <1>10, <1>11, <1>12, <1>13

LEMMA StepCases ==
  ASSUME BurstsFit, IInv, Timely, gcs.unsent \/ Traffic, [Next]_vars
  PROVE  Managed \/ VehicleRests \/ VehicleRefuses \/ VehicleServes
<1>1. CASE UNCHANGED vars
  BY <1>1, VehicleSteps
<1>2. CASE Next
  BY <1>2, ManagerSteps, VehicleSteps DEF Next
<1> QED BY <1>1, <1>2

-----------------------------------------------------------------------------
(* The messages of a turn *)

\* k is h, with its request sent.
SentFrom(h, k) ==
    /\ k \in GcsType /\ k.machine = h.machine /\ k.stage = h.stage /\ k.expected = h.expected
    /\ k.call = h.call /\ k.signals = h.signals /\ k.waiting = h.waiting /\ k.unsent = h.unsent
    /\ SameFiles(h, k)

LEMMA BecomesSent ==
  ASSUME NEW h \in GcsType, Becomes(h)
  PROVE  SentFrom(h, gcs') /\ toVehicle' = toVehicle \o h.out
<1> DEFINE none == <<>>
           k == [h EXCEPT !.out = none]
<1>1. gcs' = k /\ toVehicle' = toVehicle \o h.out
  BY DEF Becomes
<1>2. none \in Seq(Requests)
  OBVIOUS
<1> HIDE DEF none
<1>3. SentFrom(h, k)
  BY <1>2 DEF GcsType, SentFrom, SameFiles
<1> HIDE DEF k
<1> QED BY <1>1, <1>3

LEMMA SentSame ==
  ASSUME NEW h, NEW k, SentFrom(h, k)
  PROVE  /\ CallGood(k) <=> CallGood(h)
         /\ UploadGood(k) <=> UploadGood(h)
         /\ ListGood(k) <=> ListGood(h)
         /\ DownloadGood(k) <=> DownloadGood(h)
         /\ \A r : Asked(k, r) <=> Asked(h, r)
<1> USE DEF SentFrom, SameFiles
<1>1. CallGood(k) <=> CallGood(h)
  BY DEF CallGood
<1>2. UploadGood(k) <=> UploadGood(h)
  BY DEF UploadGood
<1>3. ListGood(k) <=> ListGood(h)
  BY DEF ListGood
<1>4. DownloadGood(k) <=> DownloadGood(h)
  BY DEF DownloadGood
<1>5. \A r : Asked(k, r) <=> Asked(h, r)
  BY DEF Asked, OpcodeOf, ListOpcode
<1> QED BY <1>1, <1>2, <1>3, <1>4, <1>5

\* What is not ahead stays behind while the manager turns by little.
LEMMA StaysPast ==
  ASSUME BurstsFit, NEW e \in Numbers, NEW n \in Numbers, NEW d \in Nat, d <= Burst + 3,
         Past(e, n), Near(Seq16(e + d), n)
  PROVE  Behind(Seq16(e + d), n) = Behind(e, n) + d /\ Past(Seq16(e + d), n)
<1>1. Burst \in Nat /\ Half \in Nat /\ Wrap = Half + Half + 2 /\ 2 * Burst + 10 < Half
  BY FtpAssumption, Halves DEF BurstsFit
<1>2. Behind(e, n) \in Nat /\ Behind(e, n) <= Half
  BY BehindRange DEF Past
<1>3. d < Half
  BY <1>1
<1>4. Behind(Seq16(e + d), n) = Behind(e, n) + d
  BY <1>1, <1>2, <1>3, ExpectedMoves
<1> DEFINE b == Behind(Seq16(e + d), n)
<1>5. b <= Half \/ b >= Wrap - Burst
  BY DEF Near, Past
<1> HIDE DEF b
<1>6. b = Behind(e, n) + d
  BY <1>4 DEF b
<1>7. b <= Half
  BY <1>1, <1>2, <1>5, <1>6
<1> QED BY <1>6, <1>7 DEF b, Past

LEMMA QueueFields ==
  ASSUME NEW q \in Seq(Requests)
  PROVE  /\ \A i \in DOMAIN q : q[i] \in Requests /\ q[i].seq \in Numbers /\ q[i] \in Range(q)
         /\ \A r \in Range(q) : r \in Requests /\ r.seq \in Numbers
<1>1. \A r \in Range(q) : r \in Requests
  BY InRange
<1>2. \A r \in Requests : r.seq \in Numbers
  BY DEF Requests
<1> QED BY <1>1, <1>2, InRange

\* The requests already on their way.
LEMMA OldTurn ==
  ASSUME BurstsFit, gcs \in GcsType, toVehicle \in Seq(Requests), Numbered,
         NEW h \in GcsType, NEW d \in Nat, d <= Burst + 3, h.expected = Seq16(gcs.expected + d),
         \A r \in Range(toVehicle) : Near(h.expected, r.seq)
  PROVE  \A r \in Range(toVehicle) :
            /\ Past(h.expected, r.seq) /\ r.seq # h.expected
            /\ Behind(h.expected, r.seq) = Behind(gcs.expected, r.seq) + d
            /\ Behind(gcs.expected, r.seq) \in Nat \ {0}
<1> SUFFICES ASSUME NEW r \in Range(toVehicle)
             PROVE  /\ Past(h.expected, r.seq) /\ r.seq # h.expected
                    /\ Behind(h.expected, r.seq) = Behind(gcs.expected, r.seq) + d
                    /\ Behind(gcs.expected, r.seq) \in Nat \ {0}
  OBVIOUS
<1>1. r.seq \in Numbers /\ gcs.expected \in Numbers /\ h.expected \in Numbers
  BY QueueFields, OwnFields
<1>2. Past(gcs.expected, r.seq) /\ r.seq # gcs.expected
  BY DEF Numbered
<1>3. Past(h.expected, r.seq) /\ Behind(h.expected, r.seq) = Behind(gcs.expected, r.seq) + d
  BY <1>1, <1>2, StaysPast
<1>4. Behind(gcs.expected, r.seq) \in Nat \ {0}
  BY <1>1, <1>2, BehindRange, BehindZero
<1>5. Behind(h.expected, r.seq) # 0
  BY <1>3, <1>4
<1>6. r.seq # h.expected
  BY <1>1, <1>5, BehindZero
<1> QED BY <1>3, <1>4, <1>6

LEMMA AskedStays ==
  ASSUME NEW g, NEW h, h.stage = "idle" \/ SameQuestion(g, h), NEW r, Asked(g, r)
  PROVE  Asked(h, r)
<1>1. CASE h.stage = "idle"
  BY <1>1 DEF Asked
<1>2. CASE SameQuestion(g, h)
  BY <1>2 DEF SameQuestion, Asked, OpcodeOf, ListOpcode
<1> QED BY <1>1, <1>2

LEMMA TurnTraffic ==
  ASSUME BurstsFit, gcs \in GcsType, toVehicle \in Seq(Requests), toGcs \in Seq(Replies),
         vehicle.last \in Replies, Numbered, InOrder, AskedNow,
         NEW h \in GcsType, Turn(gcs, h), ~h.unsent, Becomes(h), vehicle' = vehicle,
         Range(toGcs') \subseteq Range(toGcs), Timely'
  PROVE  Numbered' /\ InOrder' /\ AskedNow'
<1>1. PICK d \in Nat :
          /\ d <= Burst + 3 /\ h.expected = Seq16(gcs.expected + d)
          /\ d = 0 => h.stage = "idle" \/ SameQuestion(gcs, h)
          /\ \/ h.out = <<>>
             \/ \E r \in Requests :
                   h.out = <<r>> /\ r.seq = Seq16(h.expected - 1) /\ Asked(h, r)
  BY DEF Turn
<1>2. SentFrom(h, gcs') /\ toVehicle' = toVehicle \o h.out
  BY BecomesSent
<1>3. gcs'.expected = h.expected /\ h.expected \in Numbers /\ gcs.expected \in Numbers
  BY <1>2, OwnFields DEF SentFrom
<1> DEFINE e == gcs.expected
           f == h.expected
           q == toVehicle \o h.out
<1>4. h.out \in Seq(Requests) /\ q \in Seq(Requests) /\ Len(q) = Len(toVehicle) + Len(h.out)
      /\ \A i \in 1 .. Len(toVehicle) + Len(h.out) :
            q[i] = IF i <= Len(toVehicle) THEN toVehicle[i] ELSE h.out[i - Len(toVehicle)]
  <2>1. h.out \in Seq(Requests)
    BY DEF GcsType
  <2> QED BY <2>1, ConcatProperties
<1>5. \A r \in Range(toVehicle') : Near(f, r.seq)
  BY <1>3 DEF Timely
<1>6. Range(q) = Range(toVehicle) \cup Range(h.out)
  BY <1>4, RangeOfMore
<1>7. \A r \in Range(toVehicle) :
            /\ Past(f, r.seq) /\ r.seq # f
            /\ Behind(f, r.seq) = Behind(e, r.seq) + d /\ Behind(e, r.seq) \in Nat \ {0}
  BY <1>1, <1>2, <1>5, <1>6, OldTurn
<1>8. \A r \in Range(h.out) : Asked(h, r) /\ Behind(f, r.seq) = 1 /\ r.seq \in Numbers
  <2>1. CASE h.out = <<>>
    BY <2>1 DEF Range
  <2>2. CASE \E r \in Requests : h.out = <<r>> /\ r.seq = Seq16(h.expected - 1) /\ Asked(h, r)
    <3>1. PICK r \in Requests : h.out = <<r>> /\ r.seq = Seq16(h.expected - 1) /\ Asked(h, r)
      BY <2>2
    <3>2. r.seq \in Numbers
      BY DEF Requests
    <3>3. Behind(f, r.seq) = 1
      BY <1>3, <3>1, <3>2, BehindOne
    <3>4. Range(h.out) = {r}
      BY <3>1, RangeOfOne
    <3> QED BY <3>1, <3>2, <3>3, <3>4
  <2> QED BY <1>1, <2>1, <2>2
<1>9. 1 <= Half /\ Half \in Nat /\ Burst \in Nat
  BY Halves, FtpAssumption DEF BurstsFit
<1>10. \A r \in Range(h.out) : Past(f, r.seq) /\ r.seq # f
  BY <1>3, <1>8, <1>9, BehindZero DEF Past
<1>11. \A m \in Answers' : m.op # "burst" => Past(f, m.seq)
  <2> SUFFICES ASSUME NEW m \in Answers', m.op # "burst"
               PROVE  Past(f, m.seq)
    OBVIOUS
  <2>1. m \in Answers
    BY DEF Answers
  <2>2. m \in Replies
    BY <2>1, InRange DEF Answers
  <2>3. Near(f, m.seq) /\ Past(e, m.seq)
    BY <1>3, <2>1 DEF Timely, Numbered
  <2> QED BY <1>1, <1>3, <2>2, <2>3, StaysPast, ReplyTypes
<1> HIDE DEF f, e
<1>12. Numbered'
  <2>1. \A r \in Range(toVehicle') : Past(f, r.seq) /\ r.seq # f
    BY <1>2, <1>6, <1>7, <1>10
  <2> QED BY <1>3, <1>11, <2>1 DEF Numbered, f
<1>13. InOrder'
  <2>1. DOMAIN q = 1..Len(q) /\ DOMAIN toVehicle = 1..Len(toVehicle) /\ Len(toVehicle) \in Nat
        /\ Len(h.out) \in {0, 1} /\ DOMAIN h.out = 1..Len(h.out)
    <3>1. DOMAIN q = 1..Len(q) /\ DOMAIN toVehicle = 1..Len(toVehicle) /\ Len(toVehicle) \in Nat
          /\ DOMAIN h.out = 1..Len(h.out)
      BY <1>4
    <3>2. h.out = <<>> => Len(h.out) = 0
      OBVIOUS
    <3>3. \A r \in Requests : h.out = <<r>> => Len(h.out) = 1
      OBVIOUS
    <3> QED BY <1>1, <3>1, <3>2, <3>3
  <2>2. \A i \in DOMAIN q : \/ i \in DOMAIN toVehicle /\ q[i] = toVehicle[i] /\ toVehicle[i] \in Range(toVehicle)
                            \/ i = Len(toVehicle) + 1 /\ q[i] \in Range(h.out)
    <3>1. \A i \in DOMAIN h.out : h.out[i] \in Range(h.out)
      BY DEF Range
    <3>2. \A i \in DOMAIN toVehicle : toVehicle[i] \in Range(toVehicle)
      BY DEF Range
    <3> SUFFICES ASSUME NEW i \in DOMAIN q
                 PROVE  \/ i \in DOMAIN toVehicle /\ q[i] = toVehicle[i] /\ toVehicle[i] \in Range(toVehicle)
                        \/ i = Len(toVehicle) + 1 /\ q[i] \in Range(h.out)
      OBVIOUS
    <3>3. CASE i <= Len(toVehicle)
      BY <1>4, <2>1, <3>2, <3>3
    <3>4. CASE ~(i <= Len(toVehicle))
      <4>1. i - Len(toVehicle) \in DOMAIN h.out /\ q[i] = h.out[i - Len(toVehicle)] /\ i = Len(toVehicle) + 1
        BY <1>4, <2>1, <3>4
      <4> QED BY <3>1, <4>1
    <3> QED BY <3>3, <3>4
  <2>3. \A i, j \in DOMAIN q : i < j => Behind(f, q[j].seq) <= Behind(f, q[i].seq)
    <3> SUFFICES ASSUME NEW i \in DOMAIN q, NEW j \in DOMAIN q, i < j
                 PROVE  Behind(f, q[j].seq) <= Behind(f, q[i].seq)
      OBVIOUS
    <3>1. i \in DOMAIN toVehicle /\ q[i] = toVehicle[i] /\ q[i] \in Range(toVehicle)
      BY <2>1, <2>2
    <3>2. Behind(f, q[i].seq) = Behind(e, q[i].seq) + d /\ Behind(e, q[i].seq) \in Nat \ {0}
      BY <1>7, <3>1
    <3>3. CASE q[j] \in Range(h.out)
      BY <1>8, <3>2, <3>3
    <3>4. CASE j \in DOMAIN toVehicle /\ q[j] = toVehicle[j] /\ toVehicle[j] \in Range(toVehicle)
      <4>1. Behind(f, q[j].seq) = Behind(e, q[j].seq) + d /\ Behind(e, q[j].seq) \in Nat \ {0}
        BY <1>7, <3>4
      <4>2. Behind(e, q[j].seq) <= Behind(e, q[i].seq)
        BY <3>1, <3>4 DEF InOrder, e
      <4> QED BY <3>2, <4>1, <4>2
    <3> QED BY <2>2, <3>3, <3>4
  <2> QED BY <1>2, <1>3, <2>3 DEF InOrder, f
<1>14. AskedNow'
  <2> SUFFICES ASSUME NEW r \in Range(toVehicle'), r.seq = Seq16(gcs'.expected - 1)
               PROVE  Asked(gcs', r)
    BY DEF AskedNow
  <2>1. Asked(h, r)
    <3>1. CASE r \in Range(h.out)
      BY <1>8, <3>1
    <3>2. CASE r \in Range(toVehicle)
      <4>1. r.seq \in Numbers
        BY <3>2, QueueFields
      <4>2. Behind(f, r.seq) = 1
        BY <1>3, <4>1, BehindOne DEF f
      <4>3. d = 0 /\ Behind(e, r.seq) = 1
        BY <1>7, <3>2, <4>2
      <4>4. r.seq = Seq16(gcs.expected - 1)
        BY <1>3, <4>1, <4>3, BehindOne DEF e
      <4>5. Asked(gcs, r)
        BY <3>2, <4>4 DEF AskedNow
      <4> QED BY <1>1, <4>3, <4>5, AskedStays
    <3> QED BY <1>2, <1>6, <3>1, <3>2
  <2> QED BY <1>2, <2>1, SentSame
<1> QED BY <1>12, <1>13, <1>14

-----------------------------------------------------------------------------
(* The answers of the vehicle *)

LEMMA ReplyFields ==
  ASSUME vehicle \in VehicleType, NEW r \in Requests, NEW n \in Nat,
         NEW kind \in {"ack", "nak", "eof", "unknown"}
  PROVE  LET x == Reply(r, n, kind) IN
            x \in Replies /\ x.seq = Seq16(r.seq + n) /\ x.op = r.op /\ x.kind = kind
            /\ x.session = vehicle.session /\ x.offset = r.offset /\ x.size = 0 /\ ~x.complete
<1>1. Reply(r, n, kind) \in Replies
  BY ReplyType
<1> DEFINE q == Seq16(r.seq + n)
           v == vehicle.session
           x == [NoReply EXCEPT !.seq = q, !.op = r.op, !.kind = kind, !.session = v, !.offset = r.offset]
<1>2. Reply(r, n, kind) = x
  BY DEF Reply
<1> HIDE DEF q, v
<1>3. x.seq = q /\ x.op = r.op /\ x.kind = kind /\ x.session = v /\ x.offset = r.offset
      /\ x.size = 0 /\ x.complete = FALSE
  BY DEF NoReply
<1> HIDE DEF x
<1> QED BY <1>1, <1>2, <1>3 DEF q, v

Listed == {"list", "listWithTime"}

\* The single answer x to the request r, when a session is s if one is opened.
SingleAnswer(r, s, x) ==
    /\ x \in Replies /\ x.seq = Seq16(r.seq + 1) /\ x.op = r.op /\ x.offset = r.offset
    /\ x.kind = "ack" =>
          /\ r.op # "burst"
          /\ r.op \in {"open", "create"} => x.session = s
          /\ r.op = "open" => x.size >= r.path
          /\ r.op = "write" => vehicle.mode = "write" /\ r.session = vehicle.session
          /\ r.op \in Listed => r.offset < r.path /\ x.size \in 1 .. r.path - r.offset
    /\ x.kind = "eof" /\ r.op \in Listed => r.offset >= r.path

LEMMA PlainAnswer ==
  ASSUME vehicle \in VehicleType, NEW r \in Requests, NEW s, NEW kind \in {"ack", "nak", "eof", "unknown"},
         kind = "ack" => r.op \notin {"burst", "open", "create"} \cup Listed,
         kind = "ack" /\ r.op = "write" => vehicle.mode = "write" /\ r.session = vehicle.session,
         kind = "eof" /\ r.op \in Listed => r.offset >= r.path
  PROVE  SingleAnswer(r, s, Reply(r, 1, kind))
<1> DEFINE x == Reply(r, 1, kind)
<1>1. x \in Replies /\ x.seq = Seq16(r.seq + 1) /\ x.op = r.op /\ x.kind = kind /\ x.offset = r.offset
  BY ReplyFields
<1> HIDE DEF x
<1>2. SingleAnswer(r, s, x)
  BY <1>1 DEF SingleAnswer
<1> QED BY <1>2 DEF x

LEMMA AnswerIs ==
  ASSUME vehicle \in VehicleType, NEW r \in Requests, NEW s \in Sessions \cup {0},
         NEW extra \in {0, 1}, NEW withTime \in BOOLEAN
  PROVE  \/ \E x : Answer(r, s, extra, withTime) = <<x>> /\ SingleAnswer(r, s, x)
         \/ /\ r.op = "burst" /\ vehicle.mode = "read" /\ r.session = vehicle.session
            /\ Answer(r, s, extra, withTime) = BurstReplies(r)
<1> DEFINE k == Reply(r, 1, "ack")
           n == r.path + extra
           j == Entries(r)
           a == Answer(r, s, extra, withTime)
<1>1. k \in Replies /\ k.seq = Seq16(r.seq + 1) /\ k.op = r.op /\ k.kind = "ack" /\ k.offset = r.offset
  BY ReplyFields
<1>2. r.path \in Nat /\ r.offset \in Nat /\ n \in Nat /\ n >= r.path
  <2>1. r.path \in Nat /\ r.offset \in Nat
    BY SizesAreNumbers DEF Requests
  <2> QED BY <2>1
<1>3. r.offset < r.path => j \in Nat /\ j \in 1 .. r.path - r.offset
  BY <1>2, FtpAssumption DEF Entries
<1> HIDE DEF n, j, k
<1>4. CASE r.op = "open"
  <2> DEFINE x == [k EXCEPT !.session = s, !.size = n]
  <2>1. x \in Replies /\ x.seq = k.seq /\ x.op = k.op /\ x.kind = k.kind /\ x.offset = k.offset
        /\ x.session = s /\ x.size = n
    BY <1>1, <1>2 DEF Replies
  <2>2. a = <<x>>
    BY <1>4 DEF Answer, k, n
  <2> HIDE DEF x, a
  <2>3. SingleAnswer(r, s, x)
    BY <1>1, <1>2, <1>4, <2>1 DEF SingleAnswer, Listed
  <2> QED BY <2>2, <2>3 DEF a
<1>5. CASE r.op = "create"
  <2> DEFINE x == [k EXCEPT !.session = s]
  <2>1. x \in Replies /\ x.seq = k.seq /\ x.op = k.op /\ x.kind = k.kind /\ x.offset = k.offset
        /\ x.session = s
    BY <1>1 DEF Replies
  <2>2. a = <<x>>
    BY <1>5 DEF Answer, k
  <2> HIDE DEF x, a
  <2>3. SingleAnswer(r, s, x)
    BY <1>1, <1>5, <2>1 DEF SingleAnswer, Listed
  <2> QED BY <2>2, <2>3 DEF a
<1>6. CASE r.op \in Listed /\ r.offset < r.path /\ (r.op = "listWithTime" => withTime)
  <2> DEFINE x == [k EXCEPT !.size = j]
  <2>1. x \in Replies /\ x.seq = k.seq /\ x.op = k.op /\ x.kind = k.kind /\ x.offset = k.offset
        /\ x.size = j
    BY <1>1, <1>3, <1>6 DEF Replies
  <2>2. a = <<x>>
    <3>1. ~(r.offset >= r.path)
      BY <1>2, <1>6
    <3> QED BY <1>6, <3>1 DEF Answer, k, j, Listed
  <2> HIDE DEF x, a
  <2>3. SingleAnswer(r, s, x)
    BY <1>1, <1>3, <1>6, <2>1 DEF SingleAnswer, Listed
  <2> QED BY <2>2, <2>3 DEF a
<1>7. CASE r.op \in Listed /\ ~(r.offset < r.path) /\ (r.op = "listWithTime" => withTime)
  <2>1. r.offset >= r.path
    BY <1>2, <1>7
  <2>2. a = <<Reply(r, 1, "eof")>>
    BY <1>7, <2>1 DEF Answer, Listed
  <2>3. SingleAnswer(r, s, Reply(r, 1, "eof"))
    BY <2>1, PlainAnswer
  <2> HIDE DEF a
  <2> QED BY <2>2, <2>3 DEF a
<1>8. CASE r.op = "listWithTime" /\ ~withTime
  <2>1. a = <<Reply(r, 1, "unknown")>>
    BY <1>8 DEF Answer
  <2>2. SingleAnswer(r, s, Reply(r, 1, "unknown"))
    BY PlainAnswer
  <2> HIDE DEF a
  <2> QED BY <2>1, <2>2 DEF a
<1>9. CASE r.op \notin {"open", "create"} \cup Listed
  <2>1. \/ a = <<Reply(r, 1, "nak")>> \/ (r.op # "burst" /\ a = <<Reply(r, 1, "eof")>>)
        \/ /\ r.op = "burst" /\ vehicle.mode = "read" /\ r.session = vehicle.session
           /\ a = BurstReplies(r)
        \/ /\ r.op # "burst" /\ a = <<Reply(r, 1, "ack")>>
           /\ r.op = "write" => vehicle.mode = "write" /\ r.session = vehicle.session
    BY <1>9 DEF Answer, Listed
  <2> HIDE DEF a
  <2>2. \A kind \in {"nak", "eof"} : SingleAnswer(r, s, Reply(r, 1, kind))
    BY <1>9, PlainAnswer
  <2>3. r.op # "burst" /\ (r.op = "write" => vehicle.mode = "write" /\ r.session = vehicle.session)
        => SingleAnswer(r, s, Reply(r, 1, "ack"))
    BY <1>9, PlainAnswer
  <2> QED BY <2>1, <2>2, <2>3 DEF a
<1> HIDE DEF a
<1> QED BY <1>4, <1>5, <1>6, <1>7, <1>8, <1>9 DEF Listed, a

\* The blocks of a burst are of the file, and their numbers those that follow.
BurstAnswer(r, x) ==
    /\ x \in Replies /\ x.op = r.op /\ x.kind \in {"ack", "eof"}
    /\ x.kind = "ack" => x.offset < vehicle.path /\ \E i \in 1..Burst : x.seq = Seq16(r.seq + i)
    /\ \E i \in 1 .. Burst + 1 : x.seq = Seq16(r.seq + i)

LEMMA BurstRepliesAre ==
  ASSUME vehicle \in VehicleType, NEW r \in Requests
  PROVE  /\ \A x \in Range(BurstReplies(r)) : BurstAnswer(r, x)
         /\ Last(BurstReplies(r)) \in Range(BurstReplies(r))
<1> DEFINE n == IF r.offset >= vehicle.path THEN 0
                ELSE IF vehicle.path - r.offset < Burst THEN vehicle.path - r.offset ELSE Burst
           block(i) == [Reply(r, i, "ack") EXCEPT !.offset = r.offset + i - 1, !.complete = i = Burst]
           blocks == [i \in 1..n |-> block(i)]
           eof == Reply(r, n + 1, "eof")
<1>1. r.offset \in Nat /\ vehicle.path \in Nat /\ Burst \in Nat \ {0}
  <2>1. r.offset \in Nat
    BY DEF Requests
  <2>2. vehicle.path \in Nat
    BY SizesAreNumbers DEF VehicleType
  <2> QED BY <2>1, <2>2, FtpAssumption
<1>2. n \in Nat /\ n <= Burst /\ \A i \in 1..n : r.offset + i - 1 < vehicle.path
  BY <1>1
<1>3. BurstReplies(r) = IF r.offset + n >= vehicle.path THEN Append(blocks, eof) ELSE blocks
  BY DEF BurstReplies
<1>4. BurstAnswer(r, eof)
  <2> DEFINE k == n + 1
  <2>1. k \in Nat /\ k \in 1 .. Burst + 1
    BY <1>1, <1>2
  <2> HIDE DEF k
  <2>2. LET x == Reply(r, k, "eof") IN x \in Replies /\ x.seq = Seq16(r.seq + k) /\ x.op = r.op /\ x.kind = "eof"
    BY <2>1, ReplyFields
  <2>3. BurstAnswer(r, Reply(r, k, "eof"))
    BY <2>1, <2>2 DEF BurstAnswer
  <2> QED BY <2>3 DEF k
<1>5. ASSUME NEW i \in 1..n
      PROVE  BurstAnswer(r, block(i)) /\ block(i) \in Replies
  <2> DEFINE o == r.offset + i - 1
             c == i = Burst
             k == Reply(r, i, "ack")
             x == [k EXCEPT !.offset = o, !.complete = c]
  <2>1. /\ i \in Nat /\ o \in Nat /\ i \in 1 .. Burst + 1 /\ i \in 1..Burst /\ c \in BOOLEAN
        /\ o < vehicle.path
    BY <1>1, <1>2
  <2>2. k \in Replies /\ k.seq = Seq16(r.seq + i) /\ k.op = r.op /\ k.kind = "ack"
    BY <2>1, ReplyFields
  <2>3. block(i) = x
    OBVIOUS
  <2> HIDE DEF o, c, k, block
  <2>4. x \in Replies /\ x.seq = k.seq /\ x.op = k.op /\ x.kind = k.kind /\ x.offset = o
    BY <2>1, <2>2 DEF Replies
  <2> HIDE DEF x
  <2> QED BY <2>1, <2>2, <2>3, <2>4 DEF BurstAnswer
<1>6. r.offset + n < vehicle.path => n # 0
  BY <1>1
<1> HIDE DEF n, block, eof
<1>7. blocks \in Seq(Replies) /\ Len(blocks) = n /\ \A i \in 1..n : blocks[i] = block(i)
  BY <1>2, <1>5
<1>8. \A x \in Range(blocks) : BurstAnswer(r, x)
  <2>1. DOMAIN blocks = 1..n
    BY <1>7
  <2> QED BY <1>5, <1>7, <2>1 DEF Range
<1> HIDE DEF blocks
<1>9. eof \in Replies
  BY <1>4 DEF BurstAnswer
<1>10. CASE r.offset + n >= vehicle.path
  <2>1. BurstReplies(r) = Append(blocks, eof)
    BY <1>3, <1>10
  <2>2. Range(Append(blocks, eof)) = Range(blocks) \cup {eof}
    BY <1>7, <1>9, RangeOfAppend
  <2>3. Last(Append(blocks, eof)) = eof
    BY <1>7, <1>9 DEF Last
  <2> QED BY <1>4, <1>8, <2>1, <2>2, <2>3
<1>11. CASE ~(r.offset + n >= vehicle.path)
  <2>1. n # 0 /\ BurstReplies(r) = blocks
    BY <1>1, <1>2, <1>3, <1>6, <1>11
  <2>2. Len(blocks) \in DOMAIN blocks
    BY <1>2, <1>7, <2>1
  <2>3. Last(blocks) \in Range(blocks)
    BY <1>7, <2>2, InRange DEF Last
  <2> QED BY <1>8, <2>1, <2>3
<1> QED BY <1>10, <1>11

\* m is an answer to the request r.
AnswerTo(r, m) == (\E s : SingleAnswer(r, s, m)) \/ (r.op = "burst" /\ BurstAnswer(r, m))

\* The vehicle does not disturb the manager, and all it adds are answers to the
\* request that came first.
VehicleSays ==
    /\ gcs' = gcs /\ Kept(toVehicle, toVehicle')
    /\ \A m \in Answers' : m \in Answers \/ (toVehicle # <<>> /\ AnswerTo(toVehicle[1], m))

LEMMA VehicleTells ==
  ASSUME IInv, VehicleRests \/ VehicleRefuses \/ VehicleServes
  PROVE  VehicleSays
<1>1. toVehicle \in Seq(Requests) /\ vehicle \in VehicleType
  BY DEF IInv, TypeOK
<1>2. CASE VehicleRests
  BY <1>2 DEF VehicleRests, VehicleSays
<1> DEFINE r == Head(toVehicle)
<1>3. toVehicle # <<>> => r = toVehicle[1] /\ r \in Requests /\ Kept(toVehicle, Tail(toVehicle))
  BY <1>1, KeptTail, QueueFields
<1> HIDE DEF r
<1>4. CASE VehicleRefuses
  <2> DEFINE a == Reply(r, 1, "nak")
  <2>1. gcs' = gcs /\ toVehicle # <<>> /\ toVehicle' = Tail(toVehicle) /\ Answers' \subseteq Answers \cup {a}
    BY <1>4 DEF VehicleRefuses, r
  <2>2. \A s : SingleAnswer(r, s, a)
    BY <1>1, <1>3, <2>1, PlainAnswer
  <2> HIDE DEF a
  <2>3. AnswerTo(r, a)
    BY <2>2 DEF AnswerTo
  <2> QED BY <1>3, <2>1, <2>3 DEF VehicleSays
<1>5. CASE VehicleServes
  <2>1. gcs' = gcs /\ toVehicle # <<>> /\ toVehicle' = Tail(toVehicle)
    BY <1>5 DEF VehicleServes
  <2>2. PICK s \in Sessions \cup {0}, extra \in {0, 1}, withTime \in BOOLEAN :
            Answers' \subseteq Answers \cup Range(Answer(r, s, extra, withTime))
    BY <1>5 DEF VehicleServes, r
  <2>3. \A m \in Range(Answer(r, s, extra, withTime)) : AnswerTo(r, m)
    <3>1. CASE \E x : Answer(r, s, extra, withTime) = <<x>> /\ SingleAnswer(r, s, x)
      BY <3>1, RangeOfOne DEF AnswerTo
    <3>2. CASE r.op = "burst" /\ Answer(r, s, extra, withTime) = BurstReplies(r)
      BY <1>1, <1>3, <2>1, <3>2, BurstRepliesAre DEF AnswerTo
    <3> QED BY <1>1, <1>3, <2>1, <3>1, <3>2, AnswerIs
  <2> QED BY <1>3, <2>1, <2>2, <2>3 DEF VehicleSays
<1> QED BY <1>2, <1>4, <1>5

\* The answer to a request has the number after that of the request.
LEMMA AnswerBehind ==
  ASSUME BurstsFit, NEW e \in Numbers, NEW n \in Numbers, Past(e, n), n # e
  PROVE  /\ Seq16(n + 1) \in Numbers /\ Past(e, Seq16(n + 1))
         /\ Behind(e, Seq16(n + 1)) = Behind(e, n) - 1
         /\ Seq16(n + 1) = e <=> n = Seq16(e - 1)
<1> DEFINE one == 1
           b == Behind(e, n)
<1>1. one \in Nat /\ one < Half
  BY Halves, FtpAssumption DEF BurstsFit
<1>2. b \in Nat /\ b # 0 /\ b <= Half
  BY BehindRange, BehindZero DEF Past
<1>3. Seq16(n + one) \in Numbers
  <2>1. n + one \in Int
    BY DEF Numbers
  <2> QED BY <2>1, Seq16Type
<1>4. Behind(e, Seq16(n + one)) = b - one
  <2>1. b >= one
    BY <1>2
  <2> HIDE DEF one, b
  <2> QED BY <1>1, <2>1, NumberMoves DEF b
<1>5. b - 1 <= Half /\ (b - 1 = 0 <=> b = 1)
  BY <1>2, Halves
<1> HIDE DEF b
<1>6. Seq16(n + 1) = e <=> b = 1
  BY <1>3, <1>4, <1>5, BehindZero
<1>7. b = 1 <=> n = Seq16(e - 1)
  BY BehindOne DEF b
<1> QED BY <1>3, <1>4, <1>5, <1>6, <1>7 DEF Past, b

LEMMA SayTraffic ==
  ASSUME BurstsFit, IInv, Traffic, VehicleSays
  PROVE  Traffic'
<1>1. toVehicle \in Seq(Requests) /\ gcs.expected \in Numbers /\ gcs \in GcsType
  BY OwnFields DEF IInv, TypeOK
<1>2. gcs' = gcs /\ Kept(toVehicle, toVehicle') /\ Range(toVehicle') \subseteq Range(toVehicle)
  BY KeptRange DEF VehicleSays
<1>3. \A m \in Answers' : m.op # "burst" => Past(gcs.expected, m.seq)
  <2> SUFFICES ASSUME NEW m \in Answers', m.op # "burst", m \notin Answers
               PROVE  Past(gcs.expected, m.seq)
    BY DEF Traffic, Numbered
  <2> DEFINE r == toVehicle[1]
  <2>1. toVehicle # <<>> /\ AnswerTo(r, m)
    BY DEF VehicleSays
  <2>2. r \in Range(toVehicle) /\ r.seq \in Numbers
    BY <1>1, <2>1, KeptTail, QueueFields
  <2> HIDE DEF r
  <2>3. m.seq = Seq16(r.seq + 1)
    BY <2>1 DEF AnswerTo, SingleAnswer, BurstAnswer
  <2> QED BY <1>1, <2>2, <2>3, AnswerBehind DEF Traffic, Numbered
<1>4. Numbered'
  BY <1>2, <1>3 DEF Traffic, Numbered
<1>5. InOrder'
  <2> SUFFICES ASSUME NEW i \in DOMAIN toVehicle', NEW j \in DOMAIN toVehicle', i < j
               PROVE  Behind(gcs.expected, toVehicle'[j].seq) <= Behind(gcs.expected, toVehicle'[i].seq)
    BY <1>2 DEF InOrder
  <2>1. PICK a \in DOMAIN toVehicle, b \in DOMAIN toVehicle :
            a <= b /\ toVehicle'[i] = toVehicle[a] /\ toVehicle'[j] = toVehicle[b]
    BY <1>2 DEF Kept
  <2>2. Behind(gcs.expected, toVehicle[a].seq) \in Nat
    BY <1>1, QueueFields, BehindRange
  <2>3. a = b \/ a < b
    <3>1. a \in Nat /\ b \in Nat
      BY <1>1
    <3> QED BY <2>1, <3>1
  <2> QED BY <2>1, <2>2, <2>3 DEF Traffic, InOrder
<1>6. AskedNow'
  BY <1>2 DEF Traffic, AskedNow
<1> QED BY <1>2, <1>4, <1>5, <1>6 DEF Traffic

LEMMA ManagedTraffic ==
  ASSUME BurstsFit, IInv, Timely, Timely', gcs.unsent \/ Traffic, Managed
  PROVE  (gcs.unsent \/ Traffic)'
<1>1. PICK h \in GcsType :
        /\ Becomes(h) /\ vehicle' = vehicle /\ Range(toGcs') \subseteq Range(toGcs)
        /\ gcs.unsent => h.unsent
        /\ ~gcs.unsent =>
              \/ Begun(gcs, h)
              \/ \E m \in Range(toGcs) \cup {Silence} : Does(gcs, h, m) /\ CallGood(h)
  BY DEF Managed
<1>2. SentFrom(h, gcs')
  BY <1>1, BecomesSent
<1>3. CASE h.unsent
  BY <1>2, <1>3 DEF SentFrom
<1>4. CASE ~h.unsent
  <2>1. Traffic /\ ~gcs.unsent
    BY <1>1, <1>4
  <2>2. Turn(gcs, h) /\ CallGood(h) /\ UploadGood(h)
    BY <1>1, <2>1 DEF Begun, Does, Traffic
  <2>3. gcs \in GcsType /\ toVehicle \in Seq(Requests) /\ toGcs \in Seq(Replies) /\ vehicle.last \in Replies
    BY DEF IInv, TypeOK, VehicleType
  <2>4. Numbered' /\ InOrder' /\ AskedNow'
    BY <1>1, <1>4, <2>1, <2>2, <2>3, TurnTraffic DEF Traffic
  <2>5. CallGood(gcs') /\ UploadGood(gcs')
    BY <1>2, <2>2, SentSame
  <2> QED BY <2>4, <2>5 DEF Traffic
<1> QED BY <1>3, <1>4

LEMMA TrafficStep ==
  ASSUME BurstsFit, IInv, Timely, Timely', gcs.unsent \/ Traffic, [Next]_vars
  PROVE  (gcs.unsent \/ Traffic)'
<1>1. CASE Managed
  BY <1>1, ManagedTraffic
<1>2. CASE VehicleRests \/ VehicleRefuses \/ VehicleServes
  <2>1. VehicleSays
    BY <1>2, VehicleTells
  <2>2. Traffic => Traffic'
    BY <2>1, SayTraffic
  <2>3. gcs' = gcs
    BY <2>1 DEF VehicleSays
  <2> QED BY <2>2, <2>3
<1> QED BY <1>1, <1>2, StepCases

LEMMA InitTraffic == Init => Traffic
<1> SUFFICES ASSUME Init PROVE Traffic
  OBVIOUS
<1>1. /\ gcs.stage = "idle" /\ gcs.machine = "none" /\ toVehicle = <<>> /\ toGcs = <<>>
      /\ vehicle.last.seq = gcs.expected
  BY DEF Init, NoReply
<1>2. gcs.expected \in Numbers
  BY InitIInv, OwnFields DEF IInv, TypeOK
<1>3. Range(toVehicle) = {} /\ DOMAIN toVehicle = {}
  BY <1>1 DEF Range
<1>4. Past(gcs.expected, gcs.expected)
  BY <1>2, BehindZero, Halves DEF Past
<1>5. Answers = {vehicle.last}
  BY <1>1 DEF Answers, Range
<1>6. Numbered
  BY <1>1, <1>3, <1>4, <1>5 DEF Numbered
<1>7. InOrder /\ AskedNow
  BY <1>3 DEF InOrder, AskedNow
<1>8. CallGood(gcs) /\ UploadGood(gcs)
  BY <1>1 DEF CallGood, UploadGood
<1> QED BY <1>6, <1>7, <1>8 DEF Traffic

LEMMA TrafficHolds ==
  ASSUME BurstsFit
  PROVE  Spec /\ []Timely => [](gcs.unsent \/ Traffic)
<1> DEFINE T == gcs.unsent \/ Traffic
<1>1. Init => T
  BY InitTraffic
<1>2. IInv /\ Timely /\ Timely' /\ T /\ [Next]_vars => T'
  BY TrafficStep
<1>3. Spec => []IInv
  BY InvariantHolds
<1> HIDE DEF T
<1>4. Spec /\ []Timely => []T
  BY <1>1, <1>2, <1>3, PTL DEF Spec
<1> QED BY <1>4 DEF T

-----------------------------------------------------------------------------
(* What the answers tell, and listings *)

OpenTold(g, m) ==
    g.stage = "open" /\ Fits(g, m, "open") /\ m.kind = "ack" => m.size >= g.dl.path

\* Every answer that the manager may take tells what is so.
Told == \A m \in Answers : ListTold(gcs, m) /\ OpenTold(gcs, m)

\* When the number moves on no answer is there for the new one, but a block.
LEMMA TurnLeaves ==
  ASSUME BurstsFit, gcs \in GcsType, toGcs \in Seq(Replies), vehicle.last \in Replies, Numbered,
         NEW h \in GcsType, Turn(gcs, h), ~h.unsent, Becomes(h), vehicle' = vehicle,
         Range(toGcs') \subseteq Range(toGcs), Timely'
  PROVE  /\ Answers' \subseteq Answers
         /\ \/ h.stage = "idle" \/ (SameQuestion(gcs, h) /\ h.expected = gcs.expected)
            \/ \A m \in Answers' : m.op # "burst" => m.seq # h.expected
<1>1. PICK d \in Nat : d <= Burst + 3 /\ h.expected = Seq16(gcs.expected + d)
                       /\ (d = 0 => h.stage = "idle" \/ SameQuestion(gcs, h))
  BY DEF Turn
<1>2. gcs.expected \in Numbers /\ h.expected \in Numbers
  BY OwnFields
<1>3. Answers' \subseteq Answers
  BY DEF Answers
<1>4. CASE d = 0
  BY <1>1, <1>2, <1>3, <1>4, NumbersAdd
<1>5. CASE d # 0
  <2> SUFFICES ASSUME NEW m \in Answers', m.op # "burst"
               PROVE  m.seq # h.expected
    BY <1>3
  <2>1. m \in Answers /\ m.seq \in Numbers
    BY <1>3, InRange, ReplyTypes DEF Answers
  <2>2. Near(h.expected, m.seq)
    <3>1. gcs'.expected = h.expected
      BY BecomesSent DEF SentFrom
    <3> QED BY <3>1 DEF Timely
  <2>3. Past(gcs.expected, m.seq)
    BY <2>1 DEF Numbered
  <2>4. Behind(h.expected, m.seq) = Behind(gcs.expected, m.seq) + d
    BY <1>1, <1>2, <2>1, <2>2, <2>3, StaysPast
  <2>5. Behind(gcs.expected, m.seq) \in Nat
    BY <1>2, <2>1, BehindRange
  <2>6. Behind(h.expected, m.seq) # 0
    BY <1>5, <2>4, <2>5
  <2> QED BY <1>2, <2>1, <2>6, BehindZero
<1> QED BY <1>4, <1>5

LEMMA ToldAgain ==
  ASSUME NEW g, NEW h, NEW m,
         h.stage = "idle" \/ (SameQuestion(g, h) /\ h.expected = g.expected)
             \/ (m.op # "burst" => m.seq # h.expected),
         ListTold(g, m), OpenTold(g, m)
  PROVE  ListTold(h, m) /\ OpenTold(h, m)
<1>1. CASE h.stage = "idle"
  BY <1>1 DEF ListTold, OpenTold
<1>2. CASE SameQuestion(g, h) /\ h.expected = g.expected
  BY <1>2 DEF SameQuestion, ListTold, OpenTold, Fits, ListOpcode
<1>3. CASE m.op # "burst" => m.seq # h.expected
  BY <1>3 DEF ListTold, OpenTold, Fits, ListOpcode
<1> QED BY <1>1, <1>2, <1>3

LEMMA AnswerTells ==
  ASSUME BurstsFit, gcs.expected \in Numbers, NEW r \in Requests, Past(gcs.expected, r.seq),
         r.seq # gcs.expected, r.seq = Seq16(gcs.expected - 1) => Asked(gcs, r),
         NEW m, AnswerTo(r, m)
  PROVE  ListTold(gcs, m) /\ OpenTold(gcs, m)
<1>1. CASE r.op = "burst" /\ BurstAnswer(r, m)
  BY <1>1 DEF BurstAnswer, ListTold, OpenTold, Fits, ListOpcode
<1>2. CASE \E s : SingleAnswer(r, s, m)
  <2>1. PICK s : SingleAnswer(r, s, m)
    BY <1>2
  <2>2. r.seq \in Numbers
    BY DEF Requests
  <2>3. m.seq = gcs.expected => Asked(gcs, r)
    BY <2>1, <2>2, AnswerBehind DEF SingleAnswer
  <2>4. ListTold(gcs, m)
    <3> SUFFICES ASSUME gcs.stage = "list", Fits(gcs, m, ListOpcode(gcs))
                 PROVE  /\ m.kind = "ack" => /\ gcs.ls.offset < gcs.ls.path /\ m.offset = gcs.ls.offset
                                             /\ m.size \in 1 .. gcs.ls.path - gcs.ls.offset
                        /\ m.kind = "eof" => gcs.ls.offset >= gcs.ls.path
      BY DEF ListTold
    <3>1. r.path = gcs.ls.path /\ r.offset = gcs.ls.offset /\ r.op \in Listed
      BY <2>1, <2>3 DEF Fits, Asked, OpcodeOf, ListOpcode, Listed
    <3> QED BY <2>1, <3>1 DEF SingleAnswer
  <2>5. OpenTold(gcs, m)
    <3> SUFFICES ASSUME gcs.stage = "open", Fits(gcs, m, "open"), m.kind = "ack"
                 PROVE  m.size >= gcs.dl.path
      BY DEF OpenTold
    <3>1. r.path = gcs.dl.path /\ r.op = "open"
      BY <2>1, <2>3 DEF Fits, Asked, SingleAnswer
    <3> QED BY <2>1, <3>1 DEF SingleAnswer
  <2> QED BY <2>4, <2>5
<1> QED BY <1>1, <1>2 DEF AnswerTo

LEMMA SayTold ==
  ASSUME BurstsFit, IInv, Traffic, Told, VehicleSays
  PROVE  Told'
<1>1. toVehicle \in Seq(Requests) /\ gcs.expected \in Numbers
  BY OwnFields DEF IInv, TypeOK
<1>2. gcs' = gcs
  BY DEF VehicleSays
<1> SUFFICES ASSUME NEW m \in Answers', m \notin Answers
             PROVE  ListTold(gcs, m) /\ OpenTold(gcs, m)
  BY <1>2 DEF Told
<1> DEFINE r == toVehicle[1]
<1>3. toVehicle # <<>> /\ AnswerTo(r, m)
  BY DEF VehicleSays
<1>4. r \in Range(toVehicle) /\ r \in Requests
  BY <1>1, <1>3, KeptTail, QueueFields
<1> HIDE DEF r
<1>5. Past(gcs.expected, r.seq) /\ r.seq # gcs.expected
      /\ (r.seq = Seq16(gcs.expected - 1) => Asked(gcs, r))
  BY <1>4 DEF Traffic, Numbered, AskedNow
<1> QED BY <1>1, <1>3, <1>4, <1>5, AnswerTells

Listing == Told /\ ListGood(gcs)

LEMMA ListingStep ==
  ASSUME BurstsFit, IInv, Timely, Timely', gcs.unsent \/ Traffic, gcs.unsent \/ Listing, [Next]_vars
  PROVE  (gcs.unsent \/ Listing)'
<1>1. CASE Managed
  <2>1. PICK h \in GcsType :
          /\ Becomes(h) /\ vehicle' = vehicle /\ Range(toGcs') \subseteq Range(toGcs)
          /\ gcs.unsent => h.unsent
          /\ ~gcs.unsent =>
                \/ Begun(gcs, h)
                \/ \E m \in Range(toGcs) \cup {Silence} : Does(gcs, h, m) /\ CallGood(h)
    BY <1>1 DEF Managed
  <2>2. SentFrom(h, gcs')
    BY <2>1, BecomesSent
  <2>3. CASE h.unsent
    BY <2>2, <2>3 DEF SentFrom
  <2>4. CASE ~h.unsent
    <3>1. Traffic /\ Listing /\ ~gcs.unsent
      BY <2>1, <2>4
    <3>2. \A m \in Range(toGcs) \cup {Silence} : ListTold(gcs, m)
      BY <3>1, SilenceTells DEF Listing, Told, Answers
    <3>3. Turn(gcs, h) /\ ListGood(h)
      BY <2>1, <3>1, <3>2 DEF Begun, Does, Listing
    <3>4. gcs \in GcsType /\ toGcs \in Seq(Replies) /\ vehicle.last \in Replies
      BY DEF IInv, TypeOK, VehicleType
    <3>5. /\ Answers' \subseteq Answers
          /\ \/ h.stage = "idle" \/ (SameQuestion(gcs, h) /\ h.expected = gcs.expected)
             \/ \A m \in Answers' : m.op # "burst" => m.seq # h.expected
      BY <2>1, <2>4, <3>1, <3>3, <3>4, TurnLeaves DEF Traffic
    <3>6. \A m \in Answers' : ListTold(h, m) /\ OpenTold(h, m)
      BY <3>1, <3>5, ToldAgain DEF Listing, Told
    <3>7. \A m : (ListTold(h, m) <=> ListTold(gcs', m)) /\ (OpenTold(h, m) <=> OpenTold(gcs', m))
      BY <2>2 DEF SentFrom, SameFiles, ListTold, OpenTold, Fits, ListOpcode
    <3>8. ListGood(gcs')
      BY <2>2, <3>3, SentSame
    <3> QED BY <3>6, <3>7, <3>8 DEF Listing, Told
  <2> QED BY <2>3, <2>4
<1>2. CASE VehicleRests \/ VehicleRefuses \/ VehicleServes
  <2>1. VehicleSays /\ gcs' = gcs
    BY <1>2, VehicleTells DEF VehicleSays
  <2>2. Traffic /\ Told => Told'
    BY <2>1, SayTold
  <2> QED BY <2>1, <2>2 DEF Listing
<1> QED BY <1>1, <1>2, StepCases

LEMMA ListingHolds ==
  ASSUME BurstsFit
  PROVE  Spec /\ []Timely => [](gcs.unsent \/ Listing)
<1> DEFINE T == gcs.unsent \/ Traffic
           L == gcs.unsent \/ Listing
<1>1. Init => L
  <2> SUFFICES ASSUME Init PROVE Listing
    OBVIOUS
  <2>1. gcs.stage = "idle" /\ gcs.call.kind = "none"
    BY DEF Init, NoCall
  <2> QED BY <2>1 DEF Listing, Told, ListTold, OpenTold, ListGood
<1>2. IInv /\ Timely /\ Timely' /\ T /\ L /\ [Next]_vars => L'
  BY ListingStep
<1>3. Spec => []IInv
  BY InvariantHolds
<1>4. Spec /\ []Timely => []T
  BY TrafficHolds
<1> HIDE DEF T, L
<1>5. Spec /\ []Timely => []L
  BY <1>1, <1>2, <1>3, <1>4, PTL DEF Spec
<1> QED BY <1>5 DEF L

\* A listing that ends without an error has each entry of the directory once and in
\* order, whatever is lost, repeated or overtaken, also when it begins anew without
\* the times (_listDirectoryAckOrNak): an answer that the manager takes is the one to
\* its last request, because every older answer has an older number.
THEOREM ListingIsExact ==
  ASSUME BurstsFit
  PROVE  Spec /\ []Timely => []ListIsExact
<1> DEFINE L == gcs.unsent \/ Listing
<1>1. L => ListIsExact
  BY DEF Listing, ListGood, ListIsExact, EndedWell, UpTo
<1>2. Spec /\ []Timely => []L
  BY ListingHolds
<1> HIDE DEF L
<1> QED BY <1>1, <1>2, PTL

-----------------------------------------------------------------------------
(* What a step does to an upload, and to the vehicle *)

\* No answer is there for a new number, but a block of a burst.
NoneYet == \A m \in Answers' : m.op # "burst" => m.seq # gcs'.expected

\* The request of a turn asks what the manager wants now.
AsksNow ==
    \A r \in Range(toVehicle') :
        r \in Range(toVehicle)
        \/ (r.seq = Seq16(gcs'.expected - 1) /\ Asked(gcs', r) /\ gcs'.stage # "idle")

\* A step of the manager in which every request finds a link.
ManagerTurns ==
    /\ gcs' \in GcsType /\ vehicle' = vehicle /\ Answers' \subseteq Answers /\ AsksNow
    /\ CallGood(gcs') /\ UploadGood(gcs')
    /\ gcs'.stage = "idle" \/ (SameQuestion(gcs, gcs') /\ gcs'.expected = gcs.expected) \/ NoneYet

LEMMA TurnManages ==
  ASSUME BurstsFit, IInv, Timely', Traffic, NEW h \in GcsType, Becomes(h), vehicle' = vehicle,
         Range(toGcs') \subseteq Range(toGcs), Turn(gcs, h), ~h.unsent, CallGood(h), UploadGood(h)
  PROVE  ManagerTurns
<1>1. gcs \in GcsType /\ toVehicle \in Seq(Requests) /\ toGcs \in Seq(Replies)
      /\ vehicle.last \in Replies
  BY DEF IInv, TypeOK, VehicleType
<1>2. SentFrom(h, gcs') /\ toVehicle' = toVehicle \o h.out
  BY BecomesSent
<1>3. gcs' \in GcsType /\ CallGood(gcs') /\ UploadGood(gcs')
  BY <1>2, SentSame DEF SentFrom
<1>4. /\ Answers' \subseteq Answers
      /\ \/ h.stage = "idle" \/ (SameQuestion(gcs, h) /\ h.expected = gcs.expected)
         \/ \A m \in Answers' : m.op # "burst" => m.seq # h.expected
  BY <1>1, TurnLeaves DEF Traffic
<1>5. gcs'.stage = "idle" \/ (SameQuestion(gcs, gcs') /\ gcs'.expected = gcs.expected) \/ NoneYet
  BY <1>2, <1>4 DEF SentFrom, SameFiles, SameQuestion, NoneYet
<1>6. AsksNow
  <2>1. \/ h.out = <<>>
        \/ h.stage # "idle" /\ \E r \in Requests :
              h.out = <<r>> /\ r.seq = Seq16(h.expected - 1) /\ Asked(h, r)
    BY DEF Turn
  <2>2. Range(toVehicle') = Range(toVehicle) \cup Range(h.out)
    <3>1. h.out \in Seq(Requests)
      BY DEF GcsType
    <3> QED BY <1>1, <1>2, <3>1, RangeOfMore
  <2>3. \A r \in Range(h.out) : r.seq = Seq16(h.expected - 1) /\ Asked(h, r) /\ h.stage # "idle"
    <3>1. CASE h.out = <<>>
      BY <3>1 DEF Range
    <3>2. CASE h.out # <<>>
      <4>1. PICK r \in Requests : h.out = <<r>> /\ r.seq = Seq16(h.expected - 1) /\ Asked(h, r)
        BY <2>1, <3>2
      <4>2. Range(h.out) = {r} /\ h.stage # "idle"
        BY <2>1, <3>2, <4>1, RangeOfOne
      <4> QED BY <4>1, <4>2
    <3> QED BY <3>1, <3>2
  <2>4. \A r \in Range(h.out) : r.seq = Seq16(gcs'.expected - 1) /\ Asked(gcs', r) /\ gcs'.stage # "idle"
    <3>1. gcs'.expected = h.expected /\ gcs'.stage = h.stage
      BY <1>2 DEF SentFrom
    <3> QED BY <1>2, <2>3, <3>1, SentSame
  <2> QED BY <2>2, <2>4 DEF AsksNow
<1> QED BY <1>3, <1>4, <1>5, <1>6 DEF ManagerTurns

UploadStays ==
    /\ SameQuestion(gcs, gcs') /\ gcs'.signals = gcs.signals /\ gcs'.expected = gcs.expected
    /\ gcs'.call = gcs.call

UploadAcknowledged == \E m \in Range(toGcs) : Acknowledged(gcs, gcs', m)

UploadDone ==
    /\ gcs.machine = "upload" /\ gcs.stage = "reset" /\ gcs'.call = gcs.call
    /\ gcs'.stage = "idle" /\ gcs'.machine = "none"
    /\ \E m \in Range(toGcs) : m.kind = "ack" /\ Fits(gcs, m, "reset")

UploadBegun ==
    gcs'.machine = "upload" /\ gcs'.stage = "create" /\ gcs'.expected = Seq16(gcs.expected + 2)

\* The machine is that of something else, or of nothing.
UploadAside ==
    /\ gcs'.machine # "upload"
    /\ gcs'.signals = <<<<"upload", "ok">>>> => gcs.signals = gcs'.signals /\ gcs.call = gcs'.call

UploadTurns ==
    UploadStays \/ UploadAcknowledged \/ UploadDone \/ UploadBegun \/ UploadAside

LEMMA AnswerUploads ==
  ASSUME IInv, UploadGood(gcs), NEW h \in GcsType, Becomes(h), ~h.unsent,
         NEW m \in Range(toGcs) \cup {Silence}, Does(gcs, h, m)
  PROVE  UploadTurns
<1>1. SentFrom(h, gcs') /\ gcs \in GcsType
  BY BecomesSent DEF IInv, TypeOK
<1>2. PICK kind \in Operations : Acts(gcs, h, kind)
  BY DEF Does
<1>3. h.call = gcs.call
  BY <1>2 DEF Acts
<1>4. CASE gcs.machine # "upload"
  <2>1. h.machine # "upload"
    BY <1>2, <1>4 DEF Acts, Ended
  <2>2. h.signals = <<<<"upload", "ok">>>> => gcs.signals = h.signals
    BY <1>4 DEF Does, Moves
  <2> QED BY <1>1, <1>3, <2>1, <2>2 DEF UploadTurns, UploadAside, SentFrom
<1>5. CASE gcs.machine = "upload"
  <2>1. UploadMove(gcs, h, m)
    BY <1>5 DEF Does, Moves
  <2>2. CASE SameQuestion(gcs, h) /\ h.signals = gcs.signals /\ (h.unsent \/ h.expected = gcs.expected)
    <3>1. UploadStays
      BY <1>1, <1>3, <2>2 DEF UploadStays, SameQuestion, SentFrom, SameFiles
    <3> QED BY <3>1 DEF UploadTurns
  <2>3. CASE Acknowledged(gcs, h, m)
    <3>1. m \in Range(toGcs)
      <4>1. m.kind = "ack" /\ Silence.kind = "nak"
        BY <2>3 DEF Acknowledged, Silence, NoReply
      <4> QED BY <4>1
    <3>2. Acknowledged(gcs, gcs', m)
      BY <1>1, <2>3 DEF Acknowledged, SentFrom, SameFiles
    <3> QED BY <3>1, <3>2 DEF UploadTurns, UploadAcknowledged
  <2>4. CASE \E k \in {"upload", "download"}, o \in Outcomes :
                /\ Ended(gcs, h, k, o)
                /\ k = "upload" /\ o = "ok" => gcs.stage = "reset" /\ m.kind = "ack" /\ Fits(gcs, m, "reset")
    <3>1. PICK k \in {"upload", "download"}, o \in Outcomes :
                /\ Ended(gcs, h, k, o)
                /\ k = "upload" /\ o = "ok" => gcs.stage = "reset" /\ m.kind = "ack" /\ Fits(gcs, m, "reset")
      BY <2>4
    <3>2. h.machine = "none" /\ h.stage = "idle"
      BY <3>1 DEF Ended
    <3>3. CASE h.signals = <<<<"upload", "ok">>>>
      <4>1. k = "upload" /\ o = "ok"
        BY <1>1, <3>1, <3>3, LastSignal
      <4>2. gcs.stage = "reset" /\ m.kind = "ack" /\ Fits(gcs, m, "reset")
        BY <3>1, <4>1
      <4>3. m \in Range(toGcs)
        <5>1. Silence.kind = "nak"
          BY DEF Silence, NoReply
        <5> QED BY <4>2, <5>1
      <4> QED BY <1>1, <1>3, <1>5, <3>2, <4>2, <4>3 DEF UploadTurns, UploadDone, SentFrom
    <3>4. CASE h.signals # <<<<"upload", "ok">>>>
      BY <1>1, <3>2, <3>4 DEF UploadTurns, UploadAside, SentFrom
    <3> QED BY <3>3, <3>4
  <2> QED BY <2>1, <2>2, <2>3, <2>4 DEF UploadMove
<1> QED BY <1>4, <1>5

LEMMA ManagedUploads ==
  ASSUME BurstsFit, IInv, Timely', gcs.unsent \/ Traffic, Managed
  PROVE  gcs'.unsent \/ (Traffic /\ ~gcs.unsent /\ ManagerTurns /\ UploadTurns)
<1>1. PICK h \in GcsType :
          /\ Becomes(h) /\ vehicle' = vehicle /\ Range(toGcs') \subseteq Range(toGcs)
          /\ gcs.unsent => h.unsent
          /\ ~gcs.unsent =>
                \/ Begun(gcs, h)
                \/ \E m \in Range(toGcs) \cup {Silence} : Does(gcs, h, m) /\ CallGood(h)
  BY DEF Managed
<1>2. SentFrom(h, gcs')
  BY <1>1, BecomesSent
<1>3. CASE h.unsent
  BY <1>2, <1>3 DEF SentFrom
<1>4. CASE ~h.unsent
  <2>1. Traffic /\ ~gcs.unsent
    BY <1>1, <1>4
  <2>2. Turn(gcs, h) /\ CallGood(h) /\ UploadGood(h)
    BY <1>1, <2>1 DEF Begun, Does, Traffic
  <2>3. ManagerTurns
    BY <1>1, <1>4, <2>1, <2>2, TurnManages
  <2>4. CASE Begun(gcs, h)
    <3>1. /\ gcs'.machine = h.machine /\ gcs'.stage = h.stage /\ gcs'.expected = h.expected
          /\ gcs'.call = h.call /\ gcs'.signals = h.signals
      BY <1>2 DEF SentFrom
    <3>2. CASE h.machine = "upload"
      <4>1. h.stage = "create" /\ h.expected = Seq16(gcs.expected + 2)
        BY <1>4, <2>4, <3>2 DEF Begun
      <4> QED BY <2>1, <2>3, <3>1, <3>2, <4>1 DEF UploadTurns, UploadBegun
    <3>3. CASE h.machine # "upload"
      <4>1. h.signals = <<<<"upload", "ok">>>> => gcs.signals = h.signals /\ gcs.call = h.call
        BY <2>4 DEF Begun
      <4>2. UploadAside
        BY <3>1, <3>3, <4>1 DEF UploadAside
      <4> QED BY <2>1, <2>3, <4>2 DEF UploadTurns
    <3> QED BY <3>2, <3>3
  <2>5. CASE ~Begun(gcs, h)
    <3>1. PICK m \in Range(toGcs) \cup {Silence} : Does(gcs, h, m)
      BY <1>1, <2>1, <2>5
    <3>2. UploadTurns
      BY <1>1, <1>4, <2>1, <3>1, AnswerUploads DEF Traffic
    <3> QED BY <2>1, <2>3, <3>2
  <2> QED BY <2>4, <2>5
<1> QED BY <1>3, <1>4

\* When the first request is the one made last, so are the others.
LEMMA FirstIsLast ==
  ASSUME toVehicle \in Seq(Requests), toVehicle # <<>>, gcs.expected \in Numbers, Numbered, InOrder,
         toVehicle[1].seq = Seq16(gcs.expected - 1)
  PROVE  \A r \in Range(toVehicle) : r.seq = Seq16(gcs.expected - 1)
<1> SUFFICES ASSUME NEW r \in Range(toVehicle)
             PROVE  r.seq = Seq16(gcs.expected - 1)
  OBVIOUS
<1> DEFINE e == gcs.expected
<1>1. PICK j \in DOMAIN toVehicle : r = toVehicle[j]
  BY DEF Range
<1>2. 1 \in DOMAIN toVehicle /\ j \in Nat /\ j >= 1
  BY KeptTail
<1>3. r.seq \in Numbers /\ r.seq # e /\ toVehicle[1].seq \in Numbers
  BY <1>1, <1>2, QueueFields DEF Numbered
<1>4. Behind(e, toVehicle[1].seq) = 1
  BY <1>3, BehindOne
<1>5. Behind(e, r.seq) \in Nat /\ Behind(e, r.seq) # 0
  BY <1>3, BehindRange, BehindZero
<1>6. j = 1 \/ Behind(e, r.seq) <= Behind(e, toVehicle[1].seq)
  <2>1. j = 1 \/ 1 < j
    BY <1>2
  <2> QED BY <1>1, <1>2, <2>1 DEF InOrder
<1>7. Behind(e, r.seq) = 1
  BY <1>1, <1>4, <1>5, <1>6
<1> QED BY <1>3, <1>7, BehindOne

\* The vehicle serves the request r, and opens session s if one is opened.
Handles(r, s) ==
    /\ gcs' = gcs /\ toVehicle # <<>> /\ r = toVehicle[1] /\ r \in Requests /\ r.seq \in Numbers
    /\ r \in Range(toVehicle) /\ Range(toVehicle') \subseteq Range(toVehicle)
    /\ r.seq # Seq16(vehicle.last.seq - 1)
    /\ \A m \in Answers' : m \in Answers \/ SingleAnswer(r, s, m) \/ (r.op = "burst" /\ BurstAnswer(r, m))
    /\ SingleAnswer(r, s, vehicle'.last) \/ (r.op = "burst" /\ BurstAnswer(r, vehicle'.last))
    /\ r.op # "open" => vehicle'.path = vehicle.path
    /\ r.op # "create" /\ r.op # "write" => vehicle'.blocks = vehicle.blocks
    /\ r.op = "open" => vehicle'.mode = "read" /\ vehicle'.session = s /\ vehicle'.path = r.path
    /\ r.op = "create" => vehicle'.mode = "write" /\ vehicle'.session = s /\ vehicle'.blocks = {}
    /\ r.op = "write" => vehicle'.mode = vehicle.mode /\ vehicle'.session = vehicle.session
    /\ r.op = "write" /\ vehicle.mode = "write" /\ r.session = vehicle.session =>
           vehicle'.blocks = vehicle.blocks \cup {r.offset}
    /\ r.op = "reset" => vehicle'.mode = "none"
    /\ r.op = "terminate" => vehicle'.mode \in {vehicle.mode, "none"}

LEMMA AfterFields ==
  ASSUME vehicle \in VehicleType, NEW r \in Requests, NEW s \in Sessions \cup {0}
  PROVE  LET v == After(r, s) IN
         /\ v \in VehicleType
         /\ r.op # "open" => v.path = vehicle.path
         /\ r.op # "create" /\ r.op # "write" => v.blocks = vehicle.blocks
         /\ r.op = "open" => v.mode = "read" /\ v.session = s /\ v.path = r.path
         /\ r.op = "create" => v.mode = "write" /\ v.session = s /\ v.blocks = {}
         /\ r.op = "write" => v.mode = vehicle.mode /\ v.session = vehicle.session
         /\ r.op = "write" /\ vehicle.mode = "write" /\ r.session = vehicle.session =>
                v.blocks = vehicle.blocks \cup {r.offset}
         /\ r.op = "reset" => v.mode = "none"
         /\ r.op = "terminate" => v.mode \in {vehicle.mode, "none"}
<1> DEFINE v == After(r, s)
           none == {}
           more == vehicle.blocks \cup {r.offset}
           a == [vehicle EXCEPT !.mode = "read", !.session = s, !.path = r.path]
           b == [vehicle EXCEPT !.mode = "write", !.session = s, !.blocks = none]
           c == [vehicle EXCEPT !.blocks = more]
           d == [vehicle EXCEPT !.mode = "none"]
           f == [vehicle EXCEPT !.present = FALSE]
<1>1. v \in VehicleType
  BY AfterType
<1>2. CASE r.op = "open"
  <2>1. v = a
    BY <1>2 DEF After
  <2>2. a.mode = "read" /\ a.session = s /\ a.path = r.path /\ a.blocks = vehicle.blocks
    BY DEF VehicleType
  <2> HIDE DEF v, a
  <2> QED BY <1>1, <1>2, <2>1, <2>2 DEF v
<1>3. CASE r.op = "create"
  <2>1. v = b
    BY <1>3 DEF After
  <2>2. b.mode = "write" /\ b.session = s /\ b.blocks = none /\ b.path = vehicle.path
    <3> HIDE DEF none
    <3> QED BY DEF VehicleType
  <2> HIDE DEF v, b
  <2> QED BY <1>1, <1>3, <2>1, <2>2 DEF v
<1>4. CASE r.op = "write"
  <2>1. v = IF vehicle.mode = "write" /\ r.session = vehicle.session THEN c ELSE vehicle
    BY <1>4 DEF After
  <2>2. c.blocks = more /\ c.mode = vehicle.mode /\ c.session = vehicle.session /\ c.path = vehicle.path
    <3> HIDE DEF more
    <3> QED BY DEF VehicleType
  <2> HIDE DEF v, c
  <2> QED BY <1>1, <1>4, <2>1, <2>2 DEF v
<1>5. CASE r.op \in {"reset", "terminate"}
  <2>1. v = d \/ (r.op = "terminate" /\ v = vehicle)
    BY <1>5 DEF After
  <2>2. d.mode = "none" /\ d.blocks = vehicle.blocks /\ d.path = vehicle.path
    BY DEF VehicleType
  <2> HIDE DEF v, d
  <2> QED BY <1>1, <1>5, <2>1, <2>2 DEF v
<1>6. CASE r.op \notin {"open", "create", "write", "reset", "terminate"}
  <2>1. v = f \/ v = vehicle
    BY <1>6 DEF After
  <2>2. f.blocks = vehicle.blocks /\ f.path = vehicle.path
    BY DEF VehicleType
  <2> HIDE DEF v, f
  <2> QED BY <1>1, <1>6, <2>1, <2>2 DEF v
<1> QED BY <1>2, <1>3, <1>4, <1>5, <1>6

LEMMA ServesHandle ==
  ASSUME IInv, VehicleServes
  PROVE  \E r, s : Handles(r, s)
<1>1. toVehicle \in Seq(Requests) /\ vehicle \in VehicleType
  BY DEF IInv, TypeOK
<1> DEFINE r == Head(toVehicle)
<1>2. gcs' = gcs /\ toVehicle # <<>> /\ toVehicle' = Tail(toVehicle) /\ r.seq # Seq16(vehicle.last.seq - 1)
  BY DEF VehicleServes
<1>3. /\ r = toVehicle[1] /\ r \in Requests /\ r.seq \in Numbers /\ r \in Range(toVehicle)
      /\ Range(toVehicle') \subseteq Range(toVehicle)
  BY <1>1, <1>2, KeptTail, KeptRange, QueueFields
<1>4. PICK s \in Sessions \cup {0}, extra \in {0, 1}, withTime \in BOOLEAN :
          /\ Answers' \subseteq Answers \cup Range(Answer(r, s, extra, withTime))
          /\ vehicle' = [After(r, s) EXCEPT !.last = Last(Answer(r, s, extra, withTime))]
  BY DEF VehicleServes
<1> HIDE DEF r
<1> DEFINE a == Answer(r, s, extra, withTime)
           v == After(r, s)
<1>5. \/ \E x : a = <<x>> /\ SingleAnswer(r, s, x)
      \/ r.op = "burst" /\ a = BurstReplies(r)
  BY <1>1, <1>3, AnswerIs
<1> HIDE DEF a
<1>6. /\ \A m \in Range(a) : SingleAnswer(r, s, m) \/ (r.op = "burst" /\ BurstAnswer(r, m))
      /\ Last(a) \in Range(a)
  <2>1. CASE \E x : a = <<x>> /\ SingleAnswer(r, s, x)
    <3>1. PICK x : a = <<x>> /\ SingleAnswer(r, s, x)
      BY <2>1
    <3>2. Range(a) = {x} /\ Last(a) = x
      BY <3>1, RangeOfOne DEF Last
    <3> QED BY <3>1, <3>2
  <2>2. CASE r.op = "burst" /\ a = BurstReplies(r)
    BY <1>1, <1>3, <2>2, BurstRepliesAre
  <2> QED BY <1>5, <2>1, <2>2
<1>7. /\ v \in VehicleType
      /\ r.op # "open" => v.path = vehicle.path
      /\ r.op # "create" /\ r.op # "write" => v.blocks = vehicle.blocks
      /\ r.op = "open" => v.mode = "read" /\ v.session = s /\ v.path = r.path
      /\ r.op = "create" => v.mode = "write" /\ v.session = s /\ v.blocks = {}
      /\ r.op = "write" => v.mode = vehicle.mode /\ v.session = vehicle.session
      /\ r.op = "write" /\ vehicle.mode = "write" /\ r.session = vehicle.session =>
                v.blocks = vehicle.blocks \cup {r.offset}
      /\ r.op = "reset" => v.mode = "none"
      /\ r.op = "terminate" => v.mode \in {vehicle.mode, "none"}
  BY <1>1, <1>3, AfterFields
<1> HIDE DEF v
<1>8. vehicle' = [v EXCEPT !.last = Last(a)]
  BY <1>4 DEF a, v
<1>9. /\ vehicle'.last = Last(a) /\ vehicle'.mode = v.mode /\ vehicle'.session = v.session
      /\ vehicle'.path = v.path /\ vehicle'.blocks = v.blocks
  BY <1>7, <1>8 DEF VehicleType
<1>10. \A m \in Answers' : m \in Answers \/ SingleAnswer(r, s, m) \/ (r.op = "burst" /\ BurstAnswer(r, m))
  BY <1>4, <1>6 DEF a
<1> HIDE DEF a
<1>11. Handles(r, s)
  <2>1. SingleAnswer(r, s, vehicle'.last) \/ (r.op = "burst" /\ BurstAnswer(r, vehicle'.last))
    BY <1>6, <1>9
  <2> QED BY <1>2, <1>3, <1>7, <1>9, <1>10, <2>1 DEF Handles
<1> QED BY <1>11

-----------------------------------------------------------------------------
(* Uploads *)

\* An acknowledgement of the request made last is there.
Current(op) == \E m \in Answers : m.seq = gcs.expected /\ m.op = op /\ m.kind = "ack"

AllNow == \A r \in Range(toVehicle) : r.seq = Seq16(gcs.expected - 1)

\* The vehicle has answered the request made last, and only that is on its way again.
Served(op) == vehicle.last.seq = gcs.expected /\ vehicle.last.op = op /\ AllNow

\* What is on its way is the request made last, or one the vehicle will not serve again.
NowOrRepeated ==
    \A r \in Range(toVehicle) :
        r.seq = Seq16(gcs.expected - 1) \/ r.seq = Seq16(vehicle.last.seq - 1)

SessionOpens ==
    gcs.stage = "create" =>
        \A m \in Answers : m.seq = gcs.expected /\ m.op = "create" /\ m.kind = "ack" =>
            /\ vehicle.mode = "write" /\ vehicle.blocks = {} /\ vehicle.session = m.session
            /\ Served("create")

\* The vehicle has the blocks before the one in the buffer, and may have that one.
BlocksGo ==
    gcs.stage = "write" =>
        /\ vehicle.mode = "write" /\ vehicle.session = gcs.ul.session /\ NowOrRepeated
        /\ vehicle.last.seq = gcs.expected => Served("write")
        /\ \/ vehicle.blocks = Blocks(gcs.ul.sent)
           \/ vehicle.blocks = Blocks(gcs.ul.sent + 1) /\ vehicle.last.seq = gcs.expected
        /\ Current("write") =>
               vehicle.last.seq = gcs.expected /\ vehicle.blocks = Blocks(gcs.ul.sent + 1)

SessionCloses ==
    gcs.stage = "reset" /\ gcs.machine = "upload" =>
        /\ vehicle.blocks = Blocks(gcs.ul.sent) /\ NowOrRepeated
        /\ vehicle.last.seq = gcs.expected => Served("reset")
        /\ Current("reset") => vehicle.last.seq = gcs.expected /\ vehicle.mode = "none"

UploadStands ==
    gcs.call.kind = "upload" /\ gcs.signals = <<<<"upload", "ok">>>> =>
        /\ gcs.stage \in {"idle", "terminate", "terminateUpload"}
        /\ vehicle.blocks = Blocks(gcs.call.size) /\ vehicle.mode # "write"
        /\ \A r \in Range(toVehicle) : r.op \in {"reset", "terminate"}

Uploading == SessionOpens /\ BlocksGo /\ SessionCloses /\ UploadStands

LEMMA StageIs ==
  ASSUME NEW g \in GcsType, Sound(g)
  PROVE  /\ g.stage \in {"create", "write"} => g.machine = "upload"
         /\ g.stage \in {"open", "burst", "fill"} => g.machine = "download"
         /\ g.stage # "idle" /\ g.machine \notin Operations => g.stage \in {"terminate", "terminateUpload"}
<1>1. CASE Working(g)
  <2>1. g.stage \in Stages
    BY DEF GcsType
  <2> QED BY <1>1, <2>1, StageTells, Zenon DEF Stages, Operations
<1>2. CASE Resting(g)
  BY <1>2 DEF Resting
<1> QED BY <1>1, <1>2 DEF Sound

LEMMA NumberDiffers == \A e \in Numbers : Seq16(e + 2) # e /\ Seq16(Seq16(e + 2) - 1) # Seq16(e - 1)
  BY SMT DEF Seq16, Numbers

LEMMA NumberBack == \A n \in Numbers : Seq16(Seq16(n - 1) + 1) = n /\ Seq16(Seq16(n + 1) - 1) = n
  BY SMT DEF Seq16, Numbers

LEMMA BlocksMore == \A n \in Nat : Blocks(n) \cup {n} = Blocks(n + 1) /\ Blocks(0) = {}
  BY DEF Blocks

\* As long as the number stays, what was there of the last request stays.
LEMMA NowKept ==
  ASSUME gcs'.expected = gcs.expected, Answers' \subseteq Answers, vehicle'.last = vehicle.last,
         \A r \in Range(toVehicle') : r \in Range(toVehicle) \/ r.seq = Seq16(gcs.expected - 1)
  PROVE  /\ \A op : Current(op)' => Current(op)
         /\ \A op : Served(op) => Served(op)'
         /\ NowOrRepeated => NowOrRepeated'
<1>1. \A op : Current(op)' => Current(op)
  BY DEF Current
<1>2. AllNow => AllNow'
  BY DEF AllNow
<1>3. \A op : Served(op) => Served(op)'
  BY <1>2 DEF Served
<1>4. NowOrRepeated => NowOrRepeated'
  BY DEF NowOrRepeated
<1> QED BY <1>1, <1>3, <1>4

LEMMA StaysUploading ==
  ASSUME IInv, Uploading, ManagerTurns, UploadStays
  PROVE  Uploading'
<1>1. /\ gcs'.stage = gcs.stage /\ gcs'.machine = gcs.machine /\ gcs'.expected = gcs.expected
      /\ gcs'.ul.session = gcs.ul.session /\ gcs'.ul.sent = gcs.ul.sent
      /\ gcs'.call = gcs.call /\ gcs'.signals = gcs.signals /\ vehicle' = vehicle
      /\ Answers' \subseteq Answers
  BY DEF UploadStays, SameQuestion, ManagerTurns
<1>2. /\ \A op : Current(op)' => Current(op)
      /\ \A op : Served(op) => Served(op)'
      /\ NowOrRepeated => NowOrRepeated'
  BY <1>1, NowKept DEF ManagerTurns, AsksNow
<1>3. SessionOpens'
  BY <1>1, <1>2 DEF Uploading, SessionOpens
<1>4. BlocksGo'
  BY <1>1, <1>2 DEF Uploading, BlocksGo
<1>5. SessionCloses'
  BY <1>1, <1>2 DEF Uploading, SessionCloses
<1>6. UploadStands'
  <2> SUFFICES ASSUME gcs.call.kind = "upload", gcs.signals = <<<<"upload", "ok">>>>
               PROVE  \A r \in Range(toVehicle') : r.op \in {"reset", "terminate"}
    BY <1>1 DEF Uploading, UploadStands
  <2>1. gcs'.stage \in {"idle", "terminate", "terminateUpload"}
    BY <1>1 DEF Uploading, UploadStands
  <2>2. gcs'.stage # "idle" => OpcodeOf(gcs') = "terminate"
    BY <2>1 DEF OpcodeOf
  <2> QED BY <2>2 DEF ManagerTurns, AsksNow, Asked, Uploading, UploadStands
<1> QED BY <1>3, <1>4, <1>5, <1>6 DEF Uploading

LEMMA AcknowledgedUploading ==
  ASSUME IInv, Traffic, Uploading, ManagerTurns, UploadAcknowledged, ~gcs'.unsent
  PROVE  Uploading'
<1>1. PICK m \in Range(toGcs) : Acknowledged(gcs, gcs', m)
  BY DEF UploadAcknowledged
<1>2. /\ m.kind = "ack" /\ m.seq = gcs.expected /\ gcs'.expected = Seq16(gcs.expected + 2)
      /\ gcs'.machine = "upload" /\ gcs'.stage \in {"write", "reset"} /\ m \in Answers
      /\ \/ gcs.stage = "create" /\ m.op = "create" /\ gcs'.ul.session = m.session
            /\ gcs'.ul.sent = gcs.ul.sent
         \/ gcs.stage = "write" /\ m.op = "write" /\ gcs'.ul.session = gcs.ul.session
            /\ gcs'.ul.sent = gcs.ul.sent + gcs.ul.chunk
  BY <1>1 DEF Acknowledged, Answers
<1>3. gcs.expected \in Numbers /\ gcs.ul.sent \in Nat
  <2>1. gcs \in GcsType
    BY DEF IInv, TypeOK
  <2>2. gcs.ul \in UploadType
    BY <2>1 DEF GcsType
  <2>3. gcs.ul.sent \in Nat
    BY <2>2 DEF UploadType
  <2> QED BY <2>1, <2>3, OwnFields
<1>4. gcs'.expected # gcs.expected
  BY <1>2, <1>3, NumberDiffers
<1>5. NoneYet /\ vehicle' = vehicle
  BY <1>2, <1>4 DEF ManagerTurns
<1>6. \A op : op # "burst" => ~Current(op)'
  BY <1>5 DEF NoneYet, Current
<1>7. /\ vehicle.mode = "write" /\ vehicle.session = gcs'.ul.session
      /\ vehicle.blocks = Blocks(gcs'.ul.sent) /\ vehicle.last.seq = gcs.expected /\ AllNow
  <2>1. CASE gcs.stage = "create"
    <3>1. m.op = "create" /\ gcs'.ul.session = m.session /\ gcs'.ul.sent = gcs.ul.sent
      BY <1>2, <2>1
    <3>2. gcs.ul.sent = 0
      BY <2>1 DEF Traffic, UploadGood
    <3>3. /\ vehicle.mode = "write" /\ vehicle.blocks = {} /\ vehicle.session = m.session
          /\ Served("create")
      BY <1>2, <2>1, <3>1 DEF Uploading, SessionOpens
    <3>4. vehicle.blocks = Blocks(gcs'.ul.sent)
      BY <3>1, <3>2, <3>3, BlocksMore
    <3> QED BY <3>1, <3>3, <3>4 DEF Served
  <2>2. CASE gcs.stage = "write"
    <3>1. m.op = "write" /\ gcs'.ul.session = gcs.ul.session /\ gcs'.ul.sent = gcs.ul.sent + gcs.ul.chunk
      BY <1>2, <2>2
    <3>2. gcs.ul.chunk = 1
      BY <2>2 DEF Traffic, UploadGood
    <3>3. Current("write")
      BY <1>2, <3>1 DEF Current
    <3>4. vehicle.last.seq = gcs.expected /\ vehicle.blocks = Blocks(gcs.ul.sent + 1)
      BY <2>2, <3>3 DEF Uploading, BlocksGo
    <3>5. vehicle.mode = "write" /\ vehicle.session = gcs.ul.session /\ Served("write")
      BY <2>2, <3>4 DEF Uploading, BlocksGo
    <3> QED BY <3>1, <3>2, <3>4, <3>5 DEF Served
  <2> QED BY <1>2, <2>1, <2>2
<1>8. NowOrRepeated'
  <2>1. \A r \in Range(toVehicle) : r.seq = Seq16(vehicle'.last.seq - 1)
    BY <1>5, <1>7 DEF AllNow
  <2> QED BY <2>1 DEF NowOrRepeated, ManagerTurns, AsksNow
<1>9. vehicle'.last.seq # gcs'.expected
  BY <1>4, <1>5, <1>7
<1>10. SessionOpens'
  BY <1>2 DEF SessionOpens
<1>11. BlocksGo'
  BY <1>5, <1>6, <1>7, <1>8, <1>9 DEF BlocksGo
<1>12. SessionCloses'
  BY <1>5, <1>6, <1>7, <1>8, <1>9 DEF SessionCloses
<1>13. UploadStands'
  <2>1. gcs'.signals = <<>>
    BY <1>2 DEF ManagerTurns, CallGood, Operations
  <2> QED BY <2>1 DEF UploadStands
<1> QED BY <1>10, <1>11, <1>12, <1>13 DEF Uploading

LEMMA DoneUploading ==
  ASSUME IInv, Traffic, Uploading, ManagerTurns, UploadDone
  PROVE  Uploading'
<1>1. /\ gcs.machine = "upload" /\ gcs.stage = "reset" /\ gcs'.call = gcs.call
      /\ gcs'.stage = "idle" /\ vehicle' = vehicle
  BY DEF UploadDone, ManagerTurns
<1>2. Current("reset")
  BY DEF UploadDone, Current, Fits, Answers
<1>3. vehicle.blocks = Blocks(gcs.ul.sent) /\ vehicle.mode = "none" /\ Served("reset")
  BY <1>1, <1>2 DEF Uploading, SessionCloses
<1>4. gcs.ul.sent = gcs.call.size
  BY <1>1 DEF Traffic, UploadGood
<1>5. \A r \in Range(toVehicle') : r.op = "reset"
  <2> SUFFICES ASSUME NEW r \in Range(toVehicle')
               PROVE  r.op = "reset"
    OBVIOUS
  <2>1. r \in Range(toVehicle)
    BY <1>1 DEF ManagerTurns, AsksNow
  <2>2. Asked(gcs, r)
    BY <1>3, <2>1 DEF Served, AllNow, Traffic, AskedNow
  <2> QED BY <1>1, <2>2 DEF Asked, OpcodeOf
<1>6. UploadStands'
  BY <1>1, <1>3, <1>4, <1>5 DEF UploadStands
<1>7. SessionOpens' /\ BlocksGo' /\ SessionCloses'
  BY <1>1 DEF SessionOpens, BlocksGo, SessionCloses
<1> QED BY <1>6, <1>7 DEF Uploading

LEMMA BegunUploading ==
  ASSUME IInv, ManagerTurns, UploadBegun
  PROVE  Uploading'
<1>1. gcs'.machine = "upload" /\ gcs'.stage = "create" /\ gcs'.expected = Seq16(gcs.expected + 2)
  BY DEF UploadBegun
<1>2. gcs.expected \in Numbers
  BY OwnFields DEF IInv, TypeOK
<1>3. NoneYet
  BY <1>1, <1>2, NumberDiffers DEF ManagerTurns
<1>4. SessionOpens'
  BY <1>3 DEF SessionOpens, NoneYet
<1>5. BlocksGo' /\ SessionCloses'
  BY <1>1 DEF BlocksGo, SessionCloses
<1>6. gcs'.signals = <<>>
  BY <1>1 DEF ManagerTurns, CallGood, Operations
<1>7. UploadStands'
  BY <1>6 DEF UploadStands
<1> QED BY <1>4, <1>5, <1>7 DEF Uploading

LEMMA AsideUploading ==
  ASSUME IInv', Uploading, ManagerTurns, UploadAside
  PROVE  Uploading'
<1>1. gcs' \in GcsType /\ Sound(gcs') /\ gcs'.machine # "upload" /\ vehicle' = vehicle
  BY DEF IInv, ManagerTurns, UploadAside
<1>2. gcs'.stage \notin {"create", "write"}
  BY <1>1, StageIs
<1>3. SessionOpens' /\ BlocksGo' /\ SessionCloses'
  BY <1>1, <1>2 DEF SessionOpens, BlocksGo, SessionCloses
<1>4. UploadStands'
  <2> SUFFICES ASSUME gcs'.call.kind = "upload", gcs'.signals = <<<<"upload", "ok">>>>
               PROVE  /\ gcs'.stage \in {"idle", "terminate", "terminateUpload"}
                      /\ vehicle.blocks = Blocks(gcs'.call.size) /\ vehicle.mode # "write"
                      /\ \A r \in Range(toVehicle') : r.op \in {"reset", "terminate"}
    BY <1>1 DEF UploadStands
  <2>1. gcs.signals = gcs'.signals /\ gcs.call = gcs'.call
    BY DEF UploadAside
  <2>2. /\ vehicle.blocks = Blocks(gcs'.call.size) /\ vehicle.mode # "write"
        /\ \A r \in Range(toVehicle) : r.op \in {"reset", "terminate"}
    BY <2>1 DEF Uploading, UploadStands
  <2>3. gcs'.stage \in {"idle", "terminate", "terminateUpload"}
    <3>1. CASE gcs'.stage # "idle"
      <4>1. gcs'.signals # <<>>
        OBVIOUS
      <4>2. gcs'.machine \notin Operations
        BY <3>1, <4>1 DEF ManagerTurns, CallGood
      <4> QED BY <1>1, <3>1, <4>2, StageIs
    <3> QED BY <3>1
  <2>4. gcs'.stage # "idle" => OpcodeOf(gcs') = "terminate"
    BY <2>3 DEF OpcodeOf
  <2>5. \A r \in Range(toVehicle') : r.op \in {"reset", "terminate"}
    BY <2>2, <2>4 DEF ManagerTurns, AsksNow, Asked
  <2> QED BY <2>2, <2>3, <2>5
<1> QED BY <1>3, <1>4 DEF Uploading

LEMMA ManagerUploading ==
  ASSUME IInv, IInv', Traffic, Uploading, ManagerTurns, UploadTurns, ~gcs'.unsent
  PROVE  Uploading'
  BY StaysUploading, AcknowledgedUploading, DoneUploading, BegunUploading, AsideUploading
     DEF UploadTurns

LEMMA RestsUploading ==
  ASSUME IInv, Uploading, VehicleRests
  PROVE  Uploading'
<1>1. /\ gcs' = gcs /\ Answers' \subseteq Answers /\ vehicle'.last = vehicle.last
      /\ vehicle'.mode = vehicle.mode /\ vehicle'.session = vehicle.session
      /\ vehicle'.blocks = vehicle.blocks /\ Range(toVehicle') \subseteq Range(toVehicle)
  BY KeptRange DEF VehicleRests
<1>2. /\ \A op : Current(op)' => Current(op)
      /\ \A op : Served(op) => Served(op)'
      /\ NowOrRepeated => NowOrRepeated'
  BY <1>1, NowKept
<1>3. SessionOpens'
  BY <1>1, <1>2 DEF Uploading, SessionOpens
<1>4. BlocksGo'
  BY <1>1, <1>2 DEF Uploading, BlocksGo
<1>5. SessionCloses'
  BY <1>1, <1>2 DEF Uploading, SessionCloses
<1>6. UploadStands'
  BY <1>1 DEF Uploading, UploadStands
<1> QED BY <1>3, <1>4, <1>5, <1>6 DEF Uploading

\* The vehicle answers the request r with the number after it, and nothing else
\* about the answers that count changes.
Answered(r) ==
    /\ gcs' = gcs /\ toVehicle # <<>> /\ r = toVehicle[1] /\ r.seq \in Numbers
    /\ r \in Range(toVehicle) /\ Range(toVehicle') \subseteq Range(toVehicle)
    /\ vehicle'.last.seq = Seq16(r.seq + 1) /\ vehicle'.last.op = r.op

\* Once the request made last is answered, what is on its way are copies of it.
LEMMA AnsweredNow ==
  ASSUME BurstsFit, IInv, Traffic, NEW r, Answered(r), r.seq = Seq16(gcs.expected - 1)
  PROVE  Asked(gcs, r) /\ Served(r.op)' /\ NowOrRepeated'
<1>1. toVehicle \in Seq(Requests) /\ gcs.expected \in Numbers
  BY OwnFields DEF IInv, TypeOK
<1>2. \A q \in Range(toVehicle) : q.seq = Seq16(gcs.expected - 1)
  BY <1>1, FirstIsLast DEF Answered, Traffic
<1>3. AllNow'
  BY <1>2 DEF AllNow, Answered
<1>4. vehicle'.last.seq = gcs.expected
  BY <1>1, NumberBack DEF Answered
<1>5. Served(r.op)'
  BY <1>3, <1>4 DEF Served, Answered
<1>6. NowOrRepeated'
  BY <1>3 DEF AllNow, NowOrRepeated
<1>7. Asked(gcs, r)
  BY DEF Answered, Traffic, AskedNow
<1> QED BY <1>5, <1>6, <1>7

LEMMA RefusesUploading ==
  ASSUME BurstsFit, IInv, Traffic, Uploading, VehicleRefuses
  PROVE  Uploading'
<1>0. PICK r : r = Head(toVehicle)
  OBVIOUS
<1> DEFINE a == Reply(r, 1, "nak")
<1>1. /\ toVehicle \in Seq(Requests) /\ vehicle \in VehicleType /\ gcs.expected \in Numbers
      /\ vehicle.last \in Replies
  BY OwnFields DEF IInv, TypeOK, VehicleType
<1>2. /\ gcs' = gcs /\ toVehicle # <<>> /\ toVehicle' = Tail(toVehicle)
      /\ Answers' \subseteq Answers \cup {a} /\ vehicle' = [vehicle EXCEPT !.last = a]
  BY <1>0 DEF VehicleRefuses
<1>3. /\ r = toVehicle[1] /\ r \in Requests /\ r.seq \in Numbers /\ r \in Range(toVehicle)
      /\ Range(toVehicle') \subseteq Range(toVehicle)
  BY <1>0, <1>1, <1>2, KeptTail, KeptRange, QueueFields
<1>4. a \in Replies /\ a.seq = Seq16(r.seq + 1) /\ a.op = r.op /\ a.kind = "nak"
  BY <1>1, <1>3, ReplyFields
<1> HIDE DEF a
<1>5. /\ vehicle'.last = a /\ vehicle'.mode = vehicle.mode /\ vehicle'.session = vehicle.session
      /\ vehicle'.blocks = vehicle.blocks
  BY <1>1, <1>2 DEF VehicleType
<1>6. Answered(r)
  BY <1>2, <1>3, <1>4, <1>5 DEF Answered
<1>7. \A op : Current(op)' => Current(op)
  BY <1>2, <1>4 DEF Current
<1>8. r.seq = Seq16(gcs.expected - 1) => Asked(gcs, r) /\ Served(r.op)' /\ NowOrRepeated'
  BY <1>6, AnsweredNow
<1>9. SessionOpens'
  <2> SUFFICES ASSUME gcs.stage = "create", NEW m \in Answers',
                      m.seq = gcs.expected, m.op = "create", m.kind = "ack"
               PROVE  /\ vehicle.mode = "write" /\ vehicle.blocks = {} /\ vehicle.session = m.session
                      /\ Served("create")'
    BY <1>2, <1>5 DEF SessionOpens
  <2>1. m \in Answers
    BY <1>2, <1>4
  <2>2. /\ vehicle.mode = "write" /\ vehicle.blocks = {} /\ vehicle.session = m.session
        /\ Served("create")
    BY <2>1 DEF Uploading, SessionOpens
  <2>3. r.seq = Seq16(gcs.expected - 1)
    BY <1>3, <2>2 DEF Served, AllNow
  <2>4. r.op = "create"
    BY <1>8, <2>3 DEF Asked, OpcodeOf
  <2> QED BY <1>8, <2>2, <2>3, <2>4
\* A request that is not the last one is one the vehicle has answered.
<1>10. ASSUME NowOrRepeated, r.seq # Seq16(gcs.expected - 1)
       PROVE  vehicle'.last.seq = vehicle.last.seq /\ NowOrRepeated'
  <2>1. r.seq = Seq16(vehicle.last.seq - 1)
    BY <1>3, <1>10 DEF NowOrRepeated
  <2>2. vehicle'.last.seq = vehicle.last.seq
    BY <1>1, <1>4, <1>5, <2>1, NumberBack, ReplyTypes
  <2>3. NowOrRepeated'
    BY <1>2, <1>3, <1>10, <2>2 DEF NowOrRepeated
  <2> QED BY <2>2, <2>3
<1>11. BlocksGo'
  <2> SUFFICES ASSUME gcs.stage = "write" PROVE BlocksGo'
    BY <1>2 DEF BlocksGo
  <2>1. /\ vehicle.mode = "write" /\ vehicle.session = gcs.ul.session /\ NowOrRepeated
        /\ vehicle.last.seq = gcs.expected => Served("write")
        /\ \/ vehicle.blocks = Blocks(gcs.ul.sent)
           \/ vehicle.blocks = Blocks(gcs.ul.sent + 1) /\ vehicle.last.seq = gcs.expected
        /\ Current("write") =>
               vehicle.last.seq = gcs.expected /\ vehicle.blocks = Blocks(gcs.ul.sent + 1)
    BY DEF Uploading, BlocksGo
  <2>2. CASE r.seq = Seq16(gcs.expected - 1)
    <3>1. Served("write")' /\ NowOrRepeated'
      BY <1>8, <2>2 DEF Asked, OpcodeOf
    <3> QED BY <1>2, <1>5, <1>7, <2>1, <3>1 DEF BlocksGo, Served
  <2>3. CASE r.seq # Seq16(gcs.expected - 1)
    <3>1. vehicle'.last.seq = vehicle.last.seq /\ NowOrRepeated'
      BY <1>10, <2>1, <2>3
    <3>2. vehicle.last.seq # gcs.expected
      BY <1>3, <2>1, <2>3 DEF Served, AllNow
    <3> QED BY <1>2, <1>5, <1>7, <2>1, <3>1, <3>2 DEF BlocksGo
  <2> QED BY <2>2, <2>3
<1>12. SessionCloses'
  <2> SUFFICES ASSUME gcs.stage = "reset", gcs.machine = "upload" PROVE SessionCloses'
    BY <1>2 DEF SessionCloses
  <2>1. /\ vehicle.blocks = Blocks(gcs.ul.sent) /\ NowOrRepeated
        /\ vehicle.last.seq = gcs.expected => Served("reset")
        /\ Current("reset") => vehicle.last.seq = gcs.expected /\ vehicle.mode = "none"
    BY DEF Uploading, SessionCloses
  <2>2. CASE r.seq = Seq16(gcs.expected - 1)
    <3>1. Served("reset")' /\ NowOrRepeated'
      BY <1>8, <2>2 DEF Asked, OpcodeOf
    <3> QED BY <1>2, <1>5, <1>7, <2>1, <3>1 DEF SessionCloses, Served
  <2>3. CASE r.seq # Seq16(gcs.expected - 1)
    <3>1. vehicle'.last.seq = vehicle.last.seq /\ NowOrRepeated'
      BY <1>10, <2>1, <2>3
    <3>2. vehicle.last.seq # gcs.expected
      BY <1>3, <2>1, <2>3 DEF Served, AllNow
    <3> QED BY <1>2, <1>5, <1>7, <2>1, <3>1, <3>2 DEF SessionCloses
  <2> QED BY <2>2, <2>3
<1>13. UploadStands'
  BY <1>2, <1>3, <1>5 DEF Uploading, UploadStands
<1> QED BY <1>9, <1>11, <1>12, <1>13 DEF Uploading

LEMMA ServesUploading ==
  ASSUME BurstsFit, IInv, Traffic, Uploading, VehicleServes
  PROVE  Uploading'
<1>1. PICK r, s : Handles(r, s)
  BY ServesHandle
<1>2. gcs \in GcsType /\ gcs.expected \in Numbers /\ vehicle.last \in Replies /\ gcs.ul.sent \in Nat
  <2>1. gcs \in GcsType /\ vehicle.last \in Replies
    BY DEF IInv, TypeOK, VehicleType
  <2>2. gcs.ul \in UploadType
    BY <2>1 DEF GcsType
  <2>3. gcs.ul.sent \in Nat
    BY <2>2 DEF UploadType
  <2> QED BY <2>1, <2>3, OwnFields
<1>3. /\ gcs' = gcs /\ r \in Range(toVehicle) /\ r.seq \in Numbers
      /\ r.seq # Seq16(vehicle.last.seq - 1) /\ Range(toVehicle') \subseteq Range(toVehicle)
      /\ \A m \in Answers' : m \in Answers \/ SingleAnswer(r, s, m) \/ (r.op = "burst" /\ BurstAnswer(r, m))
  BY <1>1 DEF Handles
<1>4. Past(gcs.expected, r.seq) /\ r.seq # gcs.expected
  BY <1>3 DEF Traffic, Numbered
<1>5. r.op # "burst" => Answered(r)
  BY <1>1 DEF Handles, Answered, SingleAnswer
<1>6. r.seq = Seq16(gcs.expected - 1) /\ r.op # "burst" =>
          Asked(gcs, r) /\ Served(r.op)' /\ NowOrRepeated'
  BY <1>5, AnsweredNow
<1>7. r.seq = Seq16(gcs.expected - 1) => Asked(gcs, r)
  BY <1>3 DEF Traffic, AskedNow
\* A new answer to the request made last is to r.
<1>8. \A m \in Answers' : m.seq = gcs.expected /\ m.op # "burst" /\ m \notin Answers =>
          r.seq = Seq16(gcs.expected - 1) /\ SingleAnswer(r, s, m)
  <2> SUFFICES ASSUME NEW m \in Answers', m.seq = gcs.expected, m.op # "burst", m \notin Answers
               PROVE  r.seq = Seq16(gcs.expected - 1) /\ SingleAnswer(r, s, m)
    OBVIOUS
  <2>1. SingleAnswer(r, s, m)
    BY <1>3 DEF BurstAnswer
  <2>2. m.seq = Seq16(r.seq + 1)
    BY <2>1 DEF SingleAnswer
  <2> QED BY <1>2, <1>3, <1>4, <2>1, <2>2, AnswerBehind
<1>9. SessionOpens'
  <2> SUFFICES ASSUME gcs.stage = "create", NEW m \in Answers',
                      m.seq = gcs.expected, m.op = "create", m.kind = "ack"
               PROVE  /\ vehicle'.mode = "write" /\ vehicle'.blocks = {} /\ vehicle'.session = m.session
                      /\ Served("create")'
    BY <1>3 DEF SessionOpens
  <2>1. m \notin Answers
    <3>1. SUFFICES ASSUME m \in Answers PROVE FALSE
      OBVIOUS
    <3>2. Served("create")
      BY <3>1 DEF Uploading, SessionOpens
    <3> QED BY <1>3, <3>2 DEF Served, AllNow
  <2>2. r.seq = Seq16(gcs.expected - 1) /\ SingleAnswer(r, s, m)
    BY <1>8, <2>1
  <2>3. r.op = "create" /\ m.session = s
    BY <2>2 DEF SingleAnswer
  <2> QED BY <1>1, <1>6, <2>2, <2>3 DEF Handles
<1>10. BlocksGo'
  <2> SUFFICES ASSUME gcs.stage = "write" PROVE BlocksGo'
    BY <1>3 DEF BlocksGo
  <2>1. /\ vehicle.mode = "write" /\ vehicle.session = gcs.ul.session /\ NowOrRepeated
        /\ vehicle.last.seq = gcs.expected => Served("write")
        /\ \/ vehicle.blocks = Blocks(gcs.ul.sent)
           \/ vehicle.blocks = Blocks(gcs.ul.sent + 1) /\ vehicle.last.seq = gcs.expected
    BY DEF Uploading, BlocksGo
  <2>2. r.seq = Seq16(gcs.expected - 1)
    BY <1>3, <2>1 DEF NowOrRepeated
  <2>3. r.op = "write" /\ r.session = gcs.ul.session /\ r.offset = gcs.ul.sent
    BY <1>7, <2>2 DEF Asked, OpcodeOf
  <2>4. vehicle.blocks = Blocks(gcs.ul.sent)
    BY <1>3, <2>1, <2>2
  <2>5. /\ vehicle'.mode = "write" /\ vehicle'.session = gcs.ul.session
        /\ vehicle'.blocks = vehicle.blocks \cup {gcs.ul.sent}
    BY <1>1, <2>1, <2>3 DEF Handles
  <2>6. vehicle'.blocks = Blocks(gcs.ul.sent + 1)
    BY <1>2, <2>4, <2>5, BlocksMore
  <2>7. Served("write")' /\ NowOrRepeated'
    BY <1>6, <2>2, <2>3
  <2> QED BY <1>3, <2>5, <2>6, <2>7 DEF BlocksGo, Served
<1>11. SessionCloses'
  <2> SUFFICES ASSUME gcs.stage = "reset", gcs.machine = "upload" PROVE SessionCloses'
    BY <1>3 DEF SessionCloses
  <2>1. vehicle.blocks = Blocks(gcs.ul.sent) /\ NowOrRepeated
    BY DEF Uploading, SessionCloses
  <2>2. r.seq = Seq16(gcs.expected - 1)
    BY <1>3, <2>1 DEF NowOrRepeated
  <2>3. r.op = "reset"
    BY <1>7, <2>2 DEF Asked, OpcodeOf
  <2>4. vehicle'.mode = "none" /\ vehicle'.blocks = vehicle.blocks
    BY <1>1, <2>3 DEF Handles
  <2>5. Served("reset")' /\ NowOrRepeated'
    BY <1>6, <2>2, <2>3
  <2> QED BY <1>3, <2>1, <2>4, <2>5 DEF SessionCloses, Served
<1>12. UploadStands'
  <2> SUFFICES ASSUME gcs.call.kind = "upload", gcs.signals = <<<<"upload", "ok">>>> PROVE UploadStands'
    BY <1>3 DEF UploadStands
  <2>1. /\ gcs.stage \in {"idle", "terminate", "terminateUpload"}
        /\ vehicle.blocks = Blocks(gcs.call.size) /\ vehicle.mode # "write"
        /\ \A q \in Range(toVehicle) : q.op \in {"reset", "terminate"}
    BY DEF Uploading, UploadStands
  <2>2. r.op \in {"reset", "terminate"}
    BY <1>3, <2>1
  <2>3. vehicle'.mode # "write" /\ vehicle'.blocks = vehicle.blocks
    BY <1>1, <2>1, <2>2 DEF Handles
  <2> QED BY <1>3, <2>1, <2>3 DEF UploadStands
<1> QED BY <1>9, <1>10, <1>11, <1>12 DEF Uploading

LEMMA UploadingStep ==
  ASSUME BurstsFit, IInv, IInv', Timely, Timely', gcs.unsent \/ Traffic, gcs.unsent \/ Uploading,
         [Next]_vars
  PROVE  (gcs.unsent \/ Uploading)'
<1>1. CASE Managed
  <2>1. gcs'.unsent \/ (Traffic /\ ~gcs.unsent /\ ManagerTurns /\ UploadTurns)
    BY <1>1, ManagedUploads
  <2> QED BY <2>1, ManagerUploading
<1>2. CASE VehicleRests \/ VehicleRefuses \/ VehicleServes
  <2>1. gcs' = gcs
    BY <1>2 DEF VehicleRests, VehicleRefuses, VehicleServes
  <2>2. Traffic /\ Uploading => Uploading'
    BY <1>2, RestsUploading, RefusesUploading, ServesUploading
  <2> QED BY <2>1, <2>2
<1> QED BY <1>1, <1>2, StepCases

LEMMA UploadingHolds ==
  ASSUME BurstsFit
  PROVE  Spec /\ []Timely => [](gcs.unsent \/ Uploading)
<1> DEFINE T == gcs.unsent \/ Traffic
           U == gcs.unsent \/ Uploading
<1>1. Init => U
  <2> SUFFICES ASSUME Init PROVE Uploading
    OBVIOUS
  <2>1. gcs.stage = "idle" /\ gcs.call.kind = "none"
    BY DEF Init, NoCall
  <2> QED BY <2>1 DEF Uploading, SessionOpens, BlocksGo, SessionCloses, UploadStands
<1>2. IInv /\ IInv' /\ Timely /\ Timely' /\ T /\ U /\ [Next]_vars => U'
  BY UploadingStep
<1>3. Spec => []IInv
  BY InvariantHolds
<1>4. Spec /\ []Timely => []T
  BY TrafficHolds
<1> HIDE DEF T, U
<1>5. Spec /\ []Timely => []U
  BY <1>1, <1>2, <1>3, <1>4, PTL DEF Spec
<1> QED BY <1>5 DEF U

\* An upload that ends without an error has left every block of the file with the
\* vehicle, in a session that is closed, whatever is lost, repeated or overtaken: the
\* vehicle has never more than the block in the buffer that the manager does not know
\* of (_writeFileAckOrNak), and a request that comes late is one it only repeats its
\* answer to.
THEOREM UploadingIsExact ==
  ASSUME BurstsFit
  PROVE  Spec /\ []Timely => []UploadIsExact
<1> DEFINE U == gcs.unsent \/ Uploading
<1>1. U => UploadIsExact
  BY DEF Uploading, UploadStands, UploadIsExact, EndedWell
<1>2. Spec /\ []Timely => []U
  BY UploadingHolds
<1> HIDE DEF U
<1> QED BY <1>1, <1>2, PTL

-----------------------------------------------------------------------------
(* Downloads *)

\* The file the vehicle has open is the one asked for when the answer comes.
FileOpens ==
    gcs.stage = "open" =>
        \A m \in Answers : m.seq = gcs.expected /\ m.op = "open" /\ m.kind = "ack" =>
            vehicle.path = gcs.dl.path /\ Served("open")

OpensFirst ==
    \A i, j \in DOMAIN toVehicle :
        i < j /\ toVehicle[j].op = "open" => toVehicle[i].op = "open"

\* The vehicle has the file open and will open no other; the blocks that the manager
\* may take are of the file.
BurstGoes ==
    gcs.stage = "burst" =>
        /\ vehicle.path = gcs.dl.path /\ OpensFirst
        /\ \A r \in Range(toVehicle) :
               r.op = "burst" \/ (r.op = "open" /\ r.seq = Seq16(vehicle.last.seq - 1))
        /\ \A m \in Answers : m.op = "burst" /\ m.kind = "ack" /\ ~IsOld(gcs, m) =>
               m.offset < gcs.dl.path

Downloading == FileOpens /\ BurstGoes /\ DownloadGood(gcs)

\* No block of an earlier burst has one of the numbers that the next will use: when the
\* "open" is answered with the number expected, the burst is asked for with the number after
\* it, and its blocks have those that follow.
NoLeftover ==
    gcs.stage = "open" /\ ~gcs.unsent =>
        \A m \in Answers : m.op = "burst" /\ m.kind = "ack" =>
            Seq16(m.seq - gcs.expected) \notin 2 .. Burst + 2

\* How a step of the manager disturbs a download.
DownloadTurns ==
    /\ (\A m \in Range(toGcs) : DownloadTold(gcs, m)) /\ DownloadGood(gcs) => DownloadGood(gcs')
    /\ \E d \in Nat : d <= Burst + 3 /\ gcs'.expected = Seq16(gcs.expected + d)
    /\ gcs'.stage = "open" =>
          \/ SameQuestion(gcs, gcs') /\ gcs'.expected = gcs.expected
          \/ gcs'.expected = Seq16(gcs.expected + 2)
    /\ gcs'.stage = "burst" =>
          /\ gcs'.dl.path = gcs.dl.path
          /\ \/ gcs.stage = "burst"
             \/ /\ gcs.stage = "open" /\ gcs'.expected = Seq16(gcs.expected + 2)
                /\ \E m \in Range(toGcs) : Fits(gcs, m, "open") /\ m.kind = "ack"
          /\ \E s \in Seq(Requests) :
                toVehicle' = toVehicle \o s /\ \A r \in Range(s) : r.op = "burst"

LEMMA TurnNumber ==
  ASSUME NEW g \in GcsType, NEW h, Turn(g, h), ~h.unsent
  PROVE  \E d \in Nat : d <= Burst + 3 /\ h.expected = Seq16(g.expected + d)
  BY DEF Turn

LEMMA ManagedDownloads ==
  ASSUME BurstsFit, IInv, Timely', gcs.unsent \/ Traffic, Managed
  PROVE  gcs'.unsent \/ (Traffic /\ ~gcs.unsent /\ ManagerTurns /\ DownloadTurns)
<1>1. PICK h \in GcsType :
          /\ Becomes(h) /\ vehicle' = vehicle /\ Range(toGcs') \subseteq Range(toGcs)
          /\ gcs.unsent => h.unsent
          /\ ~gcs.unsent =>
                \/ Begun(gcs, h)
                \/ \E m \in Range(toGcs) \cup {Silence} : Does(gcs, h, m) /\ CallGood(h)
  BY DEF Managed
<1>2. SentFrom(h, gcs') /\ toVehicle' = toVehicle \o h.out /\ h.out \in Seq(Requests)
  BY <1>1, BecomesSent DEF GcsType
<1>3. CASE h.unsent
  BY <1>2, <1>3 DEF SentFrom
<1>4. CASE ~h.unsent
  <2>1. Traffic /\ ~gcs.unsent /\ gcs \in GcsType
    BY <1>1, <1>4 DEF IInv, TypeOK
  <2>2. Turn(gcs, h) /\ CallGood(h) /\ UploadGood(h)
    BY <1>1, <2>1 DEF Begun, Does, Traffic
  <2>3. ManagerTurns
    BY <1>1, <1>4, <2>1, <2>2, TurnManages
  <2>4. gcs'.expected = h.expected /\ gcs'.stage = h.stage /\ gcs'.dl = h.dl
        /\ (SameQuestion(gcs, h) => SameQuestion(gcs, gcs'))
    BY <1>2 DEF SentFrom, SameFiles, SameQuestion
  <2>5. \E d \in Nat : d <= Burst + 3 /\ gcs'.expected = Seq16(gcs.expected + d)
    BY <1>4, <2>1, <2>2, <2>4, TurnNumber
  <2>6. h.stage = "burst" => \A r \in Range(h.out) : r.op = "burst"
    <3> SUFFICES ASSUME h.stage = "burst" PROVE \A r \in Range(h.out) : r.op = "burst"
      OBVIOUS
    <3>1. h.out = <<>> \/ \E r \in Requests : h.out = <<r>> /\ Asked(h, r)
      BY <1>4, <2>2 DEF Turn
    <3>2. CASE h.out = <<>>
      BY <3>2 DEF Range
    <3>3. CASE \E r \in Requests : h.out = <<r>> /\ Asked(h, r)
      <4>1. PICK r \in Requests : h.out = <<r>> /\ Asked(h, r)
        BY <3>3
      <4>2. Range(h.out) = {r} /\ r.op = "burst"
        BY <4>1, RangeOfOne DEF Asked, OpcodeOf
      <4> QED BY <4>2
    <3> QED BY <3>1, <3>2, <3>3
  <2>7. CASE Begun(gcs, h)
    <3>1. h.stage # "burst" /\ (h.stage = "open" => h.expected = Seq16(gcs.expected + 2))
      BY <1>4, <2>7 DEF Begun
    <3>2. DownloadGood(gcs) => DownloadGood(gcs')
      BY <1>2, <2>7, SentSame DEF Begun
    <3>3. DownloadTurns
      BY <2>4, <2>5, <3>1, <3>2 DEF DownloadTurns
    <3> QED BY <2>1, <2>3, <3>3
  <2>8. CASE ~Begun(gcs, h)
    <3>1. PICK m \in Range(toGcs) \cup {Silence} : Does(gcs, h, m)
      BY <1>1, <2>1, <2>8
    <3>2. (\A n \in Range(toGcs) : DownloadTold(gcs, n)) => DownloadTold(gcs, m)
      BY SilenceTells
    <3>3. (\A n \in Range(toGcs) : DownloadTold(gcs, n)) /\ DownloadGood(gcs) => DownloadGood(gcs')
      BY <1>2, <3>1, <3>2, SentSame DEF Does
    <3>4. h.stage = "open" => SameQuestion(gcs, h) /\ h.expected = gcs.expected
      BY <3>1 DEF Does, Moves
    <3>5. h.stage = "burst" => h.dl.path = gcs.dl.path /\ (gcs.stage = "burst" \/ Opened(gcs, h, m))
      BY <3>1 DEF Does, Moves
    <3>6. Opened(gcs, h, m) => /\ gcs.stage = "open" /\ h.expected = Seq16(gcs.expected + 2)
                              /\ m \in Range(toGcs) /\ Fits(gcs, m, "open") /\ m.kind = "ack"
      <4>1. Silence.kind = "nak"
        BY DEF Silence, NoReply
      <4> QED BY <1>4, <4>1 DEF Opened
    <3>7. DownloadTurns
      BY <1>2, <2>4, <2>5, <2>6, <3>3, <3>4, <3>5, <3>6 DEF DownloadTurns
    <3> QED BY <2>1, <2>3, <3>7
  <2> QED BY <2>7, <2>8
<1> QED BY <1>3, <1>4

\* A block that is not old after a turn was not old before.
LEMMA BlockStays ==
  ASSUME BurstsFit, NEW e \in Numbers, NEW n \in Numbers, NEW d \in Nat, d <= Burst + 3,
         Near(Seq16(e + d), n),
         ~(Behind(Seq16(e + d), n) >= 1 /\ Behind(Seq16(e + d), n) <= Half)
  PROVE  /\ ~(Behind(e, n) >= 1 /\ Behind(e, n) <= Half)
         /\ \E a \in Nat : a <= Burst /\ n = Seq16(e + (d + a))
<1> DEFINE f == Seq16(e + d)
           b == Behind(f, n)
<1>1. /\ Burst \in Nat /\ Half \in Nat /\ Wrap = Half + Half + 2 /\ 2 * Burst + 10 < Half
      /\ f \in Numbers
  <2>1. e + d \in Int
    BY DEF Numbers
  <2> QED BY <2>1, FtpAssumption, Halves, Seq16Type DEF BurstsFit
<1>2. b \in Nat /\ b < Wrap
  BY <1>1, BehindRange
<1>3. b = 0 \/ b >= Wrap - Burst
  <2>1. b <= Half \/ b >= Wrap - Burst
    BY DEF Near, Past
  <2>2. ~(b >= 1 /\ b <= Half)
    OBVIOUS
  <2> HIDE DEF b
  <2> QED BY <1>1, <1>2, <2>1, <2>2
<1> DEFINE a == IF b = 0 THEN 0 ELSE Wrap - b
<1>4. a \in Nat /\ a <= Burst
  <2> HIDE DEF b
  <2> QED BY <1>1, <1>2, <1>3
<1>5. n = Seq16(f + a)
  BY <1>1, SMT DEF a, b, Behind, Seq16, Numbers, Wrap
<1> HIDE DEF a, b, f
<1>6. n = Seq16(e + (d + a))
  BY <1>4, <1>5, NumbersAdd DEF f
<1> DEFINE k == d + a
<1>7. k \in Nat /\ k <= 2 * Burst + 3
  BY <1>1, <1>4
<1> HIDE DEF k
<1>8. k < Half /\ n = Seq16(e + k)
  BY <1>1, <1>6, <1>7 DEF k
<1>9. Behind(e, e) = 0
  BY BehindZero
<1>10. Behind(e, n) = IF 0 >= k THEN 0 - k ELSE 0 - k + Wrap
  BY <1>7, <1>8, <1>9, NumberMoves
<1>11. ~(Behind(e, n) >= 1 /\ Behind(e, n) <= Half)
  BY <1>1, <1>7, <1>8, <1>10
<1> QED BY <1>4, <1>6, <1>11

LEMMA OpensStay ==
  ASSUME NEW q \in Seq(Requests), NEW s \in Seq(Requests), \A r \in Range(s) : r.op = "burst",
         \A i, j \in DOMAIN q : i < j /\ q[j].op = "open" => q[i].op = "open"
  PROVE  LET t == q \o s IN \A i, j \in DOMAIN t : i < j /\ t[j].op = "open" => t[i].op = "open"
<1> DEFINE t == q \o s
<1>1. t \in Seq(Requests) /\ Len(t) = Len(q) + Len(s)
      /\ \A i \in 1 .. Len(q) + Len(s) : t[i] = IF i <= Len(q) THEN q[i] ELSE s[i - Len(q)]
  BY ConcatProperties
<1>2. DOMAIN q = 1..Len(q) /\ DOMAIN s = 1..Len(s) /\ Len(q) \in Nat /\ Len(s) \in Nat
  OBVIOUS
<1> HIDE DEF t
<1>3. DOMAIN t = 1 .. Len(q) + Len(s)
  BY <1>1
<1>4. \A j \in DOMAIN t : t[j].op = "open" => j \in DOMAIN q /\ t[j] = q[j]
  <2> SUFFICES ASSUME NEW j \in DOMAIN t, t[j].op = "open", j \notin DOMAIN q
               PROVE  FALSE
    BY <1>1, <1>2, <1>3
  <2>1. j - Len(q) \in DOMAIN s /\ t[j] = s[j - Len(q)]
    BY <1>1, <1>2, <1>3
  <2>2. s[j - Len(q)] \in Range(s)
    BY <2>1, InRange
  <2> QED BY <2>1, <2>2
<1>5. \A i, j \in DOMAIN t : i < j /\ j \in DOMAIN q => i \in DOMAIN q /\ t[i] = q[i]
  BY <1>1, <1>2, <1>3
<1>6. \A i, j \in DOMAIN t : i < j /\ t[j].op = "open" => t[i].op = "open"
  BY <1>4, <1>5
<1> QED BY <1>6 DEF t

LEMMA OpensKept ==
  ASSUME toVehicle \in Seq(Requests), OpensFirst, NEW t, Kept(toVehicle, t)
  PROVE  \A i, j \in DOMAIN t : i < j /\ t[j].op = "open" => t[i].op = "open"
<1> SUFFICES ASSUME NEW i \in DOMAIN t, NEW j \in DOMAIN t, i < j, t[j].op = "open"
             PROVE  t[i].op = "open"
  OBVIOUS
<1>1. PICK a \in DOMAIN toVehicle, b \in DOMAIN toVehicle :
          a <= b /\ t[i] = toVehicle[a] /\ t[j] = toVehicle[b]
  BY DEF Kept
<1>2. a = b \/ a < b
  <2>1. a \in Nat /\ b \in Nat
    OBVIOUS
  <2> QED BY <1>1, <2>1
<1> QED BY <1>1, <1>2 DEF OpensFirst

LEMMA Ahead == \A e \in Numbers : \A k \in Nat : k < Half => Seq16(Seq16(e + k) - e) = k
  BY SMT DEF Seq16, Numbers, Half

LEMMA ManagerDownloading ==
  ASSUME BurstsFit, IInv, IInv', Timely', Traffic, Listing, NoLeftover, Downloading,
         ManagerTurns, DownloadTurns, ~gcs.unsent, ~gcs'.unsent
  PROVE  Downloading'
<1>1. /\ gcs \in GcsType /\ gcs' \in GcsType /\ gcs.expected \in Numbers /\ gcs'.expected \in Numbers
      /\ toVehicle \in Seq(Requests) /\ toGcs \in Seq(Replies) /\ vehicle.last \in Replies
      /\ Burst \in Nat
  BY OwnFields, FtpAssumption DEF IInv, TypeOK, ManagerTurns, VehicleType
<1>2. vehicle' = vehicle /\ Answers' \subseteq Answers
  BY DEF ManagerTurns
<1>3. \A m \in Answers' : m \in Answers /\ m \in Replies /\ m.seq \in Numbers /\ Near(gcs'.expected, m.seq)
  BY <1>1, <1>2, InRange, ReplyTypes DEF Timely, Answers
<1>4. \A m \in Answers : DownloadTold(gcs, m)
  <2>1. \A m \in Answers : OpenTold(gcs, m)
    BY DEF Listing, Told
  <2>2. \A m \in Answers : gcs.stage = "burst" /\ m.op = "burst" /\ m.kind = "ack" /\ ~IsOld(gcs, m) =>
                               m.offset < gcs.dl.path
    BY DEF Downloading, BurstGoes
  <2> QED BY <2>1, <2>2 DEF OpenTold, DownloadTold
<1>5. DownloadGood(gcs')
  BY <1>4 DEF DownloadTurns, Downloading, Answers
<1>6. FileOpens'
  <2> SUFFICES ASSUME gcs'.stage = "open", NEW m \in Answers', m.seq = gcs'.expected,
                      m.op = "open", m.kind = "ack"
               PROVE  vehicle'.path = gcs'.dl.path /\ Served("open")'
    BY DEF FileOpens
  <2>1. CASE SameQuestion(gcs, gcs') /\ gcs'.expected = gcs.expected
    <3>1. gcs.stage = "open" /\ gcs'.dl.path = gcs.dl.path /\ m \in Answers /\ m.seq = gcs.expected
      BY <1>2, <2>1 DEF SameQuestion
    <3>2. vehicle.path = gcs.dl.path /\ Served("open")
      BY <3>1 DEF Downloading, FileOpens
    <3>3. Served("open")'
      BY <1>2, <2>1, <3>2, NowKept DEF ManagerTurns, AsksNow
    <3> QED BY <1>2, <3>1, <3>2, <3>3
  <2>2. CASE gcs'.expected = Seq16(gcs.expected + 2)
    <3>1. NoneYet
      BY <1>1, <2>2, NumberDiffers DEF ManagerTurns
    <3> QED BY <3>1 DEF NoneYet
  <2> QED BY <2>1, <2>2 DEF DownloadTurns
<1>7. BurstGoes'
  <2> SUFFICES ASSUME gcs'.stage = "burst" PROVE BurstGoes'
    BY DEF BurstGoes
  <2>1. gcs'.dl.path = gcs.dl.path
    BY DEF DownloadTurns
  <2>2. PICK s \in Seq(Requests) : toVehicle' = toVehicle \o s /\ \A r \in Range(s) : r.op = "burst"
    BY DEF DownloadTurns
  <2>3. Range(toVehicle') = Range(toVehicle) \cup Range(s)
    BY <1>1, <2>2, RangeOfMore
  <2>4. OpensFirst => OpensFirst'
    <3> SUFFICES ASSUME OpensFirst PROVE OpensFirst'
      OBVIOUS
    <3>1. \A i, j \in DOMAIN toVehicle : i < j /\ toVehicle[j].op = "open" => toVehicle[i].op = "open"
      BY DEF OpensFirst
    <3> DEFINE t == toVehicle \o s
    <3>2. \A i, j \in DOMAIN t : i < j /\ t[j].op = "open" => t[i].op = "open"
      BY <1>1, <2>2, <3>1, OpensStay
    <3>3. \A i, j \in DOMAIN toVehicle' : i < j /\ toVehicle'[j].op = "open" => toVehicle'[i].op = "open"
      BY <2>2, <3>2
    <3> QED BY <3>3 DEF OpensFirst
  <2>5. CASE gcs.stage = "burst"
    <3>1. vehicle.path = gcs.dl.path /\ OpensFirst
          /\ \A r \in Range(toVehicle) :
                 r.op = "burst" \/ (r.op = "open" /\ r.seq = Seq16(vehicle.last.seq - 1))
      BY <2>5 DEF Downloading, BurstGoes
    <3>2. \A r \in Range(toVehicle') :
                 r.op = "burst" \/ (r.op = "open" /\ r.seq = Seq16(vehicle'.last.seq - 1))
      BY <1>2, <2>2, <2>3, <3>1
    <3>3. PICK d \in Nat : d <= Burst + 3 /\ gcs'.expected = Seq16(gcs.expected + d)
      BY DEF DownloadTurns
    <3>4. \A m \in Answers' : ~IsOld(gcs', m) => ~IsOld(gcs, m)
      <4> SUFFICES ASSUME NEW m \in Answers', ~IsOld(gcs', m) PROVE ~IsOld(gcs, m)
        OBVIOUS
      <4>1. m \in Replies /\ m.seq \in Numbers /\ Near(gcs'.expected, m.seq)
        BY <1>3
      <4>2. ~(Behind(gcs'.expected, m.seq) >= 1 /\ Behind(gcs'.expected, m.seq) <= Half)
        BY <1>1, <4>1, OldIsBehind
      <4>3. ~(Behind(gcs.expected, m.seq) >= 1 /\ Behind(gcs.expected, m.seq) <= Half)
        BY <1>1, <3>3, <4>1, <4>2, BlockStays
      <4> QED BY <1>1, <4>1, <4>3, OldIsBehind
    <3>5. \A m \in Answers' : m.op = "burst" /\ m.kind = "ack" /\ ~IsOld(gcs', m) => m.offset < gcs'.dl.path
      BY <1>2, <1>4, <2>1, <2>5, <3>4 DEF DownloadTold
    <3> QED BY <1>2, <2>1, <2>4, <3>1, <3>2, <3>5 DEF BurstGoes
  <2>6. CASE gcs.stage # "burst"
    <3>1. gcs.stage = "open" /\ gcs'.expected = Seq16(gcs.expected + 2)
      BY <2>6 DEF DownloadTurns
    <3>2. PICK m \in Range(toGcs) : Fits(gcs, m, "open") /\ m.kind = "ack"
      BY <2>6 DEF DownloadTurns
    <3>3. vehicle.path = gcs.dl.path /\ Served("open")
      BY <3>1, <3>2 DEF Downloading, FileOpens, Fits, Answers
    <3>4. \A r \in Range(toVehicle) : r.op = "open" /\ r.seq = Seq16(vehicle.last.seq - 1)
      <4> SUFFICES ASSUME NEW r \in Range(toVehicle)
                   PROVE  r.op = "open" /\ r.seq = Seq16(vehicle.last.seq - 1)
        OBVIOUS
      <4>1. r.seq = Seq16(gcs.expected - 1) /\ r.seq = Seq16(vehicle.last.seq - 1)
        BY <3>3 DEF Served, AllNow
      <4>2. Asked(gcs, r)
        BY <4>1 DEF Traffic, AskedNow
      <4> QED BY <3>1, <4>1, <4>2 DEF Asked, OpcodeOf
    <3>5. OpensFirst
      BY <1>1, <3>4, InRange DEF OpensFirst
    <3>6. \A r \in Range(toVehicle') :
                 r.op = "burst" \/ (r.op = "open" /\ r.seq = Seq16(vehicle'.last.seq - 1))
      BY <1>2, <2>2, <2>3, <3>4
    <3>7. \A n \in Answers' : n.op = "burst" /\ n.kind = "ack" => IsOld(gcs', n)
      <4> SUFFICES ASSUME NEW n \in Answers', n.op = "burst", n.kind = "ack", ~IsOld(gcs', n) PROVE FALSE
        OBVIOUS
      <4> DEFINE two == 2
      <4>1. two \in Nat /\ two <= Burst + 3 /\ gcs'.expected = Seq16(gcs.expected + two)
        BY <1>1, <3>1
      <4>2. n \in Answers /\ n \in Replies /\ n.seq \in Numbers /\ Near(gcs'.expected, n.seq)
        BY <1>3
      <4>3. ~(Behind(gcs'.expected, n.seq) >= 1 /\ Behind(gcs'.expected, n.seq) <= Half)
        BY <1>1, <4>2, OldIsBehind
      <4> HIDE DEF two
      <4> DEFINE e == gcs.expected
                 q == n.seq
      <4>8. e \in Numbers /\ q \in Numbers /\ Near(Seq16(e + two), q)
            /\ ~(Behind(Seq16(e + two), q) >= 1 /\ Behind(Seq16(e + two), q) <= Half)
        BY <1>1, <4>1, <4>2, <4>3
      <4>9. \E a \in Nat : a <= Burst /\ q = Seq16(e + (two + a))
        <5> HIDE DEF e, q
        <5> QED BY <4>1, <4>8, BlockStays
      <4>4. PICK a \in Nat : a <= Burst /\ n.seq = Seq16(gcs.expected + (two + a))
        BY <4>9
      <4> DEFINE k == two + a
      <4>5. k \in Nat /\ k \in 2 .. Burst + 2
        BY <1>1, <4>4 DEF two
      <4> HIDE DEF k
      <4>6. k < Half
        BY <1>1, <4>5, Halves DEF BurstsFit
      <4>7. Seq16(n.seq - gcs.expected) = k
        BY <1>1, <4>4, <4>5, <4>6, Ahead DEF k
      <4> QED BY <3>1, <4>2, <4>5, <4>7 DEF NoLeftover
    <3> QED BY <1>2, <2>1, <2>4, <3>3, <3>5, <3>6, <3>7 DEF BurstGoes
  <2> QED BY <2>5, <2>6
<1> QED BY <1>5, <1>6, <1>7 DEF Downloading

\* When the first request is no "open", none of the others is.
LEMMA NoMoreOpens ==
  ASSUME toVehicle \in Seq(Requests), toVehicle # <<>>, OpensFirst, toVehicle[1].op # "open"
  PROVE  \A r \in Range(toVehicle) : r.op # "open"
<1> SUFFICES ASSUME NEW r \in Range(toVehicle), r.op = "open" PROVE FALSE
  OBVIOUS
<1>1. PICK j \in DOMAIN toVehicle : r = toVehicle[j]
  BY DEF Range
<1>2. 1 \in DOMAIN toVehicle /\ j \in Nat /\ j >= 1
  BY <1>1, KeptTail
<1>3. j # 1
  BY <1>1
<1>4. 1 < j
  BY <1>2, <1>3
<1> QED BY <1>1, <1>2, <1>4 DEF OpensFirst

LEMMA RestsDownloading ==
  ASSUME IInv, Downloading, VehicleRests
  PROVE  Downloading'
<1>1. /\ gcs' = gcs /\ Answers' \subseteq Answers /\ vehicle'.last = vehicle.last
      /\ vehicle'.path = vehicle.path /\ Range(toVehicle') \subseteq Range(toVehicle)
      /\ toVehicle \in Seq(Requests) /\ Kept(toVehicle, toVehicle')
  BY KeptRange DEF VehicleRests, IInv, TypeOK
<1>2. \A op : Served(op) => Served(op)'
  BY <1>1, NowKept
<1>3. FileOpens'
  BY <1>1, <1>2 DEF Downloading, FileOpens
<1>4. OpensFirst => OpensFirst'
  <2> SUFFICES ASSUME OpensFirst PROVE OpensFirst'
    OBVIOUS
  <2>1. PICK t : t = toVehicle'
    OBVIOUS
  <2>2. \A i, j \in DOMAIN t : i < j /\ t[j].op = "open" => t[i].op = "open"
    BY <1>1, <2>1, OpensKept
  <2> QED BY <2>1, <2>2 DEF OpensFirst
<1>5. BurstGoes'
  BY <1>1, <1>4 DEF Downloading, BurstGoes
<1> QED BY <1>1, <1>3, <1>5 DEF Downloading

LEMMA TailOpens ==
  ASSUME toVehicle \in Seq(Requests), toVehicle # <<>>, OpensFirst, toVehicle' = Tail(toVehicle)
  PROVE  OpensFirst'
<1>1. PICK t : t = Tail(toVehicle)
  OBVIOUS
<1>2. Kept(toVehicle, t)
  BY <1>1, KeptTail
<1>3. \A i, j \in DOMAIN t : i < j /\ t[j].op = "open" => t[i].op = "open"
  BY <1>2, OpensKept
<1> QED BY <1>1, <1>3 DEF OpensFirst

LEMMA RefusesDownloading ==
  ASSUME BurstsFit, IInv, Traffic, Downloading, VehicleRefuses
  PROVE  Downloading'
<1>0. PICK r : r = Head(toVehicle)
  OBVIOUS
<1> DEFINE a == Reply(r, 1, "nak")
<1>1. /\ toVehicle \in Seq(Requests) /\ vehicle \in VehicleType /\ gcs.expected \in Numbers
      /\ vehicle.last \in Replies
  BY OwnFields DEF IInv, TypeOK, VehicleType
<1>2. /\ gcs' = gcs /\ toVehicle # <<>> /\ toVehicle' = Tail(toVehicle)
      /\ Answers' \subseteq Answers \cup {a} /\ vehicle' = [vehicle EXCEPT !.last = a]
  BY <1>0 DEF VehicleRefuses
<1>3. /\ r = toVehicle[1] /\ r \in Requests /\ r.seq \in Numbers /\ r \in Range(toVehicle)
      /\ Range(toVehicle') \subseteq Range(toVehicle)
  BY <1>0, <1>1, <1>2, KeptTail, KeptRange, QueueFields
<1>4. a \in Replies /\ a.seq = Seq16(r.seq + 1) /\ a.op = r.op /\ a.kind = "nak"
  BY <1>1, <1>3, ReplyFields
<1> HIDE DEF a
<1>5. vehicle'.last = a /\ vehicle'.path = vehicle.path
  BY <1>1, <1>2 DEF VehicleType
<1>6. Answered(r)
  BY <1>2, <1>3, <1>4, <1>5 DEF Answered
<1>7. FileOpens'
  <2> SUFFICES ASSUME gcs.stage = "open", NEW m \in Answers',
                      m.seq = gcs.expected, m.op = "open", m.kind = "ack"
               PROVE  vehicle.path = gcs.dl.path /\ Served("open")'
    BY <1>2, <1>5 DEF FileOpens
  <2>1. m \in Answers
    BY <1>2, <1>4
  <2>2. vehicle.path = gcs.dl.path /\ Served("open")
    BY <2>1 DEF Downloading, FileOpens
  <2>3. r.seq = Seq16(gcs.expected - 1)
    BY <1>3, <2>2 DEF Served, AllNow
  <2>4. Asked(gcs, r) /\ Served(r.op)'
    BY <1>6, <2>3, AnsweredNow
  <2> QED BY <2>2, <2>4 DEF Asked, OpcodeOf
<1>8. BurstGoes'
  <2> SUFFICES ASSUME gcs.stage = "burst" PROVE BurstGoes'
    BY <1>2 DEF BurstGoes
  <2>1. /\ vehicle.path = gcs.dl.path /\ OpensFirst
        /\ \A q \in Range(toVehicle) :
               q.op = "burst" \/ (q.op = "open" /\ q.seq = Seq16(vehicle.last.seq - 1))
        /\ \A m \in Answers : m.op = "burst" /\ m.kind = "ack" /\ ~IsOld(gcs, m) =>
               m.offset < gcs.dl.path
    BY DEF Downloading, BurstGoes
  <2>2. OpensFirst'
    BY <1>1, <1>2, <2>1, TailOpens
  <2>3. \A q \in Range(toVehicle') :
            q.op = "burst" \/ (q.op = "open" /\ q.seq = Seq16(vehicle'.last.seq - 1))
    <3>1. CASE r.op = "open"
      <4>1. r.seq = Seq16(vehicle.last.seq - 1)
        BY <1>3, <2>1, <3>1
      <4>2. vehicle'.last.seq = vehicle.last.seq
        BY <1>1, <1>4, <1>5, <4>1, NumberBack, ReplyTypes
      <4> QED BY <1>3, <2>1, <4>2
    <3>2. CASE r.op # "open"
      <4>1. \A q \in Range(toVehicle) : q.op # "open"
        BY <1>1, <1>2, <1>3, <2>1, <3>2, NoMoreOpens
      <4> QED BY <1>3, <2>1, <4>1
    <3> QED BY <3>1, <3>2
  <2>4. \A m \in Answers' : m.op = "burst" /\ m.kind = "ack" /\ ~IsOld(gcs, m) => m.offset < gcs.dl.path
    BY <1>2, <1>4, <2>1
  <2> QED BY <1>2, <1>5, <2>1, <2>2, <2>3, <2>4 DEF BurstGoes
<1> QED BY <1>2, <1>7, <1>8 DEF Downloading

LEMMA ServesDownloading ==
  ASSUME BurstsFit, IInv, Traffic, Downloading, VehicleServes
  PROVE  Downloading'
<1>1. PICK r, s : Handles(r, s)
  BY ServesHandle
<1>2. /\ toVehicle \in Seq(Requests) /\ gcs.expected \in Numbers /\ vehicle.last \in Replies
  BY OwnFields DEF IInv, TypeOK, VehicleType
<1>3. /\ gcs' = gcs /\ r \in Range(toVehicle) /\ r.seq \in Numbers /\ toVehicle # <<>> /\ r = toVehicle[1]
      /\ r.seq # Seq16(vehicle.last.seq - 1) /\ Range(toVehicle') \subseteq Range(toVehicle)
      /\ \A m \in Answers' : m \in Answers \/ SingleAnswer(r, s, m) \/ (r.op = "burst" /\ BurstAnswer(r, m))
  BY <1>1 DEF Handles
<1>4. toVehicle' = Tail(toVehicle)
  BY DEF VehicleServes
<1>5. Past(gcs.expected, r.seq) /\ r.seq # gcs.expected
  BY <1>3 DEF Traffic, Numbered
<1>6. FileOpens'
  <2> SUFFICES ASSUME gcs.stage = "open", NEW m \in Answers',
                      m.seq = gcs.expected, m.op = "open", m.kind = "ack"
               PROVE  vehicle'.path = gcs.dl.path /\ Served("open")'
    BY <1>3 DEF FileOpens
  <2>1. m \notin Answers
    <3>1. SUFFICES ASSUME m \in Answers PROVE FALSE
      OBVIOUS
    <3>2. Served("open")
      BY <3>1 DEF Downloading, FileOpens
    <3> QED BY <1>3, <3>2 DEF Served, AllNow
  <2>2. SingleAnswer(r, s, m)
    BY <1>3, <2>1 DEF BurstAnswer
  <2>3. m.seq = Seq16(r.seq + 1) /\ r.op = "open"
    BY <2>2 DEF SingleAnswer
  <2>4. r.seq = Seq16(gcs.expected - 1)
    BY <1>2, <1>3, <1>5, <2>3, AnswerBehind
  <2>5. Answered(r)
    BY <1>1, <2>3 DEF Handles, Answered, SingleAnswer
  <2>6. Asked(gcs, r) /\ Served(r.op)'
    BY <2>4, <2>5, AnsweredNow
  <2>7. r.path = gcs.dl.path
    BY <2>3, <2>6 DEF Asked
  <2>8. vehicle'.path = r.path
    BY <1>1, <2>3 DEF Handles
  <2> QED BY <2>3, <2>6, <2>7, <2>8
<1>7. BurstGoes'
  <2> SUFFICES ASSUME gcs.stage = "burst" PROVE BurstGoes'
    BY <1>3 DEF BurstGoes
  <2>1. /\ vehicle.path = gcs.dl.path /\ OpensFirst
        /\ \A q \in Range(toVehicle) :
               q.op = "burst" \/ (q.op = "open" /\ q.seq = Seq16(vehicle.last.seq - 1))
        /\ \A m \in Answers : m.op = "burst" /\ m.kind = "ack" /\ ~IsOld(gcs, m) =>
               m.offset < gcs.dl.path
    BY DEF Downloading, BurstGoes
  <2>2. r.op = "burst"
    BY <1>3, <2>1
  <2>3. vehicle'.path = vehicle.path
    BY <1>1, <2>2 DEF Handles
  <2>4. \A q \in Range(toVehicle) : q.op # "open"
    BY <1>2, <1>3, <2>1, <2>2, NoMoreOpens
  <2>5. OpensFirst'
    BY <1>2, <1>3, <1>4, <2>1, TailOpens
  <2>6. \A q \in Range(toVehicle') : q.op = "burst"
    BY <1>3, <2>1, <2>4
  <2>7. \A m \in Answers' : m.op = "burst" /\ m.kind = "ack" /\ ~IsOld(gcs, m) => m.offset < gcs.dl.path
    <3> SUFFICES ASSUME NEW m \in Answers', m.op = "burst", m.kind = "ack", m \notin Answers
                 PROVE  m.offset < gcs.dl.path
      BY <2>1
    <3>1. ~SingleAnswer(r, s, m)
      BY <2>2 DEF SingleAnswer
    <3> QED BY <1>3, <2>1, <3>1 DEF BurstAnswer
  <2> QED BY <1>3, <2>1, <2>3, <2>5, <2>6, <2>7 DEF BurstGoes
<1> QED BY <1>3, <1>6, <1>7 DEF Downloading

LEMMA DownloadingStep ==
  ASSUME BurstsFit, IInv, IInv', Timely, Timely', NoLeftover, gcs.unsent \/ Traffic,
         gcs.unsent \/ Listing, gcs.unsent \/ Downloading, [Next]_vars
  PROVE  (gcs.unsent \/ Downloading)'
<1>1. CASE Managed
  <2>1. gcs'.unsent \/ (Traffic /\ ~gcs.unsent /\ ManagerTurns /\ DownloadTurns)
    BY <1>1, ManagedDownloads
  <2> QED BY <2>1, ManagerDownloading
<1>2. CASE VehicleRests \/ VehicleRefuses \/ VehicleServes
  <2>1. gcs' = gcs
    BY <1>2 DEF VehicleRests, VehicleRefuses, VehicleServes
  <2>2. Traffic /\ Downloading => Downloading'
    BY <1>2, RestsDownloading, RefusesDownloading, ServesDownloading
  <2> QED BY <2>1, <2>2
<1> QED BY <1>1, <1>2, StepCases

LEMMA DownloadingHolds ==
  ASSUME BurstsFit
  PROVE  Spec /\ []Timely /\ []NoLeftover => [](gcs.unsent \/ Downloading)
<1> DEFINE T == gcs.unsent \/ Traffic
           L == gcs.unsent \/ Listing
           D == gcs.unsent \/ Downloading
<1>1. Init => D
  <2> SUFFICES ASSUME Init PROVE Downloading
    OBVIOUS
  <2>1. gcs.stage = "idle" /\ gcs.machine = "none" /\ gcs.call.kind = "none"
    BY DEF Init, NoCall
  <2> QED BY <2>1 DEF Downloading, FileOpens, BurstGoes, DownloadGood
<1>2. IInv /\ IInv' /\ Timely /\ Timely' /\ NoLeftover /\ T /\ L /\ D /\ [Next]_vars => D'
  BY DownloadingStep
<1>3. Spec => []IInv
  BY InvariantHolds
<1>4. Spec /\ []Timely => []T
  BY TrafficHolds
<1>5. Spec /\ []Timely => []L
  BY ListingHolds
<1> HIDE DEF T, L, D
<1>6. Spec /\ []Timely /\ []NoLeftover => []D
  BY <1>1, <1>2, <1>3, <1>4, <1>5, PTL DEF Spec
<1> QED BY <1>6 DEF D

\* A download has no block that is not of its file, and with the size check one that
\* ends without an error has written every block, whatever is lost, repeated or
\* overtaken (_burstReadFileAckOrNak, _fillMissingBlocksAckOrNak), as long as no block
\* of an earlier burst has one of the numbers that the next burst will use.
THEOREM DownloadingIsExact ==
  ASSUME BurstsFit
  PROVE  Spec /\ []Timely /\ []NoLeftover => []DownloadIsExact
<1> DEFINE D == gcs.unsent \/ Downloading
<1>1. IInv /\ NoGap /\ D => DownloadIsExact
  <2> SUFFICES ASSUME IInv, NoGap, D PROVE DownloadIsExact
    OBVIOUS
  <2>1. gcs.dl.offset \in Nat /\ gcs.dl.path \in Nat
    BY OwnFields, SizesAreNumbers DEF IInv, TypeOK
  <2>2. ASSUME gcs.stage \in {"burst", "fill"}, ~gcs.unsent
        PROVE  gcs.dl.written \cup HoleBlocks(gcs.dl.holes) \subseteq Blocks(gcs.dl.path)
    <3>1. PICK n \in Nat : n <= gcs.dl.path /\ Covered(gcs.dl, n)
      BY <2>1, <2>2 DEF Downloading, DownloadGood, IInv, Recorded
    <3>2. Blocks(n) \subseteq Blocks(gcs.dl.path)
      BY <2>1, <3>1 DEF Blocks
    <3> QED BY <3>1, <3>2 DEF Covered
  <2>3. EndedWell("download") /\ gcs.dl.checksize => gcs.dl.written = Blocks(gcs.call.size)
    BY DEF EndedWell, Downloading, DownloadGood
  <2> QED BY <2>2, <2>3 DEF DownloadIsExact
<1>2. Spec /\ []Timely /\ []NoLeftover => []D
  BY DownloadingHolds
<1>3. Spec => []IInv
  BY InvariantHolds
<1>4. Spec => []NoGap
  BY DownloadLeavesNoGap
<1> HIDE DEF D
<1> QED BY <1>1, <1>2, <1>3, <1>4, PTL
=============================================================================
