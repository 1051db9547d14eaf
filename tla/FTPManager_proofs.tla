------------------------- MODULE FTPManager_proofs -------------------------
(* Theorems about FTPManager, for every choice of the constants. *)
EXTENDS FTPManager, SequenceTheorems, FiniteSetTheorems, TLAPS

\* The stages of each machine.
StagesOf(machine) ==
    CASE machine = "download"      -> {"open", "burst", "fill", "reset"}
      [] machine = "upload"        -> {"create", "write", "reset"}
      [] machine = "list"          -> {"list"}
      [] machine = "delete"        -> {"remove"}
      [] machine = "abortDownload" -> {"terminate"}
      [] machine = "abortUpload"   -> {"terminateUpload"}
      [] machine = "none"          -> {}

\* The kind of call that a machine serves.
KindOf(machine) ==
    CASE machine = "abortDownload" -> "download"
      [] machine = "abortUpload"   -> "upload"
      [] OTHER                     -> machine

\* While a machine is at work its caller waits, alone, and has heard nothing.
Working(g) ==
    /\ g.stage \in StagesOf(g.machine)
    /\ ~g.orphan => /\ g.signals = <<>> /\ g.waiting = {g.call.kind}
                    /\ g.call.kind = KindOf(g.machine)

\* Otherwise nobody waits, and the last call was ended by one signal of its kind.
Resting(g) ==
    /\ g.stage = "idle" /\ ~g.timer
    /\ ~g.orphan =>
         /\ g.waiting = {}
         /\ IF g.machine # "none" \/ g.call = NoCall THEN g.signals = <<>>
            ELSE \E o \in Outcomes : g.signals = <<<<g.call.kind, o>>>>

Sound(g) == Working(g) \/ Resting(g)

\* The holes lie in the order of their blocks.
Ordered(holes) ==
    \A i, j \in DOMAIN holes : i < j => holes[i].offset + holes[i].count <= holes[j].offset

\* The first n blocks are written or recorded as missing.
Covered(d, n) ==
    /\ d.written \cup HoleBlocks(d.holes) = Blocks(n) /\ d.written \cap HoleBlocks(d.holes) = {}
    /\ IsFiniteSet(d.written) /\ d.bytes = Cardinality(d.written)
    /\ Ordered(d.holes)

\* What was read is recorded; the block read again is the first that is missing.
Recorded(g) ==
    /\ g.stage = "open" => g.dl.written = {} /\ g.dl.holes = <<>> /\ g.dl.bytes = 0
    /\ g.stage = "burst" => Covered(g.dl, g.dl.offset)
    /\ g.stage = "fill" => /\ \E n \in Nat : Covered(g.dl, n)
                          /\ g.dl.holes # <<>> /\ g.dl.offset = Head(g.dl.holes).offset

IInv == TypeOK /\ Sound(gcs) /\ Recorded(gcs)

-----------------------------------------------------------------------------
(* Numbers, requests, and what a handler leaves to the call it serves *)

LEMMA Seq16Type == \A n \in Int : Seq16(n) \in Numbers
  BY DEF Seq16, Numbers

LEMMA NumbersMove ==
  \A n \in Numbers : Seq16(n + 1) \in Numbers /\ Seq16(n + 2) \in Numbers /\ Seq16(n - 2) \in Numbers
<1>1. \A n \in Numbers : n + 1 \in Int /\ n + 2 \in Int /\ n - 2 \in Int
  BY DEF Numbers
<1> QED BY <1>1, Seq16Type

LEMMA RetriesMove ==
  \A n \in Retries : /\ n < MaxRetry => n + 1 \in Retries
                     /\ n < MaxRetry \/ n >= MaxRetry
  BY FtpAssumption DEF Retries

\* h serves the same call as g, at another stage.
SameCall(g, h) ==
    /\ h.machine = g.machine /\ h.call = g.call /\ h.signals = g.signals
    /\ h.waiting = g.waiting /\ h.orphan = g.orphan

SameFiles(g, h) == h.dl = g.dl /\ h.ul = g.ul /\ h.ls = g.ls

LEMMA RequestTypes ==
  ASSUME NEW op \in Opcodes, NEW s \in Sessions \cup {0}, NEW o \in Nat, NEW n \in Sizes \cup {0}
  PROVE  /\ Request(op) \in Requests /\ Named(op, n) \in Requests
         /\ InSession(op, s) \in Requests /\ At(op, s, o) \in Requests
         /\ [Named(op, n) EXCEPT !.offset = o] \in Requests
<1>0. 0 \in Numbers /\ 0 \in Nat
  BY DEF Numbers
<1>1. Request(op) \in Requests
  BY <1>0 DEF Request, Requests
<1>2. Named(op, n) \in Requests
  BY <1>1 DEF Requests, Named
<1>3. InSession(op, s) \in Requests
  BY <1>1 DEF Requests, InSession
<1>4. At(op, s, o) \in Requests
  BY <1>3 DEF Requests, At
<1>5. [Named(op, n) EXCEPT !.offset = o] \in Requests
  BY <1>2 DEF Requests
<1> QED BY <1>1, <1>2, <1>3, <1>4, <1>5

LEMMA SendDoes ==
  ASSUME NEW g \in GcsType, NEW r \in Requests
  PROVE  LET h == sendRequestExpectAck(g, r) IN
         h \in GcsType /\ SameCall(g, h) /\ SameFiles(g, h) /\ h.stage = g.stage
<1> DEFINE q == [r EXCEPT !.seq = Seq16(g.expected + 1)]
           sent == [g EXCEPT !.timer = TRUE, !.expected = Seq16(g.expected + 2), !.out = <<q>>]
           kept == [g EXCEPT !.timer = TRUE, !.unsent = TRUE]
<1>1. /\ Seq16(g.expected + 1) \in Numbers /\ Seq16(g.expected + 2) \in Numbers
  <2>1. g.expected \in Numbers
    BY DEF GcsType
  <2> QED BY <2>1, NumbersMove
<1>2. <<q>> \in Seq(Requests)
  <2>1. q \in Requests
    BY <1>1 DEF Requests
  <2> QED BY <2>1
<1>3. sendRequestExpectAck(g, r) = IF linked THEN sent ELSE kept
  BY DEF sendRequestExpectAck
<1> HIDE DEF q
<1>4. sent \in GcsType /\ SameCall(g, sent) /\ SameFiles(g, sent) /\ sent.stage = g.stage
  BY <1>1, <1>2 DEF GcsType, SameCall, SameFiles
<1>5. kept \in GcsType /\ SameCall(g, kept) /\ SameFiles(g, kept) /\ kept.stage = g.stage
  BY DEF GcsType, SameCall, SameFiles
<1> QED BY <1>3, <1>4, <1>5

LEMMA AtStageDoes ==
  ASSUME NEW g \in GcsType, NEW s \in Stages
  PROVE  LET h == [g EXCEPT !.stage = s] IN
         h \in GcsType /\ SameCall(g, h) /\ SameFiles(g, h) /\ h.stage = s
  BY DEF GcsType, SameCall, SameFiles

\* A worker sends a request at its stage.
Sends(g, h, s) == h \in GcsType /\ SameCall(g, h) /\ h.stage = s

LEMMA SendsAt ==
  ASSUME NEW g \in GcsType, NEW s \in Stages, NEW r \in Requests
  PROVE  LET h == sendRequestExpectAck([g EXCEPT !.stage = s], r) IN
         Sends(g, h, s) /\ SameFiles(g, h)
<1> DEFINE k == [g EXCEPT !.stage = s]
<1>1. k \in GcsType /\ SameCall(g, k) /\ SameFiles(g, k) /\ k.stage = s
  BY AtStageDoes
<1> HIDE DEF k
<1>2. LET h == sendRequestExpectAck(k, r) IN
      h \in GcsType /\ SameCall(k, h) /\ SameFiles(k, h) /\ h.stage = k.stage
  BY <1>1, SendDoes
<1>3. LET h == sendRequestExpectAck(k, r) IN Sends(g, h, s) /\ SameFiles(g, h)
  BY <1>1, <1>2 DEF Sends, SameCall, SameFiles
<1> QED BY <1>3 DEF k

LEMMA SameNumberDoes ==
  ASSUME NEW g \in GcsType, NEW firstRequest \in BOOLEAN
  PROVE  LET h == SameNumber(g, firstRequest) IN
         h \in GcsType /\ SameCall(g, h) /\ SameFiles(g, h) /\ h.stage = g.stage
<1>1. Seq16(g.expected - 2) \in Numbers
  <2>1. g.expected \in Numbers
    BY DEF GcsType
  <2> QED BY <2>1, NumbersMove
<1>2. 0 \in Retries
  BY FtpAssumption DEF Retries
<1>3. CASE firstRequest
  BY <1>2, <1>3 DEF SameNumber, GcsType, SameCall, SameFiles
<1>4. CASE ~firstRequest
  BY <1>1, <1>4 DEF SameNumber, GcsType, SameCall, SameFiles
<1> QED BY <1>3, <1>4

-----------------------------------------------------------------------------
(* Changes of the data of a transfer *)

Keeps(g, h) == h \in GcsType /\ SameCall(g, h) /\ h.stage = g.stage

LEMMA KeepsData ==
  ASSUME NEW g \in GcsType
  PROVE  /\ \A d \in DownloadType : Keeps(g, [g EXCEPT !.dl = d])
         /\ \A u \in UploadType : Keeps(g, [g EXCEPT !.ul = u])
         /\ \A l \in ListType : Keeps(g, [g EXCEPT !.ls = l])
         /\ \A n \in Numbers : Keeps(g, [g EXCEPT !.expected = n])
         /\ \A n \in Retries : Keeps(g, [g EXCEPT !.retry = n])
         /\ \A b \in BOOLEAN : Keeps(g, [g EXCEPT !.timer = b])
         /\ \A b \in BOOLEAN : Keeps(g, [g EXCEPT !.withTime = b])
         /\ \A b \in BOOLEAN : Keeps(g, [g EXCEPT !.del = b])
<1>1. \A d \in DownloadType : Keeps(g, [g EXCEPT !.dl = d])
  BY DEF Keeps, SameCall, GcsType
<1>2. \A u \in UploadType : Keeps(g, [g EXCEPT !.ul = u])
  BY DEF Keeps, SameCall, GcsType
<1>3. \A l \in ListType : Keeps(g, [g EXCEPT !.ls = l])
  BY DEF Keeps, SameCall, GcsType
<1>4. \A n \in Numbers : Keeps(g, [g EXCEPT !.expected = n])
  BY DEF Keeps, SameCall, GcsType
<1>5. \A n \in Retries : Keeps(g, [g EXCEPT !.retry = n])
  BY DEF Keeps, SameCall, GcsType
<1>6. \A b \in BOOLEAN : Keeps(g, [g EXCEPT !.timer = b])
  BY DEF Keeps, SameCall, GcsType
<1>7. \A b \in BOOLEAN : Keeps(g, [g EXCEPT !.withTime = b])
  BY DEF Keeps, SameCall, GcsType
<1>8. \A b \in BOOLEAN : Keeps(g, [g EXCEPT !.del = b])
  BY DEF Keeps, SameCall, GcsType
<1> QED BY <1>1, <1>2, <1>3, <1>4, <1>5, <1>6, <1>7, <1>8

LEMMA KeepsThenSends ==
  ASSUME NEW g, NEW k, NEW h, NEW s, Keeps(g, k), Sends(k, h, s)
  PROVE  Sends(g, h, s)
  BY DEF Keeps, Sends, SameCall

LEMMA KeepsThenKeeps ==
  ASSUME NEW g, NEW k, NEW h, Keeps(g, k), Keeps(k, h)
  PROVE  Keeps(g, h)
  BY DEF Keeps, SameCall

-----------------------------------------------------------------------------
(* The end of a call *)

Ends(g, h, kind) ==
    /\ h \in GcsType /\ h.machine = "none" /\ h.stage = "idle" /\ ~h.timer
    /\ h.call = g.call /\ h.orphan = g.orphan /\ h.waiting = g.waiting \ {kind}
    /\ \E o \in Outcomes : h.signals = Append(g.signals, <<kind, o>>)

\* g, with nothing in progress any more.
Quiet(g, k) ==
    /\ k \in GcsType /\ k.machine = "none" /\ k.stage = "idle" /\ ~k.timer
    /\ k.call = g.call /\ k.orphan = g.orphan /\ k.waiting = g.waiting /\ k.signals = g.signals

LEMMA IdleDoes ==
  ASSUME NEW g \in GcsType
  PROVE  Quiet(g, Idle(g))
  BY DEF Quiet, Idle, GcsType, Machines, Stages

LEMMA QuietData ==
  ASSUME NEW g, NEW k, Quiet(g, k)
  PROVE  /\ \A d \in DownloadType : Quiet(g, [k EXCEPT !.dl = d])
         /\ \A u \in UploadType : Quiet(g, [k EXCEPT !.ul = u])
         /\ \A l \in ListType : Quiet(g, [k EXCEPT !.ls = l])
         /\ Quiet(g, [k EXCEPT !.del = FALSE])
<1>1. \A d \in DownloadType : Quiet(g, [k EXCEPT !.dl = d])
  BY DEF Quiet, GcsType
<1>2. \A u \in UploadType : Quiet(g, [k EXCEPT !.ul = u])
  BY DEF Quiet, GcsType
<1>3. \A l \in ListType : Quiet(g, [k EXCEPT !.ls = l])
  BY DEF Quiet, GcsType
<1>4. Quiet(g, [k EXCEPT !.del = FALSE])
  BY DEF Quiet, GcsType
<1> QED BY <1>1, <1>2, <1>3, <1>4

LEMMA SignalDoes ==
  ASSUME NEW g, NEW k, Quiet(g, k), NEW kind \in Operations, NEW o \in Outcomes
  PROVE  Ends(g, Signal(k, kind, o), kind)
<1> DEFINE ss == Append(k.signals, <<kind, o>>)
           ww == k.waiting \ {kind}
           h == [k EXCEPT !.signals = ss, !.waiting = ww]
<1>1. k \in GcsType
  BY DEF Quiet
<1>2. ss \in Seq(Operations \X Outcomes) /\ ww \in SUBSET Operations
  <2>1. k.signals \in Seq(Operations \X Outcomes) /\ k.waiting \in SUBSET Operations
    BY <1>1 DEF GcsType
  <2>2. ss \in Seq(Operations \X Outcomes)
    BY <2>1
  <2>3. ww \in SUBSET Operations
    BY <2>1
  <2> QED BY <2>2, <2>3
<1>3. Signal(k, kind, o) = h
  BY DEF Signal
<1> HIDE DEF ss, ww
<1>4. /\ h \in GcsType /\ h.machine = k.machine /\ h.stage = k.stage /\ h.timer = k.timer
      /\ h.call = k.call /\ h.orphan = k.orphan /\ h.waiting = ww /\ h.signals = ss
  BY <1>1, <1>2 DEF GcsType
<1> HIDE DEF h
<1>5. h.waiting = g.waiting \ {kind} /\ h.signals = Append(g.signals, <<kind, o>>)
  BY <1>4 DEF ss, ww, Quiet
<1>6. Ends(g, h, kind)
  BY <1>4, <1>5 DEF Ends, Quiet
<1> QED BY <1>3, <1>6

LEMMA NothingTypes ==
  /\ NoDownload \in DownloadType /\ NoUpload \in UploadType /\ NoList \in ListType
  /\ NoCall \in [kind : Operations \cup {"none"}, size : Sizes \cup {0}]
<1>1. NoDownload \in DownloadType
  BY DEF NoDownload, DownloadType
<1>2. NoUpload \in UploadType
  BY DEF NoUpload, UploadType
<1>3. NoList \in ListType
  BY DEF NoList, ListType
<1>4. NoCall \in [kind : Operations \cup {"none"}, size : Sizes \cup {0}]
  BY DEF NoCall
<1> QED BY <1>1, <1>2, <1>3, <1>4

LEMMA DownloadEnds ==
  ASSUME NEW g \in GcsType, NEW o \in Outcomes
  PROVE  Ends(g, downloadComplete(g, o), "download")
<1> DEFINE k == Idle(g)
           d == [k.dl EXCEPT !.open = FALSE,
                             !.written = IF g.dl.open /\ o # "ok" THEN {} ELSE @]
<1>1. Quiet(g, k)
  BY IdleDoes
<1>2. k.dl \in DownloadType
  BY <1>1 DEF Quiet, GcsType
<1>3. downloadComplete(g, o) = Signal([k EXCEPT !.dl = d], "download", o)
  BY DEF downloadComplete
<1> HIDE DEF k
<1>4. d \in DownloadType
  BY <1>2 DEF DownloadType
<1> HIDE DEF d
<1>5. Quiet(g, [k EXCEPT !.dl = d])
  BY <1>1, <1>4, QuietData
<1> QED BY <1>3, <1>5, SignalDoes DEF Operations

LEMMA ListEnds ==
  ASSUME NEW g \in GcsType, NEW o \in Outcomes
  PROVE  Ends(g, listDirectoryComplete(g, o), "list")
<1> DEFINE l == [NoList EXCEPT !.entries = IF o = "ok" THEN g.ls.entries ELSE <<>>]
<1>1. l \in ListType
  <2>1. g.ls.entries \in Seq(Nat) /\ <<>> \in Seq(Nat)
    BY DEF GcsType, ListType
  <2>2. \A es \in Seq(Nat) : [NoList EXCEPT !.entries = es] \in ListType
    BY NothingTypes DEF ListType
  <2> QED BY <2>1, <2>2
<1>2. listDirectoryComplete(g, o) = Signal([Idle(g) EXCEPT !.ls = l], "list", o)
  BY DEF listDirectoryComplete
<1> HIDE DEF l
<1>3. Quiet(g, [Idle(g) EXCEPT !.ls = l])
  BY <1>1, IdleDoes, QuietData
<1> QED BY <1>2, <1>3, SignalDoes DEF Operations

LEMMA DeleteEnds ==
  ASSUME NEW g \in GcsType, NEW o \in Outcomes
  PROVE  Ends(g, deleteComplete(g, o), "delete")
<1>1. Quiet(g, [Idle(g) EXCEPT !.del = FALSE])
  BY IdleDoes, QuietData
<1> QED BY <1>1, SignalDoes DEF deleteComplete, Operations

LEMMA UploadEnds ==
  ASSUME NEW g \in GcsType, NEW o \in Outcomes
  PROVE  Ends(g, uploadComplete(g, o), "upload")
<1>1. Quiet(g, [Idle(g) EXCEPT !.ul = NoUpload])
  BY IdleDoes, QuietData, NothingTypes
<1> QED BY <1>1, SignalDoes DEF uploadComplete, Operations

LEMMA UploadFinalizes ==
  ASSUME NEW g \in GcsType
  PROVE  Ends(g, uploadFinalize(g), "upload")
  BY UploadEnds DEF uploadFinalize, Outcomes

-----------------------------------------------------------------------------
(* The requests of the stages *)

LEMMA OwnFields ==
  ASSUME NEW g \in GcsType
  PROVE  /\ g.dl \in DownloadType /\ g.ul \in UploadType /\ g.ls \in ListType
         /\ g.dl.path \in Sizes \cup {0} /\ g.dl.session \in Sessions \cup {0}
         /\ g.dl.offset \in Nat /\ g.ul.session \in Sessions \cup {0} /\ g.ul.sent \in Nat
         /\ g.ls.path \in Sizes \cup {0} /\ g.ls.offset \in Nat
         /\ g.expected \in Numbers /\ g.retry \in Retries
<1>1. /\ g.dl \in DownloadType /\ g.ul \in UploadType /\ g.ls \in ListType
      /\ g.expected \in Numbers /\ g.retry \in Retries
  BY DEF GcsType
<1> QED BY <1>1 DEF DownloadType, UploadType, ListType

LEMMA OpenSends ==
  ASSUME NEW g \in GcsType
  PROVE  LET h == openFileROBegin(g) IN Sends(g, h, "open") /\ h.dl = g.dl
<1>1. Named("open", g.dl.path) \in Requests
  BY OwnFields, RequestTypes DEF Opcodes
<1>2. "open" \in Stages
  BY DEF Stages
<1> QED BY <1>1, <1>2, SendsAt DEF openFileROBegin, SameFiles

LEMMA ResetSends ==
  ASSUME NEW g \in GcsType
  PROVE  Sends(g, resetSessionsBegin(g), "reset")
<1>1. Request("reset") \in Requests
  BY RequestTypes DEF Opcodes
<1> QED BY <1>1, SendsAt DEF resetSessionsBegin, Stages

LEMMA CreateSends ==
  ASSUME NEW g \in GcsType
  PROVE  Sends(g, createFileBegin(g), "create")
<1>1. Request("create") \in Requests
  BY RequestTypes DEF Opcodes
<1> QED BY <1>1, SendsAt DEF createFileBegin, Stages

LEMMA RemoveSends ==
  ASSUME NEW g \in GcsType
  PROVE  Sends(g, deleteFileBegin(g), "remove")
<1>1. Request("remove") \in Requests
  BY RequestTypes DEF Opcodes
<1> QED BY <1>1, SendsAt DEF deleteFileBegin, Stages

LEMMA TerminateSends ==
  ASSUME NEW g \in GcsType
  PROVE  /\ Sends(g, terminateSessionBegin(g), "terminate")
         /\ Sends(g, terminateUploadSessionBegin(g), "terminateUpload")
<1>1. /\ InSession("terminate", g.dl.session) \in Requests
      /\ InSession("terminate", g.ul.session) \in Requests
  BY OwnFields, RequestTypes DEF Opcodes
<1>2. Sends(g, terminateSessionBegin(g), "terminate")
  BY <1>1, SendsAt DEF terminateSessionBegin, Stages
<1>3. Sends(g, terminateUploadSessionBegin(g), "terminateUpload")
  BY <1>1, SendsAt DEF terminateUploadSessionBegin, Stages
<1> QED BY <1>2, <1>3

\* A worker that chooses its number and then its stage.
LEMMA WorkerFrom ==
  ASSUME NEW g \in GcsType, NEW first \in BOOLEAN, NEW s \in Stages
  PROVE  LET k == [SameNumber(g, first) EXCEPT !.stage = s] IN
         k \in GcsType /\ SameCall(g, k) /\ SameFiles(g, k) /\ k.stage = s
<1> DEFINE n == SameNumber(g, first)
           k == [n EXCEPT !.stage = s]
<1>1. n \in GcsType /\ SameCall(g, n) /\ SameFiles(g, n) /\ n.stage = g.stage
  BY SameNumberDoes
<1> HIDE DEF n
<1>2. k \in GcsType /\ SameCall(g, k) /\ SameFiles(g, k) /\ k.stage = s
  BY <1>1, AtStageDoes DEF SameCall, SameFiles
<1> QED BY <1>2 DEF n

LEMMA SendsFrom ==
  ASSUME NEW g, NEW k \in GcsType, SameCall(g, k), NEW e, Keeps(k, e), NEW r \in Requests
  PROVE  LET h == sendRequestExpectAck(e, r) IN Sends(g, h, k.stage) /\ SameFiles(e, h)
<1>1. e \in GcsType /\ SameCall(k, e) /\ e.stage = k.stage
  BY DEF Keeps
<1> QED BY <1>1, SendDoes DEF Sends, SameCall

LEMMA WorkerSends ==
  ASSUME NEW g \in GcsType, NEW first \in BOOLEAN, NEW s \in Stages, NEW r \in Requests
  PROVE  LET h == sendRequestExpectAck([SameNumber(g, first) EXCEPT !.stage = s], r) IN
         Sends(g, h, s) /\ h.dl = g.dl
<1> DEFINE k == [SameNumber(g, first) EXCEPT !.stage = s]
<1>1. k \in GcsType /\ SameCall(g, k) /\ k.stage = s /\ k.dl = g.dl
  BY WorkerFrom DEF SameFiles
<1> HIDE DEF k
<1>2. LET h == sendRequestExpectAck(k, r) IN Sends(g, h, s) /\ h.dl = g.dl
  BY <1>1, SendDoes DEF Sends, SameCall, SameFiles
<1> QED BY <1>2 DEF k

LEMMA BurstSends ==
  ASSUME NEW g \in GcsType, NEW first \in BOOLEAN
  PROVE  LET h == burstReadFileWorker(g, first) IN Sends(g, h, "burst") /\ h.dl = g.dl
<1>1. At("burst", g.dl.session, g.dl.offset) \in Requests
  BY OwnFields, RequestTypes DEF Opcodes
<1>2. "burst" \in Stages
  BY DEF Stages
<1> QED BY <1>1, <1>2, WorkerSends DEF burstReadFileWorker

LEMMA ListSends ==
  ASSUME NEW g \in GcsType, NEW first \in BOOLEAN
  PROVE  Sends(g, listDirectoryWorker(g, first), "list")
<1>1. ListOpcode(g) \in Opcodes
  BY DEF ListOpcode, Opcodes
<1>2. [Named(ListOpcode(g), g.ls.path) EXCEPT !.offset = g.ls.offset] \in Requests
  BY <1>1, OwnFields, RequestTypes
<1>3. "list" \in Stages
  BY DEF Stages
<1> QED BY <1>2, <1>3, WorkerSends DEF listDirectoryWorker

\* What a stage's worker leads to: its own request, the reset that ends the
\* transfer, or the end of the call.
LEMMA FillDoes ==
  ASSUME NEW g \in GcsType, NEW first \in BOOLEAN
  PROVE  LET h == fillMissingBlocksWorker(g, first) IN
         \/ /\ Sends(g, h, "fill") /\ g.dl.holes # <<>>
            /\ h.dl = [g.dl EXCEPT !.offset = Head(g.dl.holes).offset]
         \/ Sends(g, h, "reset") \/ Ends(g, h, "download")
<1>1. CASE g.dl.holes # <<>>
  <2> DEFINE o == Head(g.dl.holes).offset
             d == [g.dl EXCEPT !.offset = o]
             r == At("read", g.dl.session, o)
  <2>1. o \in Nat
    <3>1. g.dl.holes \in Seq(Holes)
      BY OwnFields DEF DownloadType
    <3>2. Head(g.dl.holes) \in Holes
      BY <1>1, <3>1, HeadTailProperties
    <3> QED BY <3>2 DEF Holes
  <2>2. fillMissingBlocksWorker(g, first)
        = sendRequestExpectAck([SameNumber(g, first) EXCEPT !.stage = "fill", !.dl.offset = o], r)
    BY <1>1 DEF fillMissingBlocksWorker
  <2> HIDE DEF o
  <2>3. r \in Requests
    BY <2>1, OwnFields, RequestTypes DEF Opcodes
  <2>4. d \in DownloadType
    BY <1>1, <2>1, OwnFields DEF DownloadType
  <2> DEFINE k == [SameNumber(g, first) EXCEPT !.stage = "fill"]
             e == [k EXCEPT !.dl = d]
  <2>5. k \in GcsType /\ SameCall(g, k) /\ k.stage = "fill" /\ k.dl = g.dl
    <3>1. "fill" \in Stages
      BY DEF Stages
    <3> QED BY <3>1, WorkerFrom DEF SameFiles
  <2>6. [SameNumber(g, first) EXCEPT !.stage = "fill", !.dl.offset = o] = e
    BY <2>5
  <2> HIDE DEF d, k, r
  <2>7. Keeps(k, e) /\ e.dl = d
    BY <2>4, <2>5, KeepsData DEF GcsType
  <2> HIDE DEF e
  <2>8. LET h == sendRequestExpectAck(e, r) IN Sends(g, h, "fill") /\ h.dl = d
    BY <2>3, <2>5, <2>7, SendsFrom DEF SameFiles
  <2> QED BY <1>1, <2>2, <2>6, <2>8 DEF d, o
<1>2. CASE g.dl.holes = <<>> /\ FullFile(g)
  BY <1>2, ResetSends DEF fillMissingBlocksWorker
<1>3. CASE g.dl.holes = <<>> /\ ~FullFile(g)
  BY <1>3, DownloadEnds DEF fillMissingBlocksWorker, Outcomes
<1> QED BY <1>1, <1>2, <1>3

LEMMA WriteDoes ==
  ASSUME NEW g \in GcsType, NEW first \in BOOLEAN
  PROVE  LET h == writeFileWorker(g, first) IN
         Sends(g, h, "write") \/ Sends(g, h, "reset")
<1>1. CASE g.ul.sent >= g.ul.size
  BY <1>1, ResetSends DEF writeFileWorker
<1>2. CASE ~(g.ul.sent >= g.ul.size)
  <2> DEFINE u == [g.ul EXCEPT !.chunk = 1]
             r == At("write", g.ul.session, g.ul.sent)
             k == [SameNumber(g, first) EXCEPT !.stage = "write"]
             e == [k EXCEPT !.ul = u]
  <2>1. u \in UploadType
    BY OwnFields DEF UploadType
  <2>2. r \in Requests
    BY OwnFields, RequestTypes DEF Opcodes
  <2>3. writeFileWorker(g, first)
        = sendRequestExpectAck([SameNumber(g, first) EXCEPT !.stage = "write", !.ul.chunk = 1], r)
    BY <1>2 DEF writeFileWorker
  <2>4. k \in GcsType /\ SameCall(g, k) /\ k.stage = "write" /\ k.ul = g.ul
    <3>1. "write" \in Stages
      BY DEF Stages
    <3> QED BY <3>1, WorkerFrom DEF SameFiles
  <2>5. [SameNumber(g, first) EXCEPT !.stage = "write", !.ul.chunk = 1] = e
    BY <2>4
  <2> HIDE DEF u, k, r
  <2>6. Keeps(k, e)
    BY <2>1, <2>4, KeepsData
  <2> HIDE DEF e
  <2>7. Sends(g, sendRequestExpectAck(e, r), "write")
    BY <2>2, <2>4, <2>6, SendsFrom
  <2> QED BY <2>3, <2>5, <2>7
<1> QED BY <1>1, <1>2

-----------------------------------------------------------------------------
(* The blocks of a download *)

\* The blocks of hole h.
In(b, h) == b \in h.offset .. h.offset + h.count - 1

LEMMA HoleBlocksIs ==
  ASSUME NEW hs \in Seq(Holes)
  PROVE  \A b : b \in HoleBlocks(hs) <=> \E i \in 1..Len(hs) : In(b, hs[i])
<1>1. DOMAIN hs = 1..Len(hs)
  OBVIOUS
<1>2. Range(hs) = {hs[i] : i \in 1..Len(hs)}
  BY <1>1 DEF Range
<1> QED BY <1>2 DEF HoleBlocks, In

LEMMA HoleNumbers ==
  ASSUME NEW hs \in Seq(Holes), NEW i \in 1..Len(hs)
  PROVE  hs[i].offset \in Nat /\ hs[i].count \in Nat \ {0}
<1>1. hs[i] \in Holes
  OBVIOUS
<1> QED BY <1>1 DEF Holes

\* A gap after all the blocks so far.
LEMMA GapCovered ==
  ASSUME NEW hs \in Seq(Holes), Ordered(hs), NEW n \in Nat, NEW m \in Nat, m > n,
         \A b \in HoleBlocks(hs) : b < n
  PROVE  LET ns == Append(hs, Hole(n, m - n)) IN
         ns \in Seq(Holes) /\ Ordered(ns) /\ HoleBlocks(ns) = HoleBlocks(hs) \cup (n .. m - 1)
<1> DEFINE h == Hole(n, m - n)
           ns == Append(hs, h)
<1>1. h \in Holes /\ h.offset = n /\ h.count = m - n
  BY DEF Hole, Holes
<1> HIDE DEF h
<1>2. ns \in Seq(Holes) /\ Len(ns) = Len(hs) + 1 /\ ns[Len(hs) + 1] = h
      /\ \A i \in 1..Len(hs) : ns[i] = hs[i]
  BY <1>1
<1> HIDE DEF ns
<1>3. \A i \in 1..Len(hs) : hs[i].offset + hs[i].count <= n
  <2> SUFFICES ASSUME NEW i \in 1..Len(hs)
               PROVE  hs[i].offset + hs[i].count <= n
    OBVIOUS
  <2>1. hs[i].offset \in Nat /\ hs[i].count \in Nat \ {0}
    BY HoleNumbers
  <2> DEFINE b == hs[i].offset + hs[i].count - 1
  <2>2. In(b, hs[i])
    BY <2>1 DEF In
  <2>3. b < n
    BY <2>2, HoleBlocksIs
  <2> QED BY <2>1, <2>3
<1>4. Ordered(ns)
  <2> SUFFICES ASSUME NEW i \in 1..Len(ns), NEW j \in 1..Len(ns), i < j
               PROVE  ns[i].offset + ns[i].count <= ns[j].offset
    BY <1>2 DEF Ordered
  <2>1. i \in 1..Len(hs) /\ ns[i] = hs[i]
    BY <1>2
  <2>2. CASE j = Len(hs) + 1
    BY <1>1, <1>2, <1>3, <2>1, <2>2
  <2>3. CASE j # Len(hs) + 1
    <3>1. j \in 1..Len(hs) /\ ns[j] = hs[j]
      BY <1>2, <2>3
    <3> QED BY <2>1, <3>1 DEF Ordered
  <2> QED BY <2>2, <2>3
<1>5. \A b : b \in HoleBlocks(ns) <=> b \in HoleBlocks(hs) \/ b \in n .. m - 1
  <2> SUFFICES ASSUME NEW b
               PROVE  b \in HoleBlocks(ns) <=> b \in HoleBlocks(hs) \/ b \in n .. m - 1
    OBVIOUS
  <2>1. b \in n .. m - 1 <=> In(b, h)
    BY <1>1 DEF In
  <2>2. b \in HoleBlocks(ns) <=> \E i \in 1..Len(ns) : In(b, ns[i])
    BY <1>2, HoleBlocksIs
  <2>3. b \in HoleBlocks(hs) <=> \E i \in 1..Len(hs) : In(b, hs[i])
    BY HoleBlocksIs
  <2>4. (\E i \in 1..Len(ns) : In(b, ns[i])) <=> (\E i \in 1..Len(hs) : In(b, hs[i])) \/ In(b, h)
    <3>1. 1..Len(ns) = 1..Len(hs) \cup {Len(hs) + 1}
      BY <1>2
    <3> QED BY <1>2, <3>1
  <2> QED BY <2>1, <2>2, <2>3, <2>4
<1> QED BY <1>2, <1>4, <1>5 DEF ns, h

LEMMA ShrinkHoleType ==
  ASSUME NEW hs \in Seq(Holes), hs # <<>>
  PROVE  ShrinkHole(hs) \in Seq(Holes)
<1>1. Head(hs) \in Holes /\ Tail(hs) \in Seq(Holes)
  BY HeadTailProperties
<1>2. CASE Head(hs).count = 1
  BY <1>1, <1>2 DEF ShrinkHole
<1>3. CASE Head(hs).count # 1
  <2> DEFINE h == Hole(Head(hs).offset + 1, Head(hs).count - 1)
  <2>1. h \in Holes
    BY <1>1, <1>3 DEF Hole, Holes
  <2>2. ShrinkHole(hs) = <<h>> \o Tail(hs)
    BY <1>3 DEF ShrinkHole
  <2> HIDE DEF h
  <2>3. <<h>> \in Seq(Holes)
    BY <2>1
  <2> QED BY <1>1, <2>2, <2>3, ConcatProperties
<1> QED BY <1>2, <1>3

\* The first hole loses its first block, and no other block is lost.
LEMMA ShrinkCovered ==
  ASSUME NEW hs \in Seq(Holes), hs # <<>>, Ordered(hs)
  PROVE  LET ns == ShrinkHole(hs)  o == Head(hs).offset IN
         /\ ns \in Seq(Holes) /\ Ordered(ns)
         /\ o \in HoleBlocks(hs) /\ HoleBlocks(ns) = HoleBlocks(hs) \ {o}
<1> DEFINE ns == ShrinkHole(hs)
           h == Head(hs)
           o == h.offset
<1>1. Len(hs) \in Nat \ {0} /\ h = hs[1] /\ h \in Holes /\ ns \in Seq(Holes)
  BY HeadTailProperties, ShrinkHoleType
<1>2. o \in Nat /\ h.count \in Nat \ {0}
  BY <1>1 DEF Holes
<1>3. \A i \in 2..Len(hs) : /\ hs[i].offset \in Nat /\ hs[i].count \in Nat \ {0}
                            /\ o + h.count <= hs[i].offset
  BY <1>1, HoleNumbers DEF Ordered
<1>4. o \in HoleBlocks(hs)
  <2>1. In(o, hs[1]) /\ 1 \in 1..Len(hs)
    BY <1>1, <1>2 DEF In
  <2> QED BY <2>1, HoleBlocksIs
<1>5. \A b : b \in HoleBlocks(hs) <=> b \in o .. o + h.count - 1 \/ \E i \in 2..Len(hs) : In(b, hs[i])
  <2> SUFFICES ASSUME NEW b
               PROVE  b \in HoleBlocks(hs)
                        <=> b \in o .. o + h.count - 1 \/ \E i \in 2..Len(hs) : In(b, hs[i])
    OBVIOUS
  <2>1. 1..Len(hs) = {1} \cup 2..Len(hs)
    BY <1>1
  <2>2. In(b, hs[1]) <=> b \in o .. o + h.count - 1
    BY <1>1 DEF In
  <2>3. b \in HoleBlocks(hs) <=> \E i \in 1..Len(hs) : In(b, hs[i])
    BY HoleBlocksIs
  <2> QED BY <2>1, <2>2, <2>3
<1>6. \A b : (\E i \in 2..Len(hs) : In(b, hs[i])) => b # o
  BY <1>2, <1>3 DEF In
<1>7. CASE h.count = 1
  <2>1. ns = Tail(hs)
    BY <1>7 DEF ShrinkHole
  <2>2. Len(ns) = Len(hs) - 1 /\ \A i \in 1..Len(ns) : ns[i] = hs[i + 1]
    BY <1>1, <2>1, HeadTailProperties
  <2> HIDE DEF ns, h
  <2>3. Ordered(ns)
    <3> SUFFICES ASSUME NEW i \in 1..Len(ns), NEW j \in 1..Len(ns), i < j
                 PROVE  ns[i].offset + ns[i].count <= ns[j].offset
      BY <1>1 DEF Ordered
    <3>1. i + 1 \in 1..Len(hs) /\ j + 1 \in 1..Len(hs) /\ i + 1 < j + 1
      BY <1>1, <2>2
    <3>2. \A k, l \in 1..Len(hs) : k < l => hs[k].offset + hs[k].count <= hs[l].offset
      BY <1>1 DEF Ordered
    <3>3. hs[i + 1].offset + hs[i + 1].count <= hs[j + 1].offset
      BY <3>1, <3>2
    <3>4. ns[i] = hs[i + 1] /\ ns[j] = hs[j + 1]
      BY <2>2
    <3> QED BY <3>3, <3>4
  <2>4. \A b : b \in HoleBlocks(ns) <=> b \in HoleBlocks(hs) /\ b # o
    <3> SUFFICES ASSUME NEW b
                 PROVE  b \in HoleBlocks(ns) <=> b \in HoleBlocks(hs) /\ b # o
      OBVIOUS
    <3>1. b \in HoleBlocks(ns) <=> \E i \in 1..Len(ns) : In(b, ns[i])
      BY <1>1, HoleBlocksIs
    <3>2. (\E i \in 1..Len(ns) : In(b, ns[i])) <=> (\E i \in 2..Len(hs) : In(b, hs[i]))
      <4>1. ASSUME NEW i \in 1..Len(ns), In(b, ns[i])
            PROVE  \E j \in 2..Len(hs) : In(b, hs[j])
        <5>1. i + 1 \in 2..Len(hs) /\ ns[i] = hs[i + 1]
          BY <1>1, <2>2
        <5> QED BY <4>1, <5>1
      <4>2. ASSUME NEW j \in 2..Len(hs), In(b, hs[j])
            PROVE  \E i \in 1..Len(ns) : In(b, ns[i])
        <5>1. j - 1 \in 1..Len(ns) /\ ns[j - 1] = hs[j]
          BY <1>1, <2>2
        <5> QED BY <4>2, <5>1
      <4> QED BY <4>1, <4>2
    <3>3. b \in o .. o + h.count - 1 <=> b = o
      BY <1>2, <1>7
    <3> QED BY <1>5, <1>6, <3>1, <3>2, <3>3
  <2> QED BY <1>1, <1>4, <2>3, <2>4 DEF ns, h
<1>8. CASE h.count # 1
  <2> DEFINE f == Hole(o + 1, h.count - 1)
  <2>1. ns = <<f>> \o Tail(hs)
    BY <1>8 DEF ShrinkHole
  <2>2. f \in Holes /\ f.offset = o + 1 /\ f.count = h.count - 1
    BY <1>2, <1>8 DEF Hole, Holes
  <2> HIDE DEF f
  <2>3. Len(ns) = Len(hs) /\ ns[1] = f /\ \A i \in 2..Len(hs) : ns[i] = hs[i]
    <3>1. Tail(hs) \in Seq(Holes) /\ Len(Tail(hs)) = Len(hs) - 1
          /\ \A i \in 1..Len(Tail(hs)) : Tail(hs)[i] = hs[i + 1]
      BY <1>1, HeadTailProperties
    <3> DEFINE tl == Tail(hs)
    <3> HIDE DEF tl
    <3>2. tl \in Seq(Holes) /\ Len(tl) = Len(hs) - 1 /\ \A i \in 1..Len(tl) : tl[i] = hs[i + 1]
      BY <3>1 DEF tl
    <3>3. ns = <<f>> \o tl
      BY <2>1 DEF tl
    <3> HIDE DEF ns
    <3>4. Len(ns) = Len(hs) /\ ns[1] = f
      BY <1>1, <2>2, <3>2, <3>3
    <3>5. ASSUME NEW i \in 2..Len(hs)
          PROVE  ns[i] = hs[i]
      <4>1. i - 1 \in 1..Len(tl) /\ tl[i - 1] = hs[i]
        BY <1>1, <3>2
      <4>2. ns[i] = tl[i - 1]
        BY <1>1, <2>2, <3>2, <3>3
      <4> QED BY <4>1, <4>2
    <3> QED BY <3>4, <3>5
  <2> HIDE DEF ns, h
  <2>4. Ordered(ns)
    <3> SUFFICES ASSUME NEW i \in 1..Len(ns), NEW j \in 1..Len(ns), i < j
                 PROVE  ns[i].offset + ns[i].count <= ns[j].offset
      BY <1>1 DEF Ordered
    <3>1. j \in 2..Len(hs) /\ ns[j] = hs[j]
      BY <1>1, <2>3
    <3>2. CASE i = 1
      BY <1>2, <1>3, <2>2, <2>3, <3>1, <3>2
    <3>3. CASE i # 1
      <4>1. i \in 2..Len(hs) /\ ns[i] = hs[i]
        BY <1>1, <2>3, <3>3
      <4> QED BY <3>1, <4>1 DEF Ordered
    <3> QED BY <3>2, <3>3
  <2>5. \A b : b \in HoleBlocks(ns) <=> b \in HoleBlocks(hs) /\ b # o
    <3> SUFFICES ASSUME NEW b
                 PROVE  b \in HoleBlocks(ns) <=> b \in HoleBlocks(hs) /\ b # o
      OBVIOUS
    <3>1. b \in HoleBlocks(ns) <=> \E i \in 1..Len(ns) : In(b, ns[i])
      BY <1>1, HoleBlocksIs
    <3>2. (\E i \in 1..Len(ns) : In(b, ns[i])) <=> In(b, f) \/ \E i \in 2..Len(hs) : In(b, hs[i])
      <4>1. 1..Len(ns) = {1} \cup 2..Len(hs)
        BY <1>1, <2>3
      <4> QED BY <2>3, <4>1
    <3>3. In(b, f) <=> b \in o .. o + h.count - 1 /\ b # o
      BY <1>2, <2>2 DEF In
    <3> QED BY <1>5, <1>6, <3>1, <3>2, <3>3
  <2> QED BY <1>1, <1>4, <2>4, <2>5 DEF ns, h
<1> QED BY <1>7, <1>8

LEMMA NothingCovered ==
  ASSUME NEW d, d.written = {}, d.holes = <<>>, d.bytes = 0
  PROVE  Covered(d, 0)
<1>1. d.holes \in Seq(Holes) /\ 1..Len(d.holes) = {} /\ DOMAIN d.holes = {}
  OBVIOUS
<1>2. HoleBlocks(d.holes) = {}
  BY <1>1, HoleBlocksIs
<1>3. Blocks(0) = {}
  BY DEF Blocks
<1>4. Ordered(d.holes)
  BY <1>1 DEF Ordered
<1> QED BY <1>2, <1>3, <1>4, FS_EmptySet DEF Covered

\* A block at or after the end of those so far.
LEMMA BlockCovered ==
  ASSUME NEW d \in DownloadType, NEW n \in Nat, Covered(d, n), NEW m \in Nat, m >= n,
         NEW e, e.written = d.written \cup {m}, e.bytes = d.bytes + 1,
         e.holes = IF m > n THEN Append(d.holes, Hole(n, m - n)) ELSE d.holes
  PROVE  Covered(e, m + 1)
<1>1. d.holes \in Seq(Holes) /\ d.bytes \in Nat
  BY DEF DownloadType
<1>2. /\ d.written \cup HoleBlocks(d.holes) = 0 .. n - 1 /\ d.written \cap HoleBlocks(d.holes) = {}
      /\ IsFiniteSet(d.written) /\ d.bytes = Cardinality(d.written) /\ Ordered(d.holes)
  BY DEF Covered, Blocks
<1>3. /\ Ordered(e.holes)
      /\ HoleBlocks(e.holes) = HoleBlocks(d.holes) \cup (n .. m - 1)
  <2>1. CASE m > n
    <3>1. \A b \in HoleBlocks(d.holes) : b < n
      BY <1>2
    <3> QED BY <1>1, <1>2, <2>1, <3>1, GapCovered
  <2>2. CASE ~(m > n)
    <3>1. e.holes = d.holes /\ n .. m - 1 = {}
      BY <2>2
    <3> QED BY <1>2, <3>1
  <2> QED BY <2>1, <2>2
<1>4. m \notin d.written
  BY <1>2
<1>5. IsFiniteSet(e.written) /\ e.bytes = Cardinality(e.written)
  BY <1>2, <1>4, FS_AddElement
<1>6. e.written \cup HoleBlocks(e.holes) = 0 .. m + 1 - 1
  <2>1. 0 .. m + 1 - 1 = (0 .. n - 1) \cup (n .. m - 1) \cup {m}
    OBVIOUS
  <2> QED BY <1>2, <1>3, <2>1
<1>7. e.written \cap HoleBlocks(e.holes) = {}
  <2>1. \A b \in d.written \cup HoleBlocks(d.holes) : b \notin n .. m - 1 /\ b # m
    BY <1>2
  <2>2. m \notin n .. m - 1
    OBVIOUS
  <2> QED BY <1>2, <1>3, <2>1, <2>2
<1> QED BY <1>3, <1>5, <1>6, <1>7 DEF Covered, Blocks

\* The first block that is missing.
LEMMA FillCovered ==
  ASSUME NEW d \in DownloadType, NEW n \in Nat, Covered(d, n), d.holes # <<>>, NEW o,
         o = Head(d.holes).offset,
         NEW e, e.written = d.written \cup {o}, e.bytes = d.bytes + 1, e.holes = ShrinkHole(d.holes)
  PROVE  Covered(e, n)
<1>1. d.holes \in Seq(Holes) /\ d.bytes \in Nat
  BY DEF DownloadType
<1>2. /\ d.written \cup HoleBlocks(d.holes) = Blocks(n) /\ d.written \cap HoleBlocks(d.holes) = {}
      /\ IsFiniteSet(d.written) /\ d.bytes = Cardinality(d.written) /\ Ordered(d.holes)
  BY DEF Covered
<1>3. /\ Ordered(e.holes) /\ o \in HoleBlocks(d.holes)
      /\ HoleBlocks(e.holes) = HoleBlocks(d.holes) \ {o}
  BY <1>1, <1>2, ShrinkCovered
<1>4. o \notin d.written
  BY <1>2, <1>3
<1>5. IsFiniteSet(e.written) /\ e.bytes = Cardinality(e.written)
  BY <1>2, <1>4, FS_AddElement
<1>6. e.written \cup HoleBlocks(e.holes) = Blocks(n) /\ e.written \cap HoleBlocks(e.holes) = {}
  BY <1>2, <1>3
<1> QED BY <1>3, <1>5, <1>6 DEF Covered

LEMMA OffsetCovered ==
  ASSUME NEW d \in DownloadType, NEW n, Covered(d, n), NEW o
  PROVE  LET e == [d EXCEPT !.offset = o] IN
         Covered(e, n) /\ e.offset = o /\ e.holes = d.holes
<1> DEFINE e == [d EXCEPT !.offset = o]
<1>1. e.written = d.written /\ e.holes = d.holes /\ e.bytes = d.bytes /\ e.offset = o
  BY DEF DownloadType
<1> HIDE DEF e
<1>2. Covered(e, n)
  BY <1>1 DEF Covered
<1> QED BY <1>1, <1>2 DEF e

-----------------------------------------------------------------------------
(* What the ends of a handler mean for the call it serves *)

\* h carries on with the call that g works at, or has ended it.
Serves(h) == h \in GcsType /\ Sound(h) /\ Recorded(h)

LEMMA SendsServes ==
  ASSUME NEW g, Working(g), NEW s \in StagesOf(g.machine), NEW h, Sends(g, h, s),
         s \in {"open", "burst", "fill"} => Recorded(h)
  PROVE  Serves(h)
  BY DEF Serves, Sound, Recorded, Working, Sends, SameCall

\* One caller waits, for a call of the kind, and has heard nothing.
Awaited(g, kind) == ~g.orphan => g.signals = <<>> /\ g.waiting = {kind} /\ g.call.kind = kind

LEMMA EndsAwaited ==
  ASSUME NEW g, NEW kind \in Operations, Awaited(g, kind), NEW h, Ends(g, h, kind)
  PROVE  Serves(h)
<1>1. PICK o \in Outcomes : h.signals = Append(g.signals, <<kind, o>>)
  BY DEF Ends
<1>2. ~h.orphan => h.waiting = {} /\ h.signals = <<<<h.call.kind, o>>>> /\ h.call # NoCall
  <2> SUFFICES ASSUME ~h.orphan
               PROVE  h.waiting = {} /\ h.signals = <<<<h.call.kind, o>>>> /\ h.call # NoCall
    OBVIOUS
  <2>1. ~g.orphan /\ h.call = g.call /\ h.waiting = g.waiting \ {kind}
    BY DEF Ends
  <2>2. h.waiting = {} /\ h.call.kind = kind
    BY <2>1 DEF Awaited
  <2>3. Append(<<>>, <<kind, o>>) = <<<<kind, o>>>>
    OBVIOUS
  <2>4. h.signals = <<<<kind, o>>>>
    BY <1>1, <2>1, <2>3 DEF Awaited
  <2>5. h.call # NoCall
    BY <2>2 DEF NoCall, Operations
  <2> QED BY <2>2, <2>4, <2>5
<1>3. h \in GcsType /\ h.machine = "none" /\ h.stage = "idle" /\ ~h.timer
  BY DEF Ends
<1> QED BY <1>2, <1>3 DEF Serves, Sound, Resting, Recorded

LEMMA EndsServes ==
  ASSUME NEW g, Working(g), NEW kind \in Operations, g.orphan \/ KindOf(g.machine) = kind,
         NEW h, Ends(g, h, kind)
  PROVE  Serves(h)
<1>1. Awaited(g, kind)
  BY DEF Awaited, Working
<1> QED BY <1>1, EndsAwaited

LEMMA KeepsServes ==
  ASSUME NEW g, Working(g), NEW h, Keeps(g, h)
  PROVE  /\ Working(h)
         /\ g.stage \notin {"open", "burst", "fill"} \/ Recorded(h) => Serves(h)
  BY DEF Serves, Sound, Recorded, Working, Keeps, SameCall

\* The machine that a stage belongs to.
LEMMA StageTells ==
  ASSUME NEW g \in GcsType, Working(g)
  PROVE  /\ g.stage \in {"open", "burst", "fill"} => g.machine = "download"
         /\ g.stage = "reset" => g.machine \in {"download", "upload"}
         /\ g.stage \in {"create", "write"} => g.machine = "upload"
         /\ g.stage = "list" => g.machine = "list"
         /\ g.stage = "remove" => g.machine = "delete"
         /\ g.stage = "terminate" => g.machine = "abortDownload"
         /\ g.stage = "terminateUpload" => g.machine = "abortUpload"
         /\ g.stage # "idle" /\ g.machine # "none"
<1>1. g.machine \in Machines /\ g.stage \in StagesOf(g.machine)
  BY DEF GcsType, Working
<1> QED BY <1>1, Zenon DEF StagesOf, Machines, Operations

LEMMA DownloadServes ==
  ASSUME NEW g \in GcsType, Working(g), g.machine = "download",
         NEW first \in BOOLEAN, NEW o \in Outcomes
  PROVE  /\ Covered(g.dl, g.dl.offset) => Serves(burstReadFileWorker(g, first))
         /\ (\E n \in Nat : Covered(g.dl, n)) => Serves(fillMissingBlocksWorker(g, first))
         /\ Serves(resetSessionsBegin(g)) /\ Serves(downloadComplete(g, o))
<1>1. /\ "burst" \in StagesOf(g.machine) /\ "fill" \in StagesOf(g.machine)
      /\ "reset" \in StagesOf(g.machine) /\ KindOf(g.machine) = "download" /\ "download" \in Operations
  BY DEF StagesOf, KindOf, Operations
<1>2. ASSUME Covered(g.dl, g.dl.offset)
      PROVE  Serves(burstReadFileWorker(g, first))
  <2> DEFINE h == burstReadFileWorker(g, first)
  <2>1. Sends(g, h, "burst") /\ h.dl = g.dl
    BY BurstSends
  <2> HIDE DEF h
  <2>2. Recorded(h)
    BY <1>2, <2>1 DEF Recorded, Sends
  <2>3. Serves(h)
    BY <1>1, <2>1, <2>2, SendsServes
  <2> QED BY <2>3 DEF h
<1>3. ASSUME NEW n \in Nat, Covered(g.dl, n)
      PROVE  Serves(fillMissingBlocksWorker(g, first))
  <2> DEFINE h == fillMissingBlocksWorker(g, first)
             d == [g.dl EXCEPT !.offset = Head(g.dl.holes).offset]
  <2>1. \/ Sends(g, h, "fill") /\ g.dl.holes # <<>> /\ h.dl = d
        \/ Sends(g, h, "reset") \/ Ends(g, h, "download")
    BY FillDoes
  <2>2. Covered(d, n) /\ d.offset = Head(g.dl.holes).offset /\ d.holes = g.dl.holes
    BY <1>3, OwnFields, OffsetCovered
  <2> HIDE DEF h, d
  <2>3. CASE Sends(g, h, "fill") /\ g.dl.holes # <<>> /\ h.dl = d
    <3>1. Recorded(h)
      BY <2>2, <2>3 DEF Recorded, Sends
    <3> QED BY <1>1, <2>3, <3>1, SendsServes DEF h
  <2>4. CASE Sends(g, h, "reset")
    BY <1>1, <2>4, SendsServes DEF h
  <2>5. CASE Ends(g, h, "download")
    BY <1>1, <2>5, EndsServes DEF h
  <2> QED BY <2>1, <2>3, <2>4, <2>5
<1>4. Serves(resetSessionsBegin(g))
  BY <1>1, ResetSends, SendsServes
<1>5. Serves(downloadComplete(g, o))
  BY <1>1, DownloadEnds, EndsServes
<1> QED BY <1>2, <1>3, <1>4, <1>5

LEMMA UploadServes ==
  ASSUME NEW g \in GcsType, Working(g), g.machine = "upload",
         NEW first \in BOOLEAN, NEW o \in Outcomes
  PROVE  /\ Serves(writeFileWorker(g, first)) /\ Serves(resetSessionsBegin(g))
         /\ Serves(uploadComplete(g, o)) /\ Serves(uploadFinalize(g))
<1>1. /\ "write" \in StagesOf(g.machine) /\ "reset" \in StagesOf(g.machine)
      /\ KindOf(g.machine) = "upload" /\ "upload" \in Operations
  BY DEF StagesOf, KindOf, Operations
<1>2. Serves(writeFileWorker(g, first))
  BY <1>1, WriteDoes, SendsServes
<1>3. Serves(resetSessionsBegin(g))
  BY <1>1, ResetSends, SendsServes
<1>4. Serves(uploadComplete(g, o)) /\ Serves(uploadFinalize(g))
  BY <1>1, UploadEnds, UploadFinalizes, EndsServes
<1> QED BY <1>2, <1>3, <1>4

LEMMA ListServes ==
  ASSUME NEW g \in GcsType, Working(g), g.machine = "list",
         NEW first \in BOOLEAN, NEW o \in Outcomes
  PROVE  Serves(listDirectoryWorker(g, first)) /\ Serves(listDirectoryComplete(g, o))
<1>1. "list" \in StagesOf(g.machine) /\ KindOf(g.machine) = "list" /\ "list" \in Operations
  BY DEF StagesOf, KindOf, Operations
<1> QED BY <1>1, ListSends, SendsServes, ListEnds, EndsServes

LEMMA DeleteServes ==
  ASSUME NEW g \in GcsType, Working(g), g.machine = "delete", NEW o \in Outcomes
  PROVE  Serves(deleteFileBegin(g)) /\ Serves(deleteComplete(g, o))
<1>1. "remove" \in StagesOf(g.machine) /\ KindOf(g.machine) = "delete" /\ "delete" \in Operations
  BY DEF StagesOf, KindOf, Operations
<1> QED BY <1>1, RemoveSends, SendsServes, DeleteEnds, EndsServes

LEMMA AbortServes ==
  ASSUME NEW g \in GcsType, Working(g), NEW o \in Outcomes
  PROVE  /\ g.machine = "abortDownload" =>
              Serves(terminateSessionBegin(g)) /\ Serves(downloadComplete(g, o))
         /\ g.machine = "abortUpload" =>
              /\ Serves(terminateUploadSessionBegin(g)) /\ Serves(uploadComplete(g, o))
              /\ Serves(uploadFinalize(g))
<1>1. "download" \in Operations /\ "upload" \in Operations
  BY DEF Operations
<1>2. ASSUME g.machine = "abortDownload"
      PROVE  Serves(terminateSessionBegin(g)) /\ Serves(downloadComplete(g, o))
  <2>1. "terminate" \in StagesOf(g.machine) /\ KindOf(g.machine) = "download"
    BY <1>2 DEF StagesOf, KindOf
  <2> QED BY <1>1, <2>1, TerminateSends, SendsServes, DownloadEnds, EndsServes
<1>3. ASSUME g.machine = "abortUpload"
      PROVE  /\ Serves(terminateUploadSessionBegin(g)) /\ Serves(uploadComplete(g, o))
             /\ Serves(uploadFinalize(g))
  <2>1. "terminateUpload" \in StagesOf(g.machine) /\ KindOf(g.machine) = "upload"
    BY <1>3 DEF StagesOf, KindOf
  <2> QED BY <1>1, <2>1, TerminateSends, SendsServes, UploadEnds, UploadFinalizes, EndsServes
<1> QED BY <1>2, <1>3

-----------------------------------------------------------------------------
(* The answers of the stages *)

LEMMA OpenAnswered ==
  ASSUME NEW g \in GcsType, Working(g), Recorded(g), g.stage = "open", NEW m \in Replies
  PROVE  Serves(openFileROAckOrNak(g, m))
<1>1. g.machine = "download"
  BY StageTells
<1>2. CASE ~Fits(g, m, "open")
  BY <1>2 DEF openFileROAckOrNak, Serves, Sound, Recorded
<1>3. CASE Fits(g, m, "open") /\ m.kind = "ack"
  <2> DEFINE d == [g.dl EXCEPT !.session = m.session, !.size = m.size, !.offset = 0, !.open = TRUE]
             k == [g EXCEPT !.dl = d]
  <2>1. d \in DownloadType
    <3>1. m.session \in Sessions \cup {0} /\ m.size \in Nat
      BY DEF Replies
    <3> QED BY <3>1, OwnFields DEF DownloadType
  <2>2. [g EXCEPT !.dl.session = m.session, !.dl.size = m.size, !.dl.offset = 0, !.dl.open = TRUE] = k
    BY DEF GcsType
  <2>3. openFileROAckOrNak(g, m) = burstReadFileWorker(k, TRUE)
    BY <1>3, <2>2 DEF openFileROAckOrNak
  <2> HIDE DEF d
  <2>4. Keeps(g, k) /\ k.dl = d
    BY <2>1, KeepsData DEF GcsType
  <2> HIDE DEF k
  <2>5. k \in GcsType /\ Working(k) /\ k.machine = "download"
    BY <1>1, <2>4, KeepsServes DEF Keeps, SameCall
  <2>6. Covered(k.dl, k.dl.offset)
    <3>1. d.written = {} /\ d.holes = <<>> /\ d.bytes = 0 /\ d.offset = 0
      BY OwnFields DEF d, Recorded, DownloadType
    <3> QED BY <2>4, <3>1, NothingCovered
  <2> QED BY <2>3, <2>5, <2>6, DownloadServes DEF Outcomes
<1>4. CASE Fits(g, m, "open") /\ m.kind # "ack"
  BY <1>1, <1>4, DownloadServes DEF openFileROAckOrNak, Outcomes
<1> QED BY <1>2, <1>3, <1>4

LEMMA ReplyTypes ==
  ASSUME NEW m \in Replies
  PROVE  /\ m.seq \in Numbers /\ m.session \in Sessions \cup {0} /\ m.offset \in Nat
         /\ m.size \in Nat /\ m.kind \in {"ack", "nak", "eof", "unknown"}
  BY DEF Replies

LEMMA HoleBeforeKeeps ==
  ASSUME NEW g \in GcsType, NEW m \in Replies
  PROVE  LET h == HoleBefore(g, m) IN
         /\ Keeps(g, h) /\ h.dl.written = g.dl.written /\ h.dl.bytes = g.dl.bytes
         /\ h.dl.holes = IF m.offset > g.dl.offset
                         THEN Append(g.dl.holes, Hole(g.dl.offset, m.offset - g.dl.offset))
                         ELSE g.dl.holes
<1>1. CASE m.offset > g.dl.offset
  <2> DEFINE hs == Append(g.dl.holes, Hole(g.dl.offset, m.offset - g.dl.offset))
             d == [g.dl EXCEPT !.holes = hs]
  <2>1. hs \in Seq(Holes)
    <3>1. Hole(g.dl.offset, m.offset - g.dl.offset) \in Holes
      <4>1. m.offset - g.dl.offset \in Nat \ {0}
        BY <1>1, OwnFields, ReplyTypes
      <4> QED BY <4>1, OwnFields DEF Hole, Holes
    <3>2. g.dl.holes \in Seq(Holes)
      BY OwnFields DEF DownloadType
    <3> QED BY <3>1, <3>2
  <2>2. HoleBefore(g, m) = [g EXCEPT !.dl = d]
    BY <1>1 DEF HoleBefore, GcsType
  <2> HIDE DEF hs
  <2>3. d \in DownloadType /\ d.written = g.dl.written /\ d.bytes = g.dl.bytes /\ d.holes = hs
    BY <2>1, OwnFields DEF DownloadType
  <2> HIDE DEF d
  <2>4. Keeps(g, [g EXCEPT !.dl = d]) /\ [g EXCEPT !.dl = d].dl = d
    BY <2>3, KeepsData DEF GcsType
  <2> QED BY <1>1, <2>2, <2>3, <2>4 DEF hs
<1>2. CASE ~(m.offset > g.dl.offset)
  BY <1>2 DEF HoleBefore, Keeps, SameCall
<1> QED BY <1>1, <1>2

LEMMA WriteBlockKeeps ==
  ASSUME NEW g \in GcsType, NEW m \in Replies
  PROVE  LET h == WriteBlock(g, m) IN
         /\ Keeps(g, h) /\ h.dl.written = g.dl.written \cup {m.offset}
         /\ h.dl.bytes = g.dl.bytes + 1 /\ h.dl.holes = g.dl.holes
<1> DEFINE ws == g.dl.written \cup {m.offset}
           b == g.dl.bytes + 1
           d == [g.dl EXCEPT !.written = ws, !.bytes = b]
<1>1. ws \in SUBSET Nat /\ b \in Nat
  BY OwnFields, ReplyTypes DEF DownloadType
<1>2. WriteBlock(g, m) = [g EXCEPT !.dl = d]
  BY DEF WriteBlock, GcsType
<1> HIDE DEF ws, b
<1>3. d \in DownloadType /\ d.written = ws /\ d.bytes = b /\ d.holes = g.dl.holes
  BY <1>1, OwnFields DEF DownloadType
<1> HIDE DEF d
<1>4. Keeps(g, [g EXCEPT !.dl = d]) /\ [g EXCEPT !.dl = d].dl = d
  BY <1>3, KeepsData DEF GcsType
<1> QED BY <1>2, <1>3, <1>4 DEF ws, b

LEMMA StoppedKeeps ==
  ASSUME NEW g \in GcsType
  PROVE  Keeps(g, Stopped(g)) /\ Stopped(g).dl = g.dl
  BY KeepsData DEF Stopped, GcsType

LEMMA KeepsRecords ==
  ASSUME NEW g, NEW h, Recorded(g), Keeps(g, h), h.dl = g.dl
  PROVE  Recorded(h)
  BY DEF Recorded, Keeps

LEMMA BlockServes ==
  ASSUME NEW g \in GcsType, Working(g), Recorded(g), g.machine = "download", g.stage = "burst",
         NEW m \in Replies, m.offset >= g.dl.offset
  PROVE  Serves(burstReadFileBlock(g, m))
<1> DEFINE a == HoleBefore(g, m)
           b == WriteBlock(a, m)
           w == [b EXCEPT !.dl.offset = m.offset + 1]
<1>1. /\ Keeps(g, a) /\ a \in GcsType /\ a.dl.written = g.dl.written /\ a.dl.bytes = g.dl.bytes
      /\ a.dl.holes = IF m.offset > g.dl.offset
                      THEN Append(g.dl.holes, Hole(g.dl.offset, m.offset - g.dl.offset))
                      ELSE g.dl.holes
  BY HoleBeforeKeeps DEF Keeps
<1> HIDE DEF a
<1>2. /\ Keeps(a, b) /\ b \in GcsType /\ b.dl.written = a.dl.written \cup {m.offset}
      /\ b.dl.bytes = a.dl.bytes + 1 /\ b.dl.holes = a.dl.holes
  BY <1>1, WriteBlockKeeps DEF Keeps
<1> HIDE DEF b
<1>3. Covered(b.dl, m.offset + 1)
  <2>1. Covered(g.dl, g.dl.offset) /\ g.dl \in DownloadType /\ g.dl.offset \in Nat /\ m.offset \in Nat
    BY OwnFields, ReplyTypes DEF Recorded
  <2> QED BY <1>1, <1>2, <2>1, BlockCovered
<1>4. w \in GcsType /\ Keeps(b, w) /\ Covered(w.dl, w.dl.offset)
  <2> DEFINE d == [b.dl EXCEPT !.offset = m.offset + 1]
  <2>1. d \in DownloadType
    <3>1. m.offset + 1 \in Nat
      BY ReplyTypes
    <3> QED BY <1>2, <3>1, OwnFields DEF DownloadType
  <2>2. Covered(d, d.offset)
    BY <1>2, <1>3, OwnFields, OffsetCovered
  <2>3. w = [b EXCEPT !.dl = d]
    BY <1>2 DEF GcsType
  <2> HIDE DEF d, w
  <2>4. Keeps(b, w) /\ w.dl = d
    BY <1>2, <2>1, <2>3, KeepsData DEF GcsType
  <2> QED BY <2>2, <2>4 DEF Keeps
<1>5. burstReadFileBlock(g, m)
      = IF m.complete THEN burstReadFileWorker([w EXCEPT !.expected = m.seq], TRUE)
        ELSE [w EXCEPT !.expected = Seq16(m.seq + 1), !.timer = TRUE]
  BY DEF burstReadFileBlock, w, b, a
<1> HIDE DEF w
<1>6. Keeps(g, w)
  <2>1. Keeps(g, b)
    BY <1>1, <1>2, KeepsThenKeeps
  <2> QED BY <1>4, <2>1, KeepsThenKeeps
<1>7. ASSUME NEW n \in Numbers
      PROVE  LET k == [w EXCEPT !.expected = n] IN k \in GcsType /\ Keeps(g, k) /\ k.dl = w.dl
  <2> DEFINE k == [w EXCEPT !.expected = n]
  <2>1. Keeps(w, k) /\ k.dl = w.dl
    BY <1>4, KeepsData DEF GcsType
  <2> HIDE DEF k
  <2>2. k \in GcsType /\ Keeps(g, k) /\ k.dl = w.dl
    BY <1>6, <2>1, KeepsThenKeeps DEF Keeps
  <2> QED BY <2>2 DEF k
<1>8. CASE m.complete
  <2> DEFINE k == [w EXCEPT !.expected = m.seq]
  <2>1. k \in GcsType /\ Keeps(g, k) /\ k.dl = w.dl
    BY <1>7, ReplyTypes
  <2> HIDE DEF k
  <2>2. Working(k) /\ k.machine = "download" /\ Covered(k.dl, k.dl.offset)
    BY <1>4, <2>1, KeepsServes DEF Keeps, SameCall
  <2> QED BY <1>5, <1>8, <2>1, <2>2, DownloadServes DEF k, Outcomes
<1>9. CASE ~m.complete
  <2> DEFINE n == Seq16(m.seq + 1)
             k == [w EXCEPT !.expected = n]
             h == [k EXCEPT !.timer = TRUE]
  <2>1. n \in Numbers
    BY ReplyTypes, NumbersMove
  <2> HIDE DEF n
  <2>2. k \in GcsType /\ Keeps(g, k) /\ k.dl = w.dl
    BY <2>1, <1>7
  <2>3. [w EXCEPT !.expected = n, !.timer = TRUE] = h
    BY <1>4 DEF GcsType
  <2> HIDE DEF k
  <2>4. Keeps(k, h) /\ h.dl = w.dl
    BY <2>2, KeepsData DEF GcsType
  <2> HIDE DEF h
  <2>5. Keeps(g, h) /\ h.stage = "burst"
    BY <2>2, <2>4, KeepsThenKeeps DEF Keeps
  <2>6. Recorded(h)
    BY <1>4, <2>4, <2>5 DEF Recorded
  <2> QED BY <1>5, <1>9, <2>3, <2>5, <2>6, KeepsServes DEF n
<1> QED BY <1>8, <1>9

LEMMA BurstAnswered ==
  ASSUME NEW g \in GcsType, Working(g), Recorded(g), g.stage = "burst", NEW m \in Replies
  PROVE  Serves(burstReadFileAckOrNak(g, m))
<1> DEFINE k == Stopped(g)
           t == [g EXCEPT !.timer = TRUE]
<1>1. g.machine = "download"
  BY StageTells
<1>2. Keeps(g, k) /\ k \in GcsType /\ k.dl = g.dl
  BY StoppedKeeps DEF Keeps
<1>3. k.machine = "download" /\ k.stage = "burst" /\ Working(k) /\ Recorded(k) /\ Serves(k)
  BY <1>1, <1>2, KeepsServes, KeepsRecords DEF Keeps, SameCall
<1>4. Serves(g)
  BY DEF Serves, Sound
<1>5. Serves(t)
  <2>1. Keeps(g, t) /\ t.dl = g.dl
    BY KeepsData DEF GcsType
  <2> HIDE DEF t
  <2> QED BY <2>1, KeepsServes, KeepsRecords
<1> HIDE DEF k
<1>6. m.offset >= g.dl.offset => Serves(burstReadFileBlock(k, m))
  BY <1>2, <1>3, BlockServes
<1>7. Serves(burstReadFileEof(k, m))
  <2> DEFINE h == [k EXCEPT !.expected = m.seq]
  <2>1. Keeps(k, h) /\ h \in GcsType /\ h.dl = k.dl
    <3>1. k \in GcsType /\ m.seq \in Numbers
      BY <1>2, ReplyTypes DEF Keeps
    <3>2. Keeps(k, h)
      BY <3>1, KeepsData
    <3>3. h.dl = k.dl
      BY <3>1 DEF GcsType
    <3> QED BY <3>2, <3>3 DEF Keeps
  <2>2. h.machine = "download" /\ Working(h)
    BY <1>3, <2>1, KeepsServes DEF Keeps, SameCall
  <2>3. burstReadFileEof(k, m) = IF m.seq # k.expected THEN burstReadFileWorker(h, TRUE)
                                 ELSE fillMissingBlocksWorker(k, TRUE)
    BY DEF burstReadFileEof
  <2> HIDE DEF h
  <2>4. Covered(k.dl, k.dl.offset) /\ k.dl.offset \in Nat
    BY <1>2, <1>3, OwnFields DEF Recorded
  <2>5. Serves(burstReadFileWorker(h, TRUE))
    BY <2>1, <2>2, <2>4, DownloadServes DEF Outcomes
  <2>6. Serves(fillMissingBlocksWorker(k, TRUE))
    BY <1>2, <1>3, <2>4, DownloadServes DEF Outcomes
  <2> QED BY <2>3, <2>5, <2>6
<1>8. Serves(downloadComplete(g, "failed"))
  BY <1>1, DownloadServes DEF Outcomes
<1>9. \/ burstReadFileAckOrNak(g, m) \in {g, k, t, burstReadFileEof(k, m), downloadComplete(g, "failed")}
      \/ m.offset >= g.dl.offset /\ burstReadFileAckOrNak(g, m) = burstReadFileBlock(k, m)
  <2>1. m.seq \in Nat /\ g.expected \in Nat /\ m.offset \in Nat /\ g.dl.offset \in Nat
    BY ReplyTypes, OwnFields DEF Numbers
  <2> QED BY <2>1 DEF burstReadFileAckOrNak, k
<1> QED BY <1>3, <1>4, <1>5, <1>6, <1>7, <1>8, <1>9

LEMMA FillAnswered ==
  ASSUME NEW g \in GcsType, Working(g), Recorded(g), g.stage = "fill", NEW m \in Replies
  PROVE  Serves(fillMissingBlocksAckOrNak(g, m))
<1>1. g.machine = "download"
  BY StageTells
<1>2. Serves(g)
  BY DEF Serves, Sound
<1>3. Serves(downloadComplete(g, "failed")) /\ Serves(resetSessionsBegin(g))
  BY <1>1, DownloadServes DEF Outcomes
<1>4. PICK c \in Nat : Covered(g.dl, c)
  BY DEF Recorded
<1>5. g.dl \in DownloadType /\ g.dl.holes # <<>> /\ g.dl.offset = Head(g.dl.holes).offset
  BY OwnFields DEF Recorded
<1>6. g.retry < MaxRetry => Serves(fillMissingBlocksWorker([g EXCEPT !.retry = @ + 1], FALSE))
  <2> SUFFICES ASSUME g.retry < MaxRetry
               PROVE  Serves(fillMissingBlocksWorker([g EXCEPT !.retry = g.retry + 1], FALSE))
    OBVIOUS
  <2> DEFINE n == g.retry + 1
             k == [g EXCEPT !.retry = n]
  <2>1. n \in Retries
    BY OwnFields, RetriesMove
  <2> HIDE DEF n
  <2>2. Keeps(g, k) /\ k \in GcsType /\ k.dl = g.dl
    BY <2>1, KeepsData DEF Keeps, GcsType
  <2>3. k.machine = "download" /\ Working(k)
    BY <1>1, <2>2, KeepsServes DEF Keeps, SameCall
  <2> HIDE DEF k
  <2>4. Serves(fillMissingBlocksWorker(k, FALSE))
    BY <1>4, <2>2, <2>3, DownloadServes DEF Outcomes
  <2> QED BY <2>4 DEF k, n
<1>7. m.offset = g.dl.offset =>
          Serves(fillMissingBlocksWorker([WriteBlock(g, m) EXCEPT !.dl.holes = ShrinkHole(@)], TRUE))
  <2> SUFFICES ASSUME m.offset = g.dl.offset
               PROVE  Serves(fillMissingBlocksWorker(
                                 [WriteBlock(g, m) EXCEPT !.dl.holes = ShrinkHole(@)], TRUE))
    OBVIOUS
  <2> DEFINE w == WriteBlock(g, m)
             hs == ShrinkHole(w.dl.holes)
             d == [w.dl EXCEPT !.holes = hs]
             k == [w EXCEPT !.dl = d]
  <2>1. /\ Keeps(g, w) /\ w \in GcsType /\ w.dl.written = g.dl.written \cup {m.offset}
        /\ w.dl.bytes = g.dl.bytes + 1 /\ w.dl.holes = g.dl.holes
    BY WriteBlockKeeps DEF Keeps
  <2>2. [WriteBlock(g, m) EXCEPT !.dl.holes = ShrinkHole(@)] = k
    BY <2>1 DEF GcsType
  <2> HIDE DEF w
  <2>3. hs \in Seq(Holes) /\ hs = ShrinkHole(g.dl.holes)
    BY <1>5, <2>1, ShrinkHoleType DEF DownloadType
  <2> HIDE DEF hs
  <2>4. d \in DownloadType /\ d.written = w.dl.written /\ d.bytes = w.dl.bytes /\ d.holes = hs
    BY <2>1, <2>3, OwnFields DEF DownloadType
  <2> HIDE DEF d
  <2>5. Covered(d, c)
    BY <1>4, <1>5, <2>1, <2>3, <2>4, FillCovered
  <2>6. Keeps(w, k) /\ k.dl = d
    BY <2>1, <2>4, KeepsData DEF GcsType
  <2> HIDE DEF k
  <2>7. Keeps(g, k) /\ k \in GcsType
    BY <2>1, <2>6, KeepsThenKeeps DEF Keeps
  <2>8. k.machine = "download" /\ Working(k)
    BY <1>1, <2>7, KeepsServes DEF Keeps, SameCall
  <2>9. Serves(fillMissingBlocksWorker(k, TRUE))
    BY <2>5, <2>6, <2>7, <2>8, DownloadServes DEF Outcomes
  <2> QED BY <2>2, <2>9
<1> DEFINE again == fillMissingBlocksWorker([g EXCEPT !.retry = @ + 1], FALSE)
           next == fillMissingBlocksWorker([WriteBlock(g, m) EXCEPT !.dl.holes = ShrinkHole(@)], TRUE)
           failed == downloadComplete(g, "failed")
           reset == resetSessionsBegin(g)
<1>8. fillMissingBlocksAckOrNak(g, m) =
          IF ~Fits(g, m, "read") \/ m.session # g.dl.session THEN g
          ELSE CASE m.kind = "ack" /\ m.offset # g.dl.offset ->
                      IF g.retry >= MaxRetry THEN failed ELSE again
                 [] m.kind = "ack" /\ m.offset = g.dl.offset -> next
                 [] m.kind = "eof" /\ FullFile(g) -> reset
                 [] OTHER -> failed
  BY DEF fillMissingBlocksAckOrNak
<1>9. g.retry < MaxRetry \/ g.retry >= MaxRetry
  BY OwnFields, RetriesMove
<1> HIDE DEF again, next, failed, reset
<1>10. \/ fillMissingBlocksAckOrNak(g, m) \in {g, failed, reset}
       \/ m.offset = g.dl.offset /\ fillMissingBlocksAckOrNak(g, m) = next
       \/ g.retry < MaxRetry /\ fillMissingBlocksAckOrNak(g, m) = again
  BY <1>8, <1>9
<1> QED BY <1>2, <1>3, <1>6, <1>7, <1>10 DEF again, next, failed, reset

\* The end of the sessions after an upload, told to those who download.
LEMMA OrphanServes ==
  ASSUME NEW g \in GcsType, Working(g), g.stage = "reset"
  PROVE  Serves(downloadComplete([g EXCEPT !.orphan = @ \/ g.machine = "upload"], "ok"))
<1> DEFINE b == g.orphan \/ g.machine = "upload"
           k == [g EXCEPT !.orphan = b]
<1>1. b \in BOOLEAN
  BY DEF GcsType
<1>2. g.machine \in {"download", "upload"}
  BY StageTells
<1> HIDE DEF b
<1>3. /\ k \in GcsType /\ k.machine = g.machine /\ k.stage = g.stage /\ k.call = g.call
      /\ k.signals = g.signals /\ k.waiting = g.waiting /\ k.orphan = b
  BY <1>1 DEF GcsType
<1> HIDE DEF k
<1>4. Working(k) /\ (k.orphan \/ KindOf(k.machine) = "download")
  BY <1>2, <1>3 DEF Working, KindOf, b
<1>5. Ends(k, downloadComplete(k, "ok"), "download")
  BY <1>3, DownloadEnds DEF Outcomes
<1>6. Serves(downloadComplete(k, "ok"))
  BY <1>3, <1>4, <1>5, EndsServes DEF Operations
<1> QED BY <1>6 DEF k, b

LEMMA ResetAnswered ==
  ASSUME NEW g \in GcsType, Working(g), g.stage = "reset", NEW m \in Replies
  PROVE  Serves(resetSessionsAckOrNak(g, m))
<1>1. g.machine \in {"download", "upload"}
  BY StageTells
<1>2. Serves(g)
  BY DEF Serves, Sound, Recorded
<1>3. g.machine = "upload" => Serves(uploadFinalize(g))
  BY UploadServes DEF Outcomes
<1>4. g.machine # "upload" => Serves(downloadComplete(g, "ok"))
  BY <1>1, DownloadServes DEF Outcomes
<1> QED BY <1>2, <1>3, <1>4, OrphanServes DEF resetSessionsAckOrNak

LEMMA EntriesKeep ==
  ASSUME NEW g \in GcsType, NEW m \in Replies
  PROVE  Keeps(g, AppendEntries(g, m))
<1> DEFINE new == [i \in 1..m.size |-> m.offset + i - 1]
           es == g.ls.entries \o new
           o == g.ls.offset + m.size
           l == [g.ls EXCEPT !.entries = es, !.offset = o]
<1>1. new \in Seq(Nat)
  <2>1. m.size \in Nat /\ m.offset \in Nat
    BY ReplyTypes
  <2> QED BY <2>1
<1>2. AppendEntries(g, m) = [g EXCEPT !.ls = l]
  BY DEF AppendEntries, GcsType
<1> HIDE DEF new
<1>3. es \in Seq(Nat) /\ o \in Nat
  <2>1. g.ls.entries \in Seq(Nat)
    BY OwnFields DEF ListType
  <2>2. es \in Seq(Nat)
    BY <1>1, <2>1
  <2>3. o \in Nat
    BY OwnFields, ReplyTypes
  <2> QED BY <2>2, <2>3
<1> HIDE DEF es, o
<1>4. l \in ListType
  BY <1>3, OwnFields DEF ListType
<1> HIDE DEF l
<1> QED BY <1>2, <1>4, KeepsData

LEMMA ListAnswered ==
  ASSUME NEW g \in GcsType, Working(g), g.stage = "list", NEW m \in Replies
  PROVE  Serves(listDirectoryAckOrNak(g, m))
<1>1. g.machine = "list"
  BY StageTells
<1>2. Serves(g)
  BY DEF Serves, Sound, Recorded
<1>3. Serves(Stopped(g)) /\ Serves([g EXCEPT !.timer = TRUE])
  BY StoppedKeeps, KeepsData, KeepsServes
<1>4. Serves(listDirectoryComplete(g, "ok")) /\ Serves(listDirectoryComplete(g, "failed"))
  BY <1>1, ListServes DEF Outcomes
<1>5. \A k : Keeps(g, k) => Serves(listDirectoryWorker(k, TRUE))
  <2> SUFFICES ASSUME NEW k, Keeps(g, k)
               PROVE  Serves(listDirectoryWorker(k, TRUE))
    OBVIOUS
  <2>1. k \in GcsType /\ Working(k) /\ k.machine = "list"
    BY <1>1, KeepsServes DEF Keeps, SameCall
  <2> QED BY <2>1, ListServes DEF Outcomes
<1>6. Serves(listDirectoryWorker([AppendEntries(g, m) EXCEPT !.expected = m.seq], TRUE))
  <2>1. AppendEntries(g, m) \in GcsType
    BY EntriesKeep DEF Keeps
  <2>2. Keeps(g, [AppendEntries(g, m) EXCEPT !.expected = m.seq])
    BY <2>1, EntriesKeep, ReplyTypes, KeepsData, KeepsThenKeeps
  <2> QED BY <1>5, <2>2
<1> DEFINE fallback == [g EXCEPT !.withTime = FALSE, !.expected = m.seq,
                                 !.ls = [@ EXCEPT !.withTime = FALSE, !.offset = 0, !.entries = <<>>]]
<1>7. Serves(listDirectoryWorker(fallback, TRUE))
  <2> DEFINE l == [g.ls EXCEPT !.withTime = FALSE, !.offset = 0, !.entries = <<>>]
             a == [g EXCEPT !.withTime = FALSE]
             b == [a EXCEPT !.expected = m.seq]
             c == [b EXCEPT !.ls = l]
  <2>1. l \in ListType
    <3>1. <<>> \in Seq(Nat) /\ 0 \in Nat /\ FALSE \in BOOLEAN
      OBVIOUS
    <3> QED BY <3>1, OwnFields DEF ListType
  <2>2. fallback = c
    BY DEF GcsType
  <2> HIDE DEF l
  <2>3. Keeps(g, a) /\ a \in GcsType
    BY KeepsData DEF Keeps
  <2> HIDE DEF a
  <2>4. Keeps(g, b) /\ b \in GcsType
    <3>1. Keeps(a, b)
      BY <2>3, ReplyTypes, KeepsData
    <3> HIDE DEF b
    <3> QED BY <2>3, <3>1, KeepsThenKeeps DEF Keeps
  <2> HIDE DEF b
  <2>5. Keeps(g, c)
    BY <2>1, <2>4, KeepsData, KeepsThenKeeps
  <2> HIDE DEF c, fallback
  <2> QED BY <1>5, <2>2, <2>5
<1> DEFINE next == listDirectoryWorker([AppendEntries(g, m) EXCEPT !.expected = m.seq], TRUE)
           again == listDirectoryWorker(fallback, TRUE)
<1>8. listDirectoryAckOrNak(g, m) \in
          {g, Stopped(g), [g EXCEPT !.timer = TRUE], listDirectoryComplete(g, "ok"),
           listDirectoryComplete(g, "failed"), next, again}
  <2>1. m.seq < g.expected \/ m.seq >= g.expected
    BY ReplyTypes, OwnFields DEF Numbers
  <2> HIDE DEF next, again
  <2>2. listDirectoryAckOrNak(g, m) =
            IF m.op # ListOpcode(g) THEN g
            ELSE CASE m.kind = "ack" /\ m.seq < g.expected -> Stopped(g)
                   [] m.kind = "ack" /\ m.seq >= g.expected -> next
                   [] m.kind = "eof" /\ m.seq # g.expected -> [g EXCEPT !.timer = TRUE]
                   [] m.kind = "eof" /\ m.seq = g.expected -> listDirectoryComplete(g, "ok")
                   [] m.kind = "unknown" /\ g.ls.withTime -> again
                   [] OTHER -> listDirectoryComplete(g, "failed")
    BY DEF listDirectoryAckOrNak, next, again
  <2> QED BY <2>1, <2>2
<1> QED BY <1>2, <1>3, <1>4, <1>6, <1>7, <1>8

LEMMA CreateAnswered ==
  ASSUME NEW g \in GcsType, Working(g), g.stage = "create", NEW m \in Replies
  PROVE  Serves(createFileAckOrNak(g, m))
<1> DEFINE u == [g.ul EXCEPT !.session = m.session]
           k == [g EXCEPT !.ul = u]
<1>1. g.machine = "upload"
  BY StageTells
<1>2. Serves(g) /\ Serves(uploadComplete(g, "failed"))
  BY <1>1, UploadServes DEF Serves, Sound, Recorded, Outcomes
<1>3. u \in UploadType
  BY OwnFields, ReplyTypes DEF UploadType
<1>4. [g EXCEPT !.ul.session = m.session] = k
  BY DEF GcsType
<1> HIDE DEF u
<1>5. Keeps(g, k)
  BY <1>3, KeepsData
<1> HIDE DEF k
<1>6. k \in GcsType /\ Working(k) /\ k.machine = "upload"
  BY <1>1, <1>5, KeepsServes DEF Keeps, SameCall
<1>7. Serves(writeFileWorker(k, TRUE))
  BY <1>6, UploadServes DEF Outcomes
<1> QED BY <1>2, <1>4, <1>7 DEF createFileAckOrNak

LEMMA WriteAnswered ==
  ASSUME NEW g \in GcsType, Working(g), g.stage = "write", NEW m \in Replies
  PROVE  Serves(writeFileAckOrNak(g, m))
<1> DEFINE s == Stopped(g)
           u == [s.ul EXCEPT !.sent = s.ul.sent + g.ul.chunk, !.chunk = 0]
           a == [s EXCEPT !.ul = u]
           k == [a EXCEPT !.expected = m.seq]
           next == writeFileWorker([Stopped(g) EXCEPT !.ul.sent = @ + g.ul.chunk, !.ul.chunk = 0,
                                                      !.expected = m.seq], TRUE)
<1>1. g.machine = "upload"
  BY StageTells
<1>2. Serves(g) /\ Serves(uploadComplete(g, "failed"))
  BY <1>1, UploadServes DEF Serves, Sound, Recorded, Outcomes
<1>3. Keeps(g, s) /\ s \in GcsType /\ Serves(s)
  BY StoppedKeeps, KeepsServes DEF Keeps
<1>4. next = writeFileWorker(k, TRUE)
  BY DEF GcsType
<1> HIDE DEF s
<1>5. u \in UploadType
  <2>1. s.ul \in UploadType /\ s.ul.sent + g.ul.chunk \in Nat
    BY <1>3, OwnFields DEF UploadType
  <2> QED BY <2>1 DEF UploadType
<1> HIDE DEF u
<1>6. Keeps(g, a) /\ a \in GcsType
  BY <1>3, <1>5, KeepsData, KeepsThenKeeps DEF Keeps
<1> HIDE DEF a
<1>7. Keeps(g, k)
  BY <1>6, ReplyTypes, KeepsData, KeepsThenKeeps
<1> HIDE DEF k
<1>8. k \in GcsType /\ Working(k) /\ k.machine = "upload"
  BY <1>1, <1>7, KeepsServes DEF Keeps, SameCall
<1>9. Serves(next)
  BY <1>4, <1>8, UploadServes DEF Outcomes
<1>10. writeFileAckOrNak(g, m) \in {g, s, next, uploadComplete(g, "failed")}
  <2>1. m.seq < g.expected \/ m.seq >= g.expected
    BY ReplyTypes, OwnFields DEF Numbers
  <2> HIDE DEF next
  <2>2. writeFileAckOrNak(g, m) =
            IF m.op # "write" \/ m.session # g.ul.session THEN g
            ELSE CASE m.kind = "ack" /\ m.seq < g.expected -> s
                   [] m.kind = "ack" /\ m.seq >= g.expected -> next
                   [] OTHER -> uploadComplete(g, "failed")
    BY DEF writeFileAckOrNak, next, s
  <2> QED BY <2>1, <2>2
<1> QED BY <1>2, <1>3, <1>9, <1>10

LEMMA RemoveAnswered ==
  ASSUME NEW g \in GcsType, Working(g), g.stage = "remove", NEW m \in Replies
  PROVE  Serves(deleteFileAckOrNak(g, m))
<1>1. Serves(g)
  BY DEF Serves, Sound, Recorded
<1>2. Serves(deleteComplete(g, "ok")) /\ Serves(deleteComplete(g, "failed"))
  BY StageTells, DeleteServes DEF Outcomes
<1> QED BY <1>1, <1>2 DEF deleteFileAckOrNak

LEMMA TerminateAnswered ==
  ASSUME NEW g \in GcsType, Working(g), NEW m \in Replies
  PROVE  /\ g.stage = "terminate" => Serves(terminateSessionAckOrNak(g, m))
         /\ g.stage = "terminateUpload" => Serves(terminateUploadSessionAckOrNak(g, m))
<1>1. g.stage \in {"terminate", "terminateUpload"} => Serves(g)
  BY DEF Serves, Sound, Recorded
<1>2. g.stage = "terminate" => Serves(downloadComplete(g, "aborted"))
  BY StageTells, AbortServes DEF Outcomes
<1>3. g.stage = "terminateUpload" => Serves(uploadFinalize(g)) /\ Serves(uploadComplete(g, "failed"))
  BY StageTells, AbortServes DEF Outcomes
<1> QED BY <1>1, <1>2, <1>3 DEF terminateSessionAckOrNak, terminateUploadSessionAckOrNak

-----------------------------------------------------------------------------
(* Answers and timeouts *)

LEMMA ReceivedServes ==
  ASSUME NEW g \in GcsType, Sound(g), Recorded(g), NEW m \in Replies
  PROVE  Serves(mavlinkMessageReceived(g, m))
<1>1. Serves(g)
  BY DEF Serves
<1>2. ASSUME g.stage # "idle"
      PROVE  Serves(AckOrNak(g, m))
  <2>1. Working(g)
    BY <1>2 DEF Sound, Resting
  <2>2. g.stage \in Stages \ {"idle"}
    BY <1>2 DEF GcsType
  <2>3. CASE g.stage = "open"
    BY <2>1, <2>3, OpenAnswered DEF AckOrNak
  <2>4. CASE g.stage = "burst"
    BY <2>1, <2>4, BurstAnswered DEF AckOrNak
  <2>5. CASE g.stage = "fill"
    BY <2>1, <2>5, FillAnswered DEF AckOrNak
  <2>6. CASE g.stage = "reset"
    BY <2>1, <2>6, ResetAnswered DEF AckOrNak
  <2>7. CASE g.stage = "create"
    BY <2>1, <2>7, CreateAnswered DEF AckOrNak
  <2>8. CASE g.stage = "write"
    BY <2>1, <2>8, WriteAnswered DEF AckOrNak
  <2>9. CASE g.stage = "list"
    BY <2>1, <2>9, ListAnswered DEF AckOrNak
  <2>10. CASE g.stage = "remove"
    BY <2>1, <2>10, RemoveAnswered DEF AckOrNak
  <2>11. CASE g.stage = "terminate"
    BY <2>1, <2>11, TerminateAnswered DEF AckOrNak
  <2>12. CASE g.stage = "terminateUpload"
    BY <2>1, <2>12, TerminateAnswered DEF AckOrNak
  <2> QED BY <2>2, <2>3, <2>4, <2>5, <2>6, <2>7, <2>8, <2>9, <2>10, <2>11, <2>12 DEF Stages
<1> QED BY <1>1, <1>2 DEF mavlinkMessageReceived

LEMMA GiveUpServes ==
  ASSUME NEW g \in GcsType, Working(g)
  PROVE  Serves(GiveUp(g))
<1>1. g.stage \in Stages \ {"idle"}
  BY StageTells DEF GcsType
<1>2. CASE g.stage \in {"open", "burst", "fill"}
  BY <1>2, StageTells, DownloadServes DEF GiveUp, Outcomes
<1>3. CASE g.stage = "terminate"
  BY <1>3, StageTells, AbortServes DEF GiveUp, Outcomes
<1>4. CASE g.stage = "reset"
  BY <1>4, OrphanServes DEF GiveUp
<1>5. CASE g.stage \in {"create", "write"}
  BY <1>5, StageTells, UploadServes DEF GiveUp, Outcomes
<1>6. CASE g.stage = "terminateUpload"
  BY <1>6, StageTells, AbortServes DEF GiveUp, Outcomes
<1>7. CASE g.stage = "list"
  BY <1>7, StageTells, ListServes DEF GiveUp, Outcomes
<1>8. CASE g.stage = "remove"
  BY <1>8, StageTells, DeleteServes DEF GiveUp, Outcomes
<1> QED BY <1>1, <1>2, <1>3, <1>4, <1>5, <1>6, <1>7, <1>8 DEF Stages

LEMMA RetryServes ==
  ASSUME NEW g \in GcsType, Working(g), Recorded(g), g.stage \in Retried
  PROVE  Serves(Retry(g))
<1>1. PICK o \in Outcomes : TRUE
  BY DEF Outcomes
<1>2. CASE g.stage = "burst"
  BY <1>1, <1>2, StageTells, DownloadServes DEF Retry, Recorded
<1>3. CASE g.stage = "fill"
  BY <1>1, <1>3, StageTells, DownloadServes DEF Retry, Recorded
<1>4. CASE g.stage = "write"
  BY <1>1, <1>4, StageTells, UploadServes DEF Retry
<1>5. CASE g.stage = "list"
  BY <1>1, <1>5, StageTells, ListServes DEF Retry
<1>6. CASE g.stage = "remove"
  BY <1>1, <1>6, StageTells, DeleteServes DEF Retry
<1>7. CASE g.stage = "terminate"
  BY <1>1, <1>7, StageTells, AbortServes DEF Retry
<1>8. CASE g.stage = "terminateUpload"
  BY <1>1, <1>8, StageTells, AbortServes DEF Retry
<1> QED BY <1>2, <1>3, <1>4, <1>5, <1>6, <1>7, <1>8 DEF Retried

LEMMA TimeoutServes ==
  ASSUME NEW g \in GcsType, Sound(g), Recorded(g), g.timer
  PROVE  Serves(ackOrNakTimeout(g))
<1> DEFINE s == Stopped(g)
           n == s.retry + 1
           k == [s EXCEPT !.retry = n]
<1>1. Working(g)
  BY DEF Sound, Resting
<1>2. Keeps(g, s) /\ s \in GcsType /\ s.retry = g.retry /\ s.dl = g.dl
  BY StoppedKeeps DEF Keeps, Stopped, GcsType
<1>3. Working(s) /\ Recorded(s)
  BY <1>1, <1>2, KeepsServes, KeepsRecords
<1>4. ackOrNakTimeout(g) = IF g.stage \in Retried /\ g.retry < MaxRetry THEN Retry(k) ELSE GiveUp(s)
  BY DEF ackOrNakTimeout
<1> HIDE DEF s
<1>5. CASE g.stage \in Retried /\ g.retry < MaxRetry
  <2>1. n \in Retries
    BY <1>2, <1>5, OwnFields, RetriesMove
  <2> HIDE DEF n
  <2>2. Keeps(s, k) /\ k \in GcsType /\ k.dl = s.dl
    <3>1. Keeps(s, k)
      BY <1>2, <2>1, KeepsData
    <3>2. k.dl = s.dl
      BY <1>2 DEF GcsType
    <3> QED BY <3>1, <3>2 DEF Keeps
  <2> HIDE DEF k
  <2>3. Working(k) /\ Recorded(k) /\ k.stage = g.stage
    BY <1>2, <1>3, <2>2, KeepsServes, KeepsRecords DEF Keeps
  <2>4. Serves(Retry(k))
    BY <1>5, <2>2, <2>3, RetryServes
  <2> QED BY <1>4, <1>5, <2>4
<1>6. CASE ~(g.stage \in Retried /\ g.retry < MaxRetry)
  BY <1>2, <1>3, <1>4, <1>6, GiveUpServes
<1> QED BY <1>5, <1>6

-----------------------------------------------------------------------------
(* The calls *)

LEMMA BecomesDoes ==
  ASSUME NEW h, Serves(h), toVehicle \in Seq(Requests), Becomes(h)
  PROVE  /\ gcs' \in GcsType /\ gcs'.out = <<>> /\ Sound(gcs') /\ Recorded(gcs')
         /\ toVehicle' \in Seq(Requests)
<1> DEFINE k == [h EXCEPT !.out = <<>>]
<1>1. h \in GcsType /\ Sound(h) /\ Recorded(h)
  BY DEF Serves
<1>2. <<>> \in Seq(Requests)
  OBVIOUS
<1>3. k \in GcsType /\ k.out = <<>> /\ SameCall(h, k) /\ SameFiles(h, k) /\ k.stage = h.stage
      /\ k.timer = h.timer
  BY <1>1, <1>2 DEF GcsType, SameCall, SameFiles
<1> HIDE DEF k
<1>4. Sound(k) /\ Recorded(k)
  BY <1>1, <1>3 DEF Sound, Working, Resting, Recorded, SameCall, SameFiles
<1>5. toVehicle \o h.out \in Seq(Requests)
  <2>1. h.out \in Seq(Requests)
    BY <1>1 DEF GcsType
  <2> QED BY <2>1
<1>6. gcs' = k /\ toVehicle' = toVehicle \o h.out
  BY DEF Becomes, k
<1> QED BY <1>3, <1>4, <1>5, <1>6

\* A call has just been accepted.
Accepted(a, kind) ==
    /\ a \in GcsType /\ a.machine = kind /\ a.call.kind = kind /\ a.signals = <<>>
    /\ ~a.orphan => a.waiting = {kind}

LEMMA AcceptDoes ==
  ASSUME gcs \in GcsType, Sound(gcs), ~Busy, NEW kind \in Operations, NEW n \in Sizes \cup {0}
  PROVE  Accepted(Accept(kind, n), kind)
<1> DEFINE c == [kind |-> kind, size |-> n]
           ww == gcs.waiting \cup {kind}
           a == [gcs EXCEPT !.machine = kind, !.call = c, !.signals = <<>>, !.waiting = ww, !.retry = 0]
<1>1. Resting(gcs)
  <2>1. StagesOf("none") = {}
    BY DEF StagesOf
  <2> QED BY <2>1 DEF Sound, Working, Busy
<1>2. ~gcs.orphan => ww = {kind}
  BY <1>1 DEF Resting
<1>3. c \in [kind : Operations \cup {"none"}, size : Sizes \cup {0}] /\ c.kind = kind
  OBVIOUS
<1>4. ww \in SUBSET Operations
  BY DEF GcsType
<1>5. kind \in Machines /\ 0 \in Retries /\ <<>> \in Seq(Operations \X Outcomes)
  BY FtpAssumption DEF Machines, Retries
<1>6. Accept(kind, n) = a
  BY DEF Accept
<1> HIDE DEF c, ww
<1>7. a \in GcsType /\ a.machine = kind /\ a.call = c /\ a.signals = <<>> /\ a.waiting = ww
      /\ a.orphan = gcs.orphan
  BY <1>3, <1>4, <1>5 DEF GcsType
<1> HIDE DEF a
<1> QED BY <1>2, <1>3, <1>6, <1>7 DEF Accepted

LEMMA StartServes ==
  ASSUME NEW kind \in Operations, NEW a, Accepted(a, kind), NEW e, Keeps(a, e),
         NEW s \in StagesOf(kind), NEW h, Sends(e, h, s),
         s \in {"open", "burst", "fill"} => Recorded(h)
  PROVE  Serves(h)
<1>1. KindOf(kind) = kind
  BY DEF KindOf, Operations
<1>2. h.machine = kind /\ h.call.kind = kind /\ h.signals = <<>> /\ h.stage = s
      /\ (~h.orphan => h.waiting = {kind}) /\ h \in GcsType
  BY DEF Accepted, Keeps, Sends, SameCall
<1> QED BY <1>1, <1>2 DEF Serves, Sound, Recorded, Working

\* What a step leaves of the manager.
ManagerSound ==
    gcs \in GcsType /\ gcs.out = <<>> /\ Sound(gcs) /\ Recorded(gcs) /\ toVehicle \in Seq(Requests)

LEMMA CallsServe ==
  ASSUME ManagerSound
  PROVE  /\ \A n \in Sizes, c \in BOOLEAN : download(n, c) => ManagerSound'
         /\ \A n \in Sizes : upload(n) => ManagerSound'
         /\ \A n \in Sizes : listDirectory(n) => ManagerSound'
         /\ deleteFile => ManagerSound'
<1> USE DEF ManagerSound
<1>1. ASSUME NEW n \in Sizes, NEW c \in BOOLEAN, download(n, c)
      PROVE  ManagerSound'
  <2> DEFINE a == Accept("download", n)
             d == [NoDownload EXCEPT !.path = n, !.checksize = c]
             e == [a EXCEPT !.dl = d]
  <2>1. Accepted(a, "download")
    BY <1>1, AcceptDoes DEF download, Operations
  <2>2. d \in DownloadType /\ d.written = {} /\ d.holes = <<>> /\ d.bytes = 0
    BY NothingTypes DEF DownloadType, NoDownload
  <2>3. Becomes(openFileROBegin(e))
    BY <1>1 DEF download
  <2> HIDE DEF a, d
  <2>4. /\ Keeps(a, e) /\ e \in GcsType
        /\ e.dl.written = {} /\ e.dl.holes = <<>> /\ e.dl.bytes = 0
    <3>1. a \in GcsType
      BY <2>1 DEF Accepted
    <3>2. Keeps(a, e)
      BY <2>2, <3>1, KeepsData
    <3>3. e.dl = d
      BY <3>1 DEF GcsType
    <3> QED BY <2>2, <3>2, <3>3 DEF Keeps
  <2> HIDE DEF e
  <2>5. Serves(openFileROBegin(e))
    <3> DEFINE h == openFileROBegin(e)
    <3>1. "open" \in StagesOf("download") /\ "download" \in Operations
      BY DEF StagesOf, Operations
    <3>2. Sends(e, h, "open") /\ h.dl = e.dl
      BY <2>4, OpenSends
    <3> HIDE DEF h
    <3>3. Recorded(h)
      BY <2>4, <3>2 DEF Recorded, Sends
    <3>4. Serves(h)
      BY <2>1, <2>4, <3>1, <3>2, <3>3, StartServes
    <3> QED BY <3>4 DEF h
  <2> QED BY <2>3, <2>5, BecomesDoes
<1>2. ASSUME NEW n \in Sizes, upload(n)
      PROVE  ManagerSound'
  <2> DEFINE a == Accept("upload", n)
             u == [NoUpload EXCEPT !.open = TRUE, !.size = n]
             e == [a EXCEPT !.ul = u]
  <2>1. Accepted(a, "upload")
    BY <1>2, AcceptDoes DEF upload, Operations
  <2>2. u \in UploadType
    BY NothingTypes, FtpAssumption DEF UploadType
  <2>3. Becomes(createFileBegin(e))
    BY <1>2 DEF upload
  <2> HIDE DEF a, u
  <2>4. Keeps(a, e) /\ e \in GcsType
    BY <2>1, <2>2, KeepsData DEF Accepted, Keeps
  <2> HIDE DEF e
  <2>5. Serves(createFileBegin(e))
    <3>1. "create" \in StagesOf("upload") /\ "upload" \in Operations
      BY DEF StagesOf, Operations
    <3> QED BY <2>1, <2>4, <3>1, CreateSends, StartServes
  <2> QED BY <2>3, <2>5, BecomesDoes
<1>3. ASSUME NEW n \in Sizes, listDirectory(n)
      PROVE  ManagerSound'
  <2> DEFINE a == Accept("list", n)
             l == [NoList EXCEPT !.asked = TRUE, !.path = n, !.withTime = gcs.withTime]
             e == [a EXCEPT !.ls = l]
  <2>1. Accepted(a, "list")
    BY <1>3, AcceptDoes DEF listDirectory, Operations
  <2>2. l \in ListType
    <3>1. gcs.withTime \in BOOLEAN
      BY DEF GcsType
    <3> QED BY <3>1, NothingTypes DEF ListType
  <2>3. Becomes(listDirectoryWorker(e, TRUE))
    BY <1>3 DEF listDirectory
  <2> HIDE DEF a, l
  <2>4. Keeps(a, e) /\ e \in GcsType
    BY <2>1, <2>2, KeepsData DEF Accepted, Keeps
  <2> HIDE DEF e
  <2>5. Serves(listDirectoryWorker(e, TRUE))
    <3>1. "list" \in StagesOf("list") /\ "list" \in Operations
      BY DEF StagesOf, Operations
    <3> QED BY <2>1, <2>4, <3>1, ListSends, StartServes
  <2> QED BY <2>3, <2>5, BecomesDoes
<1>4. ASSUME deleteFile
      PROVE  ManagerSound'
  <2> DEFINE a == Accept("delete", 0)
             e == [a EXCEPT !.del = TRUE]
  <2>1. Accepted(a, "delete")
    BY <1>4, AcceptDoes DEF deleteFile, Operations
  <2>2. Becomes(deleteFileBegin(e))
    BY <1>4 DEF deleteFile
  <2> HIDE DEF a
  <2>3. Keeps(a, e) /\ e \in GcsType
    BY <2>1, KeepsData DEF Accepted, Keeps
  <2> HIDE DEF e
  <2>4. Serves(deleteFileBegin(e))
    <3>1. "remove" \in StagesOf("delete") /\ "delete" \in Operations
      BY DEF StagesOf, Operations
    <3> QED BY <2>1, <2>3, <3>1, RemoveSends, StartServes
  <2> QED BY <2>2, <2>4, BecomesDoes
<1> QED BY <1>1, <1>2, <1>3, <1>4

LEMMA BadPathServes ==
  ASSUME ManagerSound, NEW kind \in Operations, badPath(kind)
  PROVE  ManagerSound'
<1> USE DEF ManagerSound
<1> DEFINE mm == IF kind \in {"download", "list"} THEN kind ELSE gcs.machine
           d == IF kind = "download" THEN NoDownload ELSE gcs.dl
           u == IF kind = "upload" THEN NoUpload ELSE gcs.ul
           l == IF kind = "list" THEN [NoList EXCEPT !.asked = TRUE] ELSE gcs.ls
           b == gcs.del \/ kind = "delete"
           a == [gcs EXCEPT !.machine = mm, !.dl = d, !.ul = u]
           h == [a EXCEPT !.ls = l, !.del = b, !.call = NoCall, !.signals = <<>>]
<1>1. Becomes(h)
  <2>1. badPath(kind) => Becomes([gcs EXCEPT !.machine = mm, !.dl = d, !.ul = u, !.ls = l, !.del = b,
                                             !.call = NoCall, !.signals = <<>>])
    BY DEF badPath
  <2> HIDE DEF mm, d, u, l, b
  <2>2. [gcs EXCEPT !.machine = mm, !.dl = d, !.ul = u, !.ls = l, !.del = b,
                    !.call = NoCall, !.signals = <<>>] = h
    BY DEF GcsType
  <2> HIDE DEF h
  <2> QED BY <2>1, <2>2
<1>2. Resting(gcs)
  <2>1. StagesOf("none") = {}
    BY DEF StagesOf
  <2> QED BY <2>1 DEF Sound, Working, Busy, badPath
<1>3. mm \in Machines /\ d \in DownloadType /\ u \in UploadType
  BY OwnFields, NothingTypes DEF GcsType, Machines
<1>4. l \in ListType /\ b \in BOOLEAN
  <2>1. [NoList EXCEPT !.asked = TRUE] \in ListType
    BY NothingTypes DEF ListType
  <2> QED BY <2>1, OwnFields DEF GcsType
<1> HIDE DEF mm, d, u, l, b
<1>5. a \in GcsType /\ a.stage = gcs.stage /\ a.timer = gcs.timer /\ a.orphan = gcs.orphan
      /\ a.waiting = gcs.waiting
  BY <1>3 DEF GcsType
<1> HIDE DEF a
<1>6. h \in GcsType /\ h.stage = a.stage /\ h.timer = a.timer /\ h.orphan = a.orphan
      /\ h.waiting = a.waiting /\ h.call = NoCall /\ h.signals = <<>>
  <2>1. <<>> \in Seq(Operations \X Outcomes)
    OBVIOUS
  <2>2. NoCall \in [kind : Operations \cup {"none"}, size : Sizes \cup {0}]
    BY NothingTypes
  <2> QED BY <1>4, <1>5, <2>1, <2>2 DEF GcsType
<1> HIDE DEF h
<1>7. Serves(h)
  BY <1>2, <1>5, <1>6 DEF Serves, Sound, Resting, Recorded
<1> QED BY <1>1, <1>7, BecomesDoes

\* Who waits for the end of a call is served by its machine.
LEMMA CancelsServe ==
  ASSUME ManagerSound
  PROVE  /\ cancelDownload => ManagerSound'
         /\ cancelUpload => ManagerSound'
         /\ cancelListDirectory => ManagerSound'
         /\ cancelDelete => ManagerSound'
<1> USE DEF ManagerSound
<1>1. ASSUME NEW kind \in gcs.waiting
      PROVE  Awaited(gcs, kind)
  BY DEF Awaited, Sound, Working, Resting
<1>2. ASSUME NEW kind \in gcs.waiting, kind \in Operations, NEW k, Keeps(gcs, k), NEW h, Ends(k, h, kind)
      PROVE  Serves(h)
  <2>1. Awaited(k, kind)
    BY <1>1, <1>2 DEF Awaited, Keeps, SameCall
  <2> QED BY <1>2, <2>1, EndsAwaited
<1>3. ASSUME NEW machine \in {"abortDownload", "abortUpload"}, KindOf(machine) \in gcs.waiting,
             NEW k, Keeps(gcs, k),
             NEW h, Sends([k EXCEPT !.machine = machine, !.retry = 0], h,
                          IF machine = "abortDownload" THEN "terminate" ELSE "terminateUpload")
      PROVE  Serves(h)
  <2> DEFINE e == [k EXCEPT !.machine = machine, !.retry = 0]
             s == IF machine = "abortDownload" THEN "terminate" ELSE "terminateUpload"
  <2>1. e.machine = machine /\ e.call = gcs.call /\ e.signals = gcs.signals
        /\ e.waiting = gcs.waiting /\ e.orphan = gcs.orphan
    BY <1>3 DEF Keeps, SameCall, GcsType
  <2> HIDE DEF e
  <2>2. Sends(e, h, s) /\ s \in StagesOf(machine) /\ s \notin {"open", "burst", "fill"}
    BY <1>3 DEF e, StagesOf
  <2> HIDE DEF s
  <2>3. h.machine = machine /\ h.call = gcs.call /\ h.signals = gcs.signals /\ h.waiting = gcs.waiting
        /\ h.orphan = gcs.orphan /\ h.stage = s /\ h \in GcsType
    BY <2>1, <2>2 DEF Sends, SameCall
  <2>4. ~h.orphan => /\ h.signals = <<>> /\ h.waiting = {h.call.kind} /\ h.call.kind = KindOf(h.machine)
    BY <1>1, <1>3, <2>3 DEF Awaited
  <2> QED BY <2>2, <2>3, <2>4 DEF Serves, Sound, Working, Recorded
<1>4. cancelDownload => ManagerSound'
  <2> SUFFICES ASSUME cancelDownload
               PROVE  ManagerSound'
    OBVIOUS
  <2> DEFINE e == [gcs EXCEPT !.machine = "abortDownload", !.retry = 0]
  <2>1. Becomes(terminateSessionBegin(e)) /\ KindOf("abortDownload") \in gcs.waiting
    BY DEF cancelDownload, KindOf
  <2>2. e \in GcsType
    <3>1. "abortDownload" \in Machines /\ 0 \in Retries
      BY FtpAssumption DEF Machines, Retries
    <3> QED BY <3>1 DEF GcsType
  <2>3. Sends(e, terminateSessionBegin(e), "terminate")
    BY <2>2, TerminateSends
  <2>4. Keeps(gcs, gcs)
    BY DEF Keeps, SameCall
  <2>5. Serves(terminateSessionBegin(e))
    BY <1>3, <2>1, <2>3, <2>4
  <2> HIDE DEF e
  <2> QED BY <2>1, <2>5, BecomesDoes
<1>5. cancelUpload => ManagerSound'
  <2> SUFFICES ASSUME cancelUpload
               PROVE  ManagerSound'
    OBVIOUS
  <2> DEFINE u == [gcs.ul EXCEPT !.cancelled = TRUE]
             k == [gcs EXCEPT !.ul = u]
             e == [k EXCEPT !.machine = "abortUpload", !.retry = 0]
  <2>1. /\ "upload" \in gcs.waiting
        /\ Becomes(IF gcs.ul.session # 0 THEN terminateUploadSessionBegin(e)
                   ELSE uploadComplete(k, "aborted"))
    BY DEF cancelUpload
  <2>2. u \in UploadType
    BY OwnFields DEF UploadType
  <2> HIDE DEF u
  <2>3. Keeps(gcs, k) /\ k \in GcsType
    BY <2>2, KeepsData DEF Keeps
  <2> HIDE DEF k
  <2>4. Serves(terminateUploadSessionBegin(e))
    <3>1. e \in GcsType
      <4>1. "abortUpload" \in Machines /\ 0 \in Retries
        BY FtpAssumption DEF Machines, Retries
      <4> QED BY <2>3, <4>1 DEF GcsType
    <3>2. Sends(e, terminateUploadSessionBegin(e), "terminateUpload")
      BY <3>1, TerminateSends
    <3>3. KindOf("abortUpload") \in gcs.waiting
      BY <2>1 DEF KindOf
    <3> QED BY <1>3, <2>3, <3>2, <3>3
  <2> HIDE DEF e
  <2>5. Serves(uploadComplete(k, "aborted"))
    <3>1. Ends(k, uploadComplete(k, "aborted"), "upload")
      BY <2>3, UploadEnds DEF Outcomes
    <3> QED BY <1>2, <2>1, <2>3, <3>1 DEF Operations
  <2> QED BY <2>1, <2>4, <2>5, BecomesDoes
<1>6. cancelListDirectory => ManagerSound'
  <2> SUFFICES ASSUME cancelListDirectory
               PROVE  ManagerSound'
    OBVIOUS
  <2>1. Becomes(listDirectoryComplete(gcs, "aborted")) /\ "list" \in gcs.waiting
    BY DEF cancelListDirectory
  <2>2. Ends(gcs, listDirectoryComplete(gcs, "aborted"), "list") /\ Keeps(gcs, gcs)
    BY ListEnds DEF Outcomes, Keeps, SameCall
  <2>3. Serves(listDirectoryComplete(gcs, "aborted"))
    BY <1>2, <2>1, <2>2 DEF Operations
  <2> QED BY <2>1, <2>3, BecomesDoes
<1>7. cancelDelete => ManagerSound'
  <2> SUFFICES ASSUME cancelDelete
               PROVE  ManagerSound'
    OBVIOUS
  <2>1. Becomes(deleteComplete(gcs, "aborted")) /\ "delete" \in gcs.waiting
    BY DEF cancelDelete
  <2>2. Ends(gcs, deleteComplete(gcs, "aborted"), "delete") /\ Keeps(gcs, gcs)
    BY DeleteEnds DEF Outcomes, Keeps, SameCall
  <2>3. Serves(deleteComplete(gcs, "aborted"))
    BY <1>2, <2>1, <2>2 DEF Operations
  <2> QED BY <2>1, <2>3, BecomesDoes
<1> QED BY <1>4, <1>5, <1>6, <1>7

-----------------------------------------------------------------------------
(* The vehicle *)

LEMMA ReplyType ==
  ASSUME vehicle \in VehicleType, NEW r \in Requests, NEW n \in Nat,
         NEW kind \in {"ack", "nak", "eof", "unknown"}
  PROVE  Reply(r, n, kind) \in Replies
<1>1. r.seq \in Numbers /\ r.op \in Opcodes /\ r.offset \in Nat
  BY DEF Requests
<1>2. vehicle.session \in Sessions \cup {0}
  BY DEF VehicleType
<1>3. NoReply \in Replies
  <2>1. 0 \in Numbers /\ "reset" \in Opcodes
    BY DEF Numbers, Opcodes
  <2> QED BY <2>1 DEF NoReply, Replies
<1>4. Seq16(r.seq + n) \in Numbers
  <2>1. r.seq + n \in Int
    BY <1>1 DEF Numbers
  <2> QED BY <2>1, Seq16Type
<1> DEFINE q == Seq16(r.seq + n)
<1>5. Reply(r, n, kind) = [NoReply EXCEPT !.seq = q, !.op = r.op, !.kind = kind,
                                          !.session = vehicle.session, !.offset = r.offset]
  BY DEF Reply
<1>6. q \in Numbers
  BY <1>4
<1> HIDE DEF q
<1> QED BY <1>1, <1>2, <1>3, <1>5, <1>6 DEF Replies

LEMMA SingleReply ==
  ASSUME NEW a \in Replies
  PROVE  <<a>> \in Seq(Replies) /\ <<a>> # <<>>
  OBVIOUS

LEMMA SizesAreNumbers == \A n \in Sizes \cup {0} : n \in Nat
  BY FtpAssumption

LEMMA BurstRepliesType ==
  ASSUME vehicle \in VehicleType, NEW r \in Requests
  PROVE  BurstReplies(r) \in Seq(Replies) /\ BurstReplies(r) # <<>>
<1> DEFINE n == IF r.offset >= vehicle.path THEN 0
                ELSE IF vehicle.path - r.offset < Burst THEN vehicle.path - r.offset ELSE Burst
           block(i) == [Reply(r, i, "ack") EXCEPT !.offset = r.offset + i - 1, !.complete = i = Burst]
           blocks == [i \in 1..n |-> block(i)]
           eof == Reply(r, n + 1, "eof")
<1>1. r.offset \in Nat /\ vehicle.path \in Nat /\ Burst \in Nat \ {0}
  <2>1. r.offset \in Nat
    BY DEF Requests
  <2>2. vehicle.path \in Nat
    BY SizesAreNumbers DEF VehicleType
  <2> QED BY <2>1, <2>2, FtpAssumption
<1>2. n \in Nat /\ (r.offset + n < vehicle.path => n > 0)
  BY <1>1
<1>3. BurstReplies(r) = IF r.offset + n >= vehicle.path THEN Append(blocks, eof) ELSE blocks
  BY DEF BurstReplies
<1>4. eof \in Replies
  <2>1. n + 1 \in Nat
    BY <1>2
  <2> HIDE DEF n
  <2> QED BY <2>1, ReplyType
<1>5. ASSUME NEW i \in 1..n
      PROVE  block(i) \in Replies
  <2>1. i \in Nat /\ r.offset + i - 1 \in Nat
    BY <1>1, <1>2
  <2>2. Reply(r, i, "ack") \in Replies
    BY <2>1, ReplyType
  <2> DEFINE o == r.offset + i - 1
             c == i = Burst
  <2>3. o \in Nat /\ c \in BOOLEAN
    BY <2>1
  <2>4. block(i) = [Reply(r, i, "ack") EXCEPT !.offset = o, !.complete = c]
    OBVIOUS
  <2> HIDE DEF o, c, block
  <2> QED BY <2>2, <2>3, <2>4 DEF Replies
<1> HIDE DEF n, block, eof
<1>6. blocks \in Seq(Replies) /\ Len(blocks) = n
  BY <1>2, <1>5
<1> HIDE DEF blocks
<1>7. CASE r.offset + n >= vehicle.path
  BY <1>3, <1>4, <1>6, <1>7
<1>8. CASE ~(r.offset + n >= vehicle.path)
  <2>1. n > 0
    BY <1>1, <1>2, <1>8
  <2> QED BY <1>3, <1>6, <1>8, <2>1
<1> QED BY <1>7, <1>8

LEMMA AnswerType ==
  ASSUME vehicle \in VehicleType, NEW r \in Requests, NEW s \in Sessions \cup {0},
         NEW extra \in {0, 1}, NEW withTime \in BOOLEAN
  PROVE  LET a == Answer(r, s, extra, withTime) IN a \in Seq(Replies) /\ a # <<>>
<1>1. \A kind \in {"ack", "nak", "eof", "unknown"} : Reply(r, 1, kind) \in Replies
  BY ReplyType
<1> DEFINE k == Reply(r, 1, "ack")
           n == r.path + extra
           opened == [k EXCEPT !.session = s, !.size = n]
           created == [k EXCEPT !.session = s]
           listed == [k EXCEPT !.size = Entries(r)]
<1>2. n \in Nat
  <2>1. r.path \in Nat
    BY SizesAreNumbers DEF Requests
  <2> QED BY <2>1
<1>3. k \in Replies
  BY <1>1
<1>4. ~(r.offset >= r.path) => Entries(r) \in Nat
  <2>1. r.offset \in Nat /\ r.path \in Nat
    BY SizesAreNumbers DEF Requests
  <2>2. PerReply \in Nat
    BY FtpAssumption
  <2> QED BY <2>1, <2>2 DEF Entries
<1> HIDE DEF n, k
<1>5. opened \in Replies
  BY <1>2, <1>3 DEF Replies
<1>6. created \in Replies
  BY <1>3 DEF Replies
<1>7. ~(r.offset >= r.path) => listed \in Replies
  BY <1>3, <1>4 DEF Replies
<1>8. \/ Answer(r, s, extra, withTime) \in
          {<<opened>>, <<created>>, BurstReplies(r), <<Reply(r, 1, "ack")>>, <<Reply(r, 1, "eof")>>,
           <<Reply(r, 1, "nak")>>, <<Reply(r, 1, "unknown")>>}
      \/ ~(r.offset >= r.path) /\ Answer(r, s, extra, withTime) = <<listed>>
  <2>1. opened = [Reply(r, 1, "ack") EXCEPT !.session = s, !.size = r.path + extra]
        /\ created = [Reply(r, 1, "ack") EXCEPT !.session = s]
        /\ listed = [Reply(r, 1, "ack") EXCEPT !.size = Entries(r)]
    BY DEF k, n
  <2> HIDE DEF opened, created, listed
  <2> QED BY <2>1 DEF Answer
<1> HIDE DEF opened, created, listed
<1> QED BY <1>1, <1>5, <1>6, <1>7, <1>8, SingleReply, BurstRepliesType

LEMMA AfterType ==
  ASSUME vehicle \in VehicleType, NEW r \in Requests, NEW s \in Sessions \cup {0}
  PROVE  After(r, s) \in VehicleType
<1>1. r.offset \in Nat /\ r.path \in Sizes \cup {0}
  BY DEF Requests
<1>2. [vehicle EXCEPT !.mode = "read", !.session = s, !.path = r.path] \in VehicleType
  BY <1>1 DEF VehicleType
<1>3. [vehicle EXCEPT !.mode = "write", !.session = s, !.blocks = {}] \in VehicleType
  BY DEF VehicleType
<1>4. [vehicle EXCEPT !.blocks = @ \cup {r.offset}] \in VehicleType
  BY <1>1 DEF VehicleType
<1>5. [vehicle EXCEPT !.mode = "none"] \in VehicleType
  BY DEF VehicleType
<1>6. [vehicle EXCEPT !.present = FALSE] \in VehicleType
  BY DEF VehicleType
<1> QED BY <1>2, <1>3, <1>4, <1>5, <1>6 DEF After

LEMMA AnsweredType ==
  ASSUME NEW v \in VehicleType, NEW a \in Replies
  PROVE  [v EXCEPT !.last = a] \in VehicleType
  BY DEF VehicleType

-----------------------------------------------------------------------------
(* The invariant *)

\* The other half of the invariant: what the manager does not own.
AroundType ==
    /\ vehicle \in VehicleType /\ linked \in BOOLEAN /\ toGcs \in Seq(Replies)
    /\ ops \in 0..MaxOps /\ faults \in 0..MaxFaults

LEMMA IInvParts == IInv <=> ManagerSound /\ AroundType
  BY DEF IInv, TypeOK, ManagerSound, AroundType

LEMMA InitIInv == Init => IInv
<1> SUFFICES ASSUME Init
             PROVE  IInv
  OBVIOUS
<1>1. PICK s \in Starts :
          gcs = [machine |-> "none", stage |-> "idle", expected |-> s, timer |-> FALSE,
                 retry |-> 0, dl |-> NoDownload, ul |-> NoUpload, ls |-> NoList,
                 del |-> FALSE, withTime |-> TRUE, out |-> <<>>, call |-> NoCall,
                 signals |-> <<>>, waiting |-> {}, orphan |-> FALSE, unsent |-> FALSE]
  BY DEF Init
<1>2. s \in Numbers /\ 0 \in Retries /\ "none" \in Machines /\ "idle" \in Stages
  BY FtpAssumption DEF Retries, Machines, Stages
<1>3. <<>> \in Seq(Requests) /\ <<>> \in Seq(Operations \X Outcomes) /\ {} \in SUBSET Operations
  OBVIOUS
<1>4. gcs \in GcsType
  BY <1>1, <1>2, <1>3, NothingTypes DEF GcsType
<1>5. gcs.out = <<>> /\ Resting(gcs) /\ Recorded(gcs)
  BY <1>1 DEF Resting, Recorded
<1>6. toVehicle \in Seq(Requests)
  BY DEF Init
<1>7. vehicle \in VehicleType
  <2> DEFINE n == gcs.expected
             a == [NoReply EXCEPT !.seq = n]
  <2>1. vehicle = [alive |-> TRUE, mode |-> "none", session |-> 0, path |-> 0,
                   blocks |-> {}, present |-> TRUE, last |-> a]
    BY DEF Init
  <2>2. n \in Numbers
    BY <1>4, OwnFields
  <2> HIDE DEF n
  <2>3. a \in Replies
    <3>1. "reset" \in Opcodes
      BY DEF Opcodes
    <3> QED BY <2>2, <3>1 DEF NoReply, Replies
  <2> HIDE DEF a
  <2> QED BY <2>1, <2>3 DEF VehicleType
<1>8. linked \in BOOLEAN /\ toGcs \in Seq(Replies) /\ ops \in 0..MaxOps /\ faults \in 0..MaxFaults
  BY FtpAssumption DEF Init
<1> QED BY <1>4, <1>5, <1>6, <1>7, <1>8, IInvParts DEF ManagerSound, AroundType, Sound

LEMMA CallsKeepAround ==
  ASSUME AroundType, Called
  PROVE  AroundType'
  BY FtpAssumption DEF AroundType, Called

LEMMA FaultsCount ==
  ASSUME AroundType, Fault \/ UNCHANGED faults
  PROVE  faults' \in 0..MaxFaults
  BY FtpAssumption DEF AroundType, Fault

LEMMA RemoveAtType ==
  ASSUME NEW S, NEW q \in Seq(S), NEW i \in DOMAIN q
  PROVE  RemoveAt(q, i) \in Seq(S)
<1>1. i \in 1..Len(q)
  OBVIOUS
<1>2. SubSeq(q, 1, i - 1) \in Seq(S) /\ SubSeq(q, i + 1, Len(q)) \in Seq(S)
  BY <1>1
<1> QED BY <1>2 DEF RemoveAt

LEMMA ReceiveStep ==
  ASSUME IInv, NEW i \in 1..Len(toGcs), NEW again \in BOOLEAN, Receive(i, again)
  PROVE  IInv'
<1>1. ManagerSound /\ AroundType
  BY IInvParts
<1>2. toGcs[i] \in Replies /\ i \in DOMAIN toGcs
  BY <1>1 DEF AroundType, Receive
<1>3. Serves(mavlinkMessageReceived(gcs, toGcs[i]))
  BY <1>1, <1>2, ReceivedServes DEF ManagerSound
<1>4. ManagerSound'
  BY <1>1, <1>3, BecomesDoes DEF ManagerSound, Receive
<1>5. toGcs' \in Seq(Replies)
  BY <1>1, <1>2, RemoveAtType DEF AroundType, Receive
<1>6. faults' \in 0..MaxFaults
  BY <1>1, FaultsCount DEF Receive
<1>7. AroundType'
  BY <1>1, <1>5, <1>6 DEF AroundType, Receive
<1> QED BY <1>4, <1>7, IInvParts, PTL

LEMMA TimeoutStep ==
  ASSUME IInv, Timeout
  PROVE  IInv'
<1>1. ManagerSound /\ AroundType
  BY IInvParts
<1>2. Serves(ackOrNakTimeout(gcs))
  BY <1>1, TimeoutServes DEF ManagerSound, Timeout
<1>3. ManagerSound'
  BY <1>1, <1>2, BecomesDoes DEF ManagerSound, Timeout
<1>4. faults' \in 0..MaxFaults
  BY <1>1, FaultsCount DEF Timeout
<1>5. AroundType'
  BY <1>1, <1>4 DEF AroundType, Timeout
<1> QED BY <1>3, <1>5, IInvParts, PTL

\* A step that leaves the manager alone.
LEMMA OthersKeepManager ==
  ASSUME ManagerSound, UNCHANGED gcs, toVehicle' \in Seq(Requests)
  PROVE  ManagerSound'
  BY DEF ManagerSound, Sound, Working, Resting, Recorded

LEMMA ServeStep ==
  ASSUME IInv, Serve
  PROVE  IInv'
<1>1. ManagerSound /\ AroundType
  BY IInvParts
<1> DEFINE r == Head(toVehicle)
<1>2. toVehicle \in Seq(Requests) /\ toVehicle # <<>>
  BY <1>1 DEF ManagerSound, Serve
<1>3. r \in Requests /\ Tail(toVehicle) \in Seq(Requests)
  BY <1>2, HeadTailProperties
<1>4. UNCHANGED <<gcs, linked, ops, faults>> /\ toVehicle' = Tail(toVehicle)
  BY DEF Serve
<1>5. vehicle \in VehicleType /\ toGcs \in Seq(Replies)
  BY <1>1 DEF AroundType
<1>6. vehicle' \in VehicleType /\ toGcs' \in Seq(Replies)
  <2>1. CASE r.seq = Seq16(vehicle.last.seq - 1)
    <3>1. vehicle.last \in Replies
      BY <1>5 DEF VehicleType
    <3>2. vehicle' = vehicle /\ toGcs' = Append(toGcs, vehicle.last)
      BY <2>1 DEF Serve
    <3> QED BY <1>5, <3>1, <3>2
  <2>2. CASE r.seq # Seq16(vehicle.last.seq - 1)
    <3>1. PICK s \in (IF r.op \in {"open", "create"} THEN Sessions ELSE {vehicle.session}),
               extra \in (IF r.op = "open" THEN {0, 1} ELSE {0}), withTime \in BOOLEAN :
               /\ toGcs' = toGcs \o Answer(r, s, extra, withTime)
               /\ vehicle' = [After(r, s) EXCEPT !.last = Last(Answer(r, s, extra, withTime))]
      BY <2>2 DEF Serve
    <3>2. s \in Sessions \cup {0} /\ extra \in {0, 1}
      BY <1>5 DEF VehicleType
    <3> DEFINE a == Answer(r, s, extra, withTime)
    <3>3. a \in Seq(Replies) /\ a # <<>>
      BY <1>3, <1>5, <3>2, AnswerType
    <3>4. After(r, s) \in VehicleType
      BY <1>3, <1>5, <3>2, AfterType
    <3> HIDE DEF a
    <3>5. Last(a) \in Replies
      BY <3>3 DEF Last
    <3>6. toGcs \o a \in Seq(Replies)
      BY <1>5, <3>3
    <3> QED BY <3>1, <3>4, <3>5, <3>6, AnsweredType DEF a
  <2> QED BY <2>1, <2>2
<1>7. ManagerSound'
  BY <1>1, <1>3, <1>4, OthersKeepManager
<1>8. AroundType'
  BY <1>1, <1>4, <1>6 DEF AroundType
<1> QED BY <1>7, <1>8, IInvParts, PTL

LEMMA RefuseStep ==
  ASSUME IInv, Refuse
  PROVE  IInv'
<1>1. ManagerSound /\ AroundType
  BY IInvParts
<1> DEFINE a == Reply(Head(toVehicle), 1, "nak")
<1>2. toVehicle \in Seq(Requests) /\ toVehicle # <<>> /\ vehicle \in VehicleType
      /\ toGcs \in Seq(Replies)
  BY <1>1 DEF ManagerSound, AroundType, Refuse
<1>3. Head(toVehicle) \in Requests /\ Tail(toVehicle) \in Seq(Requests)
  BY <1>2, HeadTailProperties
<1>4. a \in Replies
  BY <1>2, <1>3, ReplyType
<1>5. /\ toVehicle' = Tail(toVehicle) /\ toGcs' = Append(toGcs, a)
      /\ vehicle' = [vehicle EXCEPT !.last = a] /\ UNCHANGED <<gcs, linked, ops>> /\ Fault
  BY DEF Refuse
<1> HIDE DEF a
<1>6. toGcs' \in Seq(Replies) /\ vehicle' \in VehicleType
  BY <1>2, <1>4, <1>5, AnsweredType
<1>7. ManagerSound'
  BY <1>1, <1>3, <1>5, OthersKeepManager
<1>8. AroundType'
  BY <1>1, <1>5, <1>6, FaultsCount DEF AroundType
<1> QED BY <1>7, <1>8, IInvParts, PTL

LEMMA NetworkStep ==
  ASSUME IInv, \/ FallSilent \/ Unheard \/ LoseRequest \/ RepeatRequest \/ LinkChange
               \/ \E i \in 1..Len(toGcs) : LoseReply(i)
  PROVE  IInv'
<1>1. ManagerSound /\ AroundType
  BY IInvParts
<1>2. toVehicle \in Seq(Requests)
  BY <1>1 DEF ManagerSound
<1>3. UNCHANGED gcs /\ ops' = ops /\ faults' \in 0..MaxFaults
  BY <1>1, FaultsCount
     DEF FallSilent, Unheard, LoseRequest, RepeatRequest, LinkChange, LoseReply
<1>4. toVehicle' \in Seq(Requests)
  <2>1. CASE Unheard
    BY <2>1 DEF Unheard
  <2>2. CASE LoseRequest
    BY <1>2, <2>2, HeadTailProperties DEF LoseRequest
  <2>3. CASE RepeatRequest
    <3>1. toVehicle # <<>> /\ toVehicle' = <<Head(toVehicle)>> \o toVehicle
      BY <2>3 DEF RepeatRequest
    <3>2. Head(toVehicle) \in Requests
      BY <1>2, <3>1, HeadTailProperties
    <3> QED BY <1>2, <3>1, <3>2
  <2>4. CASE FallSilent \/ LinkChange \/ \E i \in 1..Len(toGcs) : LoseReply(i)
    BY <1>2, <2>4 DEF FallSilent, LinkChange, LoseReply
  <2> QED BY <2>1, <2>2, <2>3, <2>4
<1>5. toGcs' \in Seq(Replies)
  <2>1. CASE \E i \in 1..Len(toGcs) : LoseReply(i)
    BY <1>1, <2>1, RemoveAtType DEF AroundType, LoseReply
  <2>2. CASE ~\E i \in 1..Len(toGcs) : LoseReply(i)
    BY <1>1, <2>2 DEF AroundType, FallSilent, Unheard, LoseRequest, RepeatRequest, LinkChange
  <2> QED BY <2>1, <2>2
<1>6. vehicle' \in VehicleType
  <2>1. vehicle \in VehicleType
    BY <1>1 DEF AroundType
  <2>2. [vehicle EXCEPT !.alive = FALSE] \in VehicleType
    BY <2>1 DEF VehicleType
  <2> QED BY <2>1, <2>2 DEF FallSilent, Unheard, LoseRequest, RepeatRequest, LinkChange, LoseReply
<1>7. linked' \in BOOLEAN
  BY <1>1 DEF AroundType, FallSilent, Unheard, LoseRequest, RepeatRequest, LinkChange, LoseReply
<1>8. ManagerSound'
  BY <1>1, <1>3, <1>4, OthersKeepManager
<1>9. AroundType'
  BY <1>1, <1>3, <1>5, <1>6, <1>7 DEF AroundType
<1> QED BY <1>8, <1>9, IInvParts, PTL

LEMMA CallStep ==
  ASSUME IInv, \/ \E n \in Sizes, c \in BOOLEAN : download(n, c)
               \/ \E n \in Sizes : upload(n)
               \/ \E n \in Sizes : listDirectory(n)
               \/ deleteFile
               \/ \E k \in Operations : badPath(k)
               \/ cancelDownload \/ cancelUpload \/ cancelListDirectory \/ cancelDelete
  PROVE  IInv'
<1>1. ManagerSound /\ AroundType
  BY IInvParts
<1>2. ManagerSound'
  BY <1>1, CallsServe, BadPathServes, CancelsServe
<1>3. Called
  BY DEF download, upload, listDirectory, deleteFile, badPath, cancelDownload, cancelUpload,
         cancelListDirectory, cancelDelete
<1>4. AroundType'
  BY <1>1, <1>3, CallsKeepAround
<1> QED BY <1>2, <1>4, IInvParts, PTL

LEMMA NextIInv == IInv /\ [Next]_vars => IInv'
<1> SUFFICES ASSUME IInv, [Next]_vars
             PROVE  IInv'
  OBVIOUS
<1>1. CASE UNCHANGED vars
  <2>1. ManagerSound /\ AroundType
    BY IInvParts
  <2>2. ManagerSound'
    BY <1>1, <2>1, OthersKeepManager DEF vars, ManagerSound
  <2>3. AroundType'
    BY <1>1, <2>1 DEF vars, AroundType
  <2> QED BY <2>2, <2>3, IInvParts, PTL
<1>2. CASE \/ \E n \in Sizes, c \in BOOLEAN : download(n, c)
           \/ \E n \in Sizes : upload(n)
           \/ \E n \in Sizes : listDirectory(n)
           \/ deleteFile
           \/ \E k \in Operations : badPath(k)
           \/ cancelDownload \/ cancelUpload \/ cancelListDirectory \/ cancelDelete
  BY <1>2, CallStep
<1>3. CASE \E i \in 1..Len(toGcs), again \in BOOLEAN : Receive(i, again)
  BY <1>3, ReceiveStep
<1>4. CASE Timeout
  BY <1>4, TimeoutStep
<1>5. CASE Serve
  BY <1>5, ServeStep
<1>6. CASE Refuse
  BY <1>6, RefuseStep
<1>7. CASE \/ FallSilent \/ Unheard \/ LoseRequest \/ RepeatRequest \/ LinkChange
           \/ \E i \in 1..Len(toGcs) : LoseReply(i)
  BY <1>7, NetworkStep
<1> QED BY <1>1, <1>2, <1>3, <1>4, <1>5, <1>6, <1>7 DEF Next

-----------------------------------------------------------------------------
LEMMA InvariantHolds == Spec => []IInv
  BY InitIInv, NextIInv, PTL DEF Spec

\* Every variable has its type after any calls, answers, losses and timeouts: the
\* sequence number stays an uint16_t, the retries stay within _maxRetry, the holes
\* of a download are not empty (FTPManager.h).
THEOREM TransferTypeCorrect == Spec => []TypeOK
<1>1. IInv => TypeOK
  BY DEF IInv
<1> QED BY <1>1, InvariantHolds, PTL

\* A call that FTPManager accepted is ended by exactly one signal of its kind, not
\* before the manager is idle again, whatever is lost, repeated, refused or
\* cancelled; the one exception is the upload whose reset of the sessions fails
\* (_resetSessionsAckOrNak), which the model names an orphan.
THEOREM EachTransferEndsOnce == Spec => []OneCompletion
<1>1. IInv => OneCompletion
  <2> SUFFICES ASSUME IInv
               PROVE  OneCompletion
    OBVIOUS
  <2>1. gcs \in GcsType /\ Sound(gcs)
    BY DEF IInv, TypeOK
  <2>2. CASE Working(gcs)
    <3>1. Busy
      BY <2>1, <2>2, StageTells DEF Busy
    <3> QED BY <2>2, <3>1 DEF OneCompletion, Working
  <2>3. CASE Resting(gcs)
    BY <2>3 DEF OneCompletion, Resting, Busy
  <2> QED BY <2>1, <2>2, <2>3 DEF Sound
<1> QED BY <1>1, InvariantHolds, PTL

\* Whatever is lost, repeated, delayed or reordered, and wherever a burst is begun
\* anew: while a download reads, each block so far is either written, once, or
\* recorded as missing (rgMissingData).
THEOREM DownloadLeavesNoGap == Spec => []NoGap
<1>1. ASSUME NEW n \in Nat
      PROVE  Cardinality(Blocks(n)) = n
  <2>1. Cardinality(0 .. n - 1) = n
    BY FS_Interval
  <2> QED BY <2>1 DEF Blocks
<1>2. IInv => NoGap
  <2> SUFFICES ASSUME IInv, gcs.stage \in {"burst", "fill"}
               PROVE  LET d == gcs.dl
                          missing == HoleBlocks(d.holes)
                          n == Cardinality(d.written \cup missing)
                      IN  /\ d.written \cup missing = Blocks(n) /\ d.written \cap missing = {}
                          /\ d.bytes = Cardinality(d.written)
                          /\ gcs.stage = "burst" => n = d.offset
    BY DEF NoGap
  <2>1. gcs.dl.offset \in Nat
    BY OwnFields DEF IInv, TypeOK
  <2>2. PICK c \in Nat : Covered(gcs.dl, c) /\ (gcs.stage = "burst" => c = gcs.dl.offset)
    BY <2>1 DEF IInv, Recorded
  <2>3. Cardinality(gcs.dl.written \cup HoleBlocks(gcs.dl.holes)) = c
    BY <1>1, <2>2 DEF Covered
  <2> QED BY <2>2, <2>3 DEF Covered
<1> QED BY <1>2, InvariantHolds, PTL
=============================================================================
