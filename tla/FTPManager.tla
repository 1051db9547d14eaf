----------------------------- MODULE FTPManager -----------------------------
(***************************************************************************)
(* MAVLink FTP as src/Vehicle/FTPManager.cc speaks it: download, upload,   *)
(* directory listing and deletion, one operation at a time, each a list of *)
(* stages with a request, an answer and a timeout, and the four cancels.   *)
(*                                                                         *)
(* Files are sequences of blocks, one block to a message, and a file or a  *)
(* directory is named by its length.  Handlers are functions from the      *)
(* state `gcs` of the manager to the next one.  The vehicle is external:   *)
(* it answers in order, repeats its last answer to a repeated request,     *)
(* sends a burst at once, may refuse anything and may fall silent.         *)
(***************************************************************************)
EXTENDS Integers, FiniteSets, SequencesExt

CONSTANTS Sizes,      \* lengths of files and directories, in blocks or entries
          Sessions,   \* session ids the vehicle gives out
          Starts,     \* _expectedIncomingSeqNumber at the first call
          Burst,      \* blocks the vehicle sends for one burst request
          PerReply,   \* directory entries in one answer
          MaxRetry,   \* _maxRetry
          MaxOps,     \* bound: calls and cancels
          MaxFaults   \* bound: what goes wrong with messages, link and vehicle

\* What an uint16_t holds.
Numbers == {n \in Nat : n < 65536}

ASSUME FtpAssumption ==
    /\ Sizes \subseteq Nat /\ Sessions \subseteq Nat /\ Starts \subseteq Numbers
    /\ Burst \in Nat \ {0} /\ PerReply \in Nat \ {0}
    /\ MaxRetry \in Nat /\ MaxOps \in Nat /\ MaxFaults \in Nat

VARIABLES
    gcs,                \* the manager, see GcsType
    linked,             \* the vehicle has a primary link
    toVehicle, toGcs,   \* messages on their way, in order
    vehicle,            \* the server, see VehicleType
    ops, faults         \* calls made, faults so far

vars == <<gcs, linked, toVehicle, toGcs, vehicle, ops, faults>>

Operations == {"download", "upload", "list", "delete"}
Machines == Operations \cup {"none", "abortDownload", "abortUpload"}
Stages == {"idle", "open", "burst", "fill", "reset", "create", "write", "list",
           "remove", "terminate", "terminateUpload"}
Opcodes == {"open", "burst", "read", "reset", "create", "write", "list", "listWithTime",
            "remove", "terminate"}
Outcomes == {"ok", "failed", "aborted"}
Retries == {n \in Nat : n <= MaxRetry}

\* uint16_t arithmetic.
Seq16(n) == n % 65536

Blocks(size) == 0 .. size - 1
Holes == [offset : Nat, count : Nat \ {0}]
Hole(o, n) == [offset |-> o, count |-> n]
HoleBlocks(holes) == UNION {h.offset .. h.offset + h.count - 1 : h \in Range(holes)}

NoDownload == [path |-> 0, checksize |-> TRUE, size |-> 0, session |-> 0, offset |-> 0,
               bytes |-> 0, holes |-> <<>>, open |-> FALSE, written |-> {}]
NoUpload == [open |-> FALSE, size |-> 0, sent |-> 0, chunk |-> 0, session |-> 0,
             cancelled |-> FALSE]
NoList == [asked |-> FALSE, path |-> 0, offset |-> 0, entries |-> <<>>, withTime |-> FALSE]
NoCall == [kind |-> "none", size |-> 0]

DownloadType ==
    [path : Sizes \cup {0}, checksize : BOOLEAN,
     size : Nat, session : Sessions \cup {0}, offset : Nat, bytes : Nat,
     holes : Seq(Holes),                               \* rgMissingData
     open : BOOLEAN, written : SUBSET Nat]             \* the local file
UploadType ==
    [open : BOOLEAN, size : Nat, sent : Nat, chunk : {0, 1}, session : Sessions \cup {0},
     cancelled : BOOLEAN]
ListType ==
    [asked : BOOLEAN, path : Sizes \cup {0}, offset : Nat, entries : Seq(Nat),
     withTime : BOOLEAN]
Requests == [seq : Numbers, op : Opcodes, session : Sessions \cup {0}, offset : Nat,
             path : Sizes \cup {0}]
GcsType ==
    [machine : Machines,     \* whose stages _rgStateMachine holds
     stage : Stages,         \* the one _currentStateMachineIndex points at
     expected : Numbers,     \* _expectedIncomingSeqNumber
     timer : BOOLEAN,        \* _ackOrNakTimeoutTimer is running
     retry : Retries,        \* retryCount of the operation in progress
     dl : DownloadType, ul : UploadType, ls : ListType,
     del : BOOLEAN,          \* _deleteState.inProgress()
     withTime : BOOLEAN,     \* _listDirWithTimeSupport is not Unsupported
     out : Seq(Requests),    \* sent by the handler that runs
     \* history: the call last accepted, what was signalled since, the kinds
     \* whose callers wait for their signal; an upload has ended unsignalled, a
     \* request has found no link
     call : [kind : Operations \cup {"none"}, size : Sizes \cup {0}],
     signals : Seq(Operations \X Outcomes),
     waiting : SUBSET Operations,
     orphan : BOOLEAN, unsent : BOOLEAN]

Replies == [seq : Numbers, op : Opcodes, kind : {"ack", "nak", "eof", "unknown"},
            session : Sessions \cup {0}, offset : Nat, size : Nat, complete : BOOLEAN]
VehicleType ==
    [alive : BOOLEAN, mode : {"none", "read", "write"},
     session : Sessions \cup {0}, path : Sizes \cup {0},
     blocks : SUBSET Nat,    \* the file that uploads write
     present : BOOLEAN,      \* the file that deleteFile removes
     last : Replies]         \* _lastReply

NoReply == [seq |-> 0, op |-> "reset", kind |-> "ack", session |-> 0, offset |-> 0,
            size |-> 0, complete |-> FALSE]

Init ==
    /\ \E s \in Starts :
           gcs = [machine |-> "none", stage |-> "idle", expected |-> s, timer |-> FALSE,
                  retry |-> 0, dl |-> NoDownload, ul |-> NoUpload, ls |-> NoList,
                  del |-> FALSE, withTime |-> TRUE, out |-> <<>>, call |-> NoCall,
                  signals |-> <<>>, waiting |-> {}, orphan |-> FALSE, unsent |-> FALSE]
    /\ vehicle = [alive |-> TRUE, mode |-> "none", session |-> 0, path |-> 0,
                  blocks |-> {}, present |-> TRUE,
                  last |-> [NoReply EXCEPT !.seq = gcs.expected]]
    /\ linked = TRUE /\ toVehicle = <<>> /\ toGcs = <<>> /\ ops = 0 /\ faults = 0

(***************************************************************************)
(* Sending and completing                                                  *)
(***************************************************************************)
\* Without a link the number is not moved on and the timeout does the rest.
sendRequestExpectAck(g, request) ==
    IF linked
    THEN [g EXCEPT !.timer = TRUE, !.expected = Seq16(@ + 2),
                   !.out = <<[request EXCEPT !.seq = Seq16(g.expected + 1)]>>]
    ELSE [g EXCEPT !.timer = TRUE, !.unsent = TRUE]

Request(op) == [seq |-> 0, op |-> op, session |-> 0, offset |-> 0, path |-> 0]
Named(op, path) == [Request(op) EXCEPT !.path = path]
InSession(op, session) == [Request(op) EXCEPT !.session = session]
At(op, session, offset) == [InSession(op, session) EXCEPT !.offset = offset]

\* "Must used same sequence number as previous request".
SameNumber(g, firstRequest) ==
    IF firstRequest THEN [g EXCEPT !.retry = 0] ELSE [g EXCEPT !.expected = Seq16(@ - 2)]

Idle(g) == [g EXCEPT !.machine = "none", !.stage = "idle", !.timer = FALSE]

Signal(g, kind, outcome) ==
    [g EXCEPT !.signals = Append(@, <<kind, outcome>>), !.waiting = @ \ {kind}]

downloadComplete(g, outcome) ==
    Signal([Idle(g) EXCEPT !.dl.open = FALSE,
                           !.dl.written = IF g.dl.open /\ outcome # "ok" THEN {} ELSE @],
           "download", outcome)

\* Fault: the end of a listing leaves its stages in _rgStateMachine.
listDirectoryCompleteKeepsMachine(g, outcome) ==
    Signal([g EXCEPT !.ls = [NoList EXCEPT !.entries = IF outcome = "ok" THEN g.ls.entries
                                                       ELSE <<>>]],
           "list", outcome)

\* The list handed to the signal stays in `ls.entries` until the next call.
listDirectoryComplete(g, outcome) ==
    Signal([Idle(g) EXCEPT !.ls = [NoList EXCEPT !.entries = IF outcome = "ok" THEN g.ls.entries
                                                             ELSE <<>>]],
           "list", outcome)
deleteComplete(g, outcome) == Signal([Idle(g) EXCEPT !.del = FALSE], "delete", outcome)
uploadComplete(g, outcome) == Signal([Idle(g) EXCEPT !.ul = NoUpload], "upload", outcome)
uploadFinalize(g) == uploadComplete(g, IF g.ul.cancelled THEN "aborted" ELSE "ok")

(***************************************************************************)
(* The requests of the stages                                              *)
(***************************************************************************)
resetSessionsBegin(g) ==
    sendRequestExpectAck([g EXCEPT !.stage = "reset"], Request("reset"))

openFileROBegin(g) ==
    sendRequestExpectAck([g EXCEPT !.stage = "open"], Named("open", g.dl.path))

burstReadFileWorker(g, firstRequest) ==
    sendRequestExpectAck([SameNumber(g, firstRequest) EXCEPT !.stage = "burst"],
                         At("burst", g.dl.session, g.dl.offset))

FullFile(g) == ~g.dl.checksize \/ g.dl.bytes = g.dl.size

fillMissingBlocksWorker(g, firstRequest) ==
    IF g.dl.holes # <<>>
    THEN LET o == Head(g.dl.holes).offset
         IN  sendRequestExpectAck([SameNumber(g, firstRequest) EXCEPT !.stage = "fill",
                                                                      !.dl.offset = o],
                                  At("read", g.dl.session, o))
    ELSE IF FullFile(g) THEN resetSessionsBegin(g) ELSE downloadComplete(g, "failed")

ListOpcode(g) == IF g.ls.withTime THEN "listWithTime" ELSE "list"

listDirectoryWorker(g, firstRequest) ==
    sendRequestExpectAck([SameNumber(g, firstRequest) EXCEPT !.stage = "list"],
                         [Named(ListOpcode(g), g.ls.path) EXCEPT !.offset = g.ls.offset])

createFileBegin(g) == sendRequestExpectAck([g EXCEPT !.stage = "create"], Request("create"))

\* Fault: the block counts as sent when it is sent, not when it is acknowledged.
writeFileWorkerCounts(g, firstRequest) ==
    IF g.ul.sent >= g.ul.size
    THEN resetSessionsBegin(g)
    ELSE sendRequestExpectAck([SameNumber(g, firstRequest) EXCEPT !.stage = "write",
                                                                  !.ul.sent = @ + 1],
                              At("write", g.ul.session, g.ul.sent))

writeFileWorker(g, firstRequest) ==
    IF g.ul.sent >= g.ul.size
    THEN resetSessionsBegin(g)
    ELSE sendRequestExpectAck([SameNumber(g, firstRequest) EXCEPT !.stage = "write",
                                                                  !.ul.chunk = 1],
                              At("write", g.ul.session, g.ul.sent))

deleteFileBegin(g) == sendRequestExpectAck([g EXCEPT !.stage = "remove"], Request("remove"))

terminateSessionBegin(g) ==
    sendRequestExpectAck([g EXCEPT !.stage = "terminate"], InSession("terminate", g.dl.session))

terminateUploadSessionBegin(g) ==
    sendRequestExpectAck([g EXCEPT !.stage = "terminateUpload"], InSession("terminate", g.ul.session))

(***************************************************************************)
(* The answers of the stages.  `Stopped` is the state after the timer was  *)
(* stopped, which each handler does before it looks at the answer.         *)
(***************************************************************************)
Stopped(g) == [g EXCEPT !.timer = FALSE]
Fits(g, m, op) == m.op = op /\ m.seq = g.expected

openFileROAckOrNak(g, m) ==
    IF ~Fits(g, m, "open") THEN g
    ELSE IF m.kind = "ack"
    THEN burstReadFileWorker([g EXCEPT !.dl.session = m.session, !.dl.size = m.size,
                                       !.dl.offset = 0, !.dl.open = TRUE], TRUE)
    ELSE downloadComplete(g, "failed")

\* file.write() at the offset of the answer.
WriteBlock(g, m) ==
    [g EXCEPT !.dl.written = @ \cup {m.offset}, !.dl.bytes = @ + 1]

\* Fault: a gap in a burst is not recorded.
HoleBeforeNone(g, m) == g

HoleBefore(g, m) ==
    IF m.offset > g.dl.offset
    THEN [g EXCEPT !.dl.holes = Append(@, Hole(g.dl.offset, m.offset - g.dl.offset))]
    ELSE g

burstReadFileBlock(g, m) ==
    LET w == [WriteBlock(HoleBefore(g, m), m) EXCEPT !.dl.offset = m.offset + 1]
    IN  IF m.complete
        THEN burstReadFileWorker([w EXCEPT !.expected = m.seq], TRUE)
        ELSE [w EXCEPT !.expected = Seq16(m.seq + 1), !.timer = TRUE]

burstReadFileEof(g, m) ==
    IF m.seq # g.expected
    THEN burstReadFileWorker([g EXCEPT !.expected = m.seq], TRUE)
    ELSE fillMissingBlocksWorker(g, TRUE)

burstReadFileAckOrNak(g, m) ==
    IF m.op # "burst" \/ m.session # g.dl.session THEN g
    ELSE CASE m.kind = "ack" /\ m.seq < g.expected -> Stopped(g)
           [] m.kind = "ack" /\ m.seq >= g.expected /\ m.offset < g.dl.offset ->
                  [g EXCEPT !.timer = TRUE]
           [] m.kind = "ack" /\ m.seq >= g.expected /\ m.offset >= g.dl.offset ->
                  burstReadFileBlock(Stopped(g), m)
           [] m.kind = "eof" -> burstReadFileEof(Stopped(g), m)
           [] OTHER -> downloadComplete(g, "failed")

\* The first hole loses its first block, and goes when it was the last.
ShrinkHole(holes) ==
    LET h == Head(holes)
    IN  IF h.count = 1 THEN Tail(holes)
        ELSE <<Hole(h.offset + 1, h.count - 1)>> \o Tail(holes)

fillMissingBlocksAckOrNak(g, m) ==
    IF ~Fits(g, m, "read") \/ m.session # g.dl.session THEN g
    ELSE CASE m.kind = "ack" /\ m.offset # g.dl.offset ->
                  IF g.retry >= MaxRetry
                  THEN downloadComplete(g, "failed")
                  ELSE fillMissingBlocksWorker([g EXCEPT !.retry = @ + 1], FALSE)
           [] m.kind = "ack" /\ m.offset = g.dl.offset ->
                  fillMissingBlocksWorker(
                      [WriteBlock(g, m) EXCEPT !.dl.holes = ShrinkHole(@)], TRUE)
           [] m.kind = "eof" /\ FullFile(g) -> resetSessionsBegin(g)
           [] OTHER -> downloadComplete(g, "failed")

\* A refusal ends a download well, and is signalled so for an upload, too.
resetSessionsAckOrNak(g, m) ==
    IF ~Fits(g, m, "reset") THEN g
    ELSE CASE m.kind = "ack" /\ g.machine = "upload" -> uploadFinalize(g)
           [] m.kind = "ack" /\ g.machine # "upload" -> downloadComplete(g, "ok")
           [] OTHER -> downloadComplete([g EXCEPT !.orphan = @ \/ g.machine = "upload"], "ok")

\* Fault: one entry is counted for an answer that holds several.
AppendEntriesOne(g, m) ==
    [g EXCEPT !.ls.entries = @ \o [i \in 1..m.size |-> m.offset + i - 1],
              !.ls.offset = @ + 1]

AppendEntries(g, m) ==
    [g EXCEPT !.ls.entries = @ \o [i \in 1..m.size |-> m.offset + i - 1],
              !.ls.offset = @ + m.size]

listDirectoryAckOrNak(g, m) ==
    IF m.op # ListOpcode(g) THEN g
    ELSE CASE m.kind = "ack" /\ m.seq < g.expected -> Stopped(g)
           [] m.kind = "ack" /\ m.seq >= g.expected ->
                  listDirectoryWorker(
                      [AppendEntries(g, m) EXCEPT !.expected = m.seq], TRUE)
           [] m.kind = "eof" /\ m.seq # g.expected -> [g EXCEPT !.timer = TRUE]
           [] m.kind = "eof" /\ m.seq = g.expected ->
                  listDirectoryComplete(g, "ok")
           [] m.kind = "unknown" /\ g.ls.withTime ->
                  listDirectoryWorker(
                      [g EXCEPT !.withTime = FALSE, !.expected = m.seq,
                                !.ls = [@ EXCEPT !.withTime = FALSE, !.offset = 0,
                                                 !.entries = <<>>]], TRUE)
           [] OTHER -> listDirectoryComplete(g, "failed")

createFileAckOrNak(g, m) ==
    IF ~Fits(g, m, "create") THEN g
    ELSE IF m.kind = "ack" THEN writeFileWorker([g EXCEPT !.ul.session = m.session], TRUE)
    ELSE uploadComplete(g, "failed")

writeFileAckOrNak(g, m) ==
    IF m.op # "write" \/ m.session # g.ul.session THEN g
    ELSE CASE m.kind = "ack" /\ m.seq < g.expected -> Stopped(g)
           [] m.kind = "ack" /\ m.seq >= g.expected ->
                  writeFileWorker([Stopped(g) EXCEPT !.ul.sent = @ + g.ul.chunk,
                                                     !.ul.chunk = 0,
                                                     !.expected = m.seq], TRUE)
           [] OTHER -> uploadComplete(g, "failed")

deleteFileAckOrNak(g, m) ==
    IF ~Fits(g, m, "remove") THEN g
    ELSE deleteComplete(g, IF m.kind = "ack" THEN "ok" ELSE "failed")

\* Any answer will do, also a refusal.
terminateSessionAckOrNak(g, m) ==
    IF ~Fits(g, m, "terminate") THEN g ELSE downloadComplete(g, "aborted")

terminateUploadSessionAckOrNak(g, m) ==
    IF ~Fits(g, m, "terminate") THEN g
    ELSE IF m.kind = "ack" THEN uploadFinalize(g) ELSE uploadComplete(g, "failed")

(***************************************************************************)
(* Dispatch of answers and timeouts                                        *)
(***************************************************************************)
\* (uint16_t)(expected - 1 - actual) < max / 2
IsOld(g, m) == Seq16(g.expected - 1 - m.seq) < 32767

AckOrNak(g, m) ==
    CASE g.stage = "open"      -> openFileROAckOrNak(g, m)
      [] g.stage = "burst"     -> burstReadFileAckOrNak(g, m)
      [] g.stage = "fill"      -> fillMissingBlocksAckOrNak(g, m)
      [] g.stage = "reset"     -> resetSessionsAckOrNak(g, m)
      [] g.stage = "create"    -> createFileAckOrNak(g, m)
      [] g.stage = "write"     -> writeFileAckOrNak(g, m)
      [] g.stage = "list"      -> listDirectoryAckOrNak(g, m)
      [] g.stage = "remove"    -> deleteFileAckOrNak(g, m)
      [] g.stage = "terminate" -> terminateSessionAckOrNak(g, m)
      [] g.stage = "terminateUpload" -> terminateUploadSessionAckOrNak(g, m)

mavlinkMessageReceived(g, m) ==
    IF g.stage = "idle" \/ IsOld(g, m) THEN g ELSE AckOrNak(g, m)

\* The end of the retries, and the stages that allow none.
GiveUp(g) ==
    CASE g.stage \in {"open", "burst", "fill", "terminate"} -> downloadComplete(g, "failed")
      [] g.stage = "reset" ->
             downloadComplete([g EXCEPT !.orphan = @ \/ g.machine = "upload"], "ok")
      [] g.stage \in {"create", "write", "terminateUpload"} -> uploadComplete(g, "failed")
      [] g.stage = "list"   -> listDirectoryComplete(g, "failed")
      [] g.stage = "remove" -> deleteComplete(g, "failed")

Retry(g) ==
    CASE g.stage = "burst"  -> burstReadFileWorker(g, FALSE)
      [] g.stage = "fill"   -> fillMissingBlocksWorker(g, FALSE)
      [] g.stage = "write"  -> writeFileWorker(g, FALSE)
      [] g.stage = "list"   -> listDirectoryWorker(g, FALSE)
      [] g.stage = "remove" -> deleteFileBegin(g)
      [] g.stage = "terminate" -> terminateSessionBegin(g)
      [] g.stage = "terminateUpload" -> terminateUploadSessionBegin(g)

Retried == {"burst", "fill", "write", "list", "remove", "terminate", "terminateUpload"}

\* Fault: a retry starts the count again.
ackOrNakTimeoutUncounted(g) ==
    IF g.stage \in Retried THEN Retry(Stopped(g)) ELSE GiveUp(Stopped(g))

\* Fault: one retry too many.
ackOrNakTimeoutOneMore(g) ==
    IF g.stage \in Retried /\ g.retry <= MaxRetry
    THEN Retry([Stopped(g) EXCEPT !.retry = @ + 1])
    ELSE GiveUp(Stopped(g))

ackOrNakTimeout(g) ==
    IF g.stage \in Retried /\ g.retry < MaxRetry
    THEN Retry([Stopped(g) EXCEPT !.retry = @ + 1])
    ELSE GiveUp(Stopped(g))

(***************************************************************************)
(* Steps of the manager                                                    *)
(***************************************************************************)
Busy == gcs.machine # "none"
Primed == Busy /\ gcs.stage = "idle"

Becomes(g) ==
    /\ gcs' = [g EXCEPT !.out = <<>>]
    /\ toVehicle' = toVehicle \o g.out

Called == ops < MaxOps /\ ops' = ops + 1 /\ UNCHANGED <<linked, toGcs, vehicle, faults>>
Fault == faults < MaxFaults /\ faults' = faults + 1

\* A caller waits for the end of its call before the next of the kind; a call
\* in another operation is refused and changes nothing.
Accept(kind, size) ==
    [gcs EXCEPT !.machine = kind, !.call = [kind |-> kind, size |-> size],
                !.signals = <<>>, !.waiting = @ \cup {kind}, !.retry = 0]

download(size, checksize) ==
    /\ Called /\ ~Busy /\ "download" \notin gcs.waiting
    /\ Becomes(openFileROBegin(
           [Accept("download", size) EXCEPT
                !.dl = [NoDownload EXCEPT !.path = size, !.checksize = checksize]]))

upload(size) ==
    /\ Called /\ ~Busy /\ "upload" \notin gcs.waiting
    /\ Becomes(createFileBegin(
           [Accept("upload", size) EXCEPT
                !.ul = [NoUpload EXCEPT !.open = TRUE, !.size = size]]))

listDirectory(size) ==
    /\ Called /\ ~Busy /\ "list" \notin gcs.waiting
    /\ Becomes(listDirectoryWorker(
           [Accept("list", size) EXCEPT
                !.ls = [NoList EXCEPT !.asked = TRUE, !.path = size,
                                      !.withTime = gcs.withTime]], TRUE))

deleteFile ==
    /\ Called /\ ~Busy /\ "delete" \notin gcs.waiting
    /\ Becomes(deleteFileBegin([Accept("delete", 0) EXCEPT !.del = TRUE]))

\* A path with a foreign scheme: the calls return false, download and
\* listDirectory with their stages still in _rgStateMachine.
badPath(kind) ==
    /\ Called /\ ~Busy /\ kind \notin gcs.waiting
    /\ Becomes([gcs EXCEPT !.machine = IF kind \in {"download", "list"} THEN kind ELSE @,
                           !.dl = IF kind = "download" THEN NoDownload ELSE @,
                           !.ul = IF kind = "upload" THEN NoUpload ELSE @,
                           !.ls = IF kind = "list" THEN [NoList EXCEPT !.asked = TRUE] ELSE @,
                           !.del = @ \/ kind = "delete",
                           !.call = NoCall, !.signals = <<>>])

\* Cancels come from callers that wait (FTPController's _operation).
cancelDownload ==
    /\ Called /\ "download" \in gcs.waiting /\ gcs.dl.size > 0
    /\ Becomes(terminateSessionBegin([gcs EXCEPT !.machine = "abortDownload", !.retry = 0]))

cancelListDirectory ==
    /\ Called /\ "list" \in gcs.waiting /\ gcs.ls.asked /\ Busy
    /\ Becomes(listDirectoryComplete(gcs, "aborted"))

cancelDelete ==
    /\ Called /\ "delete" \in gcs.waiting /\ gcs.del
    /\ Becomes(deleteComplete(gcs, "aborted"))

\* Without a session nothing is terminated; 0 stands for none.
cancelUpload ==
    /\ Called /\ "upload" \in gcs.waiting /\ gcs.ul.open
    /\ LET g == [gcs EXCEPT !.ul.cancelled = TRUE]
       IN  Becomes(IF gcs.ul.session # 0
                   THEN terminateUploadSessionBegin([g EXCEPT !.machine = "abortUpload",
                                                              !.retry = 0])
                   ELSE uploadComplete(g, "aborted"))

\* The answers come in order; one that overtakes others, or comes twice, is a
\* fault.
Receive(i, again) ==
    /\ i \in DOMAIN toGcs
    /\ IF i = 1 /\ ~again THEN UNCHANGED faults ELSE Fault
    /\ toGcs' = IF again THEN toGcs ELSE RemoveAt(toGcs, i)
    /\ Becomes(mavlinkMessageReceived(gcs, toGcs[i]))
    /\ UNCHANGED <<linked, vehicle, ops>>

\* A timeout before the answer to a request that still is on its way is a fault.
Timeout ==
    /\ gcs.timer
    /\ IF toVehicle = <<>> /\ toGcs = <<>> THEN UNCHANGED faults ELSE Fault
    /\ Becomes(ackOrNakTimeout(gcs))
    /\ UNCHANGED <<linked, toGcs, vehicle, ops>>

(***************************************************************************)
(* The vehicle and the link                                                *)
(***************************************************************************)
Reply(r, n, kind) ==
    [NoReply EXCEPT !.seq = Seq16(r.seq + n), !.op = r.op, !.kind = kind,
                    !.session = vehicle.session, !.offset = r.offset]

\* Blocks up to the length of a burst, the end of the file after the last.
BurstReplies(r) ==
    LET n == IF r.offset >= vehicle.path THEN 0
             ELSE IF vehicle.path - r.offset < Burst THEN vehicle.path - r.offset ELSE Burst
        blocks == [i \in 1..n |-> [Reply(r, i, "ack") EXCEPT !.offset = r.offset + i - 1,
                                                             !.complete = i = Burst]]
    IN  IF r.offset + n >= vehicle.path THEN Append(blocks, Reply(r, n + 1, "eof"))
        ELSE blocks

Entries(r) ==
    IF r.path - r.offset < PerReply THEN r.path - r.offset ELSE PerReply

\* What the vehicle answers, if it does not refuse: with session `s` and the
\* length wrong by `extra` for a file opened, and with or without times.
Answer(r, s, extra, withTime) ==
    CASE r.op = "open" ->
             <<[Reply(r, 1, "ack") EXCEPT !.session = s, !.size = r.path + extra]>>
      [] r.op = "create" -> <<[Reply(r, 1, "ack") EXCEPT !.session = s]>>
      [] r.op = "burst" /\ vehicle.mode = "read" /\ r.session = vehicle.session ->
             BurstReplies(r)
      [] r.op = "read" /\ vehicle.mode = "read" /\ r.session = vehicle.session ->
             <<Reply(r, 1, IF r.offset < vehicle.path THEN "ack" ELSE "eof")>>
      [] r.op = "write" /\ vehicle.mode = "write" /\ r.session = vehicle.session ->
             <<Reply(r, 1, "ack")>>
      [] r.op = "terminate" /\ vehicle.mode # "none" /\ r.session = vehicle.session ->
             <<Reply(r, 1, "ack")>>
      [] r.op = "reset" -> <<Reply(r, 1, "ack")>>
      [] r.op = "remove" /\ vehicle.present -> <<Reply(r, 1, "ack")>>
      [] r.op = "listWithTime" /\ ~withTime -> <<Reply(r, 1, "unknown")>>
      [] r.op = "list" \/ (r.op = "listWithTime" /\ withTime) ->
             IF r.offset >= r.path THEN <<Reply(r, 1, "eof")>>
             ELSE <<[Reply(r, 1, "ack") EXCEPT !.size = Entries(r)]>>
      [] OTHER -> <<Reply(r, 1, "nak")>>

After(r, s) ==
    CASE r.op = "open" -> [vehicle EXCEPT !.mode = "read", !.session = s, !.path = r.path]
      [] r.op = "create" -> [vehicle EXCEPT !.mode = "write", !.session = s, !.blocks = {}]
      [] r.op = "write" /\ vehicle.mode = "write" /\ r.session = vehicle.session ->
             [vehicle EXCEPT !.blocks = @ \cup {r.offset}]
      [] r.op = "reset" \/ (r.op = "terminate" /\ r.session = vehicle.session) ->
             [vehicle EXCEPT !.mode = "none"]
      [] r.op = "remove" -> [vehicle EXCEPT !.present = FALSE]
      [] OTHER -> vehicle

\* Only the length of an open file may be given wrong (ArduPilot's parameters).
Serve ==
    /\ toVehicle # <<>> /\ vehicle.alive
    /\ UNCHANGED <<gcs, linked, ops, faults>>
    /\ LET r == Head(toVehicle)
       IN  /\ toVehicle' = Tail(toVehicle)
           /\ IF r.seq = Seq16(vehicle.last.seq - 1)
              THEN toGcs' = Append(toGcs, vehicle.last) /\ UNCHANGED vehicle
              ELSE \E s \in IF r.op \in {"open", "create"} THEN Sessions
                                 ELSE {vehicle.session},
                          extra \in IF r.op = "open" THEN {0, 1} ELSE {0},
                          withTime \in BOOLEAN :
                       LET a == Answer(r, s, extra, withTime)
                       IN  /\ toGcs' = toGcs \o a
                           /\ vehicle' = [After(r, s) EXCEPT !.last = Last(a)]

Refuse ==
    /\ toVehicle # <<>> /\ vehicle.alive /\ Fault
    /\ toVehicle' = Tail(toVehicle)
    /\ LET a == Reply(Head(toVehicle), 1, "nak")
       IN  toGcs' = Append(toGcs, a) /\ vehicle' = [vehicle EXCEPT !.last = a]
    /\ UNCHANGED <<gcs, linked, ops>>

\* The vehicle is silent from now on: what comes is lost without counting.
FallSilent ==
    /\ vehicle.alive /\ Fault
    /\ vehicle' = [vehicle EXCEPT !.alive = FALSE]
    /\ UNCHANGED <<gcs, linked, toVehicle, toGcs, ops>>

Unheard ==
    /\ ~vehicle.alive /\ toVehicle # <<>> /\ toVehicle' = <<>>
    /\ UNCHANGED <<gcs, linked, toGcs, vehicle, ops, faults>>

LoseRequest ==
    /\ toVehicle # <<>> /\ Fault /\ toVehicle' = Tail(toVehicle)
    /\ UNCHANGED <<gcs, linked, toGcs, vehicle, ops>>

RepeatRequest ==
    /\ toVehicle # <<>> /\ Fault /\ toVehicle' = <<Head(toVehicle)>> \o toVehicle
    /\ UNCHANGED <<gcs, linked, toGcs, vehicle, ops>>

LoseReply(i) ==
    /\ i \in DOMAIN toGcs /\ Fault /\ toGcs' = RemoveAt(toGcs, i)
    /\ UNCHANGED <<gcs, linked, toVehicle, vehicle, ops>>

\* Between two links of the vehicle there may be none.
LinkChange ==
    /\ linked' = ~linked
    /\ IF linked THEN Fault ELSE UNCHANGED faults
    /\ UNCHANGED <<gcs, toVehicle, toGcs, vehicle, ops>>

Next ==
    \/ \E n \in Sizes, c \in BOOLEAN : download(n, c)
    \/ \E n \in Sizes : upload(n)
    \/ \E n \in Sizes : listDirectory(n)
    \/ deleteFile
    \/ \E k \in Operations : badPath(k)
    \/ cancelDownload \/ cancelUpload \/ cancelListDirectory \/ cancelDelete
    \/ \E i \in 1..Len(toGcs), again \in BOOLEAN : Receive(i, again)
    \/ Timeout
    \/ Serve \/ Refuse \/ FallSilent \/ Unheard
    \/ LoseRequest \/ RepeatRequest \/ (\E i \in 1..Len(toGcs) : LoseReply(i))
    \/ LinkChange

Spec == Init /\ [][Next]_vars

\* A started timer fires, and what is on its way arrives if it is not lost.
FairSpec ==
    /\ Spec /\ WF_vars(Timeout) /\ WF_vars(Receive(1, FALSE)) /\ WF_vars(Serve)
    /\ WF_vars(Unheard)

(***************************************************************************)
(* Properties                                                              *)
(***************************************************************************)
\* Types, and the retries within their bound.
TypeOK ==
    /\ gcs \in GcsType /\ gcs.out = <<>> /\ vehicle \in VehicleType
    /\ linked \in BOOLEAN /\ ops \in 0..MaxOps /\ faults \in 0..MaxFaults
    /\ toVehicle \in Seq(Requests) /\ toGcs \in Seq(Replies)

\* The three about what was transferred are promised while every request finds a
\* link: one that does not keeps its number (_sendRequestExpectAck), so that an
\* answer that came before is not old and is taken twice.
EndedWell(kind) ==
    gcs.call.kind = kind /\ gcs.signals = <<<<kind, "ok">>>> /\ ~gcs.unsent

\* While blocks arrive, those written and those recorded as missing are all
\* the blocks so far, and none is both: a burst that loses, repeats or reorders
\* blocks, or is begun anew from the middle, leaves no gap unrecorded
\* (_burstReadFileAckOrNak, _fillMissingBlocksAckOrNak).
NoGap ==
    LET d == gcs.dl
        missing == HoleBlocks(d.holes)
        n == Cardinality(d.written \cup missing)
    IN  gcs.stage \in {"burst", "fill"} =>
            /\ d.written \cup missing = Blocks(n) /\ d.written \cap missing = {}
            /\ d.bytes = Cardinality(d.written)
            /\ gcs.stage = "burst" => n = d.offset

\* Nothing is lost in a download, no block is beyond the end of the file, and one
\* with the size check that ends without an error has written every block.
\* Without the check the end of an earlier burst can pass for that of the present one.
\* Promised as long as no block of a burst that was given up is delayed into the next
\* download with a number that its first burst will use: the session has the same id, so
\* that the block would be written.  Nothing bounds a burst, and TLC finds this with bursts
\* of five blocks; with bursts of two, as in the run, the numbers do not reach so far.
DownloadIsExact ==
    /\ NoGap
    /\ gcs.stage \in {"burst", "fill"} /\ ~gcs.unsent =>
           gcs.dl.written \cup HoleBlocks(gcs.dl.holes) \subseteq Blocks(gcs.dl.path)
    /\ EndedWell("download") /\ gcs.dl.checksize => gcs.dl.written = Blocks(gcs.call.size)

\* An upload that ends without an error has left every block of the file with
\* the vehicle, in a session that is closed.
UploadIsExact ==
    EndedWell("upload") =>
        vehicle.blocks = Blocks(gcs.call.size) /\ vehicle.mode # "write"

\* A listing that ends without an error has each entry once and in order, also
\* after the fallback to the listing without times.
ListIsExact ==
    EndedWell("list") => gcs.ls.entries = [i \in 1..gcs.call.size |-> i - 1]

\* A call that was accepted is ended by one signal of its kind, and not before
\* the manager is idle again; but an upload whose reset of the sessions fails
\* ends with the signal of a download.
OneCompletion ==
    ~gcs.orphan =>
        IF Busy \/ gcs.call = NoCall THEN gcs.signals = <<>>
        ELSE \E o \in Outcomes : gcs.signals = <<<<gcs.call.kind, o>>>>

\* Where the sequence numbers wrap round the timer can stay stopped: an answer with a
\* number past the wrap is not old to the filter, which counts modulo 2^16, and too
\* small for the handler, which has stopped the timer.
NearWrap == gcs.expected > 65535 - (Burst + 2)
\* Every operation comes to an end, whatever is lost and also if the vehicle is
\* silent for ever, unless it is stuck at the wrap or was refused for its path.
EveryOperationEnds == []<>(~Busy \/ Primed \/ (NearWrap /\ ~gcs.timer))
=============================================================================
