------------------------------ MODULE ServerPipe ------------------------------
(***************************************************************************)
(* How the workers of the asynchronous File Replication Service move one   *)
(* file: SServiceRequests, HandleSReq and ServerShutdownRequest of         *)
(* FileRepServerProc.cpp.                                                  *)
(*                                                                         *)
(* A read of the file and a push of the RPC pipe may both be outstanding;  *)
(* each posts a packet to the completion port when it is done, and any     *)
(* worker takes it.  What a worker does between EnterCriticalSection and   *)
(* LeaveCriticalSection of the request is one step; between two of them    *)
(* the other workers run.  The disk, the RPC runtime and the completion    *)
(* port are external: they answer in any order, and fail when faults says  *)
(* so.  The byte at position i of the file is the number i.                *)
(***************************************************************************)
EXTENDS Integers, Sequences

CONSTANTS
  Workers,      \* threads in SServiceRequests
  BufSize,      \* PUSH_BUFSIZE
  FileSizes,    \* how long the file may be
  OffsetLimit,  \* the 2^32 at which OVERLAPPED.Offset wraps
  FaultSets     \* which calls may fail together

\* CreateFile; HandleSReq after it; ReadFile at once; ReadFile later; a push.
FaultKinds == {"open", "handle", "readNow", "readLater", "push"}

ASSUME PipeAssumption ==
  /\ BufSize \in Nat \ {0}
  /\ FileSizes \subseteq Nat
  /\ OffsetLimit \in Nat \ {0}
  /\ FaultSets \subseteq SUBSET FaultKinds

VARIABLES
  faults,    \* the calls that may fail in this behaviour
  size,      \* length of the file
  req,       \* the flags and counters of the SReq
  buf,       \* pReq->pbReadBuf: what the last completed read put there
  reading,   \* a ReadFile is outstanding
  pushing,   \* a push is outstanding
  port,      \* the packets at ServerCompletionPort
  stream,    \* the bytes that were pushed
  ends,      \* the number of pushes of length 0
  call,      \* the RPC: "open", "completed" or "aborted"
  pc,        \* where a worker is in its loop
  got        \* its dwNumberOfBytesTransferred

io   == <<reading, pushing, port>>
sent == <<stream, ends>>
given == <<faults, size>>
vars == <<faults, size, req, buf, reading, pushing, port, stream, ends, call, pc, got>>

Packets == [key : {"IoFileRep", "IoFile", "IoPipe", "failed"}, n : 0 .. BufSize]
Packet(key, n) == [key |-> key, n |-> n]

\* A worker in a step that uses the request.
Using == {"IoFileRep", "IoFile", "IoPipe", "read", "push", "shutdown",
          "shutdownLeave", "leave"}
Steps == {"wait"} \cup Using

\* The request was activated.  HeapAlloc does not clear what it allocates: the
\* flags that s_RemoteReadAsyncPipe does not set have any value until HandleSReq.
Init ==
  /\ faults \in FaultSets
  /\ size \in FileSizes
  /\ req \in [alive : {TRUE}, status : {"ok"}, offset : {0}, cbRead : {0},
              bBuf : BOOLEAN, bReadOutstanding : BOOLEAN, bPushOutstanding : BOOLEAN,
              bReadsDone : BOOLEAN, bLastDataPushIssued : BOOLEAN, bNullPush : BOOLEAN,
              fCallInvalidated : {FALSE}]
  /\ buf = <<>> /\ reading = FALSE /\ pushing = FALSE
  /\ port = <<Packet("IoFileRep", 0)>>
  /\ stream = <<>> /\ ends = 0 /\ call = "open"
  /\ pc = [w \in Workers |-> "wait"]
  /\ got = [w \in Workers |-> 0]

Goto(w, step) == pc' = [pc EXCEPT ![w] = step]

-----------------------------------------------------------------------------
(***************************************************************************)
(* The disk and the RPC runtime.                                           *)
(***************************************************************************)

\* The bytes that a ReadFile at the given offset delivers.
BytesAt(offset) ==
  [i \in 1 .. (IF size - offset < BufSize THEN IF size < offset THEN 0 ELSE size - offset
               ELSE BufSize) |-> offset + i]

\* The outstanding read ends and is reported to the port.
ReadEnds ==
  /\ reading
  /\ reading' = FALSE
  /\ \/ /\ buf' = BytesAt(req.offset)
        /\ port' = Append(port, Packet("IoFile", Len(buf')))
     \/ /\ "readLater" \in faults
        /\ buf' = buf
        /\ port' = Append(port, Packet("failed", 0))
  /\ UNCHANGED <<given, req, pushing, sent, call, pc, got>>

PushEnds ==
  /\ pushing
  /\ pushing' = FALSE
  /\ port' = Append(port, Packet("IoPipe", 0))
  /\ UNCHANGED <<given, req, buf, reading, sent, call, pc, got>>

\* The runtime accepts a push: the pipe has taken the bytes when the call returns.
Sent(bytes) ==
  /\ pushing' = TRUE
  /\ stream' = stream \o bytes
  /\ ends' = IF bytes = <<>> THEN ends + 1 ELSE ends

-----------------------------------------------------------------------------
(***************************************************************************)
(* SServiceRequests.                                                       *)
(***************************************************************************)

\* GetQueuedCompletionStatus.  A failed I/O is logged and its request forgotten.
Dequeue(w) ==
  /\ pc[w] = "wait" /\ port # <<>>
  /\ LET packet == Head(port) IN
     /\ Goto(w, IF packet.key = "failed" THEN "wait" ELSE packet.key)
     /\ got' = [got EXCEPT ![w] = packet.n]
  /\ port' = Tail(port)
  /\ UNCHANGED <<given, req, buf, reading, pushing, sent, call>>

\* HandleSReq opens the file and initialises the request.
HandleSReq(w) ==
  /\ pc[w] = "IoFileRep"
  /\ \/ /\ req' = [req EXCEPT !.offset = 0, !.bLastDataPushIssued = FALSE,
                              !.bReadsDone = FALSE, !.bNullPush = FALSE,
                              !.bReadOutstanding = FALSE, !.bPushOutstanding = FALSE,
                              !.bBuf = FALSE]
        /\ Goto(w, "read")
     \/ /\ "open" \in faults
        /\ req' = [req EXCEPT !.status = "bad"]
        /\ Goto(w, "shutdown")
     \/ /\ "handle" \in faults
        /\ req' = req
        /\ Goto(w, "wait")
  /\ UNCHANGED <<given, buf, io, sent, call, got>>

\* Mutated: the read is started and not marked.
ReadUnmarked(w) ==
  /\ pc[w] = "read"
  /\ req' = [req EXCEPT !.cbRead = 0]
  /\ reading' = TRUE
  /\ Goto(w, "wait")
  /\ UNCHANGED <<given, buf, pushing, port, sent, call, got>>

\* Action == Read.  A ReadFile that fails at once is shut down before the lock is
\* left for the second time.
Read(w) ==
  /\ pc[w] = "read"
  /\ \/ /\ req' = [req EXCEPT !.cbRead = 0, !.bReadOutstanding = TRUE]
        /\ reading' = TRUE
        /\ Goto(w, "wait")
     \/ /\ "readNow" \in faults
        /\ req' = [req EXCEPT !.cbRead = 0, !.bReadOutstanding = TRUE,
                              !.status = "bad"]
        /\ reading' = reading
        /\ Goto(w, "shutdownLeave")
  /\ UNCHANGED <<given, buf, pushing, port, sent, call, got>>

\* Action == Push, for data.
PushData(w) ==
  /\ pc[w] = "push" /\ ~req.bNullPush
  /\ \/ /\ Sent(SubSeq(buf, 1, req.cbRead))
        /\ req' = [req EXCEPT !.bPushOutstanding = TRUE, !.status = "ok", !.bBuf = FALSE,
                              !.bLastDataPushIssued = @ \/ req.bReadsDone]
        /\ Goto(w, IF req.bReadsDone THEN "wait" ELSE "read")
     \/ /\ "push" \in faults
        /\ req' = [req EXCEPT !.bPushOutstanding = FALSE, !.status = "bad",
                              !.bBuf = FALSE, !.bReadsDone = TRUE,
                              !.fCallInvalidated = TRUE]
        /\ Goto(w, IF req.bReadOutstanding THEN "push" ELSE "shutdown")
        /\ UNCHANGED <<pushing, sent>>
  /\ UNCHANGED <<given, buf, reading, port, call, got>>

\* Mutated: the request is shut down without waiting for the null push.
PushNullAndShutdown(w) ==
  /\ pc[w] = "push" /\ req.bNullPush
  /\ Sent(<<>>)
  /\ req' = [req EXCEPT !.bPushOutstanding = TRUE, !.status = "ok"]
  /\ Goto(w, "shutdown")
  /\ UNCHANGED <<given, buf, reading, port, call, got>>

\* Action == Push, for the end of the stream.
PushNull(w) ==
  /\ pc[w] = "push" /\ req.bNullPush
  /\ \/ /\ Sent(<<>>)
        /\ req' = [req EXCEPT !.bPushOutstanding = TRUE, !.status = "ok"]
        /\ Goto(w, "wait")
     \/ /\ "push" \in faults
        /\ req' = [req EXCEPT !.bPushOutstanding = TRUE, !.status = "bad",
                              !.fCallInvalidated = TRUE]
        /\ Goto(w, "shutdown")
        /\ UNCHANGED <<pushing, sent>>
  /\ UNCHANGED <<given, buf, reading, port, call, got>>

\* Mutated: one push at a time is forgotten.
FileIoAlwaysPush(w) ==
  LET n == got[w] IN
  /\ pc[w] = "IoFile"
  /\ req' = [req EXCEPT !.cbRead = n, !.bReadOutstanding = FALSE, !.bBuf = TRUE,
                        !.bReadsDone = @ \/ n # BufSize,
                        !.offset = (@ + n) % OffsetLimit]
  /\ Goto(w, "push")
  /\ UNCHANGED <<given, buf, io, sent, call, got>>

\* Mutated: the offset of the next read is not advanced.
FileIoSameOffset(w) ==
  LET n == got[w] IN
  /\ pc[w] = "IoFile"
  /\ req' = [req EXCEPT !.cbRead = n, !.bReadOutstanding = FALSE, !.bBuf = TRUE,
                        !.bReadsDone = @ \/ n # BufSize]
  /\ Goto(w, IF req.bPushOutstanding THEN "wait" ELSE "push")
  /\ UNCHANGED <<given, buf, io, sent, call, got>>

\* The read is done.  Fewer bytes than asked for mean the end of the file, none
\* at all that the last data has been pushed already.
FileIo(w) ==
  LET n    == got[w]
      busy == req.bPushOutstanding
      done == [req EXCEPT !.cbRead = n, !.bReadOutstanding = FALSE, !.bBuf = TRUE]
  IN
  /\ pc[w] = "IoFile"
  /\ IF req.status # "ok"
     THEN req' = done /\ Goto(w, "shutdown")
     ELSE /\ req' = [done EXCEPT !.bReadsDone = @ \/ n # BufSize,
                                 !.bLastDataPushIssued = @ \/ n = 0,
                                 !.bNullPush = @ \/ (n = 0 /\ ~busy),
                                 !.offset = (@ + n) % OffsetLimit]
          /\ Goto(w, IF busy THEN "wait" ELSE "push")
  /\ UNCHANGED <<given, buf, io, sent, call, got>>

\* Mutated: the completion of the last data push does not lead to the null push.
PipeIoNoEnd(w) ==
  /\ pc[w] = "IoPipe"
  /\ req' = [req EXCEPT !.bPushOutstanding = FALSE]
  /\ Goto(w, IF req.bNullPush THEN "shutdown"
             ELSE IF ~req.bReadOutstanding /\ req.bBuf THEN "push" ELSE "wait")
  /\ UNCHANGED <<given, buf, io, sent, call, got>>

\* The push is done: of the null push the request is done, too; else what is
\* pushed next is the buffer, if it is full, or the end, if all data was pushed.
PipeIo(w) ==
  LET end == ~req.bReadOutstanding /\ ~req.bBuf /\ req.bLastDataPushIssued IN
  /\ pc[w] = "IoPipe"
  /\ IF req.bNullPush
     THEN /\ req' = [req EXCEPT !.bPushOutstanding = FALSE]
          /\ Goto(w, "shutdown")
     ELSE /\ req' = [req EXCEPT !.bPushOutstanding = FALSE, !.bNullPush = end]
          /\ Goto(w, IF ~req.bReadOutstanding /\ (req.bBuf \/ end) THEN "push" ELSE "wait")
  /\ UNCHANGED <<given, buf, io, sent, call, got>>

\* Mutated: the call is completed whatever its status.
ShutdownComplete(w) ==
  /\ pc[w] \in {"shutdown", "shutdownLeave"}
  /\ call' = "completed"
  /\ req' = [req EXCEPT !.alive = FALSE]
  /\ Goto(w, IF pc[w] = "shutdown" THEN "wait" ELSE "leave")
  /\ UNCHANGED <<given, buf, io, sent, got>>

\* ServerShutdownRequest, as far as the call and the memory are concerned.  After
\* a read that failed at once, the lock of the freed request is left again.
Shutdown(w) ==
  /\ pc[w] \in {"shutdown", "shutdownLeave"}
  /\ call' = IF req.status # "ok" /\ ~req.fCallInvalidated THEN "aborted" ELSE "completed"
  /\ req' = [req EXCEPT !.alive = FALSE]
  /\ Goto(w, IF pc[w] = "shutdown" THEN "wait" ELSE "leave")
  /\ UNCHANGED <<given, buf, io, sent, got>>

-----------------------------------------------------------------------------
\* A worker that comes to use a freed request (one at "leave" always does) may do
\* anything: the model follows it no further, and AliveWhenUsed reports it.
Serve(w) ==
  /\ req.alive
  /\ \/ HandleSReq(w) \/ Read(w) \/ PushData(w) \/ PushNull(w)
     \/ FileIo(w) \/ PipeIo(w) \/ Shutdown(w)

Next == \/ ReadEnds \/ PushEnds
        \/ \E w \in Workers : Dequeue(w) \/ Serve(w)

Spec == Init /\ [][Next]_vars

\* I/O that was started ends, a packet is taken, and a worker goes on.
Fairness == /\ WF_vars(ReadEnds) /\ WF_vars(PushEnds)
            /\ WF_vars(\E w \in Workers : Dequeue(w))
            /\ \A w \in Workers : WF_vars(Serve(w))

FairSpec == Spec /\ Fairness

-----------------------------------------------------------------------------
(***************************************************************************)
(* Properties.                                                             *)
(***************************************************************************)
TypeOK ==
  /\ faults \in FaultSets /\ size \in FileSizes
  /\ req \in [alive : BOOLEAN, status : {"ok", "bad"}, offset : 0 .. OffsetLimit - 1,
              cbRead : 0 .. BufSize, bBuf : BOOLEAN, bReadOutstanding : BOOLEAN,
              bPushOutstanding : BOOLEAN, bReadsDone : BOOLEAN,
              bLastDataPushIssued : BOOLEAN, bNullPush : BOOLEAN,
              fCallInvalidated : BOOLEAN]
  /\ buf \in Seq(Nat) /\ Len(buf) <= BufSize
  /\ reading \in BOOLEAN /\ pushing \in BOOLEAN
  /\ port \in Seq(Packets)
  /\ stream \in Seq(Nat) /\ ends \in Nat
  /\ call \in {"open", "completed", "aborted"}
  /\ pc \in [Workers -> Steps]
  /\ got \in [Workers -> 0 .. BufSize]

\* The ASSERTs of SServiceRequests, which are compiled only under DEBUG1: a
\* worker that comes to read finds the buffer empty and no read outstanding, and
\* so on, whatever the other workers did since it chose its action.
AssertsHold ==
  \A w \in Workers :
    /\ pc[w] = "read" => ~req.bBuf /\ ~req.bReadOutstanding
    /\ pc[w] = "push" => ~req.bReadOutstanding /\ ~req.bPushOutstanding
    /\ pc[w] = "push" /\ ~req.bNullPush => req.bBuf
    /\ pc[w] = "IoFile" =>
         req.bReadOutstanding /\ ~req.bBuf /\ ~req.bLastDataPushIssued
    /\ pc[w] = "IoPipe" => req.bPushOutstanding

\* The ASSERT of the null push: no data is left in the buffer.
NothingLeftAtEnd ==
  \A w \in Workers : pc[w] = "push" /\ req.bNullPush => ~req.bBuf

\* Each packet and each outstanding I/O refers to a request that still exists, and
\* so does each worker that is about to use one: ServerShutdownRequest is called
\* only by the last user.  (Not so if ReadFile fails at once: the request is freed
\* under its own lock, which is left afterwards, and with a push outstanding.)
AliveWhenUsed ==
  \/ req.alive \/ "readNow" \in faults
  \/ /\ ~reading /\ ~pushing /\ port = <<>>
     /\ \A w \in Workers : pc[w] \notin Using

\* HandleSReq that fails after the file was opened, or a ReadFile that fails later,
\* is only logged, and the request forgotten.
MayForget == faults \cap {"handle", "readLater"} # {}

\* ReadMe.txt: "we keep only one send active while reading the next buffer to be
\* pushed": what the flags say is outstanding is what is outstanding, or reported
\* and not yet taken note of.  (Not so for a request that is forgotten.)
FlagsTruthful ==
  LET Reported(key) == \/ \E i \in 1 .. Len(port) : port[i].key = key
                       \/ \E w \in Workers : pc[w] = key
  IN req.alive /\ req.status = "ok" /\ ~Reported("IoFileRep") /\ ~MayForget =>
       /\ req.bReadOutstanding <=> reading \/ Reported("IoFile")
       /\ req.bPushOutstanding <=> pushing \/ Reported("IoPipe")

\* The pushes deliver the file from its first byte on, without a gap, a repetition
\* or a byte of another block.
InOrder == stream = [i \in 1 .. Len(stream) |-> i] /\ Len(stream) <= size

\* A transfer ends: no interleaving of completions leaves it without an outstanding
\* I/O, a packet or a worker that would carry it on.  (Not so for a request that
\* is forgotten.)
Ends == ~MayForget => <>(~req.alive)

Promise == INSTANCE Transfer

\* Two known ways to break the promise: a call whose push failed is completed, and
\* a file whose last read is empty may be ended twice.
Excused == "push" \in faults \/ (size % BufSize = 0 /\ req.bNullPush)

\* The promise of module Transfer: all bytes in order, one end, and the call is
\* completed only then; otherwise it is aborted.
ImplementsTransfer == Promise!Init /\ [][Promise!Next \/ Excused']_(Promise!vars)
=============================================================================
