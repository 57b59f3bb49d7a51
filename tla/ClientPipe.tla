------------------------------ MODULE ClientPipe ------------------------------
(***************************************************************************)
(* How the workers of the asynchronous client service fetch one file:      *)
(* ServiceRequests, HandleReq and ClientShutdownRequest of                 *)
(* FileRepClientProc.cpp, composed with a server that keeps the promise of *)
(* module Transfer.                                                        *)
(*                                                                         *)
(* What a worker does between EnterCriticalSection and                     *)
(* LeaveCriticalSection of the request, ClientShutdownRequest included, is *)
(* one step; between two of them the other workers run.  The file system,  *)
(* the RPC runtime and the completion port are external.  The runtime has  *)
(* received what the server sent; it reports the end of the call when the  *)
(* client has taken notice of all it reported before.  A request has one   *)
(* pbBuf and one OVERLAPPED for all its writes: what WriteFile takes from  *)
(* them later is what the last pull has left there.  FileWritePos and      *)
(* CurrentExtendedSize are signed LONGs and wrap around; nWrites and       *)
(* nBytes are taken not to, and RevertToSelf to succeed.                   *)
(***************************************************************************)
EXTENDS Integers, Sequences, FiniteSets

CONSTANTS
  Workers,      \* threads in ServiceRequests
  BufSize,      \* PULL_BUFSIZE
  Extension,    \* FILE_SIZE_EXTENSION
  PosLimit,     \* 2^31: the LONGs of a position are less
  FileSizes,    \* how long the remote file may be
  FaultSets     \* what may fail together

\* HandleReq before the file is there; its port or the call; a pull; the call later
\* (reported as call-complete); WriteFile at once; WriteFile later; and GetLastError,
\* which may say 0 where what failed did not set it or another call came after.
FaultKinds == {"open", "make", "pull", "call", "writeNow", "writeLater", "zero"}

ASSUME ClientAssumption ==
  /\ IsFiniteSet(Workers)
  /\ BufSize \in Nat \ {0}
  /\ Extension \in Nat /\ Extension >= BufSize
  /\ PosLimit \in Nat /\ PosLimit > Extension
  /\ FileSizes \subseteq Nat /\ \E n \in FileSizes : \A m \in FileSizes : m <= n
  /\ FaultSets \subseteq SUBSET FaultKinds

VARIABLES
  faults,                       \* what may fail in this behaviour
  size, stream, ends, call,     \* the server: see Transfer
  rpc,       \* the call at the client: "none", "open", "ok" or "failed"
  taken,     \* how many bytes the pulls returned
  pulling,   \* a pull is outstanding
  event,     \* pReq->Async.Event
  req,       \* the flags and counters of the Req
  buf,       \* pReq->pbBuf
  writes,    \* the outstanding WriteFiles: of which bytes, and what was asked
  file,      \* the bytes of the local file, 0 where none was written
  length,    \* its length
  pointer,   \* the file pointer of its handle
  spoiled,   \* history: where a write found the buffer overwritten
  completed, \* how often RpcAsyncCompleteCall was called
  port,      \* the packets at ClientCompletionPort
  pc,        \* where a worker is in its loop
  got        \* the packet it took

server  == <<size, stream, ends, call>>
local   == <<file, length, pointer, spoiled>>
runtime == <<rpc, taken, pulling, event>>
vars == <<faults, server, runtime, req, buf, writes, local, completed, port, pc, got>>

Server == INSTANCE Transfer

NoPacket == [key |-> "none", n |-> 0, ok |-> TRUE]
Packet(key, n, ok) == [key |-> key, n |-> n, ok |-> ok]
Steps == {"wait", "IoFileRep", "IoFile", "IoPipe", "pull"}
Positions == 1 .. (CHOOSE n \in FileSizes : \A m \in FileSizes : m <= n)

\* A LONG that was increased by no more than Extension; a LONG taken for a DWORD.
Longs       == -PosLimit .. PosLimit - 1
Dwords      == 0 .. 2 * PosLimit - 1
Wrap(x)     == IF x < PosLimit THEN x ELSE x - 2 * PosLimit
Unsigned(x) == IF x < 0 THEN x + 2 * PosLimit ELSE x

\* The request was activated.  HeapAlloc does not clear what it allocates: the
\* flags that RequestFile does not set have any value until HandleReq.
Init ==
  /\ faults \in FaultSets
  /\ Server!Init
  /\ rpc = "none" /\ taken = 0 /\ pulling = FALSE /\ event = "none"
  /\ req \in [alive : {TRUE}, Status : {"ok"}, FileWritePos : {0}, CurrentExtendedSize : {0},
              Offset : {0}, nWrites : {0}, nBytes : {0}, bCallMade : {FALSE},
              bCallCancelled : {FALSE}, bPullOutstanding : BOOLEAN, bDataAvailable : BOOLEAN,
              bAllPullsDone : BOOLEAN, bCallComplete : BOOLEAN, bAsyncCallFailureReceived : BOOLEAN,
              bFailureFromPull : BOOLEAN, bFailureFromWrite : BOOLEAN]
  /\ buf = [i \in 1 .. BufSize |-> 0] /\ writes = {}
  /\ file = [i \in Positions |-> 0] /\ length = 0 /\ pointer = 0 /\ spoiled = {}
  /\ completed = 0
  /\ port = <<Packet("IoFileRep", 0, TRUE)>>
  /\ pc = [w \in Workers |-> "wait"]
  /\ got = [w \in Workers |-> NoPacket]

Goto(w, step) == pc' = [pc EXCEPT ![w] = step]

\* What a worker was at is done, and so is the packet that it took.
Handled(w, step) == Goto(w, step) /\ got' = [got EXCEPT ![w] = NoPacket]

-----------------------------------------------------------------------------
(***************************************************************************)
(* The server, the RPC runtime and the file system.                        *)
(***************************************************************************)

\* A server that fails is seen as a failure of the call or of a pull.
ServerGoesOn ==
  /\ rpc = "open"
  /\ Server!Send \/ Server!End \/ Server!Complete
  /\ UNCHANGED <<faults, runtime, req, buf, writes, local, completed, port, pc, got>>

Notify(kind) == event' = kind /\ port' = Append(port, Packet("IoPipe", 0, TRUE))

\* A notification was posted, and no worker has looked at it yet.
Unnoticed == \/ \E i \in 1 .. Len(port) : port[i].key = "IoPipe"
             \/ \E w \in Workers : pc[w] = "IoPipe"

\* There is something to pull for the outstanding pull.
ReceiveComplete ==
  /\ rpc = "open" /\ pulling /\ (taken < Len(stream) \/ ends > 0)
  /\ pulling' = FALSE
  /\ Notify("RpcReceiveComplete")
  /\ UNCHANGED <<faults, server, rpc, taken, req, buf, writes, local, completed, pc, got>>

CallComplete ==
  /\ rpc = "open" /\ call = "completed" /\ taken = Len(stream)
  /\ ~pulling /\ ~Unnoticed
  /\ rpc' = "ok"
  /\ Notify("RpcCallComplete")
  /\ UNCHANGED <<faults, server, taken, pulling, req, buf, writes, local, completed, pc, got>>

CallFails ==
  /\ rpc = "open" /\ (req.bCallCancelled \/ "call" \in faults)
  /\ rpc' = "failed" /\ pulling' = FALSE
  /\ Notify("RpcCallComplete")
  /\ UNCHANGED <<faults, server, taken, req, buf, writes, local, completed, pc, got>>

\* The bytes that a write was started for are still in the buffer.
Intact(write) == \A i \in 1 .. write.n : buf[i] = write.from + i

\* The file system carries a write out, with what the buffer holds by now.  The place
\* is that of the call or, if the OVERLAPPED is read again, that of the last call.
CarryOut ==
  /\ \E write \in {v \in writes : ~v.done} : \E at \in {write.pos, req.Offset} :
       LET last  == at + write.n
           Place == at + 1 .. last
           Own   == write.from + 1 .. write.from + write.n
       IN
       /\ file' = [i \in Positions |-> IF i \in Place THEN buf[i - at] ELSE file[i]]
       /\ length' = IF length < last THEN last ELSE length
       /\ spoiled' = IF Intact(write) THEN spoiled
                     ELSE spoiled \cup ((Own \cup Place) \cap Positions)
       /\ writes' = (writes \ {write}) \cup {[write EXCEPT !.done = TRUE]}
  /\ UNCHANGED <<faults, server, runtime, req, buf, pointer, completed, port, pc, got>>

\* The end of a write is posted: it was carried out, or it fails.
WriteEnds ==
  /\ \E write \in writes :
       /\ writes' = writes \ {write}
       /\ \/ /\ write.done
             /\ port' = Append(port, Packet("IoFile", write.n, TRUE))
          \/ /\ ~write.done /\ "writeLater" \in faults
             /\ port' = Append(port, Packet("IoFile", 0, FALSE))
  /\ UNCHANGED <<faults, server, runtime, req, buf, local, completed, pc, got>>

\* The file is cut or extended to the pointer, which SetFilePointer moved to n.
SetEnd(n) ==
  /\ pointer' = n /\ length' = n
  /\ file' = [i \in Positions |-> IF i <= n THEN file[i] ELSE 0]
  /\ UNCHANGED spoiled

\* Mutated: one byte too few.
SetFileSizeShort(n) ==
  /\ pointer' = n /\ length' = n
  /\ file' = [i \in Positions |-> IF i < n THEN file[i] ELSE 0]
  /\ UNCHANGED spoiled

\* SetFileSize: the DWORD is taken for a LONG, for the high half is NULL, and
\* SetFilePointer refuses a negative one.
SetFileSize(n) == SetEnd(IF n >= 0 THEN n ELSE pointer)

-----------------------------------------------------------------------------
(***************************************************************************)
(* ClientShutdownRequest, entered with the new state r of the request: it  *)
(* cancels the call and waits for its end, or completes it, and, when no   *)
(* pull and no write is outstanding, frees the request.                    *)
(***************************************************************************)

\* The runtime still has to be told, for no pull has failed.
Open(r) == r.bCallMade /\ ~r.bFailureFromPull

Cancels(r) == /\ Open(r) /\ r.Status # "ok" /\ ~r.bCallComplete
              /\ ~r.bAsyncCallFailureReceived /\ ~r.bCallCancelled

WaitsForPull(r) == Open(r) /\ ~Cancels(r) /\ r.bPullOutstanding

CompleteCall(r) ==
  completed' = IF Open(r) /\ ~Cancels(r) /\ ~WaitsForPull(r) THEN completed + 1 ELSE completed

Keep(r) == req' = [r EXCEPT !.bCallCancelled = @ \/ Cancels(r)] /\ UNCHANGED local

\* Mutated: the extension of the file is not taken back.
FreeNoCut(r) == req' = [r EXCEPT !.alive = FALSE] /\ UNCHANGED local

Free(r) == /\ req' = [r EXCEPT !.alive = FALSE]
           /\ IF r.FileWritePos < r.CurrentExtendedSize
              THEN SetFileSize(r.FileWritePos) ELSE UNCHANGED local

\* Mutated: the outstanding writes are not waited for.
ShutdownNoWait(r) ==
  /\ CompleteCall(r)
  /\ IF Cancels(r) \/ WaitsForPull(r) THEN Keep(r) ELSE Free(r)

Shutdown(r) ==
  /\ CompleteCall(r)
  /\ IF Cancels(r) \/ WaitsForPull(r) \/ r.nWrites > 0 THEN Keep(r) ELSE Free(r)

\* The lock is left without a shutdown.
Leave(r) == req' = r /\ UNCHANGED <<local, completed>>

-----------------------------------------------------------------------------
(***************************************************************************)
(* ServiceRequests.                                                        *)
(***************************************************************************)

\* GetQueuedCompletionStatus, which also returns what failed.
Dequeue(w) ==
  /\ pc[w] = "wait" /\ port # <<>>
  /\ Goto(w, Head(port).key)
  /\ got' = [got EXCEPT ![w] = Head(port)]
  /\ port' = Tail(port)
  /\ UNCHANGED <<faults, server, runtime, req, buf, writes, local, completed>>

\* What GetLastError may give for the Status of what failed.
LastError == IF "zero" \in faults THEN {"ok", "bad"} ELSE {"bad"}

\* HandleReq: the file is created, extended and linked to the port, and the call is made.
HandleReq(w) ==
  LET ready == [req EXCEPT !.bPullOutstanding = FALSE, !.bDataAvailable = FALSE,
                           !.bAllPullsDone = FALSE, !.bCallComplete = FALSE,
                           !.bAsyncCallFailureReceived = FALSE,
                           !.bFailureFromPull = FALSE, !.bFailureFromWrite = FALSE,
                           !.FileWritePos = 0, !.CurrentExtendedSize = 0,
                           !.Offset = 0]
  IN
  /\ pc[w] = "IoFileRep"
  /\ \/ /\ "open" \in faults
        /\ \E error \in LastError : Shutdown([req EXCEPT !.Status = error])
        /\ Handled(w, "wait") /\ rpc' = rpc
     \/ /\ "make" \in faults
        /\ SetFileSize(Extension)
        /\ req' = [ready EXCEPT !.Status = "bad", !.alive = FALSE]
        /\ Handled(w, "wait") /\ UNCHANGED <<rpc, completed>>
     \/ /\ SetFileSize(Extension)
        /\ req' = [ready EXCEPT !.bCallMade = TRUE]
        /\ Handled(w, "pull") /\ rpc' = "open" /\ UNCHANGED completed
  /\ UNCHANGED <<faults, server, taken, pulling, event, buf, writes, port>>

\* No more pulls after a failure of the call or of a write.
Stopped == req.bAsyncCallFailureReceived \/ req.bFailureFromWrite

PullStopped(w) ==
  /\ pc[w] = "pull" /\ Stopped
  /\ Handled(w, "wait")
  /\ UNCHANGED <<faults, server, runtime, req, buf, writes, local, completed, port>>

PullFails(w) ==
  /\ pc[w] = "pull" /\ ~Stopped
  /\ rpc = "failed" \/ (rpc = "open" /\ "pull" \in faults)
  /\ rpc' = "failed"
  /\ Shutdown([req EXCEPT !.bFailureFromPull = TRUE, !.bAllPullsDone = TRUE,
                          !.bPullOutstanding = FALSE, !.bCallComplete = TRUE,
                          !.Status = "bad"])
  /\ Handled(w, "wait")
  /\ UNCHANGED <<faults, server, taken, pulling, event, buf, writes, port>>

\* The pull returns data at the front of the buffer, and it is to be written at the end
\* of what was written so far.
PullData(w) ==
  /\ pc[w] = "pull" /\ ~Stopped /\ rpc # "failed"
  /\ \E n \in 1 .. BufSize :
       LET pos    == Unsigned(req.FileWritePos)
           end    == Wrap(req.FileWritePos + n)
           extend == end > req.CurrentExtendedSize
           pulled == [req EXCEPT !.bDataAvailable = FALSE, !.bPullOutstanding = FALSE,
                                 !.Offset = pos]
       IN
       /\ taken + n <= Len(stream)
       /\ taken' = taken + n
       /\ buf' = [i \in 1 .. BufSize |-> IF i <= n THEN stream[taken + i] ELSE buf[i]]
       /\ \/ /\ req' = [pulled EXCEPT
                          !.nWrites = @ + 1, !.nBytes = @ + n, !.FileWritePos = end,
                          !.CurrentExtendedSize = IF extend THEN Wrap(@ + Extension) ELSE @]
             /\ writes' = writes \cup {[from |-> taken, n |-> n, pos |-> pos, done |-> FALSE]}
             /\ IF extend THEN SetFileSize(req'.CurrentExtendedSize) ELSE UNCHANGED local
             /\ UNCHANGED completed
             /\ Handled(w, "pull")
          \/ /\ "writeNow" \in faults
             /\ \E error \in LastError :
                  Shutdown([pulled EXCEPT !.bFailureFromWrite = TRUE, !.Status = error])
             /\ writes' = writes
             /\ Handled(w, "wait")
  /\ UNCHANGED <<faults, server, rpc, pulling, event, port>>

\* Mutated: the end of the call is not waited for.
PullEndAtOnce(w) ==
  /\ pc[w] = "pull" /\ ~Stopped /\ rpc # "failed"
  /\ taken = Len(stream) /\ ends > 0
  /\ Shutdown([req EXCEPT !.bDataAvailable = FALSE, !.bPullOutstanding = FALSE,
                          !.bAllPullsDone = TRUE])
  /\ Handled(w, "wait")
  /\ UNCHANGED <<faults, server, runtime, buf, writes, port>>

\* The pull returns nothing, for the pipe has ended.
PullEnd(w) ==
  LET r == [req EXCEPT !.bDataAvailable = FALSE, !.bPullOutstanding = FALSE,
                       !.bAllPullsDone = TRUE]
  IN
  /\ pc[w] = "pull" /\ ~Stopped /\ rpc # "failed"
  /\ taken = Len(stream) /\ ends > 0
  /\ IF r.bCallComplete THEN Shutdown(r) ELSE Leave(r)
  /\ Handled(w, "wait")
  /\ UNCHANGED <<faults, server, runtime, buf, writes, port>>

\* Mutated: the pull is not marked.
PullPendingUnmarked(w) ==
  /\ pc[w] = "pull" /\ ~Stopped /\ rpc = "open"
  /\ taken = Len(stream) /\ ends = 0
  /\ pulling' = TRUE
  /\ Leave(req)
  /\ Handled(w, "wait")
  /\ UNCHANGED <<faults, server, rpc, taken, event, buf, writes, port>>

\* There is nothing to pull yet.
PullPending(w) ==
  /\ pc[w] = "pull" /\ ~Stopped /\ rpc = "open"
  /\ taken = Len(stream) /\ ends = 0
  /\ pulling' = TRUE
  /\ Leave([req EXCEPT !.bPullOutstanding = TRUE])
  /\ Handled(w, "wait")
  /\ UNCHANGED <<faults, server, rpc, taken, event, buf, writes, port>>

\* Mutated: the last write does not look whether all is done.
FileIoNoEnd(w) ==
  /\ pc[w] = "IoFile"
  /\ Leave([req EXCEPT !.nWrites = @ - 1, !.nBytes = @ - got[w].n])
  /\ Handled(w, "wait")
  /\ UNCHANGED <<faults, server, runtime, buf, writes, port>>

\* A write has ended.
FileIo(w) ==
  LET r == [req EXCEPT !.nWrites = @ - 1, !.nBytes = @ - got[w].n] IN
  /\ pc[w] = "IoFile"
  /\ IF ~got[w].ok
     THEN Shutdown([r EXCEPT !.bFailureFromWrite = TRUE, !.bAllPullsDone = TRUE,
                             !.Status = "bad"])
     ELSE IF /\ r.bAllPullsDone /\ r.nWrites <= 0
             /\ r.bCallComplete \/ r.bAsyncCallFailureReceived \/ r.bFailureFromWrite
     THEN Shutdown(r)
     ELSE Leave(r)
  /\ Handled(w, "wait")
  /\ UNCHANGED <<faults, server, runtime, buf, writes, port>>

\* A notification, when Async.Event says RpcCallComplete.
CallIo(w) ==
  LET r == [req EXCEPT !.Status = IF rpc = "failed" THEN "bad" ELSE "ok"] IN
  /\ pc[w] = "IoPipe" /\ event = "RpcCallComplete"
  /\ IF r.Status # "ok"
     THEN Shutdown([r EXCEPT !.bAllPullsDone = TRUE, !.bPullOutstanding = FALSE,
                             !.bAsyncCallFailureReceived = TRUE])
     ELSE IF r.bAllPullsDone
     THEN Shutdown([r EXCEPT !.bCallComplete = TRUE])
     ELSE Leave([r EXCEPT !.bCallComplete = TRUE])
  /\ Handled(w, "wait")
  /\ UNCHANGED <<faults, server, runtime, buf, writes, port>>

\* A notification, when it says RpcReceiveComplete.
ReceiveIo(w) ==
  /\ pc[w] = "IoPipe" /\ event = "RpcReceiveComplete"
  /\ Leave([req EXCEPT !.bPullOutstanding = FALSE,
                       !.bDataAvailable = @ \/ ~req.bCallCancelled])
  /\ Handled(w, IF req.bCallCancelled THEN "wait" ELSE "pull")
  /\ UNCHANGED <<faults, server, runtime, buf, writes, port>>

-----------------------------------------------------------------------------
\* A worker that comes to use a freed request may do anything: the model follows it
\* no further, and AliveWhenUsed reports it.
Serve(w) ==
  /\ req.alive
  /\ \/ HandleReq(w) \/ PullStopped(w) \/ PullFails(w) \/ PullData(w) \/ PullEnd(w)
     \/ PullPending(w) \/ FileIo(w) \/ CallIo(w) \/ ReceiveIo(w)

Next == \/ ServerGoesOn \/ ReceiveComplete \/ CallComplete \/ CallFails \/ CarryOut \/ WriteEnds
        \/ \E w \in Workers : Dequeue(w) \/ Serve(w)

Spec == Init /\ [][Next]_vars

\* The server goes on (ServerPipe's Ends), I/O ends, a cancelled call is reported, a
\* packet is taken, and a worker goes on.
Fairness ==
  /\ WF_vars(ServerGoesOn) /\ WF_vars(ReceiveComplete) /\ WF_vars(CallComplete)
  /\ WF_vars(CallFails /\ req.bCallCancelled) /\ WF_vars(CarryOut) /\ WF_vars(WriteEnds)
  /\ WF_vars(\E w \in Workers : Dequeue(w))
  /\ \A w \in Workers : WF_vars(Serve(w))

FairSpec == Spec /\ Fairness

-----------------------------------------------------------------------------
(***************************************************************************)
(* Properties.                                                             *)
(***************************************************************************)
TypeOK ==
  /\ faults \in FaultSets
  /\ rpc \in {"none", "open", "ok", "failed"}
  /\ taken \in 0 .. size /\ pulling \in BOOLEAN
  /\ event \in {"none", "RpcReceiveComplete", "RpcCallComplete"}
  /\ req \in [alive : BOOLEAN, Status : {"ok", "bad"}, FileWritePos : Longs,
              CurrentExtendedSize : Longs, Offset : Dwords,
              nWrites : 0 .. size, nBytes : 0 .. size, bCallMade : BOOLEAN,
              bCallCancelled : BOOLEAN, bPullOutstanding : BOOLEAN,
              bDataAvailable : BOOLEAN, bAllPullsDone : BOOLEAN,
              bCallComplete : BOOLEAN, bAsyncCallFailureReceived : BOOLEAN,
              bFailureFromPull : BOOLEAN, bFailureFromWrite : BOOLEAN]
  /\ buf \in [1 .. BufSize -> 0 .. size]
  /\ writes \subseteq [from : 0 .. size, n : 1 .. BufSize, pos : Dwords, done : BOOLEAN]
  /\ file \in [Positions -> 0 .. size] /\ length \in 0 .. 2 * PosLimit + BufSize
  /\ pointer \in 0 .. PosLimit - 1 /\ spoiled \subseteq Positions
  /\ completed \in Nat
  /\ \A i \in 1 .. Len(port) : port[i].key \in Steps /\ port[i].n \in 0 .. BufSize
  /\ pc \in [Workers -> Steps]

\* The faults that may befall a behaviour; each property below names those under
\* which it does not hold, and its comment says why.
Without(kinds) == faults \cap kinds = {}

\* The ASSERTs of ServiceRequests, compiled only under DEBUG1: what a worker finds
\* when it comes to pull, and what the notifications and their order mean.  (A write
\* that fails is charged nothing, and the end of the call then clears its Status.)
AssertsHold ==
  /\ \A w \in Workers :
       /\ pc[w] = "pull" /\ ~Stopped /\ taken = Len(stream) /\ ends = 0 /\ rpc = "open" =>
            ~req.bDataAvailable
       /\ pc[w] = "IoFile" => req.nWrites > 0
       /\ pc[w] = "IoPipe" /\ req.bCallComplete => rpc = "failed"
       /\ pc[w] = "IoPipe" /\ event = "RpcReceiveComplete" => req.bPullOutstanding
  /\ ~req.alive /\ req.Status = "ok" /\ Without({"writeLater"}) => req.nBytes = 0

\* A request is freed only when nothing refers to it any more: no write, no pull and
\* no open call, no packet, and no worker that is about to use it.  "Pull returned
\* failure: RPC has done all the clenaup.  No need to do anything."
FreedWhenUnused ==
  \/ req.alive
  \/ /\ writes = {} /\ ~pulling /\ rpc # "open" /\ port = <<>>
     /\ \A w \in Workers : pc[w] = "wait"

\* The same, except if the call fails while a worker is on its way to the next pull
\* (the worker that takes the failure frees the request), two writes fail (the second
\* completes a call that is still being cancelled), or a WriteFile fails for which
\* GetLastError says 0 (the call is not cancelled).
AliveWhenUsed == Without({"call", "writeLater", "zero"}) => FreedWhenUnused

\* "There is at most one async WriteFile outstanding": the buffer is not overwritten
\* while a write that is to take its bytes is outstanding.  It does not hold.
BufferIntact == \A write \in writes : write.done \/ Intact(write)

\* No position overflows: the file, in whole extensions, is less than 2 GB.
Fits == \E k \in 0 .. PosLimit : size <= k * Extension /\ k * Extension < PosLimit

\* Each byte that was pulled is in the file or in one outstanding write, at its place:
\* except where a write found the buffer overwritten, and so wrote something else or
\* in another place.
EachByteOnce ==
  Fits =>
    /\ \A i \in Positions \ spoiled : file[i] \in {0, i}
    /\ Without({"writeNow", "writeLater"}) =>
         \A i \in (1 .. taken) \ spoiled :
           Cardinality({write \in writes :
                          ~write.done /\ i \in write.from + 1 .. write.from + write.n})
             = IF file[i] = i THEN 0 ELSE 1

\* A request that ends without an error leaves a copy of the remote file: all of it, if
\* it fits and no write found the buffer overwritten, and else all but those places.
\* (The length is wrong if the file is empty: it was extended before CurrentExtendedSize
\* counts.  A call that ends well clears the Status of a write that failed, and
\* GetLastError may say 0 of a file that was not opened.)
Copied ==
  ~req.alive /\ req.Status = "ok" /\ Fits /\ Without({"writeLater", "zero"}) =>
    /\ \A i \in Positions \ spoiled : file[i] = IF i <= size THEN i ELSE 0
    /\ size > 0 /\ spoiled = {} => length = size

\* "Wait for call-complete notification; call RpcAsyncCompleteCall."  (Not so for the
\* second of two failed writes, nor for a WriteFile that fails where GetLastError says 0.)
CompletedAfterNotice ==
  completed > 0 /\ Without({"writeLater", "zero"}) => rpc \in {"ok", "failed"}

\* A request ends.  (Not so if a WriteFile fails at once after the end of the call was
\* posted: the call that was to be cancelled ends well, and nobody pulls any more.)
Ends == Without({"writeNow"}) => <>(~req.alive)
=============================================================================
