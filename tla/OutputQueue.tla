------------------------------ MODULE OutputQueue ------------------------------
(***************************************************************************)
(* COutputQueue of the DirectShow base classes, with a thread: an output    *)
(* pin queues samples and packets (EOS, NewSegment, SendAnyway, Reset), and *)
(* the thread sends them downstream in batches.                             *)
(*                                                                         *)
(* Three threads meet.  The streaming thread calls ReceiveMultiple, EOS,    *)
(* NewSegment and SendAnyway; the application's thread calls BeginFlush,    *)
(* EndFlush, Reset and the destructor; the queue's own thread runs          *)
(* ThreadProc.  The object is a lock, but calls downstream are made without *)
(* it, m_hr is read outside it in several places, and EndFlush sets the     *)
(* flags outside it.  A call that holds the lock from its first access to   *)
(* its last is one step.  Without a thread the class is module              *)
(* OutputDirect.                                                            *)
(***************************************************************************)
EXTENDS Integers, Sequences

CONSTANTS
  BatchSize,     \* m_lBatchSize
  Exacts,        \* the values of bBatchExact, a set of BOOLEANs
  FlushingOpts,  \* the values of bFlushingOpt, a set of BOOLEANs
  Resets,        \* whether the application also calls Reset, a set of BOOLEANs
  MaxSerial,     \* bound on the samples and ends of stream queued
  MaxList        \* bound on the length of m_List

ASSUME QueueAssumption ==
  /\ BatchSize \in Nat \ {0}
  /\ Exacts \subseteq BOOLEAN
  /\ FlushingOpts \subseteq BOOLEAN
  /\ Resets \subseteq BOOLEAN
  /\ MaxSerial \in Nat
  /\ MaxList \in Nat

VARIABLES
  exact, opt,    \* m_bBatchExact, m_bFlushingOpt
  resets,        \* the application calls Reset, too
  list,          \* m_List
  batch,         \* m_ppSamples, of which m_nBatched are set
  hr,            \* m_hr: "ok", "false" (S_FALSE) or "refused" (by the pin)
  flushing,      \* m_bFlushing
  flushed,       \* m_bFlushed
  waiting,       \* m_lWaiting
  sem,           \* the count of m_hSem
  complete,      \* m_evFlushComplete is set
  terminate,     \* m_bTerminate
  owner,         \* who holds the lock: "thread", "caller" or "none"; calls of one
                 \* step take it and give it back in the step
  worker,        \* where the queue's thread is
  sending,       \* the batch it sends
  taken,         \* pSample: the special packet that ended the batch
  result,        \* what ReceiveMultiple has returned to it
  caller,        \* where the application's thread is
  stream,        \* where the streaming thread is
  downFlushing,  \* the pin downstream is between BeginFlush and EndFlush
  serial,        \* samples and ends of stream queued, which numbers them
  last,          \* the number of the last one that was sent or released
  refused,       \* the pin has refused a batch since the last flush or Reset
  skipped        \* something was released unsent since

config  == <<exact, opt, resets>>
flags   == <<flushing, flushed, terminate>>
wake    == <<waiting, sem>>
thread  == <<worker, sending, taken, result>>
history == <<serial, last, refused, skipped>>
vars == <<config, list, batch, hr, flags, wake, complete, owner, thread, caller,
          stream, downFlushing, history>>

Kinds   == {"sample", "EOS", "SEND", "RESET", "SEG", "PARAMS"}
Entries == [kind : Kinds, n : 0 .. MaxSerial]
Packet(kind) == [kind |-> kind, n |-> 0]
NoPacket     == Packet("SEND")
IsData(e)    == e.kind \in {"sample", "EOS"}

Init ==
  /\ \E e \in Exacts : exact = (e /\ BatchSize > 1)
  /\ opt \in FlushingOpts /\ resets \in Resets
  /\ list = <<>> /\ batch = <<>>
  /\ hr = "ok"
  /\ flushing = FALSE /\ flushed = TRUE /\ terminate = FALSE
  /\ waiting = 0 /\ sem = 0
  /\ complete = FALSE
  /\ owner = "none"
  /\ worker = "top" /\ sending = <<>> /\ taken = NoPacket /\ result = "ok"
  /\ caller = "idle" /\ stream = "idle"
  /\ downFlushing = FALSE
  /\ serial = 0 /\ last = 0 /\ refused = FALSE /\ skipped = FALSE

\* Mutated: the thread is no longer marked as waiting, but not woken either.
NotifyUnsignalled == /\ waiting' = 0
                     /\ UNCHANGED sem

\* NotifyThread
Notify == /\ sem' = sem + waiting
          /\ waiting' = 0

-----------------------------------------------------------------------------
(* The streaming thread *)

\* Calls may begin until BeginFlush has returned: "block receives -- we assume
\* this is done by the filter".
MayCall == /\ (caller = "idle" /\ ~flushing) \/ caller = "beginDown"
           /\ stream = "idle" /\ owner = "none" /\ ~terminate

\* Mutated: m_bFlushed stays set.
AcceptUnflushed(entries) ==
  /\ Len(list) + Len(entries) <= MaxList
  /\ list' = list \o entries
  /\ serial' = serial + Len(entries)
  /\ UNCHANGED flushed

\* Data is queued, and there is something to flush.
Accept(entries) ==
  /\ Len(list) + Len(entries) <= MaxList
  /\ list' = list \o entries
  /\ serial' = serial + Len(entries)
  /\ flushed' = FALSE

\* Mutated: the batch is one sample more than full.
NotifyIfReadyLate(n) == IF exact => Len(batch) + n > BatchSize
                        THEN Notify ELSE UNCHANGED wake

\* With exact batches the thread is woken when one is full, n in the list.
NotifyIfReady(n) == IF exact => Len(batch) + n >= BatchSize
                    THEN Notify ELSE UNCHANGED wake

\* ReceiveMultiple, of n samples.  Each is queued, or released at once.
Receive(n) ==
  /\ MayCall
  /\ \/ /\ hr = "ok" /\ serial + n <= MaxSerial
        /\ Accept([i \in 1 .. n |-> [kind |-> "sample", n |-> serial + i]])
        /\ NotifyIfReady(Len(list) + n)
     \/ hr # "ok" /\ UNCHANGED <<list, flushed, wake, serial>>
  /\ UNCHANGED <<config, batch, hr, flushing, terminate, complete, owner, thread, caller,
                 stream, downFlushing, last, refused, skipped>>

EOS ==
  /\ MayCall
  /\ \/ /\ hr = "ok" /\ serial < MaxSerial
        /\ Accept(<<[kind |-> "EOS", n |-> serial + 1]>>)
        /\ Notify
     \/ hr # "ok" /\ UNCHANGED <<list, flushed, wake, serial>>
  /\ UNCHANGED <<config, batch, hr, flushing, terminate, complete, owner, thread, caller,
                 stream, downFlushing, last, refused, skipped>>

SendAnyway ==
  /\ MayCall /\ Len(list) < MaxList
  /\ list' = Append(list, Packet("SEND"))
  /\ Notify
  /\ UNCHANGED <<config, batch, hr, flags, complete, owner, thread, caller, stream,
                 downFlushing, history>>

\* NewSegment reads m_hr before it takes the lock.
NewSegment ==
  /\ MayCall /\ hr = "ok"
  /\ stream' = "segment"
  /\ UNCHANGED <<config, list, batch, hr, flags, wake, complete, owner, thread, caller,
                 downFlushing, history>>

QueueSegment ==
  /\ stream = "segment" /\ owner = "none" /\ Len(list) + 1 < MaxList
  /\ stream' = "idle"
  /\ list' = list \o <<Packet("SEG"), Packet("PARAMS")>>
  /\ Notify
  /\ UNCHANGED <<config, batch, hr, flags, complete, owner, thread, caller,
                 downFlushing, history>>

Streaming == \/ \E n \in 1 .. 2 : Receive(n)
             \/ EOS \/ SendAnyway \/ NewSegment \/ QueueSegment

-----------------------------------------------------------------------------
(* The application's thread *)

\* m_hr = S_FALSE, so that what comes from now on is discarded.
Refuse == hr' = IF hr = "ok" THEN "false" ELSE hr

\* Mutated: an event that is still set is not reset.
StartFlushStale == /\ Notify
                   /\ UNCHANGED complete

\* Mutated: the thread sleeps on.
StartFlushUnnotified == /\ complete' = FALSE
                        /\ UNCHANGED wake

\* "Make sure we really wait for the flush to complete"
StartFlush == /\ complete' = FALSE
              /\ Notify

\* With the optimization, nothing is done when nothing came since the last flush.
BeginFlush ==
  /\ caller = "idle" /\ ~flushing /\ ~terminate /\ owner = "none"
  /\ flushing' = TRUE
  /\ Refuse
  /\ \/ (flushed /\ opt) /\ UNCHANGED <<complete, wake, caller>>
     \/ ~(flushed /\ opt) /\ StartFlush /\ caller' = "beginDown"
  /\ UNCHANGED <<config, list, batch, flushed, terminate, owner, thread, stream,
                 downFlushing, history>>

\* m_pPin->BeginFlush(), from which the pin discards what it receives.
BeginDown ==
  /\ caller = "beginDown"
  /\ caller' = "idle"
  /\ downFlushing' = TRUE
  /\ UNCHANGED <<config, list, batch, hr, flags, wake, complete, owner, thread, stream,
                 history>>

\* Mutated: m_hr keeps the S_FALSE of the flush.
AcceptAgainSticky == /\ refused' = FALSE /\ skipped' = FALSE
                     /\ hr' = IF hr = "false" THEN hr ELSE "ok"

\* m_hr = S_OK
AcceptAgain == /\ hr' = "ok"
               /\ refused' = FALSE /\ skipped' = FALSE

\* EndFlush; "the caller has guaranteed no samples will arrive".
EndFlush ==
  /\ caller = "idle" /\ flushing /\ stream = "idle" /\ owner = "none"
  /\ \/ /\ opt /\ flushed
        /\ flushing' = FALSE
        /\ AcceptAgain
        /\ UNCHANGED caller
     \/ /\ ~(opt /\ flushed)
        /\ caller' = "endWait"
        /\ UNCHANGED <<flushing, hr, refused, skipped>>
  /\ UNCHANGED <<config, list, batch, flushed, terminate, wake, complete, owner, thread,
                 stream, downFlushing, serial, last>>

\* m_evFlushComplete.Wait(), an event that resets itself.
EndWait ==
  /\ caller = "endWait" /\ complete
  /\ complete' = FALSE
  /\ caller' = "endFlags"
  /\ UNCHANGED <<config, list, batch, hr, flags, wake, owner, thread, stream,
                 downFlushing, history>>

\* "Be daring": the flags, without the lock.
EndFlags ==
  /\ caller = "endFlags"
  /\ flushing' = FALSE /\ flushed' = TRUE
  /\ caller' = "endDown"
  /\ UNCHANGED <<config, list, batch, hr, terminate, wake, complete, owner, thread, stream,
                 downFlushing, history>>

EndDown ==
  /\ caller = "endDown"
  /\ downFlushing' = FALSE
  /\ caller' = "endHr"
  /\ UNCHANGED <<config, list, batch, hr, flags, wake, complete, owner, thread, stream,
                 history>>

EndHr ==
  /\ caller = "endHr"
  /\ AcceptAgain
  /\ caller' = "idle"
  /\ UNCHANGED <<config, list, batch, flags, wake, complete, owner, thread, stream,
                 downFlushing, serial, last>>

\* The lock is held until the event is set.
Reset ==
  /\ resets
  /\ caller = "idle" /\ ~flushing /\ ~terminate /\ owner = "none" /\ Len(list) < MaxList
  /\ list' = Append(list, Packet("RESET"))
  /\ Notify
  /\ owner' = "caller"
  /\ caller' = "resetWait"
  /\ UNCHANGED <<config, batch, hr, flags, complete, thread, stream, downFlushing, history>>

ResetWait ==
  /\ caller = "resetWait" /\ complete
  /\ complete' = FALSE
  /\ owner' = "none"
  /\ caller' = "idle"
  /\ UNCHANGED <<config, list, batch, hr, flags, wake, thread, stream, downFlushing,
                 history>>

\* The destructor, when nobody calls any more.
Destroy ==
  /\ caller = "idle" /\ stream = "idle" /\ owner = "none"
  /\ terminate' = TRUE
  /\ hr' = "false"
  /\ Notify
  /\ caller' = "join"
  /\ UNCHANGED <<config, list, batch, flushing, flushed, complete, owner, thread, stream,
                 downFlushing, history>>

Join ==
  /\ caller = "join" /\ worker = "none"
  /\ caller' = "destroyed"
  /\ UNCHANGED <<config, list, batch, hr, flags, wake, complete, owner, thread, stream,
                 downFlushing, history>>

Finishing == EndWait \/ EndFlags \/ EndDown \/ EndHr \/ ResetWait \/ Join
Control   == BeginFlush \/ BeginDown \/ EndFlush \/ Reset \/ Destroy \/ Finishing

-----------------------------------------------------------------------------
(* ThreadProc *)

\* FreeSamples
Free == /\ list' = <<>> /\ batch' = <<>>
        /\ last' = serial
        /\ skipped' = (skipped \/ last # serial)

Enter ==
  /\ worker = "top" /\ owner = "none"
  /\ owner' = "thread" /\ worker' = "pop"
  /\ UNCHANGED <<config, list, batch, hr, flags, wake, complete, sending, taken, result,
                 caller, stream, downFlushing, history>>

Terminate ==
  /\ worker = "pop" /\ terminate
  /\ Free
  /\ owner' = "none" /\ worker' = "none"
  /\ UNCHANGED <<config, hr, flags, wake, complete, sending, taken, result, caller, stream,
                 downFlushing, serial, refused>>

\* Prepare to wait; the lock is released before the wait.
Sleep == /\ waiting' = waiting + 1
         /\ owner' = "none" /\ worker' = "wait"

Flush ==
  /\ worker = "pop" /\ ~terminate /\ flushing
  /\ Free
  /\ complete' = TRUE
  /\ Sleep
  /\ UNCHANGED <<config, hr, flags, sem, sending, taken, result, caller, stream,
                 downFlushing, serial, refused>>

Popping == worker = "pop" /\ ~terminate /\ ~flushing

\* Mutated: m_nBatched is not reset.
BreakAndKeep(full, packet) ==
  /\ sending' = full /\ batch' = full /\ taken' = packet
  /\ owner' = "none" /\ worker' = "send"

\* The batch that is complete is taken over, and the lock released.
Break(full, packet) ==
  /\ sending' = full /\ batch' = <<>> /\ taken' = packet
  /\ owner' = "none" /\ worker' = "send"

\* Mutated: the batch takes one sample too many.
FullLate(samples) == Len(samples) > BatchSize

Full(samples) == Len(samples) = BatchSize

\* A sample joins the batch.
PopSample ==
  /\ Popping /\ list # <<>> /\ Head(list).kind \in {"sample", "PARAMS"}
  /\ list' = Tail(list)
  /\ LET full == Append(batch, Head(list)) IN
     \/ Full(full) /\ Break(full, NoPacket)
     \/ ~Full(full) /\ batch' = full /\ UNCHANGED <<sending, taken, owner, worker>>
  /\ UNCHANGED <<config, hr, flags, wake, complete, result, caller, stream, downFlushing,
                 history>>

\* "unless there's nothing to send"
PopSend ==
  /\ Popping /\ list # <<>> /\ Head(list).kind = "SEND" /\ batch = <<>>
  /\ list' = Tail(list)
  /\ UNCHANGED <<config, batch, hr, flags, wake, complete, owner, thread, caller, stream,
                 downFlushing, history>>

\* Any other packet ends the batch; NEW_SEGMENT comes with its parameters.
PopPacket ==
  /\ Popping /\ list # <<>>
  /\ LET e == Head(list) IN
     /\ e.kind \in {"EOS", "RESET", "SEG"} \/ (e.kind = "SEND" /\ batch # <<>>)
     /\ list' = IF e.kind = "SEG" THEN Tail(Tail(list)) ELSE Tail(list)
     /\ Break(batch, e)
  /\ UNCHANGED <<config, hr, flags, wake, complete, result, caller, stream, downFlushing,
                 history>>

\* The list is empty: what is batched is sent, unless batches are exact.
Drained ==
  /\ Popping /\ list = <<>> /\ ~exact /\ batch # <<>>
  /\ Break(batch, NoPacket)
  /\ UNCHANGED <<config, list, hr, flags, wake, complete, result, caller, stream,
                 downFlushing, history>>

NothingToDo ==
  /\ Popping /\ list = <<>> /\ (exact \/ batch = <<>>)
  /\ Sleep
  /\ UNCHANGED <<config, list, batch, hr, flags, sem, complete, sending, taken, result,
                 caller, stream, downFlushing, history>>

Wait ==
  /\ worker = "wait" /\ sem > 0
  /\ sem' = sem - 1
  /\ worker' = "top"
  /\ UNCHANGED <<config, list, batch, hr, flags, waiting, complete, owner, sending, taken,
                 result, caller, stream, downFlushing, history>>

Goto(step) == worker' = step /\ UNCHANGED owner

\* Mutated: a batch that is not full is never sent.
SendableIfFull == Len(sending) = BatchSize /\ hr = "ok"

Sendable == sending # <<>> /\ hr = "ok"

\* m_hr is read without the lock: the batch is sent, or released.
Send ==
  /\ worker = "send"
  /\ \/ Sendable /\ Goto("deliver") /\ UNCHANGED <<sending, last, skipped>>
     \/ /\ ~Sendable
        /\ Goto("packet")
        /\ sending' = <<>>
        /\ last' = IF sending = <<>> THEN last ELSE sending[Len(sending)].n
        /\ skipped' = (skipped \/ sending # <<>>)
  /\ UNCHANGED <<config, list, batch, hr, flags, wake, complete, taken, result, caller,
                 stream, downFlushing, serial, refused>>

\* ReceiveMultiple of the pin, which may refuse, and does while it is flushing.
Deliver ==
  /\ worker = "deliver"
  /\ Goto("record")
  /\ \/ result' = "ok" /\ ~downFlushing /\ UNCHANGED refused
     \/ result' = "refused" /\ ~downFlushing /\ refused' = TRUE
     \/ result' = "false" /\ downFlushing /\ UNCHANGED refused
  /\ last' = sending[Len(sending)].n
  /\ sending' = <<>>
  /\ UNCHANGED <<config, list, batch, hr, flags, wake, complete, taken, caller, stream,
                 downFlushing, serial, skipped>>

\* Mutated: what the pin answered is dropped.
RecordForgotten ==
  /\ worker = "record" /\ owner = "none"
  /\ Goto("packet")
  /\ UNCHANGED <<config, list, batch, hr, flags, wake, complete, owner, sending, taken,
                 result, caller, stream, downFlushing, history>>

\* "Don't overwrite a flushing state HRESULT"
Record ==
  /\ worker = "record" /\ owner = "none"
  /\ hr' = IF hr = "ok" THEN result ELSE hr
  /\ Goto("packet")
  /\ UNCHANGED <<config, list, batch, flags, wake, complete, sending, taken, result, caller,
                 stream, downFlushing, history>>

\* "Check for end of stream", and the other packets.
TakePacket ==
  /\ worker = "packet"
  /\ Goto("top")
  /\ taken' = NoPacket
  /\ \/ /\ taken.kind = "EOS"
        /\ last' = taken.n
        /\ skipped' = (skipped \/ hr # "ok")
        /\ UNCHANGED <<hr, complete, refused>>
     \/ /\ taken.kind = "RESET"
        /\ AcceptAgain
        /\ complete' = TRUE
        /\ UNCHANGED last
     \/ /\ taken.kind \in {"SEND", "SEG"}
        /\ UNCHANGED <<hr, complete, last, refused, skipped>>
  /\ UNCHANGED <<config, list, batch, flags, wake, sending, result, caller, stream,
                 downFlushing, serial>>

Queueing == \/ Enter \/ Terminate \/ Flush \/ PopSample \/ PopSend \/ PopPacket \/ Drained
            \/ NothingToDo \/ Wait \/ Send \/ Deliver \/ Record \/ TakePacket

-----------------------------------------------------------------------------
Next == Streaming \/ Control \/ Queueing

Spec == Init /\ [][Next]_vars

\* Threads run, the pin downstream answers; calls begin or not.
Fairness == /\ WF_vars(Queueing) /\ WF_vars(Finishing \/ BeginDown)
            /\ WF_vars(QueueSegment)

FairSpec == Spec /\ Fairness

-----------------------------------------------------------------------------
\* Types; m_ppSamples, of m_lBatchSize places, is never full between two calls.
TypeOK ==
  /\ exact \in BOOLEAN /\ opt \in BOOLEAN /\ resets \in BOOLEAN
  /\ list \in Seq(Entries)
  /\ batch \in Seq(Entries) /\ Len(batch) < BatchSize
  /\ hr \in {"ok", "false", "refused"}
  /\ flushing \in BOOLEAN /\ flushed \in BOOLEAN /\ terminate \in BOOLEAN
  /\ waiting \in 0 .. 1 /\ sem \in 0 .. 1
  /\ complete \in BOOLEAN /\ owner \in {"none", "thread", "caller"}
  /\ worker \in {"none", "top", "pop", "wait", "send", "deliver", "record", "packet"}
  /\ sending \in Seq(Entries) /\ Len(sending) <= BatchSize
  /\ taken \in Entries
  /\ result \in {"ok", "false", "refused"}
  /\ caller \in {"idle", "beginDown", "endWait", "endFlags", "endDown", "endHr",
                 "resetWait", "join", "destroyed"}
  /\ stream \in {"idle", "segment"}
  /\ downFlushing \in BOOLEAN
  /\ serial \in 0 .. MaxSerial /\ last \in 0 .. MaxSerial
  /\ refused \in BOOLEAN /\ skipped \in BOOLEAN

\* What was queued and not sent yet, in the order it goes.
Pending == sending \o <<taken>> \o batch \o list

\* Where the samples and ends of stream in s are, and that they are numbered from
\* lo + 1 to hi, in that order.
Data(s) == {i \in 1 .. Len(s) : IsData(s[i])}

Numbered(s, lo, hi) ==
  /\ lo <= hi
  /\ {s[i].n : i \in Data(s)} = lo + 1 .. hi
  /\ \A i, j \in Data(s) : i < j => s[i].n < s[j].n

\* Samples and ends of stream, which pass through the list, the batch and the
\* thread's local copies, leave in the order they came, each once: ThreadProc
\* sets m_nBatched to 0 with the lock and uses m_ppSamples after it without.
InOrder == Numbered(Pending, last, serial)

\* While the thread sleeps it is either marked as waiting or already woken, when it
\* does not sleep neither (a debug assertion), and what is queued meanwhile has
\* woken it, but for samples that do not fill a batch that is to be exact:
\* m_lWaiting, m_hSem and the list agree.
Woken == worker = "wait" => sem + waiting = 1

Awake == worker # "wait" => sem = 0 /\ waiting = 0

NoLostWakeup ==
  /\ Awake /\ Woken
  /\ worker = "wait" /\ waiting = 1 /\ list # <<>> =>
       /\ exact /\ Len(batch) + Len(list) < BatchSize
       /\ \A i \in 1 .. Len(list) : list[i].kind = "sample"

\* When EndFlush goes on, "no more data to go downstream": nothing from before the
\* flush is queued, batched or on its way to the pin; nothing is sent while the queue
\* is taken to be flushed, and the destructor leaves nothing (both are debug
\* assertions).  This and the next except an application that calls Reset: it may
\* return on an event that a flush left set, and the event that the thread then
\* sets for it ends the wait of an EndFlush too early.
FlushedAll ==
  ~resets =>
    /\ caller \in {"endFlags", "endDown", "endHr"} =>
         Data(Pending) = {} /\ worker \notin {"deliver", "record"}
    /\ worker \in {"deliver", "record"} => ~flushed
    /\ caller = "destroyed" => list = <<>>

\* A sample or end of stream is released unsent only if the pin has refused one
\* before it, or because of a flush or the end of the queue; and the S_FALSE by which
\* a flush refuses samples does not outlive it.
NothingLost ==
  ~resets =>
    /\ skipped => refused \/ hr = "false" \/ terminate
    /\ hr = "false" => flushing \/ caller \in {"endDown", "endHr", "join", "destroyed"}

\* m_hr is sticky: after the pin has refused a batch it gets no other until a
\* flush or Reset, whoever reads and writes m_hr meanwhile.
NothingAfterRefusal == [][worker' = "deliver" => ~refused]_vars

\* BeginFlush, EndFlush and the destructor return: the thread sets the event
\* that EndFlush waits for, whatever it was doing when the flush began.
CallsEnd == (caller \notin {"idle", "resetWait", "destroyed"})
              ~> (caller \in {"idle", "destroyed"})

\* Unless batches are exact or Reset hangs, every sample and end of stream that is
\* queued is sent or released once no more come (MaxSerial bounds them): the thread
\* does not sleep over it.
Drains == []<>(exact \/ resets \/ last = serial)

\* Reset, too, returns.  In EndFlush the same wait is made without the lock, as
\* "there is no need to hold the critical section (in fact we'd deadlock if we
\* did!)".
ResetReturns == (caller = "resetWait") ~> (caller = "idle")

\* "discard all queued data": no NewSegment from before the end of a flush is
\* queued after it.  NewSegment tests m_hr before it takes the lock.
SegmentsFlushed ==
  caller \in {"endDown", "endHr"} => \A i \in 1 .. Len(list) : list[i].kind # "SEG"

\* The assertion of IsIdle: if the thread waits and nothing is batched, "it
\* shouldn't be possible for there to be anything on the work queue".
IdleIsEmpty == owner = "none" /\ waiting = 1 /\ batch = <<>> => list = <<>>
=============================================================================
