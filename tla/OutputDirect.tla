----------------------------- MODULE OutputDirect -----------------------------
(***************************************************************************)
(* COutputQueue of the DirectShow base classes without a thread: samples    *)
(* are batched by the streaming thread itself, which calls the input pin    *)
(* downstream with the object's lock held.  The pin may block that call     *)
(* until it is flushed, and the application's thread flushes meanwhile.     *)
(* With a thread of its own the class is module OutputQueue.                *)
(***************************************************************************)
EXTENDS Integers, Sequences

CONSTANTS
  BatchSize,   \* m_lBatchSize
  Exacts,      \* the values of bBatchExact, a set of BOOLEANs
  MaxSerial    \* bound on the samples received between two flushes

ASSUME DirectAssumption ==
  /\ BatchSize \in Nat \ {0}
  /\ Exacts \subseteq BOOLEAN
  /\ MaxSerial \in Nat

VARIABLES
  exact,         \* m_bBatchExact
  batch,         \* the numbers of the m_nBatched samples in m_ppSamples
  hr,            \* m_hr: "ok", "false" (S_FALSE) or "refused"
  flushing,      \* m_bFlushing
  flushed,       \* m_bFlushed
  sendAnyway,    \* m_bSendAnyway
  owner,         \* who holds the lock: "stream" or "none"; calls of one step take it
                 \* and give it back in the step
  stream,        \* where the streaming thread is
  call,          \* what it has called
  todo,          \* samples of the call that are not in the batch yet
  caller,        \* where the application's thread is
  downFlushing,  \* the pin is between BeginFlush and EndFlush
  serial,        \* samples accepted since the last flush, which numbers them
  last           \* the number of the last one sent or released

flags == <<flushing, flushed>>
vars  == <<exact, batch, hr, flags, sendAnyway, owner, stream, call, todo, caller,
           downFlushing, serial, last>>

Calls == {"receive", "send", "eos", "segment"}

Init ==
  /\ \E e \in Exacts : exact = (e /\ BatchSize > 1)
  /\ batch = <<>> /\ hr = "ok" /\ flushing = FALSE /\ flushed = TRUE
  /\ sendAnyway = FALSE /\ owner = "none"
  /\ stream = "idle" /\ call = "receive" /\ todo = 0
  /\ caller = "idle" /\ downFlushing = FALSE
  /\ serial = 0 /\ last = 0

-----------------------------------------------------------------------------
(* The streaming thread *)

\* "the caller has guaranteed no samples will arrive before EndFlush() returns"
MayCall == stream = "idle" /\ caller \in {"idle", "begin", "beginLock"} /\ ~flushing

\* The call.  NewSegment reads m_hr without the lock, EOS takes the lock first,
\* which ReceiveMultiple then enters again; with exact batches both begin by
\* sending what is batched.
Call(c) ==
  /\ MayCall
  /\ c = "segment" => hr = "ok"
  /\ owner = "none" \/ c # "eos"
  /\ owner' = IF c = "eos" THEN "stream" ELSE owner
  /\ call' = c
  /\ \E n \in IF c = "receive" THEN 1 .. 2 ELSE {0} :
       todo' = n /\ serial + n <= MaxSerial
  /\ sendAnyway' = (c = "send" \/ (c \in {"eos", "segment"} /\ exact))
  /\ stream' = IF c \in {"eos", "segment"} /\ ~exact THEN "notify" ELSE "lock"
  /\ UNCHANGED <<exact, batch, hr, flags, caller, downFlushing, serial, last>>

\* ReceiveMultiple: with an error, the samples are released and nothing is done.
Lock ==
  /\ stream = "lock"
  /\ owner = "none" \/ call = "eos"
  /\ \/ /\ hr # "ok"
        /\ stream' = "notify" /\ todo' = 0
        /\ UNCHANGED <<owner, flushed, serial>>
     \/ /\ hr = "ok"
        /\ stream' = "loop" /\ owner' = "stream"
        /\ flushed' = FALSE
        /\ serial' = serial + todo
        /\ UNCHANGED todo
  /\ UNCHANGED <<exact, batch, hr, flushing, sendAnyway, call, caller, downFlushing, last>>

Complete(samples) == Len(samples) = BatchSize
                     \/ (call # "receive" /\ (sendAnyway \/ ~exact))

\* One turn of the loop over the samples; nSamples is 0 unless samples came.
Turn ==
  /\ stream = "loop"
  /\ todo > 0 \/ (batch # <<>> /\ sendAnyway)
  /\ LET full == IF todo > 0 THEN Append(batch, serial - todo + 1) ELSE batch IN
     /\ batch' = full
     /\ stream' = IF Complete(full) THEN "deliver" ELSE "loop"
  /\ todo' = IF todo > 0 THEN todo - 1 ELSE 0
  /\ UNCHANGED <<exact, hr, flags, sendAnyway, owner, call, caller, downFlushing, serial,
                 last>>

\* Mutated: m_nBatched is not reset.
DeliverAndKeep ==
  /\ stream = "deliver"
  /\ IF hr # "ok" THEN UNCHANGED hr
     ELSE hr' \in IF downFlushing THEN {"false"} ELSE {"ok", "refused"}
  /\ last' = batch[Len(batch)]
  /\ stream' = "loop"
  /\ UNCHANGED <<exact, batch, flags, sendAnyway, owner, call, todo, caller, downFlushing,
                 serial>>

\* The pin takes the batch, or refuses it; after an error it is only released.
Deliver ==
  /\ stream = "deliver"
  /\ IF hr # "ok" THEN UNCHANGED hr
     ELSE hr' \in IF downFlushing THEN {"false"} ELSE {"ok", "refused"}
  /\ last' = batch[Len(batch)]
  /\ batch' = <<>>
  /\ stream' = "loop"
  /\ UNCHANGED <<exact, flags, sendAnyway, owner, call, todo, caller, downFlushing, serial>>

Unlock ==
  /\ stream = "loop"
  /\ todo = 0 /\ (batch = <<>> \/ ~sendAnyway)
  /\ owner' = IF call = "eos" THEN owner ELSE "none"
  /\ stream' = "notify"
  /\ UNCHANGED <<exact, batch, hr, flags, sendAnyway, call, todo, caller, downFlushing,
                 serial, last>>

\* The call returns; an end of stream, or a new segment, is passed on before.
Notify ==
  /\ stream = "notify"
  /\ owner' = IF call = "eos" THEN "none" ELSE owner
  /\ flushed' = (flushed /\ (call = "eos" => hr # "ok"))
  /\ sendAnyway' = FALSE
  /\ stream' = "idle"
  /\ UNCHANGED <<exact, batch, hr, flushing, call, todo, caller, downFlushing, serial, last>>

Streaming == (\E c \in Calls : Call(c)) \/ Lock \/ Turn \/ Deliver \/ Unlock \/ Notify

-----------------------------------------------------------------------------
(* The application's thread *)

BeginFlush ==
  /\ caller = "idle" /\ ~flushing
  /\ caller' = "begin"
  /\ UNCHANGED <<exact, batch, hr, flags, sendAnyway, owner, stream, call, todo,
                 downFlushing, serial, last>>

\* Mutated: with the lock.
BeginDownLocked ==
  /\ caller = "begin" /\ owner = "none"
  /\ downFlushing' = TRUE
  /\ caller' = "beginLock"
  /\ UNCHANGED <<exact, batch, hr, flags, sendAnyway, owner, stream, call, todo, serial, last>>

\* "pass downstream first to avoid deadlocks"
BeginDown ==
  /\ caller = "begin"
  /\ downFlushing' = TRUE
  /\ caller' = "beginLock"
  /\ UNCHANGED <<exact, batch, hr, flags, sendAnyway, owner, stream, call, todo, serial, last>>

BeginLock ==
  /\ caller = "beginLock" /\ owner = "none"
  /\ flushing' = TRUE
  /\ hr' = IF hr = "ok" THEN "false" ELSE hr
  /\ caller' = "idle"
  /\ UNCHANGED <<exact, batch, flushed, sendAnyway, owner, stream, call, todo,
                 downFlushing, serial, last>>

\* EndFlush: FreeSamples, the flags, the pin, and m_hr.
EndFlush ==
  /\ caller = "idle" /\ flushing /\ stream = "idle"
  /\ batch' = <<>> /\ serial' = 0 /\ last' = 0
  /\ flushing' = FALSE /\ flushed' = TRUE
  /\ downFlushing' = FALSE
  /\ hr' = "ok"
  /\ UNCHANGED <<exact, sendAnyway, owner, stream, call, todo, caller>>

\* Reset, between two streams.
Reset ==
  /\ caller = "idle" /\ ~flushing /\ stream = "idle"
  /\ hr' = "ok"
  /\ UNCHANGED <<exact, batch, flags, sendAnyway, owner, stream, call, todo, caller,
                 downFlushing, serial, last>>

Control == BeginFlush \/ BeginDown \/ BeginLock \/ EndFlush \/ Reset

-----------------------------------------------------------------------------
Next == Streaming \/ Control

Spec == Init /\ [][Next]_vars

\* Both threads run, and who wants the lock gets it if it is free again and again;
\* but the pin may keep a call until it is flushed.
Fairness == /\ WF_vars(BeginDown) /\ SF_vars(BeginLock)
            /\ WF_vars(Lock) /\ WF_vars(Turn \/ Unlock \/ Notify)
            /\ WF_vars(Deliver /\ downFlushing)

FairSpec == Spec /\ Fairness
-----------------------------------------------------------------------------
\* Types; m_ppSamples never takes more than m_lBatchSize samples.
TypeOK ==
  /\ exact \in BOOLEAN
  /\ batch \in Seq(1 .. MaxSerial) /\ Len(batch) <= BatchSize
  /\ hr \in {"ok", "false", "refused"}
  /\ flushing \in BOOLEAN /\ flushed \in BOOLEAN /\ sendAnyway \in BOOLEAN
  /\ owner \in {"none", "stream"}
  /\ stream \in {"idle", "lock", "loop", "deliver", "notify"}
  /\ call \in Calls /\ todo \in 0 .. 2
  /\ caller \in {"idle", "begin", "beginLock"}
  /\ downFlushing \in BOOLEAN
  /\ serial \in 0 .. MaxSerial /\ last \in 0 .. MaxSerial

\* Samples go downstream in the order they came, each once, and wait meanwhile in
\* the batch, which has room for them, or in the call, also when the pin answers while
\* it is being flushed.
InOrder ==
  /\ stream # "lock" => batch = [i \in 1 .. serial - last - todo |-> last + i]
  /\ stream = "loop" /\ todo > 0 => Len(batch) < BatchSize

\* ASSERT(m_nBatched == 0 || m_bBatchExact): unless batches are exact, none of the
\* samples of a call waits for the next one.
NoneKept == stream = "lock" => batch = <<>> \/ exact

\* BeginFlush returns, although it needs the lock that the streaming thread holds
\* in its call of the pin, and the pin may not return before it is flushed.
FlushEnds == (caller # "idle") ~> (caller = "idle")
=============================================================================
