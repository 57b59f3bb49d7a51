-------------------------- MODULE OutputDirectProofs --------------------------
(***************************************************************************)
(* The types of OutputDirect and the order in which samples go downstream,  *)
(* proved for every size of the batch, whoever flushes meanwhile.           *)
(***************************************************************************)
EXTENDS OutputDirect, SequenceTheorems, TLAPS

\* TypeOK in parts; the first is about what carries samples.
TypeSamples ==
  /\ batch \in Seq(1 .. MaxSerial) /\ Len(batch) <= BatchSize
  /\ todo \in 0 .. 2
  /\ serial \in 0 .. MaxSerial /\ last \in 0 .. MaxSerial

TypePlaces ==
  /\ exact \in BOOLEAN
  /\ hr \in {"ok", "false", "refused"}
  /\ flushing \in BOOLEAN /\ flushed \in BOOLEAN /\ sendAnyway \in BOOLEAN
  /\ owner \in {"none", "stream"}
  /\ stream \in {"idle", "lock", "loop", "deliver", "notify"}
  /\ call \in Calls
  /\ caller \in {"idle", "begin", "beginLock"}
  /\ downFlushing \in BOOLEAN

\* The samples of a call, which are counted when the lock is taken, and what of
\* them is in the loop.
Owed == IF stream = "lock" THEN 0 ELSE todo

CallBounded ==
  /\ stream = "lock" => serial + todo <= MaxSerial
  /\ stream \in {"idle", "notify"} => todo = 0

\* The batch holds the samples that are counted and not sent, but for those of the
\* call: they are numbered on from the last one that was sent.
Batched ==
  /\ Len(batch) = serial - last - Owed
  /\ \A i \in 1 .. Len(batch) : batch[i] = last + i

\* What is delivered is something, and there is room for a sample otherwise.
Room == IF stream = "deliver" THEN Len(batch) > 0 ELSE Len(batch) < BatchSize

\* What the batch is made of.
samples == <<batch, todo, serial, last>>

DInv == TypeSamples /\ TypePlaces /\ CallBounded /\ Batched /\ Room

-----------------------------------------------------------------------------
LEMMA DirectInit == Init => DInv
<1> SUFFICES ASSUME Init PROVE DInv
  OBVIOUS
<1>1. <<>> \in Seq(1 .. MaxSerial) /\ Len(<<>>) = 0
  BY EmptySeq
<1>2. TypeSamples /\ CallBounded /\ Batched /\ Room
  BY <1>1, DirectAssumption DEF Init, TypeSamples, CallBounded, Batched, Owed, Room
<1>3. TypePlaces
  BY DirectAssumption DEF Init, TypePlaces, Calls
<1> QED BY <1>2, <1>3 DEF DInv

LEMMA PlacesStep ==
  ASSUME DInv, Next
  PROVE  TypePlaces'
<1> USE DEF DInv, TypePlaces, flags
<1>1. ASSUME NEW c \in Calls, Call(c) PROVE TypePlaces'
  BY <1>1 DEF Call, Calls
<1>2. CASE Lock
  BY <1>2 DEF Lock
<1>3. CASE Turn \/ Unlock
  BY <1>3 DEF Turn, Unlock
<1>4. CASE Deliver
  BY <1>4 DEF Deliver
<1>5. CASE Notify
  <2>1. (flushed /\ (call = "eos" => hr # "ok")) \in BOOLEAN
    OBVIOUS
  <2> QED BY <1>5, <2>1 DEF Notify
<1>6. CASE Control
  BY <1>6 DEF Control, BeginFlush, BeginDown, BeginLock, EndFlush, Reset
<1> QED BY <1>1, <1>2, <1>3, <1>4, <1>5, <1>6 DEF Next, Streaming

\* The numbers as they are needed below.
LEMMA Numbers ==
  ASSUME DInv
  PROVE  /\ serial \in Nat /\ last \in Nat /\ todo \in Nat /\ Len(batch) \in Nat
         /\ BatchSize \in Nat \ {0} /\ MaxSerial \in Nat
         /\ serial <= MaxSerial /\ last <= MaxSerial
BY DirectAssumption, LenProperties DEF DInv, TypeSamples

LEMMA SamplesStep ==
  ASSUME DInv, Next
  PROVE  TypeSamples' /\ CallBounded' /\ Batched' /\ Room'
<1> USE DEF DInv, flags
<1>0. /\ serial \in Nat /\ last \in Nat /\ todo \in Nat /\ Len(batch) \in Nat
      /\ BatchSize \in Nat \ {0} /\ MaxSerial \in Nat
      /\ serial <= MaxSerial /\ last <= MaxSerial
  BY Numbers
<1>1. ASSUME NEW c \in Calls, Call(c) PROVE TypeSamples' /\ CallBounded' /\ Batched' /\ Room'
  <2>1. /\ stream = "idle" /\ stream' \in {"lock", "notify"}
        /\ todo' \in 0 .. 2 /\ serial + todo' <= MaxSerial
        /\ stream' = "notify" => todo' = 0
        /\ UNCHANGED <<batch, serial, last>>
    BY <1>1 DEF Call, MayCall
  <2>2. todo = 0
    BY <2>1 DEF CallBounded
  <2> QED BY <1>0, <2>1, <2>2 DEF TypeSamples, CallBounded, Batched, Owed, Room
<1>2. CASE Lock
  <2>1. /\ stream = "lock" /\ UNCHANGED <<batch, last>>
        /\ \/ stream' = "notify" /\ todo' = 0 /\ serial' = serial
           \/ stream' = "loop" /\ todo' = todo /\ serial' = serial + todo
    BY <1>2 DEF Lock
  <2> QED BY <1>0, <2>1 DEF TypeSamples, CallBounded, Batched, Owed, Room
<1>3. CASE Turn
  <2> DEFINE k == serial - todo + 1
             full == IF todo > 0 THEN Append(batch, k) ELSE batch
  <2>1. /\ stream = "loop" /\ batch' = full
        /\ stream' = IF Complete(full) THEN "deliver" ELSE "loop"
        /\ todo' = IF todo > 0 THEN todo - 1 ELSE 0
        /\ todo > 0 \/ batch # <<>>
        /\ UNCHANGED <<serial, last>>
    BY <1>3 DEF Turn
  <2>2. Len(batch) = serial - last - todo /\ Len(batch) < BatchSize
    BY <2>1 DEF Batched, Owed, Room
  <2>3. CASE todo > 0
    <3>1. k \in 1 .. MaxSerial /\ k = last + (Len(batch) + 1)
      BY <1>0, <2>2, <2>3
    <3> HIDE DEF k
    <3>2. /\ full = Append(batch, k) /\ full \in Seq(1 .. MaxSerial)
          /\ Len(full) = Len(batch) + 1
          /\ \A i \in 1 .. Len(batch) : full[i] = batch[i]
          /\ full[Len(batch) + 1] = k
      BY <2>3, <3>1, AppendProperties DEF TypeSamples
    <3> HIDE DEF full
    <3>3. \A i \in 1 .. Len(full) : full[i] = last + i
      <4> SUFFICES ASSUME NEW i \in 1 .. Len(batch) + 1 PROVE full[i] = last + i
        BY <3>2
      <4>1. CASE i = Len(batch) + 1
        BY <3>1, <3>2, <4>1
      <4>2. CASE i # Len(batch) + 1
        <5>1. i \in 1 .. Len(batch)
          BY <1>0, <4>2
        <5> QED BY <3>2, <5>1 DEF Batched
      <4> QED BY <4>1, <4>2
    <3>4. todo' = todo - 1 /\ todo - 1 \in 0 .. 2
      BY <1>0, <2>1, <2>3 DEF TypeSamples
    <3>5. Len(full) = serial - last - (todo - 1) /\ Len(full) > 0
      BY <1>0, <2>2, <3>2
    <3>6. Len(full) <= BatchSize /\ (Len(full) = BatchSize \/ Len(full) < BatchSize)
      BY <1>0, <2>2, <3>2
    <3>7. stream' = "deliver" \/ (stream' = "loop" /\ Len(full) < BatchSize)
      BY <2>1, <3>6 DEF Complete
    <3>8. TypeSamples'
      BY <2>1, <3>2, <3>4, <3>6 DEF TypeSamples
    <3>9. CallBounded'
      BY <3>7 DEF CallBounded
    <3>10. Batched'
      BY <2>1, <3>3, <3>4, <3>5, <3>7 DEF Batched, Owed
    <3>11. Room'
      BY <2>1, <3>5, <3>7 DEF Room
    <3> QED BY <3>8, <3>9, <3>10, <3>11
  <2>4. CASE ~(todo > 0)
    <3>1. todo = 0 /\ todo' = 0 /\ batch' = batch /\ batch # <<>>
      BY <1>0, <2>1, <2>4
    <3>2. Len(batch) > 0
      BY <1>0, <3>1, EmptySeq DEF TypeSamples
    <3>3. stream' \in {"deliver", "loop"}
      BY <2>1
    <3> QED BY <1>0, <2>1, <2>2, <3>1, <3>2, <3>3
            DEF TypeSamples, CallBounded, Batched, Owed, Room
  <2> QED BY <2>3, <2>4
<1>4. CASE Deliver
  <2>1. /\ stream = "deliver" /\ stream' = "loop" /\ batch' = <<>> /\ last' = batch[Len(batch)]
        /\ UNCHANGED <<todo, serial>>
    BY <1>4 DEF Deliver
  <2>2. Len(batch) \in 1 .. Len(batch) /\ Len(batch) = serial - last - todo
    BY <1>0, <2>1 DEF Batched, Owed, Room
  <2>3. last' = last + Len(batch)
    BY <2>1, <2>2 DEF Batched
  <2>4. last' = serial - todo /\ last' \in 0 .. MaxSerial
    BY <1>0, <2>2, <2>3
  <2>5. <<>> \in Seq(1 .. MaxSerial) /\ Len(<<>>) = 0
    BY EmptySeq
  <2> QED BY <1>0, <2>1, <2>4, <2>5 DEF TypeSamples, CallBounded, Batched, Owed, Room
<1>5. CASE Unlock
  <2>1. stream = "loop" /\ stream' = "notify" /\ todo = 0 /\ UNCHANGED samples
    BY <1>5 DEF Unlock, samples
  <2> QED BY <1>0, <2>1 DEF TypeSamples, CallBounded, Batched, Owed, Room, samples
<1>6. CASE Notify
  <2>1. stream = "notify" /\ stream' = "idle" /\ UNCHANGED samples
    BY <1>6 DEF Notify, samples
  <2> QED BY <1>0, <2>1 DEF TypeSamples, CallBounded, Batched, Owed, Room, samples
<1>7. CASE EndFlush
  <2>1. /\ stream = "idle" /\ UNCHANGED <<stream, todo>>
        /\ batch' = <<>> /\ serial' = 0 /\ last' = 0
    BY <1>7 DEF EndFlush
  <2>2. batch' \in Seq(1 .. MaxSerial) /\ Len(batch') = 0
    BY <2>1, EmptySeq
  <2>3. todo' = 0 /\ stream' = "idle"
    BY <2>1 DEF CallBounded
  <2>4. TypeSamples'
    BY <1>0, <2>1, <2>2, <2>3 DEF TypeSamples
  <2>5. CallBounded' /\ Room'
    BY <1>0, <2>2, <2>3 DEF CallBounded, Room
  <2>6. Batched'
    BY <2>1, <2>2, <2>3 DEF Batched, Owed
  <2> QED BY <2>4, <2>5, <2>6
<1>8. CASE BeginFlush \/ BeginDown \/ BeginLock \/ Reset
  <2>1. UNCHANGED samples /\ UNCHANGED stream
    BY <1>8 DEF BeginFlush, BeginDown, BeginLock, Reset, samples
  <2> QED BY <2>1 DEF TypeSamples, CallBounded, Batched, Owed, Room, samples
<1> QED BY <1>1, <1>2, <1>3, <1>4, <1>5, <1>6, <1>7, <1>8 DEF Next, Streaming, Control

LEMMA DInvariant == Spec => []DInv
<1>1. DInv /\ [Next]_vars => DInv'
  <2>1. ASSUME DInv, Next PROVE DInv'
    BY <2>1, PlacesStep, SamplesStep DEF DInv
  <2>2. ASSUME DInv, UNCHANGED vars PROVE DInv'
    BY <2>2, SMTT(30) DEF DInv, TypeSamples, TypePlaces, CallBounded, Batched, Owed, Room, vars, flags
  <2> QED BY <2>1, <2>2
<1> QED BY DirectInit, <1>1, PTL DEF Spec

\* The state of a queue without a thread stays of its types: m_ppSamples is never
\* overrun, also by the samples that come after a failed delivery.
THEOREM DirectTyped == Spec => []TypeOK
<1>1. DInv => TypeOK
  BY DEF DInv, TypeSamples, TypePlaces, TypeOK
<1> QED BY <1>1, DInvariant, PTL

\* Samples go downstream in the order they came, each once, and the batch has room
\* for the next one of the call.
THEOREM DirectOrder == Spec => []InOrder
<1>1. DInv => InOrder
  <2> SUFFICES ASSUME DInv PROVE InOrder
    OBVIOUS
  <2>1. ASSUME stream # "lock" PROVE batch = [i \in 1 .. serial - last - todo |-> last + i]
    <3>1. Len(batch) = serial - last - todo /\ \A i \in 1 .. Len(batch) : batch[i] = last + i
      BY <2>1 DEF DInv, Batched, Owed
    <3>2. DOMAIN batch = 1 .. Len(batch) /\ batch \in [1 .. Len(batch) -> 1 .. MaxSerial]
      BY LenProperties DEF DInv, TypeSamples
    <3> QED BY <3>1, <3>2
  <2>2. stream = "loop" /\ todo > 0 => Len(batch) < BatchSize
    BY DEF DInv, Room
  <2> QED BY <2>1, <2>2 DEF InOrder
<1> QED BY <1>1, DInvariant, PTL
=============================================================================
