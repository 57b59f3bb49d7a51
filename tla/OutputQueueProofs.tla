-------------------------- MODULE OutputQueueProofs --------------------------
(***************************************************************************)
(* OutputQueue, proved for every size of the batch and whatever the         *)
(* application calls: its types, that no wake-up of its thread is lost,     *)
(* that an error of the pin is sticky (QInv), that samples keep their order *)
(* (OInv), and, where the application does not call Reset, what a flush     *)
(* leaves and what is lost (FInv).                                          *)
(***************************************************************************)
EXTENDS OutputQueue, SequenceTheorems, TLAPS

\* TypeOK in parts; the first is about what carries samples.
carriers == <<list, batch, sending, taken, serial, last>>

TypeCarriers ==
  /\ list \in Seq(Entries)
  /\ batch \in Seq(Entries) /\ Len(batch) < BatchSize
  /\ sending \in Seq(Entries) /\ Len(sending) <= BatchSize
  /\ taken \in Entries
  /\ serial \in 0 .. MaxSerial /\ last \in 0 .. MaxSerial

TypeConfig == exact \in BOOLEAN /\ opt \in BOOLEAN /\ resets \in BOOLEAN

TypeFlags ==
  /\ flushing \in BOOLEAN /\ flushed \in BOOLEAN /\ terminate \in BOOLEAN
  /\ complete \in BOOLEAN /\ downFlushing \in BOOLEAN
  /\ refused \in BOOLEAN /\ skipped \in BOOLEAN

TypePlaces ==
  /\ hr \in {"ok", "false", "refused"} /\ result \in {"ok", "false", "refused"}
  /\ owner \in {"none", "thread", "caller"}
  /\ worker \in {"none", "top", "pop", "wait", "send", "deliver", "record", "packet"}
  /\ caller \in {"idle", "beginDown", "endWait", "endFlags", "endDown", "endHr",
                 "resetWait", "join", "destroyed"}
  /\ stream \in {"idle", "segment"}

TypeWake == waiting \in 0 .. 1 /\ sem \in 0 .. 1

\* There is something to deliver.
Carrying == worker = "deliver" => sending # <<>>

\* What the thread was not woken for.
Unnoticed ==
  waiting = 1 /\ list # <<>> =>
    /\ exact /\ Len(batch) + Len(list) < BatchSize
    /\ \A i \in 1 .. Len(list) : list[i].kind = "sample"

\* The parameters of a NewSegment follow it, and nothing else has any.
Paired(s) ==
  \A i \in 1 .. Len(s) :
    /\ s[i].kind = "SEG" => i < Len(s) /\ s[i + 1].kind = "PARAMS"
    /\ s[i].kind = "PARAMS" => i > 1 /\ s[i - 1].kind = "SEG"

SegPaired == Paired(list)

\* An error of the pin is in m_hr, or on its way to it.
Recorded == /\ refused => hr # "ok" \/ (worker = "record" /\ result = "refused")
            /\ worker = "deliver" => ~refused

QInv == /\ TypeConfig /\ TypeCarriers /\ TypeFlags /\ TypePlaces /\ TypeWake
        /\ Awake /\ Woken /\ Carrying /\ Unnoticed /\ SegPaired
        /\ Recorded

\* While the thread holds nothing of its own, its copies are empty.
Resting ==
  /\ worker \in {"none", "top", "pop", "wait"} => taken = NoPacket
  /\ worker \notin {"send", "deliver"} => sending = <<>>

\* What is batched or sent is samples: the parameters of a NewSegment go with it.
OnlySamples == /\ \A i \in 1 .. Len(batch) : batch[i].kind = "sample"
               /\ \A i \in 1 .. Len(sending) : sending[i].kind = "sample"

\* Where a sample is tells its number: what the thread sends comes first, then
\* the end of stream that it took, the batch, and the list.
Parted == \E a, b, c \in 0 .. serial :
            /\ Numbered(sending, last, a) /\ Numbered(<<taken>>, a, b)
            /\ Numbered(batch, b, c) /\ Numbered(list, c, serial)

OInv == Resting /\ OnlySamples /\ Parted

\* Everything that was queued has been sent or released.
Dry == last = serial /\ worker \notin {"deliver", "record"}

\* There is no RESET, without an application that calls Reset.
NoReset == /\ taken.kind # "RESET" /\ caller # "resetWait"
           /\ \A i \in 1 .. Len(list) : list[i].kind # "RESET"

\* The places of a flush, and what the flags and m_hr are meanwhile.
Flushes ==
  /\ caller \in {"beginDown", "endWait", "endFlags"} => flushing
  /\ caller \in {"endDown", "endHr"} => ~flushing
  /\ flushing \/ caller \in {"endDown", "endHr"} => hr # "ok"
  /\ caller = "beginDown" => ~(opt /\ flushed)
  /\ downFlushing /\ caller # "endDown" => flushing /\ ~(opt /\ flushed)

\* Where nothing is left to be sent.
DriedUp ==
  /\ flushed => Dry
  /\ flushing /\ complete => Dry
  /\ caller \in {"endFlags", "endDown", "endHr"} => Dry

\* The end of the queue.
Ends == /\ terminate => stream = "idle" /\ caller \in {"join", "destroyed"}
        /\ worker = "none" => terminate /\ list = <<>>
        /\ caller = "destroyed" => worker = "none"

\* Where the errors in m_hr come from.
Errors ==
  /\ worker = "record" /\ result = "false" => flushing
  /\ hr = "refused" \/ (worker = "record" /\ result = "refused") => refused
  /\ skipped => refused \/ hr = "false" \/ terminate
  /\ hr = "false" => flushing \/ caller \in {"endDown", "endHr", "join", "destroyed"}

FInv == NoReset /\ Flushes /\ DriedUp /\ Ends /\ Errors

-----------------------------------------------------------------------------
LEMMA QueueInit == Init => QInv
<1> SUFFICES ASSUME Init PROVE QInv
  OBVIOUS
<1>1. TypeCarriers
  <2>1. NoPacket \in Entries /\ 0 \in 0 .. MaxSerial
    BY QueueAssumption DEF NoPacket, Packet, Entries, Kinds
  <2>2. <<>> \in Seq(Entries) /\ Len(<<>>) = 0
    BY EmptySeq
  <2> QED BY <2>1, <2>2, QueueAssumption DEF Init, TypeCarriers
<1>2. TypeConfig
  BY QueueAssumption DEF Init, TypeConfig
<1>3. TypeFlags
  BY Zenon DEF Init, TypeFlags
<1>4. TypePlaces /\ TypeWake
  BY DEF Init, TypePlaces, TypeWake
<1>5. Awake /\ Woken /\ Carrying /\ Unnoticed /\ SegPaired /\ Recorded
  BY DEF Init, Awake, Woken, Carrying, Unnoticed, SegPaired, Paired, Recorded
<1> QED BY <1>1, <1>2, <1>3, <1>4, <1>5 DEF QInv

\* The samples that a call of ReceiveMultiple adds.
Samples(n) == [i \in 1 .. n |-> [kind |-> "sample", n |-> serial + i]]

LEMMA NewSamples ==
  ASSUME serial \in Nat, NEW n \in 1 .. 2, serial + n <= MaxSerial
  PROVE  /\ Samples(n) \in Seq(Entries) /\ Len(Samples(n)) = n
         /\ \A i \in 1 .. n : Samples(n)[i].kind = "sample"
<1> DEFINE s == [i \in 1 .. n |-> [kind |-> "sample", n |-> serial + i]]
<1>1. \A i \in 1 .. n : [kind |-> "sample", n |-> serial + i] \in Entries
  BY QueueAssumption DEF Entries, Kinds
<1>2. s \in [1 .. n -> Entries]
  BY <1>1
<1>3. s \in Seq(Entries)
  BY <1>2, SeqDef
<1>4. DOMAIN s = 1 .. n /\ DOMAIN s = 1 .. Len(s) /\ Len(s) \in Nat
  BY <1>3, LenProperties
<1>5. Len(s) = n
  <2> HIDE DEF s
  <2> QED BY <1>4
<1>6. \A i \in 1 .. n : s[i].kind = "sample"
  OBVIOUS
<1> QED BY <1>3, <1>5, <1>6 DEF Samples

\* The list when something is appended to it, and when its head is removed.
LEMMA ListAppended ==
  ASSUME TypeCarriers, SegPaired, NEW s \in Seq(Entries), Paired(s)
  PROVE  /\ list \o s \in Seq(Entries)
         /\ Paired(list \o s)
<1>1. /\ list \o s \in Seq(Entries)
      /\ Len(list \o s) = Len(list) + Len(s)
      /\ \A i \in 1 .. Len(list) + Len(s) :
           (list \o s)[i] = IF i <= Len(list) THEN list[i] ELSE s[i - Len(list)]
  BY ConcatProperties DEF TypeCarriers
<1>2. Len(list) \in Nat /\ Len(s) \in Nat
  BY LenProperties DEF TypeCarriers
<1> DEFINE l == list \o s
<1> HIDE DEF l
<1>3. ASSUME NEW i \in 1 .. Len(l)
      PROVE  /\ l[i].kind = "SEG" => i < Len(l) /\ l[i + 1].kind = "PARAMS"
             /\ l[i].kind = "PARAMS" => i > 1 /\ l[i - 1].kind = "SEG"
  <2>1. Len(l) = Len(list) + Len(s)
        /\ \A k \in 1 .. Len(list) + Len(s) :
             l[k] = IF k <= Len(list) THEN list[k] ELSE s[k - Len(list)]
    BY <1>1 DEF l
  <2>2. CASE i <= Len(list)
    <3>1. i \in 1 .. Len(list) /\ l[i] = list[i]
      BY <1>2, <2>1, <2>2
    <3>2. list[i].kind = "SEG" => i + 1 <= Len(list) /\ l[i + 1] = list[i + 1]
      BY <1>2, <2>1, <3>1 DEF SegPaired, Paired
    <3>3. i > 1 => l[i - 1] = list[i - 1]
      BY <1>2, <2>1, <3>1
    <3> QED BY <1>2, <2>1, <3>1, <3>2, <3>3 DEF SegPaired, Paired
  <2>3. CASE i > Len(list)
    <3> DEFINE k == i - Len(list)
    <3>1. k \in 1 .. Len(s) /\ l[i] = s[k] /\ i = Len(list) + k
      BY <1>2, <2>1, <2>3
    <3>2. k < Len(s) => l[i + 1] = s[k + 1]
      BY <1>2, <2>1, <2>3
    <3>3. k > 1 => l[i - 1] = s[k - 1]
      BY <1>2, <2>1, <2>3
    <3> HIDE DEF k
    <3> QED BY <1>2, <2>1, <3>1, <3>2, <3>3, SMTT(30) DEF Paired
  <2> QED BY <1>2, <2>1, <2>2, <2>3
<1> QED BY <1>1, <1>3 DEF Paired, l

\* A list whose head is not a NewSegment keeps its pairs when the head is removed;
\* one whose head is, when its parameters are removed, too.
LEMMA ListPopped ==
  ASSUME TypeCarriers, SegPaired, list # <<>>
  PROVE  /\ Head(list) \in Entries /\ Head(list).kind # "PARAMS"
         /\ Tail(list) \in Seq(Entries)
         /\ Head(list).kind # "SEG" => Paired(Tail(list))
         /\ Head(list).kind = "SEG" =>
              /\ Tail(list) # <<>> /\ Head(Tail(list)).kind = "PARAMS"
              /\ Tail(Tail(list)) \in Seq(Entries) /\ Paired(Tail(Tail(list)))
<1> DEFINE t == Tail(list)
<1>1. /\ Head(list) \in Entries /\ Head(list) = list[1]
      /\ t \in Seq(Entries) /\ Len(t) = Len(list) - 1
      /\ \A i \in 1 .. Len(t) : t[i] = list[i + 1]
  BY HeadTailProperties DEF TypeCarriers
<1>2. Len(list) \in Nat \ {0} /\ Len(t) \in Nat
  BY <1>1, LenProperties, EmptySeq DEF TypeCarriers
<1> HIDE DEF t
<1>3. Head(list).kind # "PARAMS"
  BY <1>1, <1>2 DEF SegPaired, Paired
<1>4. ASSUME Head(list).kind # "SEG", NEW i \in 1 .. Len(t)
      PROVE  /\ t[i].kind = "SEG" => i < Len(t) /\ t[i + 1].kind = "PARAMS"
             /\ t[i].kind = "PARAMS" => i > 1 /\ t[i - 1].kind = "SEG"
  <2>1. i + 1 \in 1 .. Len(list) /\ t[i] = list[i + 1] /\ i \in Nat
    BY <1>1, <1>2
  <2>2. i < Len(t) => t[i + 1] = list[i + 1 + 1]
    BY <1>1, <1>2
  <2>3. i > 1 => t[i - 1] = list[i]
    BY <1>1, <1>2
  <2>4. list[i + 1].kind = "PARAMS" => list[i].kind = "SEG"
    <3>1. list[i + 1].kind = "PARAMS" => list[(i + 1) - 1].kind = "SEG"
      BY <2>1 DEF SegPaired, Paired
    <3>2. (i + 1) - 1 = i
      BY <2>1
    <3> QED BY <3>1, <3>2
  <2>5. list[i + 1].kind = "SEG" => i + 1 < Len(list) /\ list[i + 1 + 1].kind = "PARAMS"
    BY <2>1 DEF SegPaired, Paired
  <2>6. list[i].kind = "SEG" => i > 1
    BY <1>1, <1>4, <2>1
  <2> QED BY <1>1, <1>2, <2>1, <2>2, <2>3, <2>4, <2>5, <2>6
<1>5. ASSUME Head(list).kind = "SEG"
      PROVE  /\ t # <<>> /\ Head(t).kind = "PARAMS"
             /\ Tail(t) \in Seq(Entries) /\ Paired(Tail(t))
  <2>1. 1 < Len(list) /\ list[1 + 1].kind = "PARAMS"
    BY <1>1, <1>2, <1>5 DEF SegPaired, Paired
  <2>2. t # <<>>
    BY <1>1, <1>2, <2>1, EmptySeq
  <2>3. /\ Head(t) = t[1] /\ Tail(t) \in Seq(Entries) /\ Len(Tail(t)) = Len(t) - 1
        /\ \A i \in 1 .. Len(Tail(t)) : Tail(t)[i] = t[i + 1]
    BY <1>1, <2>2, HeadTailProperties
  <2>4. Head(t).kind = "PARAMS"
    BY <1>1, <1>2, <2>1, <2>3
  <2> DEFINE u == Tail(t)
  <2>5. Len(u) = Len(list) - 2 /\ \A i \in 1 .. Len(u) : u[i] = list[i + 2]
    BY <1>1, <1>2, <2>3
  <2> HIDE DEF u
  <2>6. ASSUME NEW i \in 1 .. Len(u)
        PROVE  /\ u[i].kind = "SEG" => i < Len(u) /\ u[i + 1].kind = "PARAMS"
               /\ u[i].kind = "PARAMS" => i > 1 /\ u[i - 1].kind = "SEG"
    <3>1. i + 2 \in 1 .. Len(list) /\ u[i] = list[i + 2] /\ i \in Nat
      BY <1>2, <2>5
    <3>2. i < Len(u) => u[i + 1] = list[(i + 2) + 1]
      BY <1>2, <2>5
    <3>3. i > 1 => u[i - 1] = list[i + 1]
      BY <1>2, <2>5
    <3>4. list[i + 2].kind = "PARAMS" => list[i + 1].kind = "SEG"
      <4>1. list[i + 2].kind = "PARAMS" => list[(i + 2) - 1].kind = "SEG"
        BY <3>1 DEF SegPaired, Paired
      <4>2. (i + 2) - 1 = i + 1
        BY <3>1
      <4> QED BY <4>1, <4>2
    <3>5. list[i + 2].kind = "SEG" => i + 2 < Len(list) /\ list[(i + 2) + 1].kind = "PARAMS"
      BY <3>1 DEF SegPaired, Paired
    <3>6. list[i + 1].kind = "SEG" => i > 1
      BY <2>1, <3>1
    <3> QED BY <1>2, <2>5, <3>1, <3>2, <3>3, <3>4, <3>5, <3>6
  <2>7. Paired(u)
    BY <2>6 DEF Paired
  <2> QED BY <2>2, <2>3, <2>4, <2>7 DEF u
<1>6. Head(list).kind # "SEG" => Paired(t)
  BY <1>4 DEF Paired
<1> QED BY <1>1, <1>3, <1>5, <1>6 DEF t

-----------------------------------------------------------------------------
LEMMA CarriersStep ==
  ASSUME QInv, Next
  PROVE  TypeCarriers' /\ SegPaired'
<1> USE QueueAssumption DEF QInv
<1>1. CASE UNCHANGED carriers
  BY <1>1 DEF TypeCarriers, SegPaired, carriers
<1>2. ASSUME NEW n \in 1 .. 2, Receive(n), ~UNCHANGED carriers
      PROVE  TypeCarriers' /\ SegPaired'
  <2> DEFINE s == Samples(n)
  <2>1. /\ list' = list \o s /\ serial' = serial + Len(s) /\ serial + n <= MaxSerial
        /\ UNCHANGED <<batch, sending, taken, last>>
    BY <1>2 DEF Receive, Accept, Samples, carriers, thread, wake
  <2> serial \in Nat
    BY DEF TypeCarriers
  <2>2. s \in Seq(Entries) /\ Len(s) = n /\ \A i \in 1 .. n : s[i].kind = "sample"
    BY <2>1, NewSamples
  <2> HIDE DEF s
  <2>3. Paired(s)
    BY <2>2 DEF Paired
  <2>4. list' \in Seq(Entries) /\ SegPaired'
    BY <2>1, <2>2, <2>3, ListAppended DEF SegPaired
  <2> QED BY <2>1, <2>2, <2>4 DEF TypeCarriers
<1>3. ASSUME EOS, ~UNCHANGED carriers PROVE TypeCarriers' /\ SegPaired'
  <2> DEFINE e == [kind |-> "EOS", n |-> serial + 1]
             s == <<e>>
  <2>1. /\ list' = list \o s /\ serial' = serial + Len(s) /\ serial < MaxSerial
        /\ UNCHANGED <<batch, sending, taken, last>>
    BY <1>3 DEF EOS, Accept, carriers, thread, wake
  <2>2. e \in Entries
    BY <2>1 DEF TypeCarriers, Entries, Kinds
  <2>3. s \in Seq(Entries) /\ Len(s) = 1 /\ s[1].kind = "EOS"
    BY <2>2
  <2> HIDE DEF s
  <2>4. Paired(s)
    BY <2>3 DEF Paired
  <2>5. list' \in Seq(Entries) /\ SegPaired'
    BY <2>1, <2>3, <2>4, ListAppended DEF SegPaired
  <2> QED BY <2>1, <2>3, <2>5 DEF TypeCarriers
<1>4. ASSUME SendAnyway \/ Reset PROVE TypeCarriers' /\ SegPaired'
  <2>1. PICK e \in {Packet("SEND"), Packet("RESET")} :
          list' = Append(list, e) /\ UNCHANGED <<batch, sending, taken, serial, last>>
    BY <1>4 DEF SendAnyway, Reset, thread, history
  <2>2. e \in Entries /\ e.kind \notin {"SEG", "PARAMS"}
    BY <2>1 DEF Packet, Entries, Kinds
  <2>3. <<e>> \in Seq(Entries) /\ Len(<<e>>) = 1 /\ <<e>>[1] = e
    BY <2>2
  <2>4. Paired(<<e>>)
    BY <2>2, <2>3 DEF Paired
  <2>5. list' = list \o <<e>>
    BY <2>1, <2>2, AppendIsConcat DEF TypeCarriers
  <2>6. list' \in Seq(Entries) /\ SegPaired'
    BY <2>3, <2>4, <2>5, ListAppended DEF SegPaired
  <2> QED BY <2>1, <2>6 DEF TypeCarriers
<1>5. ASSUME QueueSegment PROVE TypeCarriers' /\ SegPaired'
  <2> DEFINE s == <<Packet("SEG"), Packet("PARAMS")>>
  <2>1. list' = list \o s /\ UNCHANGED <<batch, sending, taken, serial, last>>
    BY <1>5 DEF QueueSegment, thread, history
  <2>2. /\ Packet("SEG") \in Entries /\ Packet("PARAMS") \in Entries
        /\ Packet("SEG").kind = "SEG" /\ Packet("PARAMS").kind = "PARAMS"
    BY DEF Packet, Entries, Kinds
  <2>3. s \in Seq(Entries) /\ Len(s) = 2 /\ s[1].kind = "SEG" /\ s[2].kind = "PARAMS"
    BY <2>2
  <2> HIDE DEF s
  <2>4. Paired(s)
    BY <2>3 DEF Paired
  <2>5. list' \in Seq(Entries) /\ SegPaired'
    BY <2>1, <2>3, <2>4, ListAppended DEF SegPaired
  <2> QED BY <2>1, <2>5 DEF TypeCarriers
<1>6. ASSUME Terminate \/ Flush PROVE TypeCarriers' /\ SegPaired'
  <2>1. list' = <<>> /\ batch' = <<>> /\ last' = serial /\ UNCHANGED <<sending, taken, serial>>
    BY <1>6 DEF Terminate, Flush, Free
  <2>2. <<>> \in Seq(Entries) /\ Len(<<>>) = 0
    BY EmptySeq
  <2> QED BY <2>1, <2>2 DEF TypeCarriers, SegPaired, Paired
<1>7. ASSUME PopSample PROVE TypeCarriers' /\ SegPaired'
  <2> DEFINE full == Append(batch, Head(list))
  <2>1. /\ list # <<>> /\ Head(list).kind # "SEG" /\ list' = Tail(list)
        /\ UNCHANGED <<serial, last>>
        /\ \/ /\ Len(full) = BatchSize /\ sending' = full /\ batch' = <<>>
              /\ taken' = NoPacket
           \/ /\ Len(full) # BatchSize /\ batch' = full /\ UNCHANGED <<sending, taken>>
    BY <1>7 DEF PopSample, Full, Break, history
  <2>2. list' \in Seq(Entries) /\ SegPaired' /\ Head(list) \in Entries
    BY <2>1, ListPopped DEF SegPaired
  <2>3. full \in Seq(Entries) /\ Len(full) = Len(batch) + 1
    BY <2>2, AppendProperties DEF TypeCarriers
  <2>4. <<>> \in Seq(Entries) /\ Len(<<>>) = 0 /\ NoPacket \in Entries
    BY EmptySeq DEF NoPacket, Packet, Entries, Kinds
  <2>5. Len(batch) \in Nat /\ Len(batch) < BatchSize
    BY LenProperties DEF TypeCarriers
  <2> HIDE DEF full
  <2>6. batch' \in Seq(Entries) /\ Len(batch') < BatchSize
    <3>1. CASE Len(full) = BatchSize /\ batch' = <<>>
      BY <2>4, <3>1
    <3>2. CASE Len(full) # BatchSize /\ batch' = full
      BY <2>3, <2>5, <3>2
    <3> QED BY <2>1, <3>1, <3>2
  <2>7. sending' \in Seq(Entries) /\ Len(sending') <= BatchSize /\ taken' \in Entries
    BY <2>1, <2>3, <2>4 DEF TypeCarriers
  <2> QED BY <2>1, <2>2, <2>6, <2>7 DEF TypeCarriers
<1>8. ASSUME PopSend PROVE TypeCarriers' /\ SegPaired'
  <2>1. /\ list # <<>> /\ Head(list).kind = "SEND" /\ list' = Tail(list)
        /\ UNCHANGED <<batch, sending, taken, serial, last>>
    BY <1>8 DEF PopSend, thread, history
  <2>2. list' \in Seq(Entries) /\ SegPaired'
    BY <2>1, ListPopped DEF SegPaired
  <2> QED BY <2>1, <2>2 DEF TypeCarriers
<1>9. ASSUME PopPacket PROVE TypeCarriers' /\ SegPaired'
  <2>1. /\ list # <<>>
        /\ list' = IF Head(list).kind = "SEG" THEN Tail(Tail(list)) ELSE Tail(list)
        /\ sending' = batch /\ batch' = <<>> /\ taken' = Head(list)
        /\ UNCHANGED <<serial, last>>
    BY <1>9 DEF PopPacket, Break, history
  <2>2. list' \in Seq(Entries) /\ SegPaired' /\ Head(list) \in Entries
    BY <2>1, ListPopped DEF SegPaired
  <2>3. <<>> \in Seq(Entries) /\ Len(<<>>) = 0 /\ Len(batch) \in Nat
    BY EmptySeq, LenProperties DEF TypeCarriers
  <2> QED BY <2>1, <2>2, <2>3 DEF TypeCarriers
<1>10. ASSUME Drained PROVE TypeCarriers' /\ SegPaired'
  <2>1. sending' = batch /\ batch' = <<>> /\ taken' = NoPacket /\ UNCHANGED <<list, serial, last>>
    BY <1>10 DEF Drained, Break, history
  <2>2. <<>> \in Seq(Entries) /\ Len(<<>>) = 0 /\ Len(batch) \in Nat /\ NoPacket \in Entries
    BY EmptySeq, LenProperties DEF TypeCarriers, NoPacket, Packet, Entries, Kinds
  <2> QED BY <2>1, <2>2 DEF TypeCarriers, SegPaired
<1>11. ASSUME Send \/ Deliver, ~UNCHANGED carriers PROVE TypeCarriers' /\ SegPaired'
  <2>1. /\ sending' = <<>> /\ UNCHANGED <<list, batch, taken, serial>>
        /\ last' = last \/ (sending # <<>> /\ last' = sending[Len(sending)].n)
    BY <1>11 DEF Send, Deliver, Carrying, carriers
  <2>2. <<>> \in Seq(Entries) /\ Len(<<>>) = 0
    BY EmptySeq
  <2>3. sending # <<>> => sending[Len(sending)] \in Entries
    BY EmptySeq, ElementOfSeq DEF TypeCarriers
  <2>4. \A e \in Entries : e.n \in 0 .. MaxSerial
    BY DEF Entries
  <2> QED BY <2>1, <2>2, <2>3, <2>4 DEF TypeCarriers, SegPaired
<1>12. ASSUME TakePacket PROVE TypeCarriers' /\ SegPaired'
  <2>1. /\ taken' = NoPacket /\ UNCHANGED <<list, batch, sending, serial>>
        /\ last' = last \/ last' = taken.n
    BY <1>12 DEF TakePacket
  <2>2. NoPacket \in Entries /\ \A e \in Entries : e.n \in 0 .. MaxSerial
    BY DEF NoPacket, Packet, Entries, Kinds
  <2> QED BY <2>1, <2>2 DEF TypeCarriers, SegPaired
<1>13. ASSUME NewSegment \/ BeginFlush \/ BeginDown \/ EndFlush \/ Destroy \/ Finishing
              \/ Enter \/ NothingToDo \/ Wait \/ Record
       PROVE  UNCHANGED carriers
  BY <1>13 DEF NewSegment, BeginFlush, BeginDown, EndFlush, Destroy, Finishing, EndWait,
               EndFlags, EndDown, EndHr, ResetWait, Join, Enter, NothingToDo, Wait, Record,
               carriers, thread, history
<1> QED BY <1>1, <1>2, <1>3, <1>4, <1>5, <1>6, <1>7, <1>8, <1>9, <1>10, <1>11, <1>12, <1>13
        DEF Next, Streaming, Control, Queueing

-----------------------------------------------------------------------------
LEMMA WakeStep ==
  ASSUME QInv, Next
  PROVE  /\ Awake' /\ Woken'
         /\ TypeWake'
<1> USE DEF Awake, Woken, TypeWake
<1>1. waiting \in 0 .. 1 /\ sem \in 0 .. 1 /\ Awake /\ Woken
  BY DEF QInv
<1>2. CASE (Notify \/ UNCHANGED wake) /\ UNCHANGED worker
  BY <1>1, <1>2 DEF Notify, wake
<1>3. CASE UNCHANGED wake /\ worker # "wait" /\ worker' # "wait"
  BY <1>1, <1>3 DEF wake
<1>4. CASE worker = "pop" /\ Sleep /\ UNCHANGED sem
  BY <1>1, <1>4 DEF Sleep
<1>5. CASE Wait
  BY <1>1, <1>5 DEF Wait
<1>6. ASSUME Streaming \/ Control PROVE (Notify \/ UNCHANGED wake) /\ UNCHANGED worker
  <2>1. CASE Streaming
    BY <2>1 DEF Streaming, Receive, NotifyIfReady, EOS, SendAnyway, NewSegment, QueueSegment,
                thread, wake
  <2>2. CASE Control
    BY <2>2 DEF Control, BeginFlush, StartFlush, BeginDown, EndFlush, Reset, Destroy, Finishing,
                EndWait, EndFlags, EndDown, EndHr, ResetWait, Join, thread, wake
  <2> QED BY <1>6, <2>1, <2>2
<1>7. ASSUME Enter \/ Terminate \/ PopSample \/ PopSend \/ PopPacket \/ Drained
             \/ Send \/ Deliver \/ Record \/ TakePacket
      PROVE  UNCHANGED wake /\ worker # "wait" /\ worker' # "wait"
  BY <1>7 DEF Enter, Terminate, PopSample, PopSend, PopPacket, Drained, Send, Deliver,
              Record, TakePacket, Popping, Break, Goto, thread, wake
<1>8. ASSUME Flush \/ NothingToDo
      PROVE  worker = "pop" /\ Sleep /\ UNCHANGED sem
  BY <1>8 DEF Flush, NothingToDo, Popping
<1> QED BY <1>2, <1>3, <1>4, <1>5, <1>6, <1>7, <1>8 DEF Next, Queueing

\* What was chosen at the start stays.
LEMMA ConfigStep ==
  ASSUME QInv, Next
  PROVE  TypeConfig'
<1> SUFFICES UNCHANGED config
  BY DEF QInv, TypeConfig, config
<1>1. CASE Streaming
  BY <1>1 DEF Streaming, Receive, EOS, SendAnyway, NewSegment, QueueSegment
<1>2. CASE Control
  BY <1>2 DEF Control, BeginFlush, BeginDown, EndFlush, Reset, Destroy, Finishing,
              EndWait, EndFlags, EndDown, EndHr, ResetWait, Join
<1>3. CASE Queueing
  BY <1>3 DEF Queueing, Enter, Terminate, Flush, PopSample, PopSend, PopPacket, Drained,
              NothingToDo, Wait, Send, Deliver, Record, TakePacket
<1> QED BY <1>1, <1>2, <1>3 DEF Next

LEMMA FlagsStep ==
  ASSUME QInv, Next
  PROVE  TypeFlags'
<1> USE DEF TypeFlags, flags, history
<1>1. TypeFlags
  BY DEF QInv
<1>2. CASE Streaming
  <2>1. /\ UNCHANGED <<flushing, terminate, complete, downFlushing, refused, skipped>>
        /\ flushed' = FALSE \/ UNCHANGED flushed
    BY <1>2 DEF Streaming, Receive, Accept, EOS, SendAnyway, NewSegment, QueueSegment
  <2> QED BY <1>1, <2>1
<1>3. CASE BeginFlush \/ BeginDown
  BY <1>1, <1>3, Zenon DEF BeginFlush, StartFlush, BeginDown
<1>4. CASE EndFlush \/ Reset \/ Destroy
  BY <1>1, <1>4, Zenon DEF EndFlush, AcceptAgain, Reset, Destroy
<1>5. CASE Finishing
  BY <1>1, <1>5, Zenon
     DEF Finishing, EndWait, EndFlags, EndDown, EndHr, AcceptAgain, ResetWait, Join
<1>6. CASE Terminate \/ Flush
  BY <1>1, <1>6 DEF Terminate, Flush, Free
<1>7. CASE Enter \/ NothingToDo \/ Wait \/ Record
  BY <1>1, <1>7, Zenon DEF Enter, NothingToDo, Wait, Record
<1>8. CASE PopSample \/ PopSend \/ PopPacket \/ Drained
  BY <1>1, <1>8, Zenon DEF PopSample, PopSend, PopPacket, Drained
<1>9. CASE Send \/ Deliver
  BY <1>1, <1>9 DEF Send, Deliver
<1>10. CASE TakePacket
  BY <1>1, <1>10 DEF TakePacket, AcceptAgain
<1> QED BY <1>2, <1>3, <1>4, <1>5, <1>6, <1>7, <1>8, <1>9, <1>10 DEF Next, Control, Queueing

LEMMA PlacesStep ==
  ASSUME QInv, Next
  PROVE  TypePlaces'
<1> USE DEF TypePlaces, thread
<1>1. TypePlaces
  BY DEF QInv
<1>2. CASE Streaming
  BY <1>1, <1>2 DEF Streaming, Receive, EOS, SendAnyway, NewSegment, QueueSegment
<1>3. CASE BeginFlush \/ BeginDown \/ EndFlush \/ Reset \/ Destroy
  BY <1>1, <1>3 DEF BeginFlush, Refuse, BeginDown, EndFlush, AcceptAgain, Reset, Destroy
<1>4. CASE Finishing
  BY <1>1, <1>4 DEF Finishing, EndWait, EndFlags, EndDown, EndHr, AcceptAgain, ResetWait, Join
<1>5. CASE Enter \/ Terminate \/ Flush \/ NothingToDo \/ Wait
  BY <1>1, <1>5 DEF Enter, Terminate, Flush, Sleep, NothingToDo, Wait
<1>6. CASE PopSample \/ PopSend \/ PopPacket \/ Drained
  BY <1>1, <1>6 DEF PopSample, PopSend, PopPacket, Drained, Break
<1>7. CASE Send \/ Deliver
  BY <1>1, <1>7 DEF Send, Deliver, Goto
<1>8. CASE Record \/ TakePacket
  BY <1>1, <1>8 DEF Record, TakePacket, Goto, AcceptAgain
<1> QED BY <1>2, <1>3, <1>4, <1>5, <1>6, <1>7, <1>8 DEF Next, Control, Queueing

-----------------------------------------------------------------------------
\* What is queued while the thread waits wakes it, or cannot fill a batch.
LEMMA UnnoticedStep ==
  ASSUME QInv, Next
  PROVE  Unnoticed'
<1> USE DEF Unnoticed
<1>1. /\ waiting \in 0 .. 1 /\ Awake /\ Unnoticed
      /\ Len(list) \in Nat /\ Len(batch) \in Nat /\ list \in Seq(Entries)
  BY LenProperties DEF QInv, TypeWake, TypeCarriers
<1>2. CASE waiting' = 0
  BY <1>2
<1>3. CASE list' = <<>>
  BY <1>3
<1>4. CASE UNCHANGED <<waiting, list, batch, exact>>
  BY <1>1, <1>4
<1>5. ASSUME NEW n \in 1 .. 2, Receive(n), waiting' # 0, ~UNCHANGED <<waiting, list, batch, exact>>
      PROVE  Unnoticed'
  <2> DEFINE s == Samples(n)
  <2>8. /\ list' = list \o s /\ serial + n <= MaxSerial
        /\ NotifyIfReady(Len(list) + n)
        /\ UNCHANGED <<batch, exact>>
    BY <1>5 DEF Receive, Accept, Samples, wake, config
  <2>9. exact /\ ~(Len(batch) + (Len(list) + n) >= BatchSize) /\ UNCHANGED waiting
    BY <1>5, <2>8 DEF NotifyIfReady, Notify, wake
  <2>1. /\ list' = list \o s /\ serial + n <= MaxSerial
        /\ exact /\ Len(batch) + (Len(list) + n) < BatchSize
        /\ UNCHANGED <<batch, exact, waiting>>
    BY <1>1, <2>8, <2>9, QueueAssumption
  <2> serial \in Nat
    BY DEF QInv, TypeCarriers
  <2>2. s \in Seq(Entries) /\ Len(s) = n /\ \A i \in 1 .. n : s[i].kind = "sample"
    BY <2>1, NewSamples
  <2> HIDE DEF s
  <2>3. /\ Len(list') = Len(list) + n
        /\ \A i \in 1 .. Len(list) + n :
             list'[i] = IF i <= Len(list) THEN list[i] ELSE s[i - Len(list)]
    BY <1>1, <2>1, <2>2, ConcatProperties
  <2>4. waiting = 1 /\ (list = <<>> \/ \A i \in 1 .. Len(list) : list[i].kind = "sample")
    BY <1>1, <1>5, <2>1
  <2>5. list = <<>> => Len(list) = 0
    BY EmptySeq
  <2>6. \A i \in 1 .. Len(list) : list[i].kind = "sample"
    BY <1>1, <2>4, <2>5
  <2>7. \A i \in 1 .. Len(list') : list'[i].kind = "sample"
    <3> SUFFICES ASSUME NEW i \in 1 .. Len(list) + n PROVE list'[i].kind = "sample"
      BY <2>3
    <3>1. CASE i <= Len(list)
      BY <1>1, <2>3, <2>6, <3>1
    <3>2. CASE i > Len(list)
      BY <1>1, <2>2, <2>3, <3>2
    <3> QED BY <1>1, <3>1, <3>2
  <2> QED BY <2>1, <2>3, <2>7
<1>6. ASSUME EOS \/ SendAnyway \/ QueueSegment \/ Reset
      PROVE  waiting' = 0 \/ UNCHANGED <<waiting, list, batch, exact>>
  BY <1>6 DEF EOS, SendAnyway, QueueSegment, Reset, Notify, config, wake
<1>7. ASSUME NewSegment \/ BeginFlush \/ BeginDown \/ EndFlush \/ Destroy \/ Finishing
      PROVE  waiting' = 0 \/ UNCHANGED <<waiting, list, batch, exact>>
  BY <1>7 DEF NewSegment, BeginFlush, StartFlush, BeginDown, EndFlush, Destroy, Finishing,
              EndWait, EndFlags, EndDown, EndHr, ResetWait, Join, Notify, config, wake
<1>8. ASSUME Flush \/ NothingToDo PROVE list' = <<>>
  BY <1>8 DEF Flush, Free, NothingToDo
<1>9. ASSUME Terminate \/ PopSample \/ PopSend \/ PopPacket \/ Drained
      PROVE  waiting' = 0
  BY <1>1, <1>9 DEF Terminate, PopSample, PopSend, PopPacket, Drained, Popping, Awake, wake
<1>10. ASSUME Enter \/ Wait \/ Send \/ Deliver \/ Record \/ TakePacket
       PROVE  UNCHANGED <<waiting, list, batch, exact>>
  BY <1>10 DEF Enter, Wait, Send, Deliver, Record, TakePacket, wake, config
<1> QED BY <1>2, <1>3, <1>4, <1>5, <1>6, <1>7, <1>8, <1>9, <1>10
        DEF Next, Streaming, Control, Queueing

LEMMA CarryingStep ==
  ASSUME QInv, Next
  PROVE  Carrying'
<1> USE DEF QInv, Carrying, thread
<1>1. CASE Streaming \/ Control
  <2>1. UNCHANGED <<worker, sending>>
    BY <1>1 DEF Streaming, Receive, EOS, SendAnyway, NewSegment, QueueSegment, Control,
                BeginFlush, BeginDown, EndFlush, Reset, Destroy, Finishing, EndWait, EndFlags,
                EndDown, EndHr, ResetWait, Join
  <2> QED BY <2>1
<1>2. CASE Queueing
  BY <1>2 DEF Queueing, Enter, Terminate, Flush, PopSample, PopSend, PopPacket, Drained,
              NothingToDo, Wait, Send, Sendable, Deliver, Record, TakePacket, Popping, Break,
              Sleep, Goto
<1> QED BY <1>1, <1>2 DEF Next

\* An error stays in m_hr until what the pin has refused is forgotten, too.
LEMMA RecordedStep ==
  ASSUME QInv, Next
  PROVE  Recorded' /\ (worker' = "deliver" => ~refused)
<1> USE DEF QInv, Recorded, thread, history
<1>1. CASE Streaming
  BY <1>1 DEF Streaming, Receive, EOS, SendAnyway, NewSegment, QueueSegment
<1>2. CASE Control
  BY <1>2 DEF Control, BeginFlush, Refuse, BeginDown, EndFlush, AcceptAgain, Reset, Destroy,
              Finishing, EndWait, EndFlags, EndDown, EndHr, ResetWait, Join
<1>3. CASE Enter \/ Terminate \/ Flush \/ NothingToDo \/ Wait
  <2>1. /\ worker \in {"top", "pop", "wait"} /\ worker' # "deliver"
        /\ UNCHANGED <<hr, refused>>
    BY <1>3 DEF Enter, Terminate, Flush, NothingToDo, Popping, Wait, Sleep
  <2> QED BY <2>1
<1>4. CASE PopSample \/ PopSend \/ PopPacket \/ Drained
  BY <1>4 DEF PopSample, PopSend, PopPacket, Drained, Popping, Break
<1>5. CASE Send \/ Deliver
  BY <1>5 DEF Send, Sendable, Deliver, Goto
<1>6. CASE Record \/ TakePacket
  BY <1>6 DEF Record, TakePacket, AcceptAgain, Goto
<1> QED BY <1>1, <1>2, <1>3, <1>4, <1>5, <1>6 DEF Next, Queueing

-----------------------------------------------------------------------------
LEMMA QueueStep == QInv /\ [Next]_vars => QInv'
<1>1. ASSUME QInv, Next PROVE QInv'
  BY <1>1, ConfigStep, CarriersStep, WakeStep, FlagsStep, PlacesStep, UnnoticedStep, CarryingStep,
     RecordedStep DEF QInv
<1>2. ASSUME QInv, UNCHANGED vars PROVE QInv'
  BY <1>2 DEF QInv, TypeConfig, TypeCarriers, TypeFlags, TypePlaces, TypeWake, Awake, Woken, Carrying,
              Unnoticed, SegPaired,
              Recorded, vars, config, flags, wake, thread, history
<1> QED BY <1>1, <1>2

LEMMA QInvariant == Spec => []QInv
BY QueueInit, QueueStep, PTL DEF Spec

\* The state of a queue stays of its types: m_ppSamples is never overrun.
THEOREM QueueTyped == Spec => []TypeOK
<1>1. QInv => TypeOK
  BY DEF QInv, TypeConfig, TypeCarriers, TypeFlags, TypePlaces, TypeWake, TypeOK
<1> QED BY <1>1, QInvariant, PTL

\* The thread never sleeps over something that it was to be woken for.
THEOREM WakeupsKept == Spec => []NoLostWakeup
<1>1. QInv => NoLostWakeup
  BY DEF QInv, Woken, Unnoticed, NoLostWakeup
<1> QED BY <1>1, QInvariant, PTL

\* The pin gets nothing after it has refused a batch, until a flush or Reset.
THEOREM RefusalSticks == Spec => NothingAfterRefusal
<1>1. QInv /\ [Next]_vars => [worker' = "deliver" => ~refused]_vars
  BY RecordedStep
<1> QED BY <1>1, QInvariant, PTL DEF Spec, NothingAfterRefusal
-----------------------------------------------------------------------------
(* Numbered *)

LEMMA NumberedIn ==
  ASSUME NEW s, NEW lo, NEW hi, Numbered(s, lo, hi), NEW i \in Data(s)
  PROVE  s[i].n \in lo + 1 .. hi
BY DEF Numbered

LEMMA NumberedPick ==
  ASSUME NEW s, NEW lo, NEW hi, Numbered(s, lo, hi), NEW m \in lo + 1 .. hi
  PROVE  \E i \in Data(s) : s[i].n = m
BY DEF Numbered

LEMMA NumberedIntro ==
  ASSUME NEW s, NEW lo, NEW hi, lo <= hi,
         \A i \in Data(s) : s[i].n \in lo + 1 .. hi,
         \A m \in lo + 1 .. hi : \E i \in Data(s) : s[i].n = m,
         \A i, j \in Data(s) : i < j => s[i].n < s[j].n
  PROVE  Numbered(s, lo, hi)
<1>1. {s[i].n : i \in Data(s)} = lo + 1 .. hi
  OBVIOUS
<1> QED BY <1>1 DEF Numbered

\* Nothing is numbered when nothing is data.
LEMMA NumberedNone ==
  ASSUME NEW s, NEW lo \in Nat
  PROVE  /\ Data(s) = {} => Numbered(s, lo, lo)
         /\ Numbered(s, lo, lo) => Data(s) = {}
         /\ \A hi \in Nat : Numbered(s, lo, hi) /\ Data(s) = {} => hi = lo
<1>1. lo + 1 .. lo = {}
  OBVIOUS
<1>2. ASSUME NEW hi \in Nat, Numbered(s, lo, hi), Data(s) = {} PROVE hi = lo
  <2>1. lo + 1 .. hi = {} /\ lo <= hi
    BY <1>2 DEF Numbered
  <2> QED BY <2>1
<1>3. Data(s) = {} => Numbered(s, lo, lo)
  BY <1>1 DEF Numbered
<1>4. Numbered(s, lo, lo) => Data(s) = {}
  BY <1>1, NumberedIn
<1> QED BY <1>2, <1>3, <1>4

LEMMA NumberedEmpty ==
  ASSUME NEW lo \in Nat
  PROVE  /\ Numbered(<<>>, lo, lo)
         /\ \A hi \in Nat : Numbered(<<>>, lo, hi) => hi = lo
<1>1. Data(<<>>) = {}
  BY EmptySeq DEF Data
<1> QED BY <1>1, NumberedNone

\* One entry.
LEMMA NumberedOne ==
  ASSUME NEW e \in Entries, NEW lo \in Nat, NEW hi \in Nat
  PROVE  Numbered(<<e>>, lo, hi) <=> IF IsData(e) THEN hi = lo + 1 /\ e.n = hi ELSE hi = lo
<1> DEFINE s == <<e>>
<1>1. Len(s) = 1 /\ s[1] = e
  OBVIOUS
<1> HIDE DEF s
<1>2. CASE IsData(e)
  <2>1. Data(s) = {1}
    BY <1>1, <1>2 DEF Data
  <2>2. Numbered(s, lo, hi) <=> lo <= hi /\ {e.n} = lo + 1 .. hi
    BY <1>1, <2>1 DEF Numbered
  <2>3. lo <= hi /\ {e.n} = lo + 1 .. hi => hi = lo + 1 /\ e.n = hi
    <3>1. lo <= hi /\ {e.n} = lo + 1 .. hi => lo + 1 \in lo + 1 .. hi /\ hi \in lo + 1 .. hi
      <4>1. lo <= hi /\ {e.n} = lo + 1 .. hi => e.n \in lo + 1 .. hi
        OBVIOUS
      <4> QED BY <4>1
    <3> QED BY <3>1
  <2>4. hi = lo + 1 /\ e.n = hi => lo <= hi /\ {e.n} = lo + 1 .. hi
    OBVIOUS
  <2> QED BY <1>2, <2>2, <2>3, <2>4 DEF s
<1>3. CASE ~IsData(e)
  <2>1. Data(s) = {}
    BY <1>1, <1>3 DEF Data
  <2> QED BY <1>3, <2>1, NumberedNone DEF s
<1> QED BY <1>2, <1>3

\* One sequence after another.
LEMMA NumberedConcat ==
  ASSUME NEW s \in Seq(Entries), NEW t \in Seq(Entries),
         NEW lo \in Nat, NEW mid \in Nat, NEW hi \in Nat,
         Numbered(s, lo, mid), Numbered(t, mid, hi)
  PROVE  s \o t \in Seq(Entries) /\ Numbered(s \o t, lo, hi)
<1> DEFINE u == s \o t
<1>1. /\ u \in Seq(Entries) /\ Len(u) = Len(s) + Len(t)
      /\ \A i \in 1 .. Len(s) + Len(t) : u[i] = IF i <= Len(s) THEN s[i] ELSE t[i - Len(s)]
  BY ConcatProperties
<1> HIDE DEF u
<1>2. Len(s) \in Nat /\ Len(t) \in Nat
  BY LenProperties
<1>3. lo <= mid /\ mid <= hi
  BY DEF Numbered
<1>4. \A i \in Data(u) : i <= Len(s) => i \in Data(s) /\ u[i] = s[i]
  BY <1>1, <1>2 DEF Data
<1>5. \A i \in Data(u) : i > Len(s) => i - Len(s) \in Data(t) /\ u[i] = t[i - Len(s)]
  BY <1>1, <1>2 DEF Data
<1>6. \A i \in Data(s) : i \in Data(u) /\ u[i] = s[i]
  BY <1>1, <1>2 DEF Data
<1>7. ASSUME NEW i \in Data(t) PROVE i + Len(s) \in Data(u) /\ u[i + Len(s)] = t[i]
  <2>1. i \in 1 .. Len(t) /\ IsData(t[i])
    BY DEF Data
  <2>2. /\ i + Len(s) \in 1 .. Len(s) + Len(t) /\ ~(i + Len(s) <= Len(s))
        /\ (i + Len(s)) - Len(s) = i
    BY <1>2, <2>1
  <2>3. u[i + Len(s)] = t[i]
    BY <1>1, <2>2
  <2> QED BY <1>1, <2>1, <2>2, <2>3 DEF Data
<1>8. \A i \in Data(u) : i \in Nat
  BY <1>1, <1>2 DEF Data
<1>9. ASSUME NEW i \in Data(u)
      PROVE  /\ i <= Len(s) => u[i].n \in lo + 1 .. mid
             /\ i > Len(s) => u[i].n \in mid + 1 .. hi
  BY <1>4, <1>5, NumberedIn
<1>10. \A i \in Data(u) : u[i].n \in lo + 1 .. hi
  BY <1>2, <1>3, <1>8, <1>9
<1>11. ASSUME NEW m \in lo + 1 .. hi PROVE \E i \in Data(u) : u[i].n = m
  <2>1. CASE m <= mid
    <3>1. m \in lo + 1 .. mid
      BY <2>1
    <3>2. PICK i \in Data(s) : s[i].n = m
      BY <3>1, NumberedPick, SMTT(30)
    <3> QED BY <1>6, <3>2
  <2>2. CASE m > mid
    <3>1. m \in mid + 1 .. hi
      BY <2>2
    <3>2. PICK i \in Data(t) : t[i].n = m
      BY <3>1, NumberedPick
    <3> QED BY <1>7, <3>2
  <2> QED BY <2>1, <2>2
<1>12. ASSUME NEW i \in Data(u), NEW j \in Data(u), i < j PROVE u[i].n < u[j].n
  <2>1. CASE j <= Len(s)
    <3>1. i <= Len(s)
      BY <1>2, <1>8, <1>12, <2>1
    <3> QED BY <1>4, <1>12, <2>1, <3>1 DEF Numbered
  <2>2. CASE i > Len(s)
    <3>1. j > Len(s) /\ i - Len(s) < j - Len(s)
      BY <1>2, <1>8, <1>12, <2>2
    <3> QED BY <1>5, <2>2, <3>1 DEF Numbered
  <2>3. CASE i <= Len(s) /\ j > Len(s)
    BY <1>9, <2>3
  <2> QED BY <1>2, <1>8, <2>1, <2>2, <2>3
<1>13. lo <= hi
  BY <1>3
<1>14. Numbered(u, lo, hi)
  BY <1>10, <1>11, <1>12, <1>13, NumberedIntro
<1> QED BY <1>1, <1>14 DEF u

\* The head and the rest.
LEMMA NumberedPopped ==
  ASSUME NEW s \in Seq(Entries), s # <<>>, NEW lo \in Nat, NEW hi \in Nat,
         Numbered(s, lo, hi)
  PROVE  \E m \in lo .. hi : Numbered(<<Head(s)>>, lo, m) /\ Numbered(Tail(s), m, hi)
<1> DEFINE t == Tail(s)
<1>1. /\ Head(s) \in Entries /\ Head(s) = s[1]
      /\ t \in Seq(Entries) /\ Len(t) = Len(s) - 1
      /\ \A i \in 1 .. Len(t) : t[i] = s[i + 1]
  BY HeadTailProperties
<1>2. Len(s) \in Nat \ {0} /\ Len(t) \in Nat
  BY <1>1, LenProperties, EmptySeq
<1> HIDE DEF t
<1>3. lo <= hi
  BY DEF Numbered
<1>4. ASSUME NEW i \in Data(t) PROVE i + 1 \in Data(s) /\ t[i] = s[i + 1] /\ i \in Nat /\ i >= 1
  BY <1>1, <1>2 DEF Data
<1>5. ASSUME NEW i \in Data(s), i # 1 PROVE i - 1 \in Data(t) /\ t[i - 1] = s[i]
  <2>1. i \in 2 .. Len(s) /\ IsData(s[i])
    BY <1>2, <1>5 DEF Data
  <2>2. i - 1 \in 1 .. Len(t) /\ (i - 1) + 1 = i
    BY <1>1, <1>2, <2>1
  <2>3. t[i - 1] = s[i]
    BY <1>1, <2>2
  <2> QED BY <2>1, <2>2, <2>3 DEF Data
<1>6. ASSUME NEW i \in Data(t), NEW j \in Data(t), i < j PROVE t[i].n < t[j].n
  <2>1. i + 1 < j + 1
    BY <1>4, <1>6
  <2> QED BY <1>4, <2>1 DEF Numbered
<1>7. 1 \in Data(s) <=> IsData(Head(s))
  BY <1>1, <1>2 DEF Data
<1>8. CASE ~IsData(Head(s))
  <2>1. Numbered(<<Head(s)>>, lo, lo)
    BY <1>1, <1>8, NumberedOne
  <2>2. \A i \in Data(t) : t[i].n \in lo + 1 .. hi
    BY <1>4, NumberedIn
  <2>3. ASSUME NEW m \in lo + 1 .. hi PROVE \E i \in Data(t) : t[i].n = m
    <3>1. PICK i \in Data(s) : s[i].n = m
      BY NumberedPick
    <3> QED BY <1>5, <1>7, <1>8, <3>1
  <2>4. Numbered(t, lo, hi)
    BY <1>3, <1>6, <2>2, <2>3, NumberedIntro
  <2>5. lo \in lo .. hi
    BY <1>3
  <2> QED BY <2>1, <2>4, <2>5 DEF t
<1>9. CASE IsData(Head(s))
  <2>1. 1 \in Data(s) /\ s[1].n \in lo + 1 .. hi
    BY <1>7, <1>9, NumberedIn
  <2>2. s[1].n = lo + 1
    <3>1. lo + 1 \in lo + 1 .. hi
      BY <2>1
    <3>2. PICK j \in Data(s) : s[j].n = lo + 1
      BY <3>1, NumberedPick
    <3>3. j # 1 => 1 < j
      BY <1>2 DEF Data
    <3>4. j # 1 => s[1].n < lo + 1
      BY <2>1, <3>2, <3>3 DEF Numbered
    <3> QED BY <2>1, <3>2, <3>4
  <2>3. Numbered(<<Head(s)>>, lo, lo + 1)
    BY <1>1, <1>9, <2>2, NumberedOne
  <2>4. ASSUME NEW i \in Data(t) PROVE t[i].n \in lo + 1 + 1 .. hi
    <3>1. 1 < i + 1
      BY <1>4
    <3>2. s[1].n < s[i + 1].n
      BY <1>4, <2>1, <3>1 DEF Numbered
    <3>3. s[i + 1].n \in lo + 1 .. hi
      BY <1>4, NumberedIn
    <3> QED BY <1>4, <2>2, <3>2, <3>3
  <2>5. ASSUME NEW m \in lo + 1 + 1 .. hi PROVE \E i \in Data(t) : t[i].n = m
    <3>1. m \in lo + 1 .. hi /\ m # lo + 1
      OBVIOUS
    <3>2. PICK i \in Data(s) : s[i].n = m
      BY <3>1, NumberedPick
    <3>3. i # 1
      BY <2>2, <3>1, <3>2
    <3> QED BY <1>5, <3>2, <3>3
  <2>6. lo + 1 <= hi
    BY <2>1
  <2>7. Numbered(t, lo + 1, hi)
    BY <1>6, <2>4, <2>5, <2>6, NumberedIntro
  <2>8. lo + 1 \in lo .. hi
    BY <2>6
  <2> QED BY <2>3, <2>7, <2>8 DEF t
<1> QED BY <1>8, <1>9

\* The last of a batch of samples has the last number.
LEMMA NumberedLast ==
  ASSUME NEW s \in Seq(Entries), s # <<>>, NEW lo \in Nat, NEW hi \in Nat,
         Numbered(s, lo, hi), \A i \in 1 .. Len(s) : s[i].kind = "sample"
  PROVE  s[Len(s)].n = hi /\ lo < hi
<1>1. Len(s) \in Nat \ {0}
  BY LenProperties, EmptySeq
<1>2. Len(s) \in Data(s)
  BY <1>1 DEF Data, IsData
<1>3. s[Len(s)].n \in lo + 1 .. hi
  BY <1>2, NumberedIn
<1>4. hi \in lo + 1 .. hi
  BY <1>3
<1>5. PICK i \in Data(s) : s[i].n = hi
  BY <1>4, NumberedPick
<1>6. i = Len(s) \/ i < Len(s)
  BY <1>1 DEF Data
<1>7. i < Len(s) => hi < s[Len(s)].n
  BY <1>2, <1>5 DEF Numbered
<1> QED BY <1>3, <1>5, <1>6, <1>7

\* Samples are data, and what else there may be is not.
LEMMA NumberedSamples ==
  ASSUME serial \in Nat, NEW n \in 1 .. 2, serial + n <= MaxSerial
  PROVE  Numbered(Samples(n), serial, serial + n)
<1> DEFINE s == Samples(n)
<1>1. Len(s) = n /\ \A i \in 1 .. n : s[i].kind = "sample"
  BY NewSamples
<1>2. \A i \in 1 .. n : s[i].n = serial + i
  BY DEF Samples
<1> HIDE DEF s
<1>3. Data(s) = 1 .. n
  BY <1>1 DEF Data, IsData
<1>4. ASSUME NEW m \in serial + 1 .. serial + n PROVE \E i \in Data(s) : s[i].n = m
  <2>1. m - serial \in 1 .. n /\ serial + (m - serial) = m
    OBVIOUS
  <2> QED BY <1>2, <1>3, <2>1
<1>5. \A i \in Data(s) : s[i].n \in serial + 1 .. serial + n
  BY <1>2, <1>3
<1>6. \A i, j \in Data(s) : i < j => s[i].n < s[j].n
  BY <1>2, <1>3
<1>7. serial <= serial + n
  OBVIOUS
<1>8. Numbered(s, serial, serial + n)
  BY <1>4, <1>5, <1>6, <1>7, NumberedIntro
<1> QED BY <1>8 DEF s
-----------------------------------------------------------------------------
(* The order of samples and ends of stream *)

LEMMA NoPacketTyped ==
  NoPacket \in Entries /\ NoPacket.kind = "SEND" /\ ~IsData(NoPacket)
BY QueueAssumption DEF NoPacket, Packet, Entries, Kinds, IsData

LEMMA OrderInit == Init => OInv
<1> SUFFICES ASSUME Init PROVE OInv
  OBVIOUS
<1>1. /\ list = <<>> /\ batch = <<>> /\ sending = <<>> /\ taken = NoPacket
      /\ serial = 0 /\ last = 0
  BY DEF Init
<1>2. Resting /\ OnlySamples
  <2>1. Len(<<>>) = 0
    BY EmptySeq
  <2> QED BY <1>1, <2>1 DEF Resting, OnlySamples
<1>3. Numbered(<<>>, 0, 0) /\ Numbered(<<NoPacket>>, 0, 0) /\ 0 \in 0 .. 0
  BY NumberedEmpty, NumberedOne, NoPacketTyped
<1>4. Parted
  BY <1>1, <1>3 DEF Parted
<1> QED BY <1>2, <1>4 DEF OInv

LEMMA RestingStep ==
  ASSUME QInv, OInv, Next
  PROVE  Resting'
<1> USE DEF OInv, Resting, thread
<1>1. CASE Streaming \/ Control
  <2>1. UNCHANGED <<worker, sending, taken>>
    BY <1>1 DEF Streaming, Receive, EOS, SendAnyway, NewSegment, QueueSegment, Control,
                BeginFlush, BeginDown, EndFlush, Reset, Destroy, Finishing, EndWait, EndFlags,
                EndDown, EndHr, ResetWait, Join
  <2> QED BY <2>1
<1>2. CASE Enter \/ Terminate \/ Flush \/ PopSend \/ NothingToDo \/ Wait
  BY <1>2 DEF Enter, Terminate, Flush, PopSend, NothingToDo, Popping, Wait, Sleep
<1>3. CASE PopSample \/ PopPacket \/ Drained
  BY <1>3 DEF PopSample, PopPacket, Drained, Popping, Break
<1>4. CASE Send \/ Deliver \/ Record \/ TakePacket
  BY <1>4 DEF Send, Sendable, Deliver, Record, TakePacket, Goto
<1> QED BY <1>1, <1>2, <1>3, <1>4 DEF Next, Queueing

LEMMA OnlySamplesStep ==
  ASSUME QInv, OInv, Next
  PROVE  OnlySamples'
<1> USE DEF OInv, OnlySamples, thread
<1>0. Len(<<>>) = 0
  BY EmptySeq
<1>1. CASE Streaming \/ Control
  <2>1. UNCHANGED <<batch, sending>>
    BY <1>1 DEF Streaming, Receive, EOS, SendAnyway, NewSegment, QueueSegment, Control,
                BeginFlush, BeginDown, EndFlush, Reset, Destroy, Finishing, EndWait, EndFlags,
                EndDown, EndHr, ResetWait, Join
  <2> QED BY <2>1
<1>2. CASE Enter \/ PopSend \/ NothingToDo \/ Wait \/ Record \/ TakePacket
  <2>1. UNCHANGED <<batch, sending>>
    BY <1>2 DEF Enter, PopSend, NothingToDo, Wait, Record, TakePacket
  <2> QED BY <2>1
<1>3. CASE Terminate \/ Flush
  <2>1. batch' = <<>> /\ UNCHANGED sending
    BY <1>3 DEF Terminate, Flush, Free
  <2> QED BY <1>0, <2>1
<1>4. CASE PopPacket \/ Drained
  <2>1. batch' = <<>> /\ sending' = batch
    BY <1>4 DEF PopPacket, Drained, Break
  <2> QED BY <1>0, <2>1
<1>5. CASE Send \/ Deliver
  <2>1. UNCHANGED batch /\ (sending' = <<>> \/ UNCHANGED sending)
    BY <1>5 DEF Send, Deliver
  <2> QED BY <1>0, <2>1
<1>6. CASE PopSample
  <2> DEFINE full == Append(batch, Head(list))
  <2>1. /\ list # <<>> /\ Head(list).kind \in {"sample", "PARAMS"}
        /\ \/ batch' = <<>> /\ sending' = full
           \/ batch' = full /\ UNCHANGED sending
    BY <1>6 DEF PopSample, Break
  <2>2. Head(list) \in Entries /\ Head(list).kind = "sample"
    BY <2>1, ListPopped DEF QInv
  <2>3. /\ Len(full) = Len(batch) + 1 /\ Len(batch) \in Nat
        /\ \A i \in 1 .. Len(batch) : full[i] = batch[i]
        /\ full[Len(batch) + 1] = Head(list)
    BY <2>2, AppendProperties, LenProperties DEF QInv, TypeCarriers
  <2> HIDE DEF full
  <2>4. \A i \in 1 .. Len(full) : full[i].kind = "sample"
    BY <2>2, <2>3
  <2> QED BY <1>0, <2>1, <2>4
<1> QED BY <1>1, <1>2, <1>3, <1>4, <1>5, <1>6 DEF Next, Queueing

\* What the streaming thread, or a Reset, adds to the list.
Adds(s) ==
  /\ list' = list \o s /\ UNCHANGED <<sending, taken, batch, last>>
  /\ serial' \in Nat /\ Numbered(s, serial, serial')
  /\ \A i \in 1 .. Len(s) : s[i].kind = "RESET" => resets

LEMMA Added ==
  ASSUME QInv, Streaming \/ Control, ~UNCHANGED carriers
  PROVE  \E s \in Seq(Entries) : Adds(s)
<1> USE DEF QInv, Adds
<1>0. serial \in Nat /\ MaxSerial \in Nat
  BY QueueAssumption DEF TypeCarriers
<1>1. ASSUME NEW n \in 1 .. 2, Receive(n) PROVE \E s \in Seq(Entries) : Adds(s)
  <2>1. list' = list \o Samples(n) /\ serial' = serial + Len(Samples(n)) /\ serial + n <= MaxSerial
        /\ UNCHANGED <<batch, sending, taken, last>>
    BY <1>1 DEF Receive, Accept, Samples, carriers, thread, wake
  <2>2. /\ Samples(n) \in Seq(Entries) /\ Len(Samples(n)) = n
        /\ \A i \in 1 .. n : Samples(n)[i].kind = "sample"
    BY <1>0, <2>1, NewSamples
  <2>3. Numbered(Samples(n), serial, serial')
    BY <1>0, <2>1, <2>2, NumberedSamples
  <2>4. serial' \in Nat
    BY <1>0, <2>1, <2>2
  <2>5. Adds(Samples(n))
    BY <2>1, <2>2, <2>3, <2>4
  <2> QED BY <2>2, <2>5
<1>2. ASSUME EOS PROVE \E s \in Seq(Entries) : Adds(s)
  <2> DEFINE e == [kind |-> "EOS", n |-> serial + 1]
             t == <<e>>
  <2>1. /\ list' = list \o t /\ serial' = serial + Len(t) /\ serial < MaxSerial
        /\ UNCHANGED <<batch, sending, taken, last>>
    BY <1>2 DEF EOS, Accept, carriers, thread, wake
  <2>2. e \in Entries /\ IsData(e) /\ e.n = serial + 1
    BY <1>0, <2>1 DEF Entries, Kinds, IsData
  <2>3. t \in Seq(Entries) /\ Len(t) = 1 /\ t[1].kind = "EOS"
    BY <2>2
  <2>4. Numbered(t, serial, serial + 1)
    BY <1>0, <2>2, NumberedOne
  <2> HIDE DEF t
  <2>5. serial' = serial + 1 /\ serial' \in Nat
    BY <1>0, <2>1, <2>3
  <2> QED BY <2>1, <2>3, <2>4, <2>5
<1>3. ASSUME SendAnyway \/ Reset PROVE \E s \in Seq(Entries) : Adds(s)
  <2>1. PICK e \in {Packet("SEND"), Packet("RESET")} :
          /\ list' = Append(list, e) /\ UNCHANGED <<batch, sending, taken, serial, last>>
          /\ e = Packet("SEND") \/ resets
    BY <1>3 DEF SendAnyway, Reset, thread, history
  <2>2. e \in Entries /\ ~IsData(e) /\ (e.kind = "RESET" => resets)
    BY <2>1, QueueAssumption DEF Packet, Entries, Kinds, IsData
  <2>3. list' = list \o <<e>> /\ <<e>> \in Seq(Entries) /\ Len(<<e>>) = 1 /\ <<e>>[1] = e
    BY <2>1, <2>2, AppendIsConcat DEF TypeCarriers
  <2>4. Numbered(<<e>>, serial, serial')
    BY <1>0, <2>1, <2>2, NumberedOne
  <2>5. Adds(<<e>>)
    <3> DEFINE t == <<e>>
    <3> HIDE DEF t
    <3>1. /\ list' = list \o t /\ Len(t) = 1 /\ t[1] = e
          /\ Numbered(t, serial, serial')
      BY <2>3, <2>4 DEF t
    <3>2. \A i \in 1 .. Len(t) : t[i].kind = "RESET" => resets
      BY <2>2, <3>1
    <3>3. Adds(t)
      BY <1>0, <2>1, <3>1, <3>2
    <3> QED BY <3>3 DEF t
  <2> QED BY <2>3, <2>5
<1>4. ASSUME QueueSegment PROVE \E s \in Seq(Entries) : Adds(s)
  <2> DEFINE t == <<Packet("SEG"), Packet("PARAMS")>>
  <2>1. list' = list \o t /\ UNCHANGED <<batch, sending, taken, serial, last>>
    BY <1>4 DEF QueueSegment, thread, history
  <2>2. \A e \in {Packet("SEG"), Packet("PARAMS")} :
          e \in Entries /\ ~IsData(e) /\ e.kind # "RESET"
    BY QueueAssumption DEF Packet, Entries, Kinds, IsData
  <2>3. t \in Seq(Entries) /\ Len(t) = 2 /\ \A i \in 1 .. 2 : ~IsData(t[i]) /\ t[i].kind # "RESET"
    BY <2>2
  <2> HIDE DEF t
  <2>4. Data(t) = {}
    BY <2>3 DEF Data
  <2>5. Numbered(t, serial, serial')
    BY <1>0, <2>1, <2>4, NumberedNone
  <2> QED BY <1>0, <2>1, <2>3, <2>5
<1>5. ASSUME NewSegment \/ BeginFlush \/ BeginDown \/ EndFlush \/ Destroy \/ Finishing
      PROVE  UNCHANGED carriers
  BY <1>5 DEF NewSegment, BeginFlush, BeginDown, EndFlush, Destroy, Finishing, EndWait,
              EndFlags, EndDown, EndHr, ResetWait, Join, carriers, thread, history
<1> QED BY <1>1, <1>2, <1>3, <1>4, <1>5 DEF Streaming, Control

LEMMA PartedStreaming ==
  ASSUME QInv, OInv, Streaming \/ Control
  PROVE  Parted'
<1>1. CASE UNCHANGED carriers
  BY <1>1 DEF OInv, Parted, carriers
<1>2. CASE ~UNCHANGED carriers
  <2>1. PICK s \in Seq(Entries) : Adds(s)
    BY <1>2, Added
  <2>2. PICK a, b, c \in 0 .. serial :
          /\ Numbered(sending, last, a) /\ Numbered(<<taken>>, a, b)
          /\ Numbered(batch, b, c) /\ Numbered(list, c, serial)
    BY DEF OInv, Parted
  <2>3. serial \in Nat /\ list \in Seq(Entries) /\ a \in Nat /\ b \in Nat /\ c \in Nat
    BY DEF QInv, TypeCarriers
  <2>4. serial' \in Nat /\ Numbered(list', c, serial')
    BY <2>1, <2>2, <2>3, NumberedConcat DEF Adds
  <2>5. /\ Numbered(sending', last', a) /\ Numbered(<<taken'>>, a, b)
        /\ Numbered(batch', b, c)
    BY <2>1, <2>2 DEF Adds
  <2>6. a <= b /\ b <= c /\ c <= serial'
    BY <2>2, <2>4 DEF Numbered
  <2>7. a \in 0 .. serial' /\ b \in 0 .. serial' /\ c \in 0 .. serial'
    BY <2>3, <2>4, <2>6
  <2> QED BY <2>4, <2>5, <2>7 DEF Parted
<1> QED BY <1>1, <1>2

\* When the thread pops a packet it has nothing of its own.
LEMMA PoppingParted ==
  ASSUME QInv, OInv, worker = "pop"
  PROVE  /\ sending = <<>> /\ taken = NoPacket
         /\ \E c \in 0 .. serial : Numbered(batch, last, c) /\ Numbered(list, c, serial)
<1>1. sending = <<>> /\ taken = NoPacket
  BY DEF OInv, Resting
<1>2. PICK a, b, c \in 0 .. serial :
         /\ Numbered(sending, last, a) /\ Numbered(<<taken>>, a, b)
         /\ Numbered(batch, b, c) /\ Numbered(list, c, serial)
  BY DEF OInv, Parted
<1>3. last \in Nat /\ a \in Nat /\ b \in Nat
  BY DEF QInv, TypeCarriers
<1>4. a = last
  BY <1>1, <1>2, <1>3, NumberedEmpty
<1>5. b = a
  BY <1>1, <1>2, <1>3, NumberedOne, NoPacketTyped
<1> QED BY <1>1, <1>2, <1>4, <1>5

LEMMA PartedPopping ==
  ASSUME QInv, OInv,
         Terminate \/ Flush \/ PopSample \/ PopSend \/ PopPacket \/ Drained
  PROVE  Parted'
<1> USE DEF QInv
<1>0. worker = "pop"
  BY DEF Terminate, Flush, PopSample, PopSend, PopPacket, Drained, Popping
<1>1. sending = <<>> /\ taken = NoPacket
  BY <1>0, PoppingParted
<1>2. PICK c \in 0 .. serial : Numbered(batch, last, c) /\ Numbered(list, c, serial)
  BY <1>0, PoppingParted
<1>3. /\ serial \in Nat /\ last \in Nat /\ c \in Nat
      /\ batch \in Seq(Entries) /\ list \in Seq(Entries)
  BY DEF TypeCarriers
<1>4. \A k \in Nat : Numbered(<<>>, k, k) /\ Numbered(<<NoPacket>>, k, k)
  BY NumberedEmpty, NumberedOne, NoPacketTyped
<1>5. ASSUME list # <<>>
      PROVE  \E m \in Nat : /\ m \in c .. serial /\ Numbered(<<Head(list)>>, c, m)
                            /\ Numbered(Tail(list), m, serial)
  BY <1>2, <1>3, <1>5, NumberedPopped
<1>6. CASE Terminate \/ Flush
  <2>1. list' = <<>> /\ batch' = <<>> /\ last' = serial /\ UNCHANGED <<sending, taken, serial>>
    BY <1>6 DEF Terminate, Flush, Free
  <2>2. serial \in 0 .. serial'
    BY <1>3, <2>1
  <2>3. Numbered(<<>>, serial, serial) /\ Numbered(<<NoPacket>>, serial, serial)
    BY <1>3, <1>4
  <2> QED BY <1>1, <2>1, <2>2, <2>3 DEF Parted
<1>7. CASE PopSample
  <2> DEFINE full == Append(batch, Head(list))
  <2>1. /\ list # <<>> /\ list' = Tail(list) /\ UNCHANGED <<serial, last>>
        /\ \/ sending' = full /\ batch' = <<>> /\ taken' = NoPacket
           \/ batch' = full /\ UNCHANGED <<sending, taken>>
    BY <1>7 DEF PopSample, Break, history
  <2>2. PICK m \in Nat : /\ m \in c .. serial /\ Numbered(<<Head(list)>>, c, m)
                         /\ Numbered(Tail(list), m, serial)
    BY <1>5, <2>1
  <2>3. Head(list) \in Entries
    BY <2>1, ListPopped
  <2>4. full = batch \o <<Head(list)>> /\ <<Head(list)>> \in Seq(Entries)
    BY <1>3, <2>3, AppendIsConcat
  <2>5. Numbered(full, last, m)
    <3>1. Numbered(batch \o <<Head(list)>>, last, m)
      BY <1>2, <1>3, <2>2, <2>4, NumberedConcat
    <3> QED BY <2>4, <3>1
  <2> HIDE DEF full
  <2>6. last <= m
    BY <2>5 DEF Numbered
  <2>7. last \in 0 .. serial' /\ m \in 0 .. serial'
    BY <1>3, <2>1, <2>2, <2>6
  <2>8. CASE sending' = full /\ batch' = <<>> /\ taken' = NoPacket
    <3>1. Numbered(<<>>, m, m) /\ Numbered(<<NoPacket>>, m, m)
      BY <1>4
    <3>2. /\ Numbered(sending', last', m) /\ Numbered(<<taken'>>, m, m)
          /\ Numbered(batch', m, m) /\ Numbered(list', m, serial')
      BY <2>1, <2>2, <2>5, <2>8, <3>1
    <3> QED BY <2>7, <3>2 DEF Parted
  <2>9. CASE batch' = full /\ UNCHANGED <<sending, taken>>
    <3>1. Numbered(<<>>, last, last) /\ Numbered(<<NoPacket>>, last, last)
      BY <1>3, <1>4
    <3>2. /\ Numbered(sending', last', last) /\ Numbered(<<taken'>>, last, last)
          /\ Numbered(batch', last, m) /\ Numbered(list', m, serial')
      BY <1>1, <2>1, <2>2, <2>5, <2>9, <3>1
    <3> QED BY <2>7, <3>2 DEF Parted
  <2> QED BY <2>1, <2>8, <2>9
<1>8. CASE PopSend
  <2>1. /\ list # <<>> /\ Head(list).kind = "SEND" /\ list' = Tail(list)
        /\ UNCHANGED <<batch, sending, taken, serial, last>>
    BY <1>8 DEF PopSend, thread, history
  <2>2. PICK m \in Nat : /\ m \in c .. serial /\ Numbered(<<Head(list)>>, c, m)
                         /\ Numbered(Tail(list), m, serial)
    BY <1>5, <2>1
  <2>3. Head(list) \in Entries /\ ~IsData(Head(list))
    BY <2>1, ListPopped DEF IsData
  <2>4. m = c
    BY <1>3, <2>2, <2>3, NumberedOne
  <2>5. Numbered(<<>>, last, last) /\ Numbered(<<NoPacket>>, last, last)
    BY <1>3, <1>4
  <2>6. last <= c /\ c <= serial
    BY <1>2 DEF Numbered
  <2>7. last \in 0 .. serial' /\ c \in 0 .. serial'
    BY <1>3, <2>1, <2>6
  <2>8. /\ Numbered(sending', last', last) /\ Numbered(<<taken'>>, last, last)
        /\ Numbered(batch', last, c) /\ Numbered(list', c, serial')
    BY <1>1, <1>2, <2>1, <2>2, <2>4, <2>5
  <2> QED BY <2>7, <2>8 DEF Parted
<1>9. CASE PopPacket
  <2>1. /\ list # <<>>
        /\ list' = IF Head(list).kind = "SEG" THEN Tail(Tail(list)) ELSE Tail(list)
        /\ sending' = batch /\ batch' = <<>> /\ taken' = Head(list)
        /\ UNCHANGED <<serial, last>>
    BY <1>9 DEF PopPacket, Break, history
  <2>2. PICK m \in Nat : /\ m \in c .. serial /\ Numbered(<<Head(list)>>, c, m)
                         /\ Numbered(Tail(list), m, serial)
    BY <1>5, <2>1
  <2>3. Numbered(list', m, serial)
    <3>1. CASE Head(list).kind # "SEG"
      BY <2>1, <2>2, <3>1
    <3>2. CASE Head(list).kind = "SEG"
      <4>1. /\ Tail(list) \in Seq(Entries) /\ Tail(list) # <<>>
            /\ Head(Tail(list)).kind = "PARAMS"
        BY <2>1, <3>2, ListPopped
      <4>2. PICK k \in m .. serial : /\ Numbered(<<Head(Tail(list))>>, m, k)
                                     /\ Numbered(Tail(Tail(list)), k, serial)
        BY <1>3, <2>2, <4>1, NumberedPopped
      <4>3. Head(Tail(list)) \in Entries /\ ~IsData(Head(Tail(list)))
        BY <4>1, HeadTailProperties DEF IsData
      <4>4. k \in Nat
        BY <4>2
      <4>5. k = m
        BY <4>2, <4>3, <4>4, NumberedOne
      <4> QED BY <2>1, <3>2, <4>2, <4>5
    <3> QED BY <3>1, <3>2
  <2>4. c \in 0 .. serial' /\ m \in 0 .. serial'
    BY <1>3, <2>1, <2>2
  <2>5. /\ Numbered(sending', last', c) /\ Numbered(<<taken'>>, c, m)
        /\ Numbered(batch', m, m) /\ Numbered(list', m, serial')
    BY <1>2, <1>4, <2>1, <2>2, <2>3
  <2> QED BY <2>4, <2>5 DEF Parted
<1>10. CASE Drained
  <2>1. sending' = batch /\ batch' = <<>> /\ taken' = NoPacket /\ UNCHANGED <<list, serial, last>>
    BY <1>10 DEF Drained, Break, history
  <2>2. /\ Numbered(sending', last', c) /\ Numbered(<<taken'>>, c, c)
        /\ Numbered(batch', c, c) /\ Numbered(list', c, serial')
    BY <1>2, <1>3, <1>4, <2>1
  <2>3. c \in 0 .. serial'
    BY <2>1
  <2> QED BY <2>2, <2>3 DEF Parted
<1> QED BY <1>6, <1>7, <1>8, <1>9, <1>10

LEMMA PartedSending ==
  ASSUME QInv, OInv, Send \/ Deliver \/ TakePacket
  PROVE  Parted'
<1> USE DEF QInv, OInv
<1>1. PICK a, b, c \in 0 .. serial :
         /\ Numbered(sending, last, a) /\ Numbered(<<taken>>, a, b)
         /\ Numbered(batch, b, c) /\ Numbered(list, c, serial)
  BY DEF Parted
<1>2. /\ a \in Nat /\ b \in Nat /\ c \in Nat /\ serial \in Nat /\ last \in Nat
      /\ sending \in Seq(Entries) /\ taken \in Entries
  BY DEF TypeCarriers
<1>3. \A k \in Nat : Numbered(<<>>, k, k) /\ Numbered(<<NoPacket>>, k, k)
  BY NumberedEmpty, NumberedOne, NoPacketTyped
<1>4. sending = <<>> => a = last
  BY <1>1, <1>2, NumberedEmpty
<1>5. sending # <<>> => sending[Len(sending)].n = a
  BY <1>1, <1>2, NumberedLast DEF OnlySamples
<1>6. CASE (Send \/ Deliver) /\ ~UNCHANGED <<sending, last>>
  <2>1. /\ sending' = <<>> /\ UNCHANGED <<list, batch, taken, serial>>
        /\ \/ sending = <<>> /\ last' = last
           \/ sending # <<>> /\ last' = sending[Len(sending)].n
    BY <1>6 DEF Send, Deliver, Carrying
  <2>2. last' = a
    BY <1>4, <1>5, <2>1
  <2>3. /\ Numbered(sending', last', a) /\ Numbered(<<taken'>>, a, b)
        /\ Numbered(batch', b, c) /\ Numbered(list', c, serial')
    BY <1>1, <1>2, <1>3, <2>1, <2>2
  <2> QED BY <2>1, <2>3 DEF Parted
<1>7. CASE (Send \/ Deliver) /\ UNCHANGED <<sending, last>>
  <2>1. UNCHANGED carriers
    BY <1>7 DEF Send, Deliver, carriers
  <2> QED BY <2>1 DEF Parted, carriers
<1>8. CASE TakePacket
  <2>1. sending = <<>> /\ a = last
    BY <1>4, <1>8 DEF TakePacket, Resting
  <2>2. /\ taken' = NoPacket /\ UNCHANGED <<list, batch, sending, serial>>
        /\ \/ IsData(taken) /\ last' = taken.n
           \/ ~IsData(taken) /\ last' = last
    BY <1>8 DEF TakePacket, IsData
  <2>3. last' = b
    BY <1>1, <1>2, <2>1, <2>2, NumberedOne
  <2>4. /\ Numbered(sending', last', b) /\ Numbered(<<taken'>>, b, b)
        /\ Numbered(batch', b, c) /\ Numbered(list', c, serial')
    BY <1>1, <1>2, <1>3, <2>1, <2>2, <2>3
  <2> QED BY <2>2, <2>4 DEF Parted
<1> QED BY <1>6, <1>7, <1>8

LEMMA OrderStep == QInv /\ OInv /\ [Next]_vars => OInv'
<1>1. ASSUME QInv, OInv, Next PROVE OInv'
  <2>1. ASSUME Enter \/ NothingToDo \/ Wait \/ Record PROVE Parted'
    <3>1. UNCHANGED carriers
      BY <2>1 DEF Enter, NothingToDo, Wait, Record, carriers, thread, history
    <3> QED BY <1>1, <3>1 DEF OInv, Parted, carriers
  <2>2. Parted'
    BY <1>1, <2>1, PartedStreaming, PartedPopping, PartedSending DEF Next, Queueing
  <2> QED BY <1>1, <2>2, RestingStep, OnlySamplesStep DEF OInv
<1>2. ASSUME QInv, OInv, UNCHANGED vars PROVE OInv'
  BY <1>2 DEF OInv, Resting, OnlySamples, Parted, vars, thread, history
<1> QED BY <1>1, <1>2

LEMMA OInvariant == Spec => [](QInv /\ OInv)
<1>1. Init => QInv /\ OInv
  BY QueueInit, OrderInit
<1>2. QInv /\ OInv /\ [Next]_vars => (QInv /\ OInv)'
  BY QueueStep, OrderStep
<1> QED BY <1>1, <1>2, PTL DEF Spec

\* What is pending is numbered.
LEMMA PendingNumbered == QInv /\ OInv => InOrder
<1> SUFFICES ASSUME QInv, OInv PROVE InOrder
  OBVIOUS
<1>1. PICK a, b, c \in 0 .. serial :
         /\ Numbered(sending, last, a) /\ Numbered(<<taken>>, a, b)
         /\ Numbered(batch, b, c) /\ Numbered(list, c, serial)
  BY DEF OInv, Parted
<1>2. /\ a \in Nat /\ b \in Nat /\ c \in Nat /\ serial \in Nat /\ last \in Nat
      /\ sending \in Seq(Entries) /\ <<taken>> \in Seq(Entries)
      /\ batch \in Seq(Entries) /\ list \in Seq(Entries)
  BY DEF QInv, TypeCarriers
<1>3. sending \o <<taken>> \in Seq(Entries) /\ Numbered(sending \o <<taken>>, last, b)
  BY <1>1, <1>2, NumberedConcat
<1>4. /\ sending \o <<taken>> \o batch \in Seq(Entries)
      /\ Numbered(sending \o <<taken>> \o batch, last, c)
  BY <1>1, <1>2, <1>3, NumberedConcat
<1>5. Numbered(sending \o <<taken>> \o batch \o list, last, serial)
  BY <1>1, <1>2, <1>4, NumberedConcat
<1> QED BY <1>5 DEF InOrder, Pending

\* Samples and ends of stream leave in the order they came, each once, through the
\* list, the batch and the copies that the thread uses without the lock.
THEOREM OrderKept == Spec => []InOrder
BY OInvariant, PendingNumbered, PTL
-----------------------------------------------------------------------------
(* Flushes, and what is lost *)

\* When all that was queued is sent or released, the thread holds nothing.
LEMMA DryNothing ==
  ASSUME QInv, OInv, last = serial
  PROVE  sending = <<>> /\ ~IsData(taken) /\ Data(Pending) = {}
<1>1. PICK a, b, c \in 0 .. serial :
         /\ Numbered(sending, last, a) /\ Numbered(<<taken>>, a, b)
         /\ Numbered(batch, b, c) /\ Numbered(list, c, serial)
  BY DEF OInv, Parted
<1>2. /\ a \in Nat /\ b \in Nat /\ c \in Nat /\ serial \in Nat /\ last \in Nat
      /\ sending \in Seq(Entries) /\ taken \in Entries
  BY DEF QInv, TypeCarriers
<1>3. last <= a /\ a <= b /\ b <= c /\ c <= serial
  BY <1>1 DEF Numbered
<1>4. a = last /\ b = last
  BY <1>2, <1>3
<1>5. sending = <<>>
  <2>1. sending # <<>> => last < a
    BY <1>1, <1>2, NumberedLast DEF OInv, OnlySamples
  <2> QED BY <1>2, <1>4, <2>1
<1>6. ~IsData(taken)
  BY <1>1, <1>2, <1>4, NumberedOne
<1>7. Numbered(Pending, serial, serial)
  BY PendingNumbered DEF InOrder
<1> QED BY <1>2, <1>5, <1>6, <1>7, NumberedNone

LEMMA FlushInit == Init => FInv
<1> SUFFICES ASSUME Init PROVE FInv
  OBVIOUS
<1>1. NoReset
  <2>1. Len(<<>>) = 0
    BY EmptySeq
  <2> QED BY <2>1, NoPacketTyped DEF Init, NoReset
<1>2. Flushes /\ DriedUp /\ Ends /\ Errors
  BY DEF Init, Flushes, DriedUp, Dry, Ends, Errors
<1> QED BY <1>1, <1>2 DEF FInv

LEMMA NoResetStep ==
  ASSUME QInv, NoReset, ~resets, Next
  PROVE  NoReset'
<1> USE DEF NoReset, QInv
<1>1. UNCHANGED caller \/ caller' # "resetWait"
  BY DEF Next, Streaming, Receive, EOS, SendAnyway, NewSegment, QueueSegment, Control,
         BeginFlush, BeginDown, EndFlush, Reset, Destroy, Finishing, EndWait, EndFlags,
         EndDown, EndHr, ResetWait, Join, Queueing, Enter, Terminate, Flush, PopSample, PopSend,
         PopPacket, Drained, NothingToDo, Wait, Send, Deliver, Record, TakePacket
<1>2. CASE UNCHANGED carriers
  BY <1>1, <1>2 DEF carriers
<1>3. CASE (Streaming \/ Control) /\ ~UNCHANGED carriers
  <2>1. PICK s \in Seq(Entries) : Adds(s)
    BY <1>3, Added
  <2>2. /\ Len(list \o s) = Len(list) + Len(s)
        /\ \A i \in 1 .. Len(list) + Len(s) :
             (list \o s)[i] = IF i <= Len(list) THEN list[i] ELSE s[i - Len(list)]
    BY ConcatProperties DEF TypeCarriers
  <2>3. Len(list) \in Nat /\ Len(s) \in Nat
    BY LenProperties DEF TypeCarriers
  <2>4. \A i \in 1 .. Len(list') : list'[i].kind # "RESET"
    <3> SUFFICES ASSUME NEW i \in 1 .. Len(list) + Len(s) PROVE list'[i].kind # "RESET"
      BY <2>1, <2>2 DEF Adds
    <3>1. CASE i <= Len(list)
      BY <2>1, <2>2, <2>3, <3>1 DEF Adds
    <3>2. CASE i > Len(list)
      <4>1. i - Len(list) \in 1 .. Len(s) /\ list'[i] = s[i - Len(list)]
        BY <2>1, <2>2, <2>3, <3>2 DEF Adds
      <4> QED BY <2>1, <4>1 DEF Adds
    <3> QED BY <2>3, <3>1, <3>2
  <2> QED BY <1>1, <2>1, <2>4 DEF Adds
<1>4. CASE Queueing /\ ~UNCHANGED <<list, taken>>
  <2>1. /\ \/ list' = <<>> \/ UNCHANGED list
           \/ list # <<>> /\ list' = Tail(list)
           \/ list # <<>> /\ Head(list).kind = "SEG" /\ list' = Tail(Tail(list))
        /\ \/ UNCHANGED taken \/ taken' = NoPacket \/ (list # <<>> /\ taken' = Head(list))
    BY <1>4 DEF Queueing, Enter, Terminate, Flush, Free, PopSample, PopSend, PopPacket, Drained,
                Break, NothingToDo, Wait, Send, Deliver, Record, TakePacket, thread
  <2>2. ASSUME list # <<>>
        PROVE  /\ Head(list).kind # "RESET"
               /\ \A i \in 1 .. Len(Tail(list)) : Tail(list)[i].kind # "RESET"
               /\ Head(list).kind = "SEG" =>
                    \A i \in 1 .. Len(Tail(Tail(list))) : Tail(Tail(list))[i].kind # "RESET"
    <3> DEFINE t == Tail(list)
    <3>1. /\ Head(list) = list[1] /\ t \in Seq(Entries) /\ Len(t) = Len(list) - 1
          /\ \A i \in 1 .. Len(t) : t[i] = list[i + 1]
      BY <2>2, HeadTailProperties DEF TypeCarriers
    <3>2. Len(list) \in Nat \ {0}
      BY <2>2, LenProperties, EmptySeq DEF TypeCarriers
    <3>3. Head(list).kind = "SEG" => t # <<>>
      BY <2>2, ListPopped
    <3> HIDE DEF t
    <3>4. \A i \in 1 .. Len(t) : t[i].kind # "RESET"
      BY <3>1, <3>2
    <3>5. ASSUME t # <<>> PROVE \A i \in 1 .. Len(Tail(t)) : Tail(t)[i].kind # "RESET"
      <4>1. Len(Tail(t)) = Len(t) - 1 /\ \A i \in 1 .. Len(Tail(t)) : Tail(t)[i] = t[i + 1]
        BY <3>1, <3>5, HeadTailProperties
      <4> QED BY <3>1, <3>2, <3>4, <4>1
    <3> QED BY <3>1, <3>2, <3>3, <3>4, <3>5 DEF t
  <2>3. \A i \in 1 .. Len(list') : list'[i].kind # "RESET"
    <3>1. Len(<<>>) = 0
      BY EmptySeq
    <3>2. CASE list' = <<>>
      BY <3>1, <3>2
    <3>3. CASE UNCHANGED list
      BY <3>3
    <3>4. CASE list # <<>> /\ list' = Tail(list)
      BY <2>2, <3>4
    <3>5. CASE list # <<>> /\ Head(list).kind = "SEG" /\ list' = Tail(Tail(list))
      BY <2>2, <3>5
    <3> QED BY <2>1, <3>2, <3>3, <3>4, <3>5
  <2>4. taken'.kind # "RESET"
    BY <2>1, <2>2, NoPacketTyped
  <2> QED BY <1>1, <2>3, <2>4
<1>5. CASE UNCHANGED <<list, taken>>
  BY <1>1, <1>5
<1> QED BY <1>2, <1>3, <1>4, <1>5 DEF Next

\* What is dry stays so, until something is accepted when no flush is on.
LEMMA DryStep ==
  ASSUME QInv, OInv, FInv, Next, Dry
  PROVE  Dry' \/ (hr = "ok" /\ flushed' = FALSE /\ UNCHANGED <<flushing, caller>>)
<1> USE DEF Dry, flags, history, thread
<1>1. sending = <<>> /\ ~IsData(taken)
  BY DryNothing
<1>2. CASE Streaming
  <2>1. UNCHANGED <<worker, last, caller, flushing>>
    BY <1>2 DEF Streaming, Receive, EOS, SendAnyway, NewSegment, QueueSegment
  <2>2. UNCHANGED serial \/ (hr = "ok" /\ flushed' = FALSE)
    BY <1>2 DEF Streaming, Receive, Accept, EOS, SendAnyway, NewSegment, QueueSegment
  <2> QED BY <2>1, <2>2
<1>3. CASE Control
  <2>1. UNCHANGED <<worker, last, serial>>
    BY <1>3 DEF Control, BeginFlush, BeginDown, EndFlush, Reset, Destroy, Finishing, EndWait,
                EndFlags, EndDown, EndHr, ResetWait, Join
  <2> QED BY <2>1
<1>4. CASE Enter \/ Terminate \/ Flush \/ PopSend \/ NothingToDo \/ Wait
  BY <1>4 DEF Enter, Terminate, Flush, Free, PopSend, NothingToDo, Wait, Sleep
<1>5. CASE PopSample \/ PopPacket \/ Drained
  BY <1>5 DEF PopSample, PopPacket, Drained, Break
<1>6. CASE Send \/ Deliver \/ Record
  BY <1>1, <1>6 DEF Send, Sendable, Deliver, Record, Goto
<1>7. CASE TakePacket
  BY <1>1, <1>7 DEF TakePacket, Goto, IsData
<1> QED BY <1>2, <1>3, <1>4, <1>5, <1>6, <1>7 DEF Next, Queueing

\* Where nothing is left, nothing was left before, unless the thread has just flushed.
LEMMA DryBefore ==
  ASSUME QInv, FInv, Next, ~Flush,
         flushed' \/ (flushing /\ complete)' \/ caller' \in {"endFlags", "endDown", "endHr"}
  PROVE  Dry
<1> USE DEF FInv, flags, thread, history
<1>1. CASE Streaming
  <2>1. UNCHANGED <<flushing, complete, caller>> /\ (flushed' => flushed)
    BY <1>1 DEF Streaming, Receive, Accept, EOS, SendAnyway, NewSegment, QueueSegment
  <2> QED BY <2>1 DEF DriedUp
<1>2. CASE BeginFlush
  <2>1. /\ caller' \notin {"endFlags", "endDown", "endHr"} /\ UNCHANGED flushed
        /\ complete' = FALSE \/ flushed
    BY <1>2 DEF BeginFlush, StartFlush
  <2> QED BY <2>1 DEF DriedUp
<1>3. CASE EndWait
  BY <1>3 DEF EndWait, Flushes, DriedUp
<1>4. CASE EndFlags \/ EndDown
  BY <1>4 DEF EndFlags, EndDown, DriedUp
<1>5. CASE BeginDown \/ EndFlush \/ Reset \/ Destroy \/ EndHr \/ ResetWait \/ Join
  <2>1. /\ caller' \notin {"endFlags", "endDown", "endHr"} /\ UNCHANGED flushed
        /\ (flushing' /\ complete' => flushing /\ complete)
    BY <1>5 DEF BeginDown, EndFlush, Reset, Destroy, EndHr, ResetWait, Join
  <2> QED BY <2>1 DEF DriedUp
<1>6. CASE Queueing
  <2>1. UNCHANGED <<caller, flushed, flushing, complete>>
    BY <1>6 DEF Queueing, Enter, Terminate, PopSample, PopSend, PopPacket, Drained, NothingToDo,
                Wait, Send, Deliver, Record, TakePacket, NoReset
  <2> QED BY <2>1 DEF DriedUp
<1> QED BY <1>1, <1>2, <1>3, <1>4, <1>5, <1>6 DEF Next, Control, Finishing

LEMMA DriedUpStep ==
  ASSUME QInv, OInv, FInv, Next
  PROVE  DriedUp'
<1>1. CASE Flush
  <2>1. Dry'
    BY <1>1 DEF Flush, Free, Sleep, Dry
  <2> QED BY <2>1 DEF DriedUp
<1>2. CASE ~Flush
  <2> SUFFICES ASSUME flushed' \/ (flushing /\ complete)'
                      \/ caller' \in {"endFlags", "endDown", "endHr"}
               PROVE  Dry'
    BY DEF DriedUp
  <2>1. Dry
    BY <1>2, DryBefore
  <2>2. hr = "ok" => ~flushing /\ caller \notin {"endFlags", "endDown", "endHr"}
    BY DEF FInv, Flushes
  <2> QED BY <2>1, <2>2, DryStep
<1> QED BY <1>1, <1>2
LEMMA FlushesStep ==
  ASSUME QInv, FInv, Next
  PROVE  Flushes'
<1> USE DEF FInv, Flushes, flags, history, thread, config
<1>0. /\ flushing \in BOOLEAN /\ flushed \in BOOLEAN /\ opt \in BOOLEAN
      /\ downFlushing \in BOOLEAN
  BY DEF QInv, TypeFlags, TypeConfig
<1>1. CASE Streaming
  <2>1. UNCHANGED <<flushing, caller, hr, opt, downFlushing>> /\ (flushed' => flushed)
    BY <1>1 DEF Streaming, Receive, Accept, EOS, SendAnyway, NewSegment, QueueSegment
  <2> QED BY <2>1
<1>2. CASE BeginFlush
  <2>1. /\ caller = "idle" /\ ~flushing /\ flushing' = TRUE /\ hr' # "ok"
        /\ UNCHANGED <<opt, flushed, downFlushing>>
        /\ caller' = "idle" \/ (caller' = "beginDown" /\ ~(opt /\ flushed))
    BY <1>2 DEF BeginFlush, Refuse
  <2> QED BY <2>1
<1>3. CASE BeginDown
  BY <1>3 DEF BeginDown
<1>4. CASE EndFlush
  BY <1>0, <1>4 DEF EndFlush, AcceptAgain
<1>5. CASE EndWait \/ EndFlags
  BY <1>5 DEF EndWait, EndFlags
<1>6. CASE EndDown \/ EndHr
  BY <1>6 DEF EndDown, EndHr, AcceptAgain
<1>7. CASE Reset \/ ResetWait \/ Join \/ Destroy
  BY <1>7 DEF Reset, ResetWait, Join, Destroy
<1>8. CASE Queueing
  <2>1. /\ UNCHANGED <<flushing, flushed, caller, opt, downFlushing>>
        /\ hr # "ok" => hr' # "ok"
    BY <1>8 DEF Queueing, Enter, Terminate, Flush, PopSample, PopSend, PopPacket, Drained,
                NothingToDo, Wait, Send, Deliver, Record, TakePacket, NoReset
  <2> QED BY <2>1
<1> QED BY <1>1, <1>2, <1>3, <1>4, <1>5, <1>6, <1>7, <1>8 DEF Next, Control, Finishing

LEMMA EndsStep ==
  ASSUME QInv, FInv, Next
  PROVE  Ends'
<1> USE DEF FInv, Ends, flags, history, thread
<1>1. CASE Streaming
  <2>1. stream = "segment" \/ ~terminate
    BY <1>1 DEF Streaming, Receive, EOS, SendAnyway, NewSegment, QueueSegment, MayCall
  <2>2. ~terminate /\ UNCHANGED <<terminate, worker, caller>>
    BY <1>1, <2>1 DEF Streaming, Receive, EOS, SendAnyway, NewSegment, QueueSegment
  <2> QED BY <2>2
<1>2. CASE BeginFlush \/ BeginDown \/ EndFlush \/ Reset \/ EndWait \/ EndFlags \/ EndDown
           \/ EndHr \/ ResetWait
  <2>1. ~terminate /\ worker # "none" /\ UNCHANGED <<terminate, worker>>
        /\ caller' # "destroyed"
    BY <1>2 DEF BeginFlush, BeginDown, EndFlush, Reset, EndWait, EndFlags, EndDown, EndHr,
                ResetWait
  <2> QED BY <2>1
<1>3. CASE Destroy \/ Join
  BY <1>3 DEF Destroy, Join
<1>4. CASE Terminate
  BY <1>4 DEF Terminate, Free
<1>5. CASE Queueing /\ ~Terminate
  <2>1. worker # "none" /\ worker' # "none" /\ UNCHANGED <<terminate, stream, caller>>
    BY <1>5 DEF Queueing, Enter, Flush, PopSample, PopSend, PopPacket, Drained, Popping, Break,
                NothingToDo, Sleep, Wait, Send, Deliver, Record, TakePacket, Goto
  <2> QED BY <2>1
<1> QED BY <1>1, <1>2, <1>3, <1>4, <1>5 DEF Next, Control, Finishing

LEMMA ErrorsStep ==
  ASSUME QInv, OInv, FInv, Next
  PROVE  Errors'
<1> USE DEF FInv, Errors, flags, history, thread
<1>0. skipped \in BOOLEAN
  BY DEF QInv, TypeFlags
<1>1. CASE Streaming
  <2>1. UNCHANGED <<flushing, terminate, caller, hr, worker, result, refused, skipped>>
    BY <1>1 DEF Streaming, Receive, EOS, SendAnyway, NewSegment, QueueSegment
  <2> QED BY <2>1
<1>2. CASE BeginFlush
  <2>1. /\ flushing' = TRUE /\ (hr' = "refused" => hr = "refused")
        /\ hr' = IF hr = "ok" THEN "false" ELSE hr
        /\ UNCHANGED <<terminate, worker, result, refused, skipped>>
    BY <1>2 DEF BeginFlush, Refuse
  <2> QED BY <1>2, <2>1 DEF BeginFlush, Refuse
<1>3. CASE EndFlush /\ opt /\ flushed
  <2>1. worker # "record" /\ hr' = "ok" /\ skipped' = FALSE /\ UNCHANGED worker
    BY <1>3 DEF EndFlush, AcceptAgain, DriedUp, Dry
  <2> QED BY <2>1
<1>4. CASE EndFlush /\ ~(opt /\ flushed)
  <2>1. /\ UNCHANGED <<flushing, terminate, hr, worker, result, refused, skipped>>
        /\ caller = "idle"
    BY <1>4 DEF EndFlush
  <2> QED BY <2>1
<1>5. CASE EndFlags
  <2>1. /\ worker # "record" /\ caller' = "endDown"
        /\ UNCHANGED <<terminate, hr, worker, result, refused, skipped>>
    BY <1>5 DEF EndFlags, DriedUp, Dry
  <2> QED BY <2>1
<1>6. CASE EndHr
  <2>1. worker # "record" /\ hr' = "ok" /\ skipped' = FALSE /\ UNCHANGED worker
    BY <1>6 DEF EndHr, AcceptAgain, DriedUp, Dry
  <2> QED BY <2>1
<1>7. CASE BeginDown \/ EndWait \/ EndDown \/ Reset \/ ResetWait
  <2>1. /\ UNCHANGED <<flushing, terminate, hr, worker, result, refused, skipped>>
        /\ \/ caller \notin {"endDown", "endHr", "join", "destroyed"}
           \/ caller' \in {"endDown", "endHr", "join", "destroyed"}
    BY <1>7 DEF BeginDown, EndWait, EndDown, Reset, ResetWait
  <2> QED BY <2>1
<1>8. CASE Destroy \/ Join
  BY <1>8 DEF Destroy, Join
<1>9. CASE Enter \/ PopSample \/ PopSend \/ PopPacket \/ Drained \/ NothingToDo \/ Wait
  <2>1. /\ UNCHANGED <<flushing, terminate, caller, hr, result, refused, skipped>>
        /\ worker' # "record"
    BY <1>9 DEF Enter, PopSample, PopSend, PopPacket, Drained, Popping, Break, NothingToDo, Sleep,
                Wait
  <2> QED BY <2>1
<1>10. CASE Terminate \/ Flush
  <2>1. /\ UNCHANGED <<flushing, terminate, caller, hr, result, refused>>
        /\ worker' # "record" /\ (terminate \/ flushing)
    BY <1>10 DEF Terminate, Flush, Sleep
  <2>2. terminate \/ hr # "ok"
    BY <2>1 DEF Flushes
  <2>3. hr \in {"ok", "false", "refused"}
    BY DEF QInv, TypePlaces
  <2> QED BY <2>1, <2>2, <2>3
<1>11. CASE Send
  <2>1. /\ UNCHANGED <<flushing, terminate, caller, hr, result, refused>>
        /\ worker' # "record"
        /\ skipped' => skipped \/ hr # "ok"
    BY <1>0, <1>11 DEF Send, Sendable, Goto
  <2>2. hr \in {"ok", "false", "refused"}
    BY DEF QInv, TypePlaces
  <2> QED BY <2>1, <2>2
<1>12. CASE Deliver
  <2>1. UNCHANGED <<flushing, terminate, caller, hr, skipped>>
    BY <1>12 DEF Deliver
  <2>2. \/ result' = "ok" /\ UNCHANGED refused
        \/ result' = "refused" /\ refused' = TRUE
        \/ result' = "false" /\ downFlushing /\ UNCHANGED refused
    BY <1>12 DEF Deliver
  <2>3. caller # "endDown"
    BY <1>12 DEF Deliver, DriedUp, Dry
  <2>4. downFlushing => flushing
    BY <2>3 DEF Flushes
  <2> QED BY <2>1, <2>2, <2>4
<1>13. CASE Record
  <2>1. /\ UNCHANGED <<flushing, terminate, caller, result, refused, skipped>>
        /\ worker = "record" /\ worker' = "packet"
        /\ hr' = IF hr = "ok" THEN result ELSE hr
    BY <1>13 DEF Record, Goto
  <2> QED BY <2>1
<1>14. CASE TakePacket
  <2>1. /\ UNCHANGED <<flushing, terminate, caller, hr, result, refused>>
        /\ worker' = "top"
        /\ skipped' => skipped \/ hr # "ok"
    BY <1>0, <1>14 DEF TakePacket, Goto, NoReset
  <2>2. hr \in {"ok", "false", "refused"}
    BY DEF QInv, TypePlaces
  <2> QED BY <2>1, <2>2
<1> QED BY <1>1, <1>2, <1>3, <1>4, <1>5, <1>6, <1>7, <1>8, <1>9, <1>10, <1>11, <1>12, <1>13,
           <1>14 DEF Next, Control, Finishing, Queueing

LEMMA FlushInvariant == Spec => [](QInv /\ OInv /\ (~resets => FInv))
<1> DEFINE I == QInv /\ OInv /\ (~resets => FInv)
<1>1. Init => I
  BY QueueInit, OrderInit, FlushInit
<1>2. I /\ [Next]_vars => I'
  <2> SUFFICES ASSUME I, [Next]_vars PROVE I'
    OBVIOUS
  <2>1. QInv' /\ OInv'
    BY QueueStep, OrderStep
  <2>2. ASSUME Next, ~resets' PROVE FInv'
    <3>1. UNCHANGED config
      BY <2>2 DEF Next, Streaming, Receive, EOS, SendAnyway, NewSegment, QueueSegment, Control,
                  BeginFlush, BeginDown, EndFlush, Reset, Destroy, Finishing, EndWait, EndFlags,
                  EndDown, EndHr, ResetWait, Join, Queueing, Enter, Terminate, Flush, PopSample,
                  PopSend, PopPacket, Drained, NothingToDo, Wait, Send, Deliver, Record,
                  TakePacket
    <3>2. ~resets /\ FInv
      BY <2>2, <3>1 DEF config
    <3>3. NoReset'
      BY <2>2, <3>2, NoResetStep DEF FInv
    <3> QED BY <2>2, <3>2, <3>3, DriedUpStep, FlushesStep, EndsStep, ErrorsStep DEF FInv
  <2>3. ASSUME UNCHANGED vars, ~resets' PROVE FInv'
    BY <2>3 DEF FInv, NoReset, Flushes, DriedUp, Dry, Ends, Errors, vars, config, flags, thread,
                history
  <2> QED BY <2>1, <2>2, <2>3
<1> QED BY <1>1, <1>2, PTL DEF Spec

\* When EndFlush goes on nothing from before the flush is queued, batched or on its
\* way, and nothing is sent while the queue is taken to be flushed.
THEOREM FlushesComplete == Spec => []FlushedAll
<1>1. QInv /\ OInv /\ (~resets => FInv) => FlushedAll
  BY DryNothing DEF FInv, DriedUp, Dry, Ends, FlushedAll
<1> QED BY <1>1, FlushInvariant, PTL

\* Nothing is released unsent, but after a refusal, in a flush, or at the end.
THEOREM LossesExplained == Spec => []NothingLost
<1>1. QInv /\ OInv /\ (~resets => FInv) => NothingLost
  BY DEF FInv, Errors, NothingLost
<1> QED BY <1>1, FlushInvariant, PTL
=============================================================================
