--------------------------- MODULE ServerPipeProofs ---------------------------
(***************************************************************************)
(* What holds of the transfer of a file for every number of workers, size  *)
(* of the buffer, length of the file and set of failing calls.             *)
(*                                                                         *)
(* The argument is about who owns the request.  A read that was started is *)
(* in one place: outstanding, reported in the port, or taken by a worker   *)
(* (OneRead); so is a push (OnePush); and at most one worker carries the   *)
(* request on, by reading, pushing or shutting down (OneActor).  What a    *)
(* worker may rely on after it left the lock of the request follows from   *)
(* what is then not under way (ActorsKnow), and what the flags say, from   *)
(* what is (TokensKnow).                                                   *)
(***************************************************************************)
EXTENDS ServerPipe, TLAPS

\* A packet of key k is in the sequence; at most one is.
Has(s, k)  == \E i \in 1 .. Len(s) : s[i].key = k
Once(s, k) == \A i, j \in 1 .. Len(s) : s[i].key = k /\ s[j].key = k => i = j

\* Some worker is at the step.
At(step) == \E w \in Workers : pc[w] = step

\* The steps that carry the request on.
Acting == {"IoFileRep", "read", "push", "shutdown", "shutdownLeave"}

\* A read, or a push, is outstanding or not yet taken note of.
ReadOut == reading \/ Has(port, "IoFile") \/ Has(port, "failed") \/ At("IoFile")
PushOut == pushing \/ Has(port, "IoPipe") \/ At("IoPipe")

\* HandleSReq is still to come; the request is being transferred.
Unstarted == Has(port, "IoFileRep") \/ At("IoFileRep")
Running == ReadOut \/ PushOut \/ At("read") \/ At("push") \/ At("shutdownLeave")

\* A read is in one place, and there is one at most.
OneRead ==
  /\ Once(port, "IoFile") /\ Once(port, "failed")
  /\ reading => ~Has(port, "IoFile") /\ ~Has(port, "failed") /\ ~At("IoFile")
  /\ Has(port, "IoFile") => ~Has(port, "failed") /\ ~At("IoFile")
  /\ Has(port, "failed") => ~At("IoFile")

\* A push is in one place, and there is one at most.
OnePush ==
  /\ Once(port, "IoPipe")
  /\ pushing => ~Has(port, "IoPipe") /\ ~At("IoPipe")
  /\ Has(port, "IoPipe") => ~At("IoPipe")

\* One worker at most carries the request on, or handles a completion of one kind.
OneActor ==
  /\ Once(port, "IoFileRep")
  /\ Has(port, "IoFileRep") => \A w \in Workers : pc[w] \notin Acting
  /\ \A v, w \in Workers : v # w =>
       /\ ~(pc[v] \in Acting /\ pc[w] \in Acting)
       /\ ~(pc[v] = "IoFile" /\ pc[w] = "IoFile")
       /\ ~(pc[v] = "IoPipe" /\ pc[w] = "IoPipe")

\* What holds while a worker is about to carry the request on, whatever the
\* other workers do meanwhile.
ActorsKnow ==
  /\ Unstarted => ~ReadOut /\ ~PushOut /\ req.status = "ok"
  /\ At("read") => /\ ~ReadOut /\ req.status = "ok"
                   /\ ~req.bBuf /\ ~req.bReadOutstanding /\ ~req.bReadsDone
  /\ At("push") => /\ ~ReadOut /\ ~PushOut /\ req.status = "ok"
                   /\ ~req.bReadOutstanding /\ ~req.bPushOutstanding
                   /\ req.bNullPush \/ req.bBuf
  /\ At("shutdown") => ~ReadOut /\ ~PushOut
  /\ At("shutdownLeave") => /\ ~ReadOut /\ "readNow" \in faults
                            /\ req.bReadOutstanding /\ ~req.bReadsDone /\ req.status = "bad"

\* What the flags say while a read or a push is under way.
TokensKnow ==
  /\ ReadOut => /\ req.bReadOutstanding /\ ~req.bBuf /\ ~req.bReadsDone
                /\ req.status = "ok"
  /\ PushOut => req.bPushOutstanding
  /\ Running => /\ req.bNullPush => req.bLastDataPushIssued
                /\ req.bLastDataPushIssued => req.bReadsDone
                /\ req.status = "ok" \/ At("shutdownLeave")
  /\ Has(port, "failed") => MayForget
  /\ req.status = "ok" /\ ~Unstarted /\ ~MayForget =>
       /\ req.bReadOutstanding => ReadOut
       /\ req.bPushOutstanding => PushOut

\* Nothing refers to a request that was freed, unless its ReadFile failed at once:
\* then a push may still be under way.
Over ==
  /\ At("leave") => ~req.alive
  /\ ~req.alive =>
       /\ ~ReadOut /\ ~Unstarted /\ \A k \in Acting : ~At(k)
       /\ PushOut => req.bPushOutstanding
       /\ \/ "readNow" \in faults
          \/ ~PushOut /\ \A w \in Workers : pc[w] = "wait"

\* The number of bytes that was reported is that of the bytes in the buffer.
DataKnown ==
  /\ \A i \in 1 .. Len(port) : port[i].key = "IoFile" => port[i].n = Len(buf)
  /\ \A w \in Workers : pc[w] = "IoFile" => got[w] = Len(buf)
  /\ req.bBuf => req.cbRead = Len(buf)

\* The inductive invariant.
PipeInv == /\ OneRead /\ OnePush /\ OneActor /\ Over
           /\ req.alive => ActorsKnow /\ TokensKnow /\ DataKnown

\* Every file is shorter than 2^32 bytes, so that OVERLAPPED.Offset does not wrap.
NoWrap == \A s \in FileSizes : s < OffsetLimit

\* The buffer holds the bytes that follow what was pushed, from a whole block on.
Block == buf = BytesAt(Len(stream)) /\ Len(stream) % BufSize = 0

\* The file consists of whole blocks: its last read delivers nothing.
LastIsEmpty == size % BufSize = 0

\* What has been pushed of the file, and ended, during a transfer.
SentKnown ==
  /\ req.bBuf => /\ Block /\ req.offset = Len(stream) + Len(buf)
                 /\ req.bReadsDone \/ Len(buf) = BufSize
  /\ req.bReadsDone => Len(stream) = size \/ (req.bBuf /\ Len(stream) + Len(buf) = size)
  /\ ~req.bNullPush => ends = 0 \/ (LastIsEmpty /\ req.bReadsDone /\ ~req.bBuf)
  /\ req.bNullPush => /\ Len(stream) = size
                      /\ At("push") => ends = 0 \/ LastIsEmpty
                      /\ PushOut => ends = 1 \/ LastIsEmpty

\* The bytes pushed are a prefix of the file, and what is about to happen to the
\* call continues them.
Order ==
  /\ InOrder
  /\ req.alive =>
       /\ call = "open"
       /\ "push" \in faults \/ ~req.fCallInvalidated
       /\ Unstarted => stream = <<>> /\ ends = 0
       /\ At("read") \/ ReadOut => req.offset = Len(stream) /\ Len(stream) % BufSize = 0
       /\ Has(port, "IoFile") \/ At("IoFile") => Block
       /\ Running => SentKnown
       /\ At("shutdown") /\ req.status = "ok" => req.bNullPush /\ (ends = 1 \/ LastIsEmpty)

-----------------------------------------------------------------------------
\* A packet that is appended is in the port, next to those that were.
LEMMA HasAppend ==
  ASSUME NEW s \in Seq(Packets), NEW p \in Packets, NEW k
  PROVE  /\ Has(Append(s, p), k) <=> Has(s, k) \/ p.key = k
         /\ Once(s, k) /\ (p.key = k => ~Has(s, k)) => Once(Append(s, p), k)
<1> DEFINE t == Append(s, p)
<1>1. /\ Len(t) = Len(s) + 1 /\ Len(s) \in Nat
      /\ \A i \in 1 .. Len(s) : t[i] = s[i]
      /\ t[Len(s) + 1] = p
  OBVIOUS
<1> HIDE DEF t
<1>2. Has(t, k) <=> Has(s, k) \/ p.key = k
  BY <1>1 DEF Has
<1>3. ASSUME Once(s, k), p.key = k => ~Has(s, k) PROVE Once(t, k)
  BY <1>1, <1>3 DEF Has, Once
<1> QED BY <1>2, <1>3 DEF t

\* The first packet leaves the port, and the others stay.
LEMMA HasTail ==
  ASSUME NEW s \in Seq(Packets), s # <<>>, NEW k
  PROVE  /\ Has(s, k) <=> Has(Tail(s), k) \/ Head(s).key = k
         /\ Once(s, k) => Once(Tail(s), k) /\ (Head(s).key = k => ~Has(Tail(s), k))
<1> DEFINE t == Tail(s)
<1>1. /\ Len(s) = Len(t) + 1 /\ Len(t) \in Nat
      /\ \A i \in 1 .. Len(t) : t[i] = s[i + 1]
      /\ s[1] = Head(s)
  OBVIOUS
<1> HIDE DEF t
<1>2. \A j \in 1 .. Len(s) : j = 1 \/ j - 1 \in 1 .. Len(t)
  BY <1>1
<1>3. Has(s, k) <=> Has(t, k) \/ s[1].key = k
  <2>1. ASSUME Has(s, k) PROVE Has(t, k) \/ s[1].key = k
    <3>1. PICK j \in 1 .. Len(s) : s[j].key = k
      BY <2>1 DEF Has
    <3>2. CASE j - 1 \in 1 .. Len(t)
      <4>1. t[j - 1] = s[j]
        BY <1>1, <3>2
      <4> QED BY <3>1, <3>2, <4>1 DEF Has
    <3> QED BY <1>2, <3>1, <3>2
  <2>2. ASSUME Has(t, k) PROVE Has(s, k)
    BY <1>1, <2>2 DEF Has
  <2>3. ASSUME s[1].key = k PROVE Has(s, k)
    BY <1>1, <2>3 DEF Has
  <2> QED BY <2>1, <2>2, <2>3
<1>4. ASSUME Once(s, k)
      PROVE  Once(t, k) /\ (s[1].key = k => ~Has(t, k))
  <2>1. \A i \in 1 .. Len(t) : i + 1 \in 1 .. Len(s) /\ i + 1 # 1
    BY <1>1
  <2>2. Once(t, k)
    BY <1>1, <1>4, <2>1, SMTT(30) DEF Once
  <2>3. 1 \in 1 .. Len(s)
    BY <1>1
  <2>4. s[1].key = k => ~Has(t, k)
    BY <1>1, <1>4, <2>1, <2>3 DEF Once, Has
  <2> QED BY <2>2, <2>4
<1> QED BY <1>1, <1>3, <1>4 DEF t

\* A port without a packet of any key is empty.
LEMMA HasNone ==
  ASSUME NEW s \in Seq(Packets)
  PROVE  s = <<>> <=> ~Has(s, "IoFileRep") /\ ~Has(s, "IoFile") /\ ~Has(s, "IoPipe") /\ ~Has(s, "failed")
<1>1. ASSUME s # <<>>
      PROVE  Has(s, "IoFileRep") \/ Has(s, "IoFile") \/ Has(s, "IoPipe") \/ Has(s, "failed")
  <2>1. 1 \in 1 .. Len(s)
    BY <1>1
  <2>2. s[1] \in Packets
    BY <2>1
  <2>3. s[1].key \in {"IoFileRep", "IoFile", "IoPipe", "failed"}
    BY <2>2 DEF Packets
  <2> QED BY <2>1, <2>3 DEF Has
<1>2. ASSUME s = <<>>, NEW k PROVE ~Has(s, k)
  BY <1>2 DEF Has
<1> QED BY <1>1, <1>2

-----------------------------------------------------------------------------
\* A worker that goes to a step is there, and the others stay where they are.
LEMMA Moved ==
  ASSUME pc \in [Workers -> Steps], NEW w \in Workers, NEW s \in Steps, Goto(w, s)
  PROVE  /\ pc' \in [Workers -> Steps]
         /\ pc'[w] = s
         /\ \A v \in Workers : v # w => pc'[v] = pc[v]
BY DEF Goto

\* The worker that carries the request on is the only one, and stays so or ends.
LEMMA ActorMoved ==
  ASSUME TypeOK, OneActor, NEW w \in Workers, pc[w] \in Acting,
         NEW s \in Steps \ {"IoFile", "IoPipe"}, Goto(w, s), UNCHANGED port
  PROVE  /\ \A k : (Has(port, k)' <=> Has(port, k)) /\ (Once(port, k)' <=> Once(port, k))
         /\ ~Has(port, "IoFileRep")
         /\ \A k \in Acting : (At(k) <=> k = pc[w]) /\ (At(k)' <=> k = s)
         /\ At("IoFile")' <=> At("IoFile")
         /\ At("IoPipe")' <=> At("IoPipe")
         /\ At("leave")' <=> At("leave") \/ s = "leave"
         /\ OneActor'
<1>1. /\ pc'[w] = s
      /\ \A v \in Workers : v # w => pc'[v] = pc[v]
  BY Moved DEF TypeOK
<1>2. ~Has(port, "IoFileRep") /\ \A v \in Workers : v # w => pc[v] \notin Acting
  BY DEF OneActor
<1>3. \A k : (Has(port, k)' <=> Has(port, k)) /\ (Once(port, k)' <=> Once(port, k))
  OBVIOUS
<1>4. \A k \in Acting : (At(k) <=> k = pc[w]) /\ (At(k)' <=> k = s)
  BY <1>1, <1>2 DEF At
<1>5. /\ At("IoFile")' <=> At("IoFile")
      /\ At("IoPipe")' <=> At("IoPipe")
      /\ At("leave")' <=> At("leave") \/ s = "leave"
  BY <1>1 DEF At, Acting
<1>6. OneActor'
  BY <1>1, <1>2, <1>3 DEF OneActor, Acting
<1> QED BY <1>2, <1>3, <1>4, <1>5, <1>6

\* A worker that handled a completion carries the request on only if no one else
\* does.
LEMMA CompletionMoved ==
  ASSUME TypeOK, OneActor, NEW w \in Workers, NEW key \in {"IoFile", "IoPipe"}, pc[w] = key,
         NEW s \in {"wait", "push", "shutdown"}, Goto(w, s), UNCHANGED port,
         s # "wait" => ~Has(port, "IoFileRep") /\ \A k \in Acting : ~At(k)
  PROVE  /\ \A k : (Has(port, k)' <=> Has(port, k)) /\ (Once(port, k)' <=> Once(port, k))
         /\ \A k \in Acting : At(k)' <=> At(k) \/ k = s
         /\ At(key) /\ ~At(key)'
         /\ \A k \in {"IoFile", "IoPipe"} : k # key => (At(k)' <=> At(k))
         /\ At("leave")' <=> At("leave")
         /\ OneActor'
<1>1. /\ pc'[w] = s
      /\ \A v \in Workers : v # w => pc'[v] = pc[v]
  BY Moved DEF TypeOK, Steps, Using
<1>2. \A v \in Workers : v # w => pc[v] # key
  BY DEF OneActor
<1>3. \A k : (Has(port, k)' <=> Has(port, k)) /\ (Once(port, k)' <=> Once(port, k))
  OBVIOUS
<1>4. \A k \in Acting : At(k)' <=> At(k) \/ k = s
  BY <1>1 DEF At, Acting
<1>5. At(key) /\ ~At(key)'
  <2>1. \A v \in Workers : pc'[v] # key
    BY <1>1, <1>2
  <2> QED BY <2>1 DEF At
<1>6. /\ \A k \in {"IoFile", "IoPipe"} : k # key => (At(k)' <=> At(k))
      /\ At("leave")' <=> At("leave")
  BY <1>1 DEF At
<1>7. OneActor'
  <2>1. s # "wait" => \A v \in Workers : pc[v] \notin Acting
    BY DEF At
  <2> QED BY <1>1, <1>3, <2>1 DEF OneActor, Acting
<1> QED BY <1>3, <1>4, <1>5, <1>6, <1>7

-----------------------------------------------------------------------------
\* A read delivers no more than the buffer holds.
LEMMA BytesFit ==
  ASSUME size \in Nat, NEW o \in Nat
  PROVE  /\ BytesAt(o) \in Seq(Nat)
         /\ Len(BytesAt(o)) = IF size - o < BufSize THEN IF size < o THEN 0 ELSE size - o
                              ELSE BufSize
         /\ Len(BytesAt(o)) \in 0 .. BufSize
<1> DEFINE m == IF size - o < BufSize THEN IF size < o THEN 0 ELSE size - o ELSE BufSize
<1>1. m \in 0 .. BufSize /\ m \in Nat
  BY PipeAssumption
<1> HIDE DEF m
<1>2. BytesAt(o) = [i \in 1 .. m |-> o + i]
  BY DEF BytesAt, m
<1>3. [i \in 1 .. m |-> o + i] \in Seq(Nat) /\ Len([i \in 1 .. m |-> o + i]) = m
  BY <1>1
<1> QED BY <1>1, <1>2, <1>3 DEF m

\* Pushing a block that follows a prefix of the file gives a longer prefix.
LEMMA BytesFollow ==
  ASSUME InOrder, size \in Nat, stream \in Seq(Nat), buf = BytesAt(Len(stream))
  PROVE  /\ Len(buf) \in 0 .. BufSize /\ Len(stream) + Len(buf) <= size
         /\ Len(buf) # BufSize => Len(stream) + Len(buf) = size
         /\ Len(stream \o SubSeq(buf, 1, Len(buf))) = Len(stream) + Len(buf)
         /\ stream \o SubSeq(buf, 1, Len(buf)) = [i \in 1 .. Len(stream) + Len(buf) |-> i]
         /\ SubSeq(buf, 1, Len(buf)) = <<>> <=> Len(buf) = 0
<1> DEFINE m == IF size - Len(stream) < BufSize THEN size - Len(stream) ELSE BufSize
<1>1. /\ m \in 0 .. BufSize /\ Len(stream) + m <= size
      /\ m # BufSize => Len(stream) + m = size
      /\ m = IF size - Len(stream) < BufSize
             THEN IF size < Len(stream) THEN 0 ELSE size - Len(stream) ELSE BufSize
  BY PipeAssumption DEF InOrder
<1> HIDE DEF m
<1>2. buf = [i \in 1 .. m |-> Len(stream) + i] /\ Len(buf) = m
  BY <1>1, BytesFit DEF BytesAt
<1>0. m \in Nat
  BY <1>1, PipeAssumption
<1>3. /\ Len(stream \o SubSeq(buf, 1, m)) = Len(stream) + m
      /\ stream \o SubSeq(buf, 1, m) = [i \in 1 .. Len(stream) + m |-> i]
  BY <1>0, <1>2 DEF InOrder
<1>4. SubSeq(buf, 1, m) = <<>> <=> m = 0
  BY <1>0, <1>2
<1> QED BY <1>1, <1>2, <1>3, <1>4

\* One more block after whole blocks makes whole blocks.
LEMMA WholeBlock ==
  ASSUME NEW m \in Nat, m % BufSize = 0
  PROVE  (m + BufSize) % BufSize = 0
<1> DEFINE r == (m + BufSize) % BufSize
           q == (m + BufSize) \div BufSize
           p == m \div BufSize
<1>0. BufSize \in Nat \ {0}
  BY PipeAssumption
<1>1. r \in Int /\ 0 <= r /\ r < BufSize
  BY <1>0
<1>2. q \in Int /\ m + BufSize = BufSize * q + r
  BY <1>0
<1>3. p \in Int /\ m = BufSize * p
  BY <1>0
<1> HIDE DEF p, q, r
<1>4. r = BufSize * (p + 1 - q)
  BY <1>0, <1>1, <1>2, <1>3
<1>5. p + 1 - q = 0
  <2>1. p + 1 - q <= 0
    BY <1>0, <1>1, <1>2, <1>3, <1>4
  <2>2. p + 1 - q >= 0
    BY <1>0, <1>1, <1>2, <1>3, <1>4
  <2> QED BY <1>2, <1>3, <2>1, <2>2
<1>6. r = 0
  BY <1>0, <1>4, <1>5
<1> QED BY <1>6 DEF r

\* What is known of the data depends on the file, the stream and the buffer.
LEMMA SameData ==
  ASSUME UNCHANGED <<size, stream, buf>>
  PROVE  (Block' <=> Block) /\ (InOrder' <=> InOrder) /\ (LastIsEmpty' <=> LastIsEmpty)
BY DEF Block, BytesAt, InOrder, LastIsEmpty

-----------------------------------------------------------------------------
\* Each action preserves the invariant, and Order if the offset does not wrap.
\* Read: the reader leaves, and the read is outstanding.
LEMMA ReadSafe ==
  ASSUME TypeOK, PipeInv, req.alive, NEW w \in Workers, Read(w)
  PROVE  PipeInv' /\ (NoWrap /\ Order => Order')
<1>1. pc[w] = "read" /\ UNCHANGED <<given, buf, pushing, port, sent, call, got>>
  BY DEF Read
<1>2. PICK s \in {"wait", "shutdownLeave"} :
        /\ Goto(w, s)
        /\ s = "wait" => /\ reading'
                        /\ req' = [req EXCEPT !.cbRead = 0, !.bReadOutstanding = TRUE]
        /\ s = "shutdownLeave" =>
             /\ "readNow" \in faults /\ reading' = reading
             /\ req' = [req EXCEPT !.cbRead = 0, !.bReadOutstanding = TRUE, !.status = "bad"]
  BY DEF Read
<1>3. OneRead /\ OnePush /\ OneActor /\ Over /\ ActorsKnow /\ TokensKnow /\ DataKnown
  BY DEF PipeInv
<1>4. s \in Steps \ {"IoFile", "IoPipe"} /\ pc[w] \in Acting
  BY <1>1 DEF Steps, Using, Acting
<1>5. /\ \A k : (Has(port, k)' <=> Has(port, k)) /\ (Once(port, k)' <=> Once(port, k))
      /\ ~Has(port, "IoFileRep")
      /\ \A k \in Acting : (At(k) <=> k = pc[w]) /\ (At(k)' <=> k = s)
      /\ At("IoFile")' <=> At("IoFile")
      /\ At("IoPipe")' <=> At("IoPipe")
      /\ At("leave")' <=> At("leave") \/ s = "leave"
      /\ OneActor'
  BY <1>1, <1>2, <1>3, <1>4, ActorMoved
<1>6. /\ req'.alive = req.alive /\ req'.bBuf = req.bBuf /\ req'.bReadOutstanding
      /\ req'.offset = req.offset /\ req'.fCallInvalidated = req.fCallInvalidated
      /\ req'.bPushOutstanding = req.bPushOutstanding /\ req'.bReadsDone = req.bReadsDone
      /\ req'.bLastDataPushIssued = req.bLastDataPushIssued
      /\ req'.bNullPush = req.bNullPush
      /\ req'.status = IF s = "wait" THEN req.status ELSE "bad"
  BY <1>2 DEF TypeOK
<1>7. OneRead' /\ OnePush'
  BY <1>1, <1>2, <1>3, <1>5 DEF OneRead, OnePush, ActorsKnow, ReadOut, Acting
<1>8. Over'
  BY <1>1, <1>2, <1>3, <1>5, <1>6 DEF Over
<1>9. ActorsKnow'
  BY <1>1, <1>2, <1>3, <1>5, <1>6 DEF ActorsKnow, ReadOut, PushOut, Unstarted, Acting, given
<1>10. TokensKnow'
  BY <1>1, <1>2, <1>3, <1>5, <1>6
     DEF ActorsKnow, TokensKnow, ReadOut, PushOut, Unstarted, Running, MayForget, Acting, given
<1>11. DataKnown'
  <2>1. \A v \in Workers : pc'[v] = "IoFile" => pc[v] = "IoFile"
    BY <1>2, <1>4, Moved DEF TypeOK, Steps
  <2> QED BY <1>1, <1>3, <1>5, <1>6, <2>1 DEF DataKnown, ActorsKnow, Acting
<1>12. ASSUME NoWrap, Order PROVE Order'
  <2>1. UNCHANGED <<size, stream, ends, buf, faults, call>>
    BY <1>1 DEF given, sent
  <2>2. (Block' <=> Block) /\ (InOrder' <=> InOrder) /\ (LastIsEmpty' <=> LastIsEmpty)
    BY <2>1, SameData
  <2>3. Running /\ At("read") /\ ~ReadOut /\ ~req.bBuf /\ ~req.bReadsDone /\ ~req.bNullPush
    BY <1>1, <1>3 DEF Running, At, ActorsKnow, TokensKnow
  <2>4. /\ req.offset = Len(stream) /\ Len(stream) % BufSize = 0
        /\ call = "open" /\ ("push" \in faults \/ ~req.fCallInvalidated) /\ SentKnown
    BY <1>12, <2>3 DEF Order
  <2>5. ~Has(port, "IoFile")' /\ ~At("IoFile")' /\ ~Unstarted' /\ ~At("shutdown")'
    BY <1>2, <1>5, <2>3 DEF ReadOut, Unstarted, Acting
  <2>6. SentKnown'
    BY <1>6, <2>1, <2>2, <2>3, <2>4 DEF SentKnown
  <2> QED BY <1>6, <1>12, <2>1, <2>2, <2>4, <2>5, <2>6 DEF Order
<1> QED BY <1>5, <1>7, <1>8, <1>9, <1>10, <1>11, <1>12 DEF PipeInv

\* The buffer is sent and free; the pusher goes on to read, unless all was read.
LEMMA PushDataSafe ==
  ASSUME TypeOK, PipeInv, req.alive, NEW w \in Workers, PushData(w)
  PROVE  PipeInv' /\ (NoWrap /\ Order => Order')
<1>1. pc[w] = "push" /\ ~req.bNullPush /\ UNCHANGED <<given, buf, reading, port, call, got>>
  BY DEF PushData
<1>2. PICK s \in {"wait", "read", "shutdown"}, ok \in BOOLEAN :
        /\ Goto(w, s)
        /\ ok => /\ Sent(SubSeq(buf, 1, req.cbRead)) /\ pushing'
                 /\ s = IF req.bReadsDone THEN "wait" ELSE "read"
                 /\ req' = [req EXCEPT !.bPushOutstanding = TRUE, !.status = "ok", !.bBuf = FALSE,
                                       !.bLastDataPushIssued = @ \/ req.bReadsDone]
        /\ ~ok => /\ "push" \in faults /\ UNCHANGED sent /\ pushing' = pushing
                  /\ s = "shutdown"
                  /\ req' = [req EXCEPT !.bPushOutstanding = FALSE, !.status = "bad",
                                        !.bBuf = FALSE, !.bReadsDone = TRUE,
                                        !.fCallInvalidated = TRUE]
  <2>1. ~req.bReadOutstanding
    BY <1>1 DEF PipeInv, ActorsKnow, At
  <2>2. CASE /\ Sent(SubSeq(buf, 1, req.cbRead))
             /\ req' = [req EXCEPT !.bPushOutstanding = TRUE, !.status = "ok", !.bBuf = FALSE,
                                   !.bLastDataPushIssued = @ \/ req.bReadsDone]
             /\ Goto(w, IF req.bReadsDone THEN "wait" ELSE "read")
    BY <2>2 DEF Sent
  <2>3. CASE /\ "push" \in faults
             /\ req' = [req EXCEPT !.bPushOutstanding = FALSE, !.status = "bad",
                                   !.bBuf = FALSE, !.bReadsDone = TRUE,
                                   !.fCallInvalidated = TRUE]
             /\ Goto(w, IF req.bReadOutstanding THEN "push" ELSE "shutdown")
             /\ UNCHANGED <<pushing, sent>>
    BY <2>1, <2>3
  <2> QED BY <2>2, <2>3 DEF PushData
<1>3. OneRead /\ OnePush /\ OneActor /\ Over /\ ActorsKnow /\ TokensKnow /\ DataKnown
  BY DEF PipeInv
<1>4. s \in Steps \ {"IoFile", "IoPipe"} /\ pc[w] \in Acting
  BY <1>1 DEF Steps, Using, Acting
<1>5. /\ \A k : (Has(port, k)' <=> Has(port, k)) /\ (Once(port, k)' <=> Once(port, k))
      /\ ~Has(port, "IoFileRep")
      /\ \A k \in Acting : (At(k) <=> k = pc[w]) /\ (At(k)' <=> k = s)
      /\ At("IoFile")' <=> At("IoFile")
      /\ At("IoPipe")' <=> At("IoPipe")
      /\ At("leave")' <=> At("leave") \/ s = "leave"
      /\ OneActor'
  BY <1>1, <1>2, <1>3, <1>4, ActorMoved
<1>6. /\ req'.alive = req.alive /\ ~req'.bBuf /\ req'.bReadOutstanding = req.bReadOutstanding
      /\ req'.offset = req.offset
      /\ ok => req'.fCallInvalidated = req.fCallInvalidated
      /\ req'.bNullPush = req.bNullPush /\ req'.cbRead = req.cbRead
      /\ ok => /\ req'.bPushOutstanding /\ req'.status = "ok" /\ req'.bReadsDone = req.bReadsDone
               /\ req'.bLastDataPushIssued = (req.bLastDataPushIssued \/ req.bReadsDone)
      /\ ~ok => /\ ~req'.bPushOutstanding /\ req'.status = "bad" /\ req'.bReadsDone
                /\ req'.bLastDataPushIssued = req.bLastDataPushIssued
  BY <1>2, ZenonT(40) DEF TypeOK
<1>7. OneRead' /\ OnePush'
  BY <1>1, <1>2, <1>3, <1>5 DEF OneRead, OnePush, ActorsKnow, ReadOut, PushOut, Acting
<1>8. Over'
  BY <1>1, <1>2, <1>3, <1>5, <1>6 DEF Over
<1>9. ActorsKnow'
  BY <1>1, <1>2, <1>3, <1>5, <1>6 DEF ActorsKnow, TokensKnow, ReadOut, PushOut, Unstarted, Running, Acting, given
<1>10. TokensKnow'
  <2>1. MayForget' <=> MayForget
    BY <1>1 DEF MayForget, given
  <2>2. /\ At("push") /\ ~ReadOut /\ ~PushOut /\ ~req.bReadOutstanding
        /\ req.bLastDataPushIssued => req.bReadsDone
    BY <1>1, <1>3 DEF ActorsKnow, TokensKnow, Running, At
  <2>3. ~ReadOut' /\ ~Has(port, "failed")' /\ (PushOut' <=> pushing')
    BY <1>1, <1>5, <2>2 DEF ReadOut, PushOut
  <2>4. (pushing' <=> ok) /\ ~req'.bReadOutstanding
    BY <1>2, <1>6, <2>2 DEF PushOut
  <2>5. req'.bLastDataPushIssued => req'.bReadsDone
    BY <1>6, <2>2
  <2>6. ~ok => ~Running'
    BY <1>2, <1>5, <2>3, <2>4 DEF Running, Acting
  <2> QED BY <1>1, <1>6, <2>1, <2>3, <2>4, <2>5, <2>6 DEF TokensKnow
<1>11. DataKnown'
  <2>1. \A v \in Workers : pc'[v] = "IoFile" => pc[v] = "IoFile"
    BY <1>2, <1>4, Moved DEF TypeOK, Steps
  <2> QED BY <1>1, <1>3, <1>5, <1>6, <2>1 DEF DataKnown, ActorsKnow, Acting
<1>12. ASSUME NoWrap, Order PROVE Order'
  <2>1. UNCHANGED <<size, buf, faults, call>>
    BY <1>1 DEF given
  <2>2. /\ At("push") /\ Running /\ req.bBuf /\ ~ReadOut
        /\ req.cbRead = Len(buf)
    BY <1>1, <1>3 DEF At, ActorsKnow, Running, DataKnown
  <2>3. /\ Block /\ req.offset = Len(stream) + Len(buf)
        /\ req.bReadsDone \/ Len(buf) = BufSize
        /\ req.bReadsDone => Len(stream) + Len(buf) = size
        /\ ends = 0 /\ call = "open" /\ InOrder
        /\ "push" \in faults \/ ~req.fCallInvalidated
    <3>1. SentKnown
      BY <1>12, <2>2 DEF Order
    <3>2. stream \in Seq(Nat) /\ size \in Nat /\ InOrder
      BY <1>12, PipeAssumption DEF TypeOK, Order
    <3>3. Block
      BY <2>2, <3>1 DEF SentKnown
    <3>4. Len(buf) \in Nat /\ Len(stream) \in Nat /\ Len(stream) + Len(buf) <= size
      BY <3>2, <3>3, BytesFollow DEF Block
    <3> QED BY <1>1, <1>12, <2>2, <3>1, <3>2, <3>3, <3>4 DEF SentKnown, Order
  <2>4. ~ReadOut' /\ ~Unstarted' /\ (At("shutdown")' <=> ~ok)
    BY <1>1, <1>2, <1>5, <2>2 DEF ReadOut, Unstarted, Acting
  <2>5. ~Has(port, "IoFile")' /\ ~At("IoFile")'
    BY <2>4 DEF ReadOut
  <2>6. CASE ok
    <3>1. stream \in Seq(Nat) /\ size \in Nat
      BY PipeAssumption DEF TypeOK
    <3>2. /\ Len(buf) \in 0 .. BufSize /\ Len(stream) + Len(buf) <= size
          /\ stream' = stream \o SubSeq(buf, 1, Len(buf))
          /\ ends' = IF Len(buf) = 0 THEN 1 ELSE 0
      BY <1>2, <2>2, <2>3, <2>6, <3>1, BytesFollow DEF Block, Sent
    <3>3. InOrder' /\ Len(stream') = Len(stream) + Len(buf)
      BY <2>1, <2>3, <3>1, <3>2, BytesFollow DEF Block, InOrder
    <3>4. LastIsEmpty' <=> LastIsEmpty
      BY <2>1 DEF LastIsEmpty
    <3>5. Len(buf) = 0 => LastIsEmpty /\ req.bReadsDone
      BY <2>3, <3>1, PipeAssumption DEF Block, LastIsEmpty
    <3>6. SentKnown'
      BY <1>1, <1>6, <2>1, <2>3, <2>6, <3>2, <3>3, <3>4, <3>5 DEF SentKnown
    <3>7. At("read")' => ~req.bReadsDone
      BY <1>2, <1>5, <2>6 DEF Acting
    <3>8. ~req.bReadsDone => Len(stream') % BufSize = 0
      BY <2>3, <3>1, <3>3, WholeBlock DEF Block
    <3> QED BY <1>6, <2>1, <2>3, <2>4, <2>5, <2>6, <3>3, <3>6, <3>7, <3>8 DEF Order
  <2>7. CASE ~ok
    <3>1. UNCHANGED <<stream, ends>> /\ "push" \in faults
      BY <1>2, <2>7 DEF sent
    <3>2. InOrder'
      BY <2>1, <2>3, <3>1 DEF InOrder
    <3>3. ~PushOut' /\ ~At("read")' /\ ~At("push")' /\ ~At("shutdownLeave")'
      BY <1>1, <1>2, <1>3, <1>5, <2>7 DEF ActorsKnow, PushOut, At, Acting
    <3> QED BY <1>6, <2>1, <2>3, <2>4, <2>5, <2>7, <3>1, <3>2, <3>3 DEF Order, Running
  <2> QED BY <2>6, <2>7
<1> QED BY <1>5, <1>7, <1>8, <1>9, <1>10, <1>11, <1>12 DEF PipeInv

\* The end is sent after all of the data.
LEMMA PushNullSafe ==
  ASSUME TypeOK, PipeInv, req.alive, NEW w \in Workers, PushNull(w)
  PROVE  PipeInv' /\ (NoWrap /\ Order => Order')
<1>1. pc[w] = "push" /\ req.bNullPush /\ UNCHANGED <<given, buf, reading, port, call, got>>
  BY DEF PushNull
<1>2. PICK s \in {"wait", "shutdown"} :
        /\ Goto(w, s)
        /\ s = "wait" =>
             /\ Sent(<<>>) /\ pushing'
             /\ req' = [req EXCEPT !.bPushOutstanding = TRUE, !.status = "ok"]
        /\ s = "shutdown" =>
             /\ "push" \in faults /\ UNCHANGED sent /\ pushing' = pushing
             /\ req' = [req EXCEPT !.bPushOutstanding = TRUE, !.status = "bad",
                                   !.fCallInvalidated = TRUE]
  BY DEF PushNull, Sent
<1>3. OneRead /\ OnePush /\ OneActor /\ Over /\ ActorsKnow /\ TokensKnow /\ DataKnown
  BY DEF PipeInv
<1>4. s \in Steps \ {"IoFile", "IoPipe"} /\ pc[w] \in Acting
  BY <1>1 DEF Steps, Using, Acting
<1>5. /\ \A k : (Has(port, k)' <=> Has(port, k)) /\ (Once(port, k)' <=> Once(port, k))
      /\ ~Has(port, "IoFileRep")
      /\ \A k \in Acting : (At(k) <=> k = pc[w]) /\ (At(k)' <=> k = s)
      /\ At("IoFile")' <=> At("IoFile")
      /\ At("IoPipe")' <=> At("IoPipe")
      /\ At("leave")' <=> At("leave") \/ s = "leave"
      /\ OneActor'
  BY <1>1, <1>2, <1>3, <1>4, ActorMoved
<1>6. /\ req'.alive = req.alive /\ req'.bBuf = req.bBuf /\ req'.bReadOutstanding = req.bReadOutstanding
      /\ req'.offset = req.offset
      /\ s = "wait" => req'.fCallInvalidated = req.fCallInvalidated
      /\ req'.bNullPush = req.bNullPush /\ req'.cbRead = req.cbRead /\ req'.bPushOutstanding
      /\ req'.bReadsDone = req.bReadsDone /\ req'.bLastDataPushIssued = req.bLastDataPushIssued
      /\ req'.status = IF s = "wait" THEN "ok" ELSE "bad"
  BY <1>2, ZenonT(40) DEF TypeOK
<1>7. OneRead' /\ OnePush'
  BY <1>1, <1>2, <1>3, <1>5 DEF OneRead, OnePush, ActorsKnow, ReadOut, PushOut, Acting
<1>8. Over'
  BY <1>1, <1>2, <1>3, <1>5, <1>6 DEF Over
<1>9. ActorsKnow'
  BY <1>1, <1>2, <1>3, <1>5, <1>6 DEF ActorsKnow, TokensKnow, ReadOut, PushOut, Unstarted, Running, Acting, given
<1>10. TokensKnow'
  BY <1>1, <1>2, <1>3, <1>5, <1>6
     DEF ActorsKnow, TokensKnow, ReadOut, PushOut, Unstarted, Running, MayForget, Acting, given
<1>11. DataKnown'
  <2>1. \A v \in Workers : pc'[v] = "IoFile" => pc[v] = "IoFile"
    BY <1>2, <1>4, Moved DEF TypeOK, Steps
  <2> QED BY <1>1, <1>3, <1>5, <1>6, <2>1 DEF DataKnown, ActorsKnow, Acting
<1>12. ASSUME NoWrap, Order PROVE Order'
  <2>1. /\ UNCHANGED <<size, stream, buf, faults, call>>
        /\ s = "wait" => ends' = ends + 1
    <3>1. stream \o <<>> = stream
      BY DEF TypeOK
    <3> QED BY <1>1, <1>2, <3>1 DEF given, sent, Sent
  <2>2. (Block' <=> Block) /\ (InOrder' <=> InOrder) /\ (LastIsEmpty' <=> LastIsEmpty)
    BY <2>1, SameData
  <2>3. At("push") /\ Running /\ ~ReadOut /\ ~PushOut
    BY <1>1, <1>3 DEF At, ActorsKnow, Running
  <2>4. /\ SentKnown /\ call = "open" /\ InOrder
        /\ "push" \in faults \/ ~req.fCallInvalidated
    BY <1>12, <2>3 DEF Order
  <2>5. /\ ~ReadOut' /\ ~Unstarted' /\ ~At("read")' /\ ~At("push")' /\ ~At("shutdownLeave")'
        /\ At("shutdown")' <=> s = "shutdown"
    BY <1>1, <1>2, <1>5, <2>3 DEF ReadOut, Unstarted, Acting
  <2>6. ~Has(port, "IoFile")' /\ ~At("IoFile")'
    BY <2>5 DEF ReadOut
  <2>7. CASE s = "wait"
    <3>1. ends' = 1 \/ LastIsEmpty
      BY <1>1, <2>1, <2>3, <2>4, <2>7 DEF SentKnown, TypeOK
    <3>2. SentKnown'
      BY <1>1, <1>6, <2>1, <2>2, <2>4, <2>5, <3>1 DEF SentKnown
    <3> QED BY <1>6, <2>1, <2>2, <2>4, <2>5, <2>6, <2>7, <3>2 DEF Order
  <2>8. CASE s = "shutdown"
    <3>1. ~PushOut' /\ "push" \in faults
      BY <1>1, <1>2, <1>5, <2>3, <2>8 DEF PushOut
    <3> QED BY <1>6, <2>1, <2>2, <2>4, <2>5, <2>6, <2>8, <3>1 DEF Order, Running
  <2> QED BY <2>7, <2>8
<1> QED BY <1>5, <1>7, <1>8, <1>9, <1>10, <1>11, <1>12 DEF PipeInv

\* The flags, which had any value, are set before any I/O is started.
LEMMA HandleSReqSafe ==
  ASSUME TypeOK, PipeInv, req.alive, NEW w \in Workers, HandleSReq(w)
  PROVE  PipeInv' /\ (NoWrap /\ Order => Order')
<1>1. pc[w] = "IoFileRep" /\ UNCHANGED <<given, buf, reading, pushing, port, sent, call, got>>
  BY DEF HandleSReq, io
<1>2. PICK s \in {"read", "shutdown", "wait"} :
        /\ Goto(w, s)
        /\ s = "read" =>
             req' = [req EXCEPT !.offset = 0, !.bLastDataPushIssued = FALSE,
                                !.bReadsDone = FALSE, !.bNullPush = FALSE,
                                !.bReadOutstanding = FALSE, !.bPushOutstanding = FALSE,
                                !.bBuf = FALSE]
        /\ s = "shutdown" => req' = [req EXCEPT !.status = "bad"]
        /\ s = "wait" => req' = req /\ "handle" \in faults
  BY DEF HandleSReq
<1>3. OneRead /\ OnePush /\ OneActor /\ Over /\ ActorsKnow /\ TokensKnow /\ DataKnown
  BY DEF PipeInv
<1>4. s \in Steps \ {"IoFile", "IoPipe"} /\ pc[w] \in Acting
  BY <1>1 DEF Steps, Using, Acting
<1>5. /\ \A k : (Has(port, k)' <=> Has(port, k)) /\ (Once(port, k)' <=> Once(port, k))
      /\ ~Has(port, "IoFileRep")
      /\ \A k \in Acting : (At(k) <=> k = pc[w]) /\ (At(k)' <=> k = s)
      /\ At("IoFile")' <=> At("IoFile")
      /\ At("IoPipe")' <=> At("IoPipe")
      /\ At("leave")' <=> At("leave") \/ s = "leave"
      /\ OneActor'
  BY <1>1, <1>2, <1>3, <1>4, ActorMoved
<1>6. /\ req'.alive = req.alive /\ req'.cbRead = req.cbRead
      /\ req'.fCallInvalidated = req.fCallInvalidated
      /\ s = "read" => req'.offset = 0
      /\ s = "read" => /\ ~req'.bBuf /\ ~req'.bReadOutstanding /\ ~req'.bPushOutstanding
                       /\ ~req'.bReadsDone /\ ~req'.bLastDataPushIssued /\ ~req'.bNullPush
                       /\ req'.status = req.status
      /\ s = "shutdown" => req'.status = "bad" /\ req'.bBuf = req.bBuf
      /\ s = "wait" => req' = req
  BY <1>2, ZenonT(40) DEF TypeOK
<1>7. OneRead' /\ OnePush'
  BY <1>1, <1>2, <1>3, <1>5 DEF OneRead, OnePush, ActorsKnow, ReadOut, PushOut, Acting
<1>8. Over'
  BY <1>1, <1>2, <1>3, <1>5, <1>6 DEF Over
<1>9. ActorsKnow'
  BY <1>1, <1>2, <1>3, <1>5, <1>6 DEF ActorsKnow, TokensKnow, ReadOut, PushOut, Unstarted, Running, Acting, given
<1>10. TokensKnow'
  <2>1. (MayForget' <=> MayForget) /\ ("handle" \in faults => MayForget)
    BY <1>1 DEF MayForget, given
  <2>2. ~ReadOut' /\ ~PushOut'
    BY <1>1, <1>3, <1>5 DEF ActorsKnow, ReadOut, PushOut, Unstarted, Acting
  <2>3. Running' => s = "read"
    BY <1>5, <2>2 DEF Running, Acting
  <2>4. ~Has(port, "failed")'
    BY <2>2 DEF ReadOut
  <2>5. req.status = "ok"
    BY <1>1, <1>3 DEF ActorsKnow, Unstarted, At
  <2> QED BY <1>2, <1>6, <2>1, <2>2, <2>3, <2>4, <2>5 DEF TokensKnow
<1>11. DataKnown'
  <2>1. \A v \in Workers : pc'[v] = "IoFile" => pc[v] = "IoFile"
    BY <1>2, <1>4, Moved DEF TypeOK, Steps
  <2> QED BY <1>1, <1>3, <1>5, <1>6, <2>1 DEF DataKnown, ActorsKnow, Acting
<1>12. ASSUME NoWrap, Order PROVE Order'
  <2>1. UNCHANGED <<size, stream, ends, buf, faults, call>>
    BY <1>1 DEF given, sent
  <2>2. (Block' <=> Block) /\ (InOrder' <=> InOrder) /\ (LastIsEmpty' <=> LastIsEmpty)
    BY <2>1, SameData
  <2>3. Unstarted /\ ~ReadOut /\ ~PushOut
    BY <1>1, <1>3 DEF Unstarted, At, ActorsKnow
  <2>4. /\ stream = <<>> /\ ends = 0 /\ call = "open" /\ InOrder
        /\ "push" \in faults \/ ~req.fCallInvalidated
    BY <1>12, <2>3 DEF Order
  <2>5. ~ReadOut' /\ ~PushOut' /\ ~Unstarted'
    BY <1>1, <1>2, <1>5, <2>3 DEF ReadOut, PushOut, Unstarted, Acting
  <2>6. /\ At("read")' <=> s = "read"
        /\ At("shutdown")' <=> s = "shutdown"
        /\ ~At("push")' /\ ~At("shutdownLeave")'
    BY <1>2, <1>5 DEF Acting
  <2>7. ~Has(port, "IoFile")' /\ ~At("IoFile")'
    BY <2>5 DEF ReadOut
  <2>8. Len(stream) = 0 /\ 0 % BufSize = 0
    BY <2>4, PipeAssumption
  <2>9. Running' => s = "read"
    BY <2>5, <2>6 DEF Running
  <2>10. Running' => SentKnown'
    BY <1>6, <2>1, <2>4, <2>9 DEF SentKnown
  <2> QED BY <1>6, <2>1, <2>2, <2>4, <2>5, <2>6, <2>7, <2>8, <2>10 DEF Order
<1> QED BY <1>5, <1>7, <1>8, <1>9, <1>10, <1>11, <1>12 DEF PipeInv


\* The worker that shuts the request down is the last one that refers to it.
LEMMA ShutdownSafe ==
  ASSUME TypeOK, PipeInv, req.alive, NEW w \in Workers, Shutdown(w)
  PROVE  PipeInv' /\ (NoWrap /\ Order => Order')
<1>1. UNCHANGED <<given, buf, reading, pushing, port, sent, got>>
  BY DEF Shutdown, io
<1>2. PICK s \in {"wait", "leave"} :
        /\ Goto(w, s)
        /\ req' = [req EXCEPT !.alive = FALSE]
        /\ s = "wait" => pc[w] = "shutdown"
        /\ s = "leave" => pc[w] = "shutdownLeave"
  BY DEF Shutdown
<1>3. OneRead /\ OnePush /\ OneActor /\ Over /\ ActorsKnow /\ TokensKnow
  BY DEF PipeInv
<1>4. s \in Steps \ {"IoFile", "IoPipe"} /\ pc[w] \in Acting
  BY <1>2 DEF Steps, Using, Acting
<1>5. /\ \A k : (Has(port, k)' <=> Has(port, k)) /\ (Once(port, k)' <=> Once(port, k))
      /\ ~Has(port, "IoFileRep")
      /\ \A k \in Acting : (At(k) <=> k = pc[w]) /\ (At(k)' <=> k = s)
      /\ At("IoFile")' <=> At("IoFile")
      /\ At("IoPipe")' <=> At("IoPipe")
      /\ At("leave")' <=> At("leave") \/ s = "leave"
      /\ OneActor'
  BY <1>1, <1>2, <1>3, <1>4, ActorMoved
<1>6. ~req'.alive /\ req'.bPushOutstanding = req.bPushOutstanding
  BY <1>2 DEF TypeOK
<1>7. OneRead' /\ OnePush'
  BY <1>1, <1>2, <1>3, <1>5 DEF OneRead, OnePush
<1>8. Over'
  <2>1. \A k \in Acting : ~At(k)'
    BY <1>5 DEF Acting
  <2>2. ~ReadOut' /\ ~Unstarted' /\ (PushOut' <=> PushOut)
    BY <1>1, <1>2, <1>3, <1>4, <1>5, <2>1 DEF ActorsKnow, ReadOut, PushOut, Unstarted, Acting
  <2>3. PushOut' => req'.bPushOutstanding
    BY <1>3, <1>6, <2>2 DEF TokensKnow
  <2>4. CASE s = "leave"
    <3>1. "readNow" \in faults'
      BY <1>1, <1>2, <1>3, <2>4 DEF ActorsKnow, At, given
    <3> QED BY <1>6, <2>1, <2>2, <2>3, <3>1 DEF Over
  <2>5. CASE s = "wait"
    <3>1. ~ReadOut /\ ~PushOut
      BY <1>2, <1>3, <2>5 DEF ActorsKnow, At
    <3>2. \A v \in Workers : v # w => pc[v] = "wait"
      <4> TAKE v \in Workers
      <4> HAVE v # w
      <4>1. pc[v] \notin Acting
        BY <1>3, <1>4 DEF OneActor
      <4>2. pc[v] # "leave" /\ pc[v] # "IoFile" /\ pc[v] # "IoPipe"
        BY <1>3, <3>1 DEF Over, At, ReadOut, PushOut
      <4> QED BY <4>1, <4>2 DEF TypeOK, Steps, Using, Acting
    <3>3. \A v \in Workers : pc'[v] = "wait"
      <4>1. pc'[w] = s /\ \A v \in Workers : v # w => pc'[v] = pc[v]
        BY <1>2, <1>4, Moved DEF TypeOK
      <4> QED BY <2>5, <3>2, <4>1
    <3>4. ~At("leave")'
      BY <3>3 DEF At
    <3> QED BY <1>6, <2>1, <2>2, <2>3, <3>1, <3>3, <3>4 DEF Over
  <2> QED BY <2>4, <2>5
<1>9. ASSUME NoWrap, Order PROVE Order'
  <2>1. UNCHANGED <<size, stream>>
    BY <1>1 DEF given, sent
  <2> QED BY <1>6, <1>9, <2>1 DEF Order, InOrder
<1> QED BY <1>5, <1>6, <1>7, <1>8, <1>9 DEF PipeInv

\* The buffer is full, and is pushed unless a push is outstanding.
LEMMA FileIoSafe ==
  ASSUME TypeOK, PipeInv, req.alive, NEW w \in Workers, FileIo(w)
  PROVE  PipeInv' /\ (NoWrap /\ Order => Order')
<1> DEFINE n == got[w]
           s == IF req.bPushOutstanding THEN "wait" ELSE "push"
<1>1. pc[w] = "IoFile" /\ UNCHANGED <<given, buf, reading, pushing, port, sent, call, got>>
  BY DEF FileIo, io
<1>2. OneRead /\ OnePush /\ OneActor /\ Over /\ ActorsKnow /\ TokensKnow /\ DataKnown
  BY DEF PipeInv
<1>3. At("IoFile") /\ ReadOut /\ req.status = "ok" /\ ~req.bReadsDone
  BY <1>1, <1>2 DEF At, ReadOut, TokensKnow
<1>4. /\ Goto(w, s)
      /\ req' = [req EXCEPT !.cbRead = n, !.bReadOutstanding = FALSE, !.bBuf = TRUE,
                            !.bReadsDone = @ \/ n # BufSize,
                            !.bLastDataPushIssued = @ \/ n = 0,
                            !.bNullPush = @ \/ (n = 0 /\ ~req.bPushOutstanding),
                            !.offset = (@ + n) % OffsetLimit]
  BY <1>3 DEF FileIo, TypeOK
<1>5. ~Unstarted /\ ~At("read") /\ ~At("push") /\ ~At("shutdown") /\ ~At("shutdownLeave")
  BY <1>2, <1>3 DEF ActorsKnow
<1>6. ~Has(port, "IoFileRep") /\ \A k \in Acting : ~At(k)
  BY <1>5 DEF Acting, Unstarted
<1>7. s \in {"wait", "push", "shutdown"} /\ "IoFile" \in {"IoFile", "IoPipe"}
  OBVIOUS
<1> HIDE DEF s
<1>8. /\ \A k : (Has(port, k)' <=> Has(port, k)) /\ (Once(port, k)' <=> Once(port, k))
      /\ \A k \in Acting : At(k)' <=> At(k) \/ k = s
      /\ ~At("IoFile")'
      /\ At("IoPipe")' <=> At("IoPipe")
      /\ At("leave")' <=> At("leave")
      /\ OneActor'
  BY <1>1, <1>2, <1>4, <1>6, <1>7, CompletionMoved
<1>9. /\ req'.alive = req.alive /\ req'.bBuf /\ ~req'.bReadOutstanding
      /\ req'.bPushOutstanding = req.bPushOutstanding /\ req'.status = "ok"
      /\ req'.cbRead = n /\ req'.offset = (req.offset + n) % OffsetLimit
      /\ req'.fCallInvalidated = req.fCallInvalidated
      /\ req'.bReadsDone = (n # BufSize)
      /\ req'.bLastDataPushIssued = (req.bLastDataPushIssued \/ n = 0)
      /\ req'.bNullPush = (req.bNullPush \/ (n = 0 /\ ~req.bPushOutstanding))
  BY <1>3, <1>4 DEF TypeOK
<1>10. OneRead' /\ OnePush'
  BY <1>1, <1>2, <1>8 DEF OneRead, OnePush
<1>11. Over'
  BY <1>2, <1>8, <1>9 DEF Over
<1>12. ~ReadOut' /\ (PushOut' <=> PushOut) /\ ~Unstarted'
  BY <1>1, <1>2, <1>3, <1>6, <1>7, <1>8 DEF OneRead, ReadOut, PushOut, Unstarted, Acting, s
<1>13. /\ ~At("read")' /\ ~At("shutdown")' /\ ~At("shutdownLeave")'
       /\ At("push")' <=> ~req.bPushOutstanding
  BY <1>6, <1>8 DEF Acting, s
<1>14. ActorsKnow'
  BY <1>2, <1>9, <1>12, <1>13 DEF ActorsKnow, TokensKnow
<1>15. TokensKnow'
  <2>1. MayForget' <=> MayForget
    BY <1>1 DEF MayForget, given
  <2>2. ~Has(port, "failed")'
    BY <1>12 DEF ReadOut
  <2>3. ~req.bLastDataPushIssued /\ ~req.bNullPush
    BY <1>2, <1>3 DEF TokensKnow, Running
  <2>4. n = 0 => n # BufSize
    BY PipeAssumption
  <2>5. /\ req'.bNullPush => req'.bLastDataPushIssued
        /\ req'.bLastDataPushIssued => req'.bReadsDone
    BY <1>9, <2>3, <2>4
  <2> QED BY <1>2, <1>3, <1>5, <1>9, <1>12, <2>1, <2>2, <2>5 DEF TokensKnow
<1>16. DataKnown'
  <2>1. \A v \in Workers : pc'[v] # "IoFile"
    BY <1>8 DEF At
  <2>2. n = Len(buf)
    BY <1>1, <1>2 DEF DataKnown
  <2> QED BY <1>1, <1>2, <1>9, <2>1, <2>2 DEF DataKnown
<1>17. ASSUME NoWrap, Order PROVE Order'
  <2>1. UNCHANGED <<size, stream, ends, buf, faults, call>>
    BY <1>1 DEF given, sent
  <2>2. (Block' <=> Block) /\ (InOrder' <=> InOrder) /\ (LastIsEmpty' <=> LastIsEmpty)
    BY <2>1, SameData
  <2>3. Running /\ ~req.bBuf /\ ~req.bLastDataPushIssued /\ ~req.bNullPush
    BY <1>2, <1>3 DEF Running, TokensKnow
  <2>4. /\ Block /\ req.offset = Len(stream) /\ Len(stream) % BufSize = 0 /\ SentKnown
        /\ call = "open" /\ InOrder
        /\ "push" \in faults \/ ~req.fCallInvalidated
    BY <1>3, <1>17, <2>3 DEF Order
  <2>5. stream \in Seq(Nat) /\ size \in Nat /\ Len(stream) \in Nat /\ size < OffsetLimit
    BY <1>17, PipeAssumption DEF TypeOK, NoWrap
  <2>6. n = Len(buf)
    BY <1>1, <1>2 DEF DataKnown
  <2>7. /\ n \in 0 .. BufSize /\ Len(stream) + n <= size
        /\ n # BufSize => Len(stream) + n = size
    BY <2>4, <2>5, <2>6, BytesFollow DEF Block
  <2>8. req'.offset = Len(stream) + n
    <3>1. Len(stream) + n \in Nat /\ Len(stream) + n < OffsetLimit
      BY <2>5, <2>7, PipeAssumption
    <3>2. \A x \in Nat : x < OffsetLimit => x % OffsetLimit = x
      BY PipeAssumption
    <3> HIDE DEF n
    <3>3. req'.offset = (Len(stream) + n) % OffsetLimit
      BY <1>9, <2>4
    <3> QED BY <3>1, <3>2, <3>3
  <2>10. ends = 0
    BY <1>3, <2>3, <2>4 DEF SentKnown
  <2> HIDE DEF n
  <2>11. n = 0 => Len(stream) = size
    BY <2>5, <2>7, PipeAssumption
  <2>12. SentKnown'
    <3>1. req'.bBuf => /\ Block' /\ req'.offset = Len(stream') + Len(buf')
                       /\ req'.bReadsDone \/ Len(buf') = BufSize
      BY <1>9, <2>1, <2>2, <2>4, <2>6, <2>8
    <3>2. req'.bReadsDone =>
            Len(stream') = size' \/ (req'.bBuf /\ Len(stream') + Len(buf') = size')
      BY <1>9, <2>1, <2>6, <2>7
    <3>3. ends' = 0
      BY <2>1, <2>10
    <3>4. req'.bNullPush => Len(stream') = size' /\ ~PushOut'
      BY <1>2, <1>9, <1>12, <2>1, <2>3, <2>11 DEF TokensKnow
    <3> QED BY <3>1, <3>2, <3>3, <3>4 DEF SentKnown
  <2>13. ~Has(port, "IoFile")' /\ ~At("IoFile")'
    BY <1>12 DEF ReadOut
  <2> QED BY <1>9, <1>12, <1>13, <2>1, <2>2, <2>4, <2>12, <2>13 DEF Order
<1> QED BY <1>8, <1>9, <1>10, <1>11, <1>14, <1>15, <1>16, <1>17 DEF PipeInv

\* The completion of a push leads to a push only if no read is outstanding, and to
\* the shutdown only after the null push.
LEMMA PipeIoSafe ==
  ASSUME TypeOK, PipeInv, req.alive, NEW w \in Workers, PipeIo(w)
  PROVE  PipeInv' /\ (NoWrap /\ Order => Order')
<1>1. pc[w] = "IoPipe" /\ UNCHANGED <<given, buf, reading, pushing, port, sent, call, got>>
  BY DEF PipeIo, io
<1>2. OneRead /\ OnePush /\ OneActor /\ Over /\ ActorsKnow /\ TokensKnow /\ DataKnown
  BY DEF PipeInv
<1>3. At("IoPipe") /\ PushOut /\ Running /\ ~Unstarted /\ ~At("push") /\ ~At("shutdown")
  BY <1>1, <1>2 DEF At, PushOut, Running, ActorsKnow
<1>4. PICK s \in {"wait", "push", "shutdown"}, end \in BOOLEAN :
        /\ Goto(w, s)
        /\ req' = [req EXCEPT !.bPushOutstanding = FALSE, !.bNullPush = end]
        /\ end => req.bLastDataPushIssued
        /\ s = "shutdown" <=> req.bNullPush
        /\ req.bNullPush => end
        /\ end /\ ~req.bNullPush => ~req.bBuf
        /\ s = "push" => ~req.bReadOutstanding /\ (req.bBuf \/ end)
  <2>1. CASE req.bNullPush
    <3>1. req' = [req EXCEPT !.bPushOutstanding = FALSE, !.bNullPush = TRUE]
      BY <2>1 DEF PipeIo, TypeOK
    <3> QED BY <1>2, <1>3, <2>1, <3>1 DEF PipeIo, TokensKnow
  <2>2. CASE ~req.bNullPush
    <3> DEFINE last == ~req.bReadOutstanding /\ ~req.bBuf /\ req.bLastDataPushIssued
    <3>1. /\ Goto(w, IF ~req.bReadOutstanding /\ (req.bBuf \/ last) THEN "push" ELSE "wait")
          /\ req' = [req EXCEPT !.bPushOutstanding = FALSE, !.bNullPush = last]
      BY <2>2 DEF PipeIo
    <3>2. last \in BOOLEAN /\ (last => req.bLastDataPushIssued /\ ~req.bBuf)
      BY DEF TypeOK
    <3> HIDE DEF last
    <3> QED BY <2>2, <3>1, <3>2
  <2> QED BY <2>1, <2>2
<1>5. s # "wait" => ~ReadOut /\ ~At("read") /\ ~At("shutdownLeave")
  BY <1>2, <1>3, <1>4 DEF TokensKnow, ActorsKnow
<1>6. s # "wait" => ~Has(port, "IoFileRep") /\ \A k \in Acting : ~At(k)
  BY <1>3, <1>5 DEF Acting, Unstarted
<1>7. /\ \A k : (Has(port, k)' <=> Has(port, k)) /\ (Once(port, k)' <=> Once(port, k))
      /\ \A k \in Acting : At(k)' <=> At(k) \/ k = s
      /\ ~At("IoPipe")'
      /\ At("IoFile")' <=> At("IoFile")
      /\ At("leave")' <=> At("leave")
      /\ OneActor'
  <2>1. "IoPipe" \in {"IoFile", "IoPipe"}
    OBVIOUS
  <2> QED BY <1>1, <1>2, <1>4, <1>6, <2>1, CompletionMoved
<1>8. /\ req'.alive = req.alive /\ req'.bBuf = req.bBuf
      /\ req'.bReadOutstanding = req.bReadOutstanding
      /\ ~req'.bPushOutstanding /\ req'.status = req.status /\ req'.cbRead = req.cbRead
      /\ req'.bReadsDone = req.bReadsDone
      /\ req'.bLastDataPushIssued = req.bLastDataPushIssued
      /\ req'.bNullPush = end /\ req'.offset = req.offset
      /\ req'.fCallInvalidated = req.fCallInvalidated
  BY <1>4 DEF TypeOK
<1>9. OneRead' /\ OnePush'
  BY <1>1, <1>2, <1>7 DEF OneRead, OnePush
<1>10. Over'
  BY <1>2, <1>7, <1>8 DEF Over
<1>11. (ReadOut' <=> ReadOut) /\ ~PushOut' /\ ~Unstarted'
  BY <1>1, <1>2, <1>3, <1>4, <1>7 DEF OnePush, ReadOut, PushOut, Unstarted, Acting
<1>12. /\ At("read")' <=> At("read")
       /\ At("shutdownLeave")' <=> At("shutdownLeave")
       /\ At("push")' <=> s = "push"
       /\ At("shutdown")' <=> s = "shutdown"
  BY <1>3, <1>4, <1>7 DEF Acting
<1>13. ActorsKnow'
  <2>1. s = "push" => req.status = "ok"
    BY <1>2, <1>3, <1>5 DEF TokensKnow
  <2>2. faults' = faults
    BY <1>1 DEF given
  <2> QED BY <1>2, <1>4, <1>5, <1>8, <1>11, <1>12, <2>1, <2>2 DEF ActorsKnow
<1>14. TokensKnow'
  <2>1. MayForget' <=> MayForget
    BY <1>1 DEF MayForget, given
  <2>2. Has(port, "failed")' <=> Has(port, "failed")
    BY <1>7
  <2> QED BY <1>2, <1>3, <1>4, <1>8, <1>11, <1>12, <2>1, <2>2 DEF TokensKnow
<1>15. DataKnown'
  <2>1. \A v \in Workers : pc'[v] = "IoFile" => pc[v] = "IoFile"
    BY <1>4, Moved DEF TypeOK, Steps, Using
  <2> QED BY <1>1, <1>2, <1>8, <2>1 DEF DataKnown
<1>16. ASSUME NoWrap, Order PROVE Order'
  <2>1. UNCHANGED <<size, stream, ends, buf, faults, call>>
    BY <1>1 DEF given, sent
  <2>2. (Block' <=> Block) /\ (InOrder' <=> InOrder) /\ (LastIsEmpty' <=> LastIsEmpty)
    BY <2>1, SameData
  <2>3. /\ SentKnown /\ call = "open" /\ InOrder
        /\ "push" \in faults \/ ~req.fCallInvalidated
        /\ At("read") \/ ReadOut => req.offset = Len(stream) /\ Len(stream) % BufSize = 0
        /\ Has(port, "IoFile") \/ At("IoFile") => Block
    BY <1>3, <1>16 DEF Order
  <2>4. end => req.bReadsDone
    BY <1>2, <1>3, <1>4 DEF TokensKnow
  <2>5. s = "shutdown" => ends = 1 \/ LastIsEmpty
    BY <1>3, <1>4, <2>3 DEF SentKnown
  <2>6. SentKnown' \/ s = "shutdown"
    <3>1. CASE ~end
      BY <1>4, <1>8, <2>1, <2>2, <2>3, <3>1 DEF SentKnown
    <3>2. CASE end /\ ~req.bNullPush
      BY <1>4, <1>8, <1>11, <2>1, <2>2, <2>3, <2>4, <3>2 DEF SentKnown
    <3> QED BY <1>4, <3>1, <3>2
  <2>7. s = "shutdown" => ~Running'
    BY <1>5, <1>11, <1>12 DEF Running
  <2>8. (Has(port, "IoFile")' <=> Has(port, "IoFile")) /\ (At("IoFile")' <=> At("IoFile"))
    BY <1>7
  <2> QED BY <1>4, <1>8, <1>11, <1>12, <2>1, <2>2, <2>3, <2>5, <2>6, <2>7, <2>8 DEF Order
<1> QED BY <1>7, <1>8, <1>9, <1>10, <1>13, <1>14, <1>15, <1>16 DEF PipeInv

\* A packet becomes a worker's step; a failed one is forgotten.
LEMMA DequeueSafe ==
  ASSUME TypeOK, PipeInv, NEW w \in Workers, Dequeue(w)
  PROVE  PipeInv' /\ (NoWrap /\ Order => Order')
<1> DEFINE p == Head(port)
           s == IF p.key = "failed" THEN "wait" ELSE p.key
<1>1. /\ pc[w] = "wait" /\ port # <<>> /\ port \in Seq(Packets)
      /\ Goto(w, s) /\ got' = [got EXCEPT ![w] = p.n] /\ port' = Tail(port)
      /\ UNCHANGED <<given, req, buf, reading, pushing, sent, call>>
  BY DEF Dequeue, TypeOK
<1>2. OneRead /\ OnePush /\ OneActor /\ Over
  BY DEF PipeInv
<1>3. /\ p.key \in {"IoFileRep", "IoFile", "IoPipe", "failed"}
      /\ p = port[1] /\ 1 \in 1 .. Len(port)
  <2>1. p = port[1] /\ 1 \in 1 .. Len(port) /\ p \in Packets
    BY <1>1
  <2> QED BY <2>1 DEF Packets
<1>4. \A k : /\ Has(port, k) <=> Has(port, k)' \/ p.key = k
             /\ Once(port, k) => Once(port, k)' /\ (p.key = k => ~Has(port, k)')
  <2> TAKE k
  <2>1. /\ Has(port, k) <=> Has(Tail(port), k) \/ Head(port).key = k
        /\ Once(port, k) => Once(Tail(port), k) /\ (Head(port).key = k => ~Has(Tail(port), k))
    BY <1>1, HasTail
  <2> QED BY <1>1, <2>1
<1>5. s \in Steps /\ s \in {"wait", "IoFileRep", "IoFile", "IoPipe"}
  BY <1>3 DEF Steps, Using
<1>6. pc'[w] = s /\ \A v \in Workers : v # w => pc'[v] = pc[v]
  BY <1>1, <1>5, Moved DEF TypeOK
<1> HIDE DEF p
<1>7. /\ \A k \in {"IoFileRep", "IoFile", "IoPipe"} : At(k)' <=> At(k) \/ p.key = k
      /\ \A k \in Acting : k # "IoFileRep" => (At(k)' <=> At(k))
      /\ At("leave")' <=> At("leave")
  <2>1. \A k \in Steps : k # "wait" => (At(k)' <=> At(k) \/ s = k)
    BY <1>1, <1>6 DEF At
  <2> HIDE DEF s
  <2>2. /\ \A k \in {"IoFileRep", "IoFile", "IoPipe"} : At(k)' <=> At(k) \/ s = k
        /\ \A k \in Acting : k # "IoFileRep" => (At(k)' <=> At(k))
        /\ At("leave")' <=> At("leave")
    BY <1>5, <2>1 DEF Steps, Using, Acting
  <2> USE DEF s
  <2> QED BY <1>3, <2>2
<1>8. /\ Unstarted' <=> Unstarted
      /\ PushOut' <=> PushOut
      /\ p.key # "failed" => (ReadOut' <=> ReadOut)
  BY <1>1, <1>3, <1>4, <1>7 DEF Unstarted, PushOut, ReadOut
<1>9. OneRead' /\ OnePush'
  <2>1. OneRead'
    BY <1>1, <1>2, <1>3, <1>4, <1>7 DEF OneRead
  <2>2. OnePush'
    BY <1>1, <1>2, <1>3, <1>4, <1>7 DEF OnePush
  <2> QED BY <2>1, <2>2
<1>10. p.key = "failed" => Has(port, "failed") /\ ReadOut /\ ~ReadOut'
  BY <1>1, <1>2, <1>4, <1>7 DEF OneRead, ReadOut
<1>11. OneActor'
  <2>1. Once(port, "IoFileRep")' /\ (Has(port, "IoFileRep")' => Has(port, "IoFileRep"))
    BY <1>2, <1>4 DEF OneActor
  <2>2. Has(port, "IoFileRep")' => \A v \in Workers : pc'[v] \notin Acting
    BY <1>2, <1>3, <1>4, <1>6, <2>1 DEF OneActor, Acting
  <2>3. \A v \in Workers : v # w =>
          /\ ~(pc'[v] \in Acting /\ pc'[w] \in Acting)
          /\ ~(pc'[v] = "IoFile" /\ pc'[w] = "IoFile")
          /\ ~(pc'[v] = "IoPipe" /\ pc'[w] = "IoPipe")
    <3>1. p.key = "IoFileRep" => \A v \in Workers : pc[v] \notin Acting
      BY <1>2, <1>4 DEF OneActor
    <3>2. p.key = "IoFile" => ~At("IoFile")
      BY <1>2, <1>4 DEF OneRead
    <3>3. p.key = "IoPipe" => ~At("IoPipe")
      BY <1>2, <1>4 DEF OnePush
    <3> QED BY <1>3, <1>6, <3>1, <3>2, <3>3 DEF At, Acting
  <2> QED BY <1>2, <1>6, <2>1, <2>2, <2>3 DEF OneActor
<1>12. Over'
  <2>1. CASE req.alive
    BY <1>1, <1>2, <1>7, <2>1 DEF Over
  <2>2. CASE ~req.alive
    <3>1. ~ReadOut /\ ~Unstarted /\ (\A k \in Acting : ~At(k))
          /\ (PushOut => req.bPushOutstanding)
      BY <1>2, <2>2 DEF Over
    <3>2. ~ReadOut' /\ ~Unstarted' /\ (PushOut' => req'.bPushOutstanding)
      BY <1>1, <1>8, <1>10, <3>1
    <3>3. \A k \in Acting : ~At(k)'
      BY <1>7, <3>1, <3>2 DEF Unstarted
    <3>4. "readNow" \in faults'
      <4>1. ~Has(port, "IoFile") /\ ~Has(port, "failed") /\ ~Has(port, "IoFileRep")
        BY <3>1 DEF ReadOut, Unstarted
      <4>2. Has(port, "IoPipe")
        BY <1>1, <4>1, HasNone
      <4> QED BY <1>1, <1>2, <2>2, <4>2 DEF Over, PushOut, given
    <3> QED BY <1>1, <2>2, <3>2, <3>3, <3>4 DEF Over
  <2> QED BY <2>1, <2>2
<1>13. ASSUME req.alive PROVE ActorsKnow' /\ TokensKnow' /\ DataKnown'
  <2>1. ActorsKnow /\ TokensKnow /\ DataKnown
    BY <1>13 DEF PipeInv
  <2>2. ReadOut' => ReadOut
    BY <1>8, <1>10
  <2>3. /\ At("read")' <=> At("read")
        /\ At("push")' <=> At("push")
        /\ At("shutdown")' <=> At("shutdown")
        /\ At("shutdownLeave")' <=> At("shutdownLeave")
    BY <1>7 DEF Acting
  <2>4. req' = req /\ faults' = faults /\ buf' = buf
    BY <1>1 DEF given
  <2>5. ActorsKnow'
    BY <1>8, <2>1, <2>2, <2>3, <2>4 DEF ActorsKnow
  <2>6. TokensKnow'
    <3>1. MayForget' <=> MayForget
      BY <2>4 DEF MayForget
    <3>2. (Has(port, "failed")' => Has(port, "failed")) /\ (Running' => Running)
      BY <1>4, <1>8, <2>2, <2>3 DEF Running
    <3>3. ReadOut' \/ ~ReadOut \/ MayForget
      BY <1>8, <1>10, <2>1 DEF TokensKnow
    <3> QED BY <1>8, <2>1, <2>2, <2>3, <2>4, <3>1, <3>2, <3>3 DEF TokensKnow
  <2>7. DataKnown'
    <3>1. Len(port') \in Nat /\ \A i \in 1 .. Len(port') : i + 1 \in 1 .. Len(port) /\ port'[i] = port[i + 1]
      BY <1>1
    <3>2. \A i \in 1 .. Len(port') : port'[i].key = "IoFile" => port'[i].n = Len(buf)
      BY <2>1, <3>1 DEF DataKnown
    <3>3. \A v \in Workers : pc'[v] = "IoFile" => got'[v] = Len(buf)
      <4>1. got'[w] = p.n /\ \A v \in Workers : v # w => got'[v] = got[v]
        BY <1>1 DEF TypeOK, p
      <4>2. pc'[w] = "IoFile" => p.n = Len(buf)
        BY <1>3, <1>6, <2>1 DEF DataKnown
      <4> QED BY <1>6, <2>1, <4>1, <4>2 DEF DataKnown
    <3> QED BY <2>1, <2>4, <3>2, <3>3 DEF DataKnown
  <2> QED BY <2>5, <2>6, <2>7
<1>14. ASSUME NoWrap, Order PROVE Order'
  <2>1. UNCHANGED <<size, stream, ends, buf, faults, call>>
    BY <1>1 DEF given, sent
  <2>2. (Block' <=> Block) /\ (InOrder' <=> InOrder) /\ (LastIsEmpty' <=> LastIsEmpty)
    BY <2>1, SameData
  <2>3. req' = req
    BY <1>1
  <2>4. CASE ~req.alive
    BY <1>14, <2>2, <2>3, <2>4 DEF Order
  <2>5. CASE req.alive
    <3>1. /\ ReadOut' => ReadOut
          /\ Unstarted' <=> Unstarted
          /\ PushOut' <=> PushOut
      BY <1>8, <1>10
    <3>2. /\ At("read")' <=> At("read")
          /\ At("push")' <=> At("push")
          /\ At("shutdown")' <=> At("shutdown")
          /\ At("shutdownLeave")' <=> At("shutdownLeave")
      BY <1>7 DEF Acting
    <3>3. Has(port, "IoFile")' \/ At("IoFile")' => Has(port, "IoFile") \/ At("IoFile")
      BY <1>4, <1>7
    <3>4. Running' => Running /\ SentKnown'
      <4>1. Running' => Running
        BY <3>1, <3>2 DEF Running
      <4>2. Running => SentKnown
        BY <1>14, <2>5 DEF Order
      <4>3. SentKnown => SentKnown'
        BY <2>1, <2>2, <2>3, <3>1, <3>2 DEF SentKnown
      <4> QED BY <4>1, <4>2, <4>3
    <3> QED BY <1>14, <2>1, <2>2, <2>3, <2>5, <3>1, <3>2, <3>3, <3>4 DEF Order
  <2> QED BY <2>4, <2>5
<1> QED BY <1>1, <1>9, <1>11, <1>12, <1>13, <1>14 DEF PipeInv

\* A read that ends becomes a packet.
LEMMA ReadEndsSafe ==
  ASSUME TypeOK, PipeInv, ReadEnds
  PROVE  PipeInv' /\ (NoWrap /\ Order => Order')
<1>1. reading /\ ~reading' /\ UNCHANGED <<given, req, pushing, sent, call, pc, got>>
  BY DEF ReadEnds
<1>2. Len(BytesAt(req.offset)) \in 0 .. BufSize
  BY BytesFit, PipeAssumption, SMTT(30) DEF TypeOK
<1>3. PICK p \in Packets :
        /\ port' = Append(port, p)
        /\ \/ p.key = "IoFile" /\ p.n = Len(buf') /\ buf' = BytesAt(req.offset)
           \/ p.key = "failed" /\ MayForget /\ buf' = buf
  <2>1. CASE buf' = BytesAt(req.offset) /\ port' = Append(port, Packet("IoFile", Len(buf')))
    BY <1>2, <2>1 DEF Packet, Packets
  <2>2. CASE "readLater" \in faults /\ buf' = buf /\ port' = Append(port, Packet("failed", 0))
    BY <2>2, PipeAssumption DEF Packet, Packets, MayForget
  <2> QED BY <2>1, <2>2 DEF ReadEnds
<1>4. OneRead /\ OnePush /\ OneActor /\ Over
  BY DEF PipeInv
<1>5. \A k : /\ Has(port, k)' <=> Has(port, k) \/ p.key = k
             /\ Once(port, k) /\ (p.key = k => ~Has(port, k)) => Once(port, k)'
  <2> TAKE k
  <2>1. /\ Has(Append(port, p), k) <=> Has(port, k) \/ p.key = k
        /\ Once(port, k) /\ (p.key = k => ~Has(port, k)) => Once(Append(port, p), k)
    BY HasAppend DEF TypeOK
  <2> QED BY <1>3, <2>1
<1>6. \A k : At(k)' <=> At(k)
  BY <1>1 DEF At
<1>7. ReadOut /\ ReadOut' /\ (PushOut' <=> PushOut) /\ (Unstarted' <=> Unstarted)
  BY <1>1, <1>3, <1>5, <1>6 DEF ReadOut, PushOut, Unstarted
<1>8. OneRead' /\ OnePush'
  BY <1>1, <1>3, <1>4, <1>5, <1>6 DEF OneRead, OnePush
<1>9. OneActor'
  BY <1>1, <1>3, <1>4, <1>5 DEF OneActor
<1>10. req.alive /\ Over'
  BY <1>1, <1>4, <1>6, <1>7 DEF Over
<1>11. ActorsKnow /\ TokensKnow /\ DataKnown
  BY <1>10 DEF PipeInv
<1>12. req' = req /\ faults' = faults
  BY <1>1 DEF given
<1>13. ActorsKnow'
  BY <1>6, <1>7, <1>11, <1>12 DEF ActorsKnow
<1>14. TokensKnow'
  <2>1. MayForget' <=> MayForget
    BY <1>12 DEF MayForget
  <2>2. Has(port, "failed")' => MayForget
    BY <1>3, <1>5, <1>11 DEF TokensKnow
  <2> QED BY <1>6, <1>7, <1>11, <1>12, <2>1, <2>2 DEF TokensKnow, Running
<1>15. DataKnown'
  <2>1. ~Has(port, "IoFile") /\ ~At("IoFile") /\ ~req.bBuf
    BY <1>1, <1>4, <1>7, <1>11 DEF OneRead, TokensKnow
  <2>2. /\ Len(port') = Len(port) + 1 /\ Len(port) \in Nat
        /\ \A i \in 1 .. Len(port) : port'[i] = port[i]
        /\ port'[Len(port) + 1] = p
    BY <1>3 DEF TypeOK
  <2>3. \A i \in 1 .. Len(port') : port'[i].key = "IoFile" => port'[i].n = Len(buf')
    BY <1>3, <2>1, <2>2 DEF Has
  <2> QED BY <1>1, <1>12, <2>1, <2>3 DEF DataKnown, At
<1>16. ASSUME NoWrap, Order PROVE Order'
  <2>1. UNCHANGED <<size, stream, ends, faults, call>>
    BY <1>1 DEF given, sent
  <2>2. (InOrder' <=> InOrder) /\ (LastIsEmpty' <=> LastIsEmpty)
    BY <2>1 DEF InOrder, LastIsEmpty
  <2>3. Running /\ ~req.bBuf /\ ~req.bReadsDone
    BY <1>7, <1>11 DEF Running, TokensKnow
  <2>4. /\ SentKnown /\ call = "open" /\ InOrder
        /\ "push" \in faults \/ ~req.fCallInvalidated
        /\ req.offset = Len(stream) /\ Len(stream) % BufSize = 0
        /\ ~Unstarted
    BY <1>7, <1>10, <1>11, <1>16, <2>3 DEF Order, ActorsKnow
  <2>5. Has(port, "IoFile")' \/ At("IoFile")' => Block'
    <3>1. BytesAt(Len(stream))' = BytesAt(Len(stream))
      BY <2>1 DEF BytesAt
    <3>2. CASE p.key = "IoFile"
      BY <1>3, <2>1, <2>4, <3>1, <3>2 DEF Block
    <3>3. CASE p.key = "failed"
      BY <1>1, <1>4, <1>5, <1>6, <3>3 DEF OneRead
    <3> QED BY <1>3, <3>2, <3>3
  <2>6. SentKnown'
    BY <1>6, <1>7, <1>12, <2>1, <2>2, <2>3, <2>4 DEF SentKnown
  <2>7. ~At("shutdown")' /\ ~Unstarted'
    BY <1>6, <1>7, <1>11, <2>4 DEF ActorsKnow
  <2> QED BY <1>12, <2>1, <2>2, <2>4, <2>5, <2>6, <2>7 DEF Order
<1> QED BY <1>8, <1>9, <1>10, <1>13, <1>14, <1>15, <1>16 DEF PipeInv

\* A push that ends becomes a packet.
LEMMA PushEndsSafe ==
  ASSUME TypeOK, PipeInv, PushEnds
  PROVE  PipeInv' /\ (NoWrap /\ Order => Order')
<1> DEFINE p == Packet("IoPipe", 0)
<1>1. /\ pushing /\ ~pushing' /\ port' = Append(port, p)
      /\ UNCHANGED <<given, req, buf, reading, sent, call, pc, got>>
  BY DEF PushEnds
<1>2. OneRead /\ OnePush /\ OneActor /\ Over
  BY DEF PipeInv
<1>3. p \in Packets /\ p.key = "IoPipe"
  BY PipeAssumption DEF Packet, Packets
<1> HIDE DEF p
<1>4. \A k : /\ Has(port, k)' <=> Has(port, k) \/ p.key = k
             /\ Once(port, k) /\ (p.key = k => ~Has(port, k)) => Once(port, k)'
  <2> TAKE k
  <2>1. /\ Has(Append(port, p), k) <=> Has(port, k) \/ p.key = k
        /\ Once(port, k) /\ (p.key = k => ~Has(port, k)) => Once(Append(port, p), k)
    BY <1>3, HasAppend DEF TypeOK
  <2> QED BY <1>1, <2>1
<1>5. \A k : At(k)' <=> At(k)
  BY <1>1 DEF At
<1>6. (ReadOut' <=> ReadOut) /\ PushOut /\ PushOut' /\ (Unstarted' <=> Unstarted)
  BY <1>1, <1>3, <1>4, <1>5 DEF ReadOut, PushOut, Unstarted
<1>7. OneRead' /\ OnePush'
  BY <1>1, <1>2, <1>3, <1>4, <1>5 DEF OneRead, OnePush
<1>8. OneActor'
  BY <1>1, <1>2, <1>3, <1>4 DEF OneActor
<1>9. req' = req /\ faults' = faults
  BY <1>1 DEF given
<1>10. Over'
  BY <1>2, <1>5, <1>6, <1>9 DEF Over
<1>11. ASSUME req.alive PROVE ActorsKnow' /\ TokensKnow' /\ DataKnown'
  <2>1. ActorsKnow /\ TokensKnow /\ DataKnown
    BY <1>11 DEF PipeInv
  <2>2. ActorsKnow'
    BY <1>5, <1>6, <1>9, <2>1 DEF ActorsKnow
  <2>3. TokensKnow'
    <3>1. MayForget' <=> MayForget
      BY <1>9 DEF MayForget
    <3>2. Has(port, "failed")' <=> Has(port, "failed")
      BY <1>3, <1>4
    <3> QED BY <1>5, <1>6, <1>9, <2>1, <3>1, <3>2 DEF TokensKnow, Running
  <2>4. DataKnown'
    <3>1. /\ Len(port') = Len(port) + 1 /\ Len(port) \in Nat
          /\ \A i \in 1 .. Len(port) : port'[i] = port[i]
          /\ port'[Len(port) + 1] = p
      BY <1>1 DEF TypeOK
    <3>2. \A i \in 1 .. Len(port') : port'[i].key = "IoFile" => port'[i].n = Len(buf)
      BY <1>3, <2>1, <3>1 DEF DataKnown
    <3> QED BY <1>1, <2>1, <3>2 DEF DataKnown
  <2> QED BY <2>2, <2>3, <2>4
<1>12. ASSUME NoWrap, Order PROVE Order'
  <2>1. UNCHANGED <<size, stream, ends, buf, faults, call>>
    BY <1>1 DEF given, sent
  <2>2. (Block' <=> Block) /\ (InOrder' <=> InOrder) /\ (LastIsEmpty' <=> LastIsEmpty)
    BY <2>1, SameData
  <2>3. CASE ~req.alive
    BY <1>9, <1>12, <2>2, <2>3 DEF Order
  <2>4. CASE req.alive
    <3>1. Running /\ SentKnown
      BY <1>6, <1>12, <2>4 DEF Running, Order
    <3>2. SentKnown'
      BY <1>5, <1>6, <1>9, <2>1, <2>2, <3>1 DEF SentKnown
    <3>3. Has(port, "IoFile")' <=> Has(port, "IoFile")
      BY <1>3, <1>4
    <3> QED BY <1>5, <1>6, <1>9, <1>12, <2>1, <2>2, <2>4, <3>2, <3>3 DEF Order
  <2> QED BY <2>3, <2>4
<1> QED BY <1>7, <1>8, <1>9, <1>10, <1>11, <1>12 DEF PipeInv

-----------------------------------------------------------------------------
\* The values of the request.
SReqs == [alive : BOOLEAN, status : {"ok", "bad"}, offset : 0 .. OffsetLimit - 1,
          cbRead : 0 .. BufSize, bBuf : BOOLEAN, bReadOutstanding : BOOLEAN,
          bPushOutstanding : BOOLEAN, bReadsDone : BOOLEAN,
          bLastDataPushIssued : BOOLEAN, bNullPush : BOOLEAN,
          fCallInvalidated : BOOLEAN]

\* The invariant holds when the request was activated, whatever its flags are.
LEMMA PipeInit ==
  ASSUME Init
  PROVE  TypeOK /\ PipeInv
<1>1. TypeOK
  <2>1. Packet("IoFileRep", 0) \in Packets
    BY PipeAssumption DEF Packet, Packets
  <2>2. /\ port \in Seq(Packets) /\ buf \in Seq(Nat) /\ stream \in Seq(Nat)
        /\ Len(buf) = 0
    BY <2>1 DEF Init
  <2>3. req \in SReqs
    <3>1. 0 \in 0 .. OffsetLimit - 1 /\ 0 \in 0 .. BufSize
      BY PipeAssumption
    <3> QED BY <3>1 DEF Init, SReqs
  <2>4. pc \in [Workers -> Steps] /\ got \in [Workers -> 0 .. BufSize]
    BY PipeAssumption DEF Init, Steps
  <2>5. Len(buf) <= BufSize /\ ends \in Nat
    BY <2>2, PipeAssumption DEF Init
  <2> QED BY <2>2, <2>3, <2>4, <2>5 DEF Init, TypeOK, SReqs
<1>2. /\ Len(port) = 1 /\ port[1].key = "IoFileRep" /\ ~reading /\ ~pushing
      /\ req.alive /\ req.status = "ok" /\ req.cbRead = 0 /\ Len(buf) = 0
      /\ \A v \in Workers : pc[v] = "wait"
  BY DEF Init, Packet
<1>3. /\ \A k : k # "IoFileRep" => ~Has(port, k)
      /\ \A k : Once(port, k)
  BY <1>2 DEF Has, Once
<1>4. \A k : k # "wait" => ~At(k)
  BY <1>2 DEF At
<1>5. ~ReadOut /\ ~PushOut /\ ~Running
  BY <1>2, <1>3, <1>4 DEF ReadOut, PushOut, Running
<1>6. Unstarted
  BY <1>2 DEF Unstarted, Has
<1>7. OneRead /\ OnePush
  BY <1>2, <1>3 DEF OneRead, OnePush
<1>8. OneActor
  BY <1>2, <1>3 DEF OneActor, Acting
<1>9. Over
  BY <1>2, <1>4 DEF Over
<1>10. ActorsKnow
  BY <1>2, <1>4, <1>5 DEF ActorsKnow
<1>11. TokensKnow
  BY <1>3, <1>5, <1>6 DEF TokensKnow
<1>12. DataKnown
  BY <1>2 DEF DataKnown
<1> QED BY <1>1, <1>7, <1>8, <1>9, <1>10, <1>11, <1>12 DEF PipeInv

\* Each action preserves the types.
LEMMA TypeSafe ==
  ASSUME TypeOK, PipeInv, [Next]_vars
  PROVE  TypeOK'
<1>1. CASE ReadEnds
  <2>1. /\ BytesAt(req.offset) \in Seq(Nat)
        /\ Len(BytesAt(req.offset)) \in 0 .. BufSize
    BY BytesFit, PipeAssumption, SMTT(30) DEF TypeOK
  <2>2. buf' \in Seq(Nat) /\ Len(buf') <= BufSize
    BY <1>1, <2>1, PipeAssumption DEF ReadEnds, TypeOK
  <2>3. PICK p \in Packets : port' = Append(port, p)
    <3>1. Packet("failed", 0) \in Packets
      BY PipeAssumption DEF Packet, Packets
    <3>2. ASSUME buf' = BytesAt(req.offset) PROVE Packet("IoFile", Len(buf')) \in Packets
      BY <2>1, <3>2 DEF Packet, Packets
    <3> QED BY <1>1, <3>1, <3>2 DEF ReadEnds
  <2>4. port' \in Seq(Packets)
    BY <2>3 DEF TypeOK
  <2> QED BY <1>1, <2>2, <2>4, ZenonT(40) DEF ReadEnds, TypeOK, given, sent
<1>2. CASE PushEnds
  <2>1. Packet("IoPipe", 0) \in Packets
    BY PipeAssumption DEF Packet, Packets
  <2>2. port' \in Seq(Packets)
    BY <1>2, <2>1 DEF PushEnds, TypeOK
  <2> QED BY <1>2, <2>2, ZenonT(40) DEF PushEnds, TypeOK, given, sent
<1>3. ASSUME NEW w \in Workers, Dequeue(w) PROVE TypeOK'
  <2>1. /\ port # <<>> /\ port \in Seq(Packets)
    BY <1>3 DEF Dequeue, TypeOK
  <2>2. Head(port) \in Packets /\ Tail(port) \in Seq(Packets)
    BY <2>1
  <2>3. /\ Head(port).n \in 0 .. BufSize
        /\ Head(port).key \in {"IoFileRep", "IoFile", "IoPipe", "failed"}
    BY <2>2 DEF Packets
  <2>4. pc' \in [Workers -> Steps]
    BY <1>3, <2>3 DEF Dequeue, Goto, TypeOK, Steps, Using
  <2>5. got' \in [Workers -> 0 .. BufSize] /\ port' \in Seq(Packets)
    BY <1>3, <2>2, <2>3 DEF Dequeue, TypeOK
  <2> QED BY <1>3, <2>4, <2>5 DEF Dequeue, TypeOK, given, sent
<1>4. ASSUME NEW w \in Workers, Serve(w) PROVE TypeOK'
  <2>0. req \in SReqs
    BY DEF TypeOK, SReqs
  <2>1. req.alive
    BY <1>4 DEF Serve
  <2>2. pc' \in [Workers -> Steps]
    <3>1. PICK s \in Steps : Goto(w, s)
      BY <1>4 DEF Serve, HandleSReq, Read, PushData, PushNull, FileIo, PipeIo, Shutdown,
                  Steps, Using
    <3> QED BY <3>1, Moved DEF TypeOK
  <2>3. CASE HandleSReq(w)
    <3>1. 0 \in 0 .. OffsetLimit - 1
      BY PipeAssumption
    <3>2. req' \in SReqs
      BY <2>0, <2>3, <3>1, ZenonT(40) DEF HandleSReq, SReqs
    <3> QED BY <2>2, <2>3, <3>2 DEF HandleSReq, TypeOK, SReqs, given, io, sent
  <2>4. CASE Read(w)
    <3>1. 0 \in 0 .. BufSize
      BY PipeAssumption
    <3>2. req' \in SReqs /\ reading' \in BOOLEAN
      BY <2>0, <2>4, <3>1, ZenonT(40) DEF Read, SReqs, TypeOK
    <3> QED BY <2>2, <2>4, <3>2 DEF Read, TypeOK, SReqs, given, sent
  <2>5. CASE PushData(w)
    <3>1. req.bBuf /\ req.cbRead = Len(buf)
      BY <2>1, <2>5 DEF PushData, PipeInv, ActorsKnow, DataKnown, At
    <3>2. SubSeq(buf, 1, req.cbRead) \in Seq(Nat)
      BY <3>1 DEF TypeOK
    <3>3. stream' \in Seq(Nat) /\ ends' \in Nat /\ pushing' \in BOOLEAN
      <4>1. stream \o SubSeq(buf, 1, req.cbRead) \in Seq(Nat)
        BY <3>2 DEF TypeOK
      <4>2. ends + 1 \in Nat /\ stream \in Seq(Nat) /\ ends \in Nat /\ pushing \in BOOLEAN
        BY DEF TypeOK
      <4> QED BY <2>5, <4>1, <4>2 DEF PushData, Sent, sent
    <3>4. req' \in SReqs
      BY <2>0, <2>5 DEF PushData, SReqs
    <3> QED BY <2>2, <2>5, <3>3, <3>4 DEF PushData, TypeOK, SReqs, given
  <2>6. CASE PushNull(w)
    <3>1. stream' \in Seq(Nat) /\ ends' \in Nat /\ pushing' \in BOOLEAN
      <4>1. stream \o <<>> \in Seq(Nat)
        BY DEF TypeOK
      <4>2. ends + 1 \in Nat /\ stream \in Seq(Nat) /\ ends \in Nat /\ pushing \in BOOLEAN
        BY DEF TypeOK
      <4> QED BY <2>6, <4>1, <4>2 DEF PushNull, Sent, sent
    <3>2. req' \in SReqs
      BY <2>0, <2>6 DEF PushNull, SReqs
    <3> QED BY <2>2, <2>6, <3>1, <3>2 DEF PushNull, TypeOK, SReqs, given
  <2>7. CASE FileIo(w)
    <3>1. (req.offset + got[w]) % OffsetLimit \in 0 .. OffsetLimit - 1
      BY PipeAssumption DEF TypeOK
    <3>2. got[w] \in 0 .. BufSize
      BY DEF TypeOK
    <3>3. req' \in SReqs
      <4> DEFINE done == [req EXCEPT !.cbRead = got[w], !.bReadOutstanding = FALSE,
                                     !.bBuf = TRUE]
                 o    == (req.offset + got[w]) % OffsetLimit
      <4>1. done \in SReqs /\ done.offset = req.offset
        BY <2>0, <3>2 DEF SReqs
      <4>2. \/ req' = done
            \/ req' = [done EXCEPT !.bReadsDone = @ \/ got[w] # BufSize,
                          !.bLastDataPushIssued = @ \/ got[w] = 0,
                          !.bNullPush = @ \/ (got[w] = 0 /\ ~req.bPushOutstanding),
                          !.offset = (@ + got[w]) % OffsetLimit]
        BY <2>7 DEF FileIo
      <4>3. \/ req' = done
            \/ req' = [done EXCEPT !.bReadsDone = @ \/ got[w] # BufSize,
                          !.bLastDataPushIssued = @ \/ got[w] = 0,
                          !.bNullPush = @ \/ (got[w] = 0 /\ ~req.bPushOutstanding),
                          !.offset = o]
        BY <4>1, <4>2
      <4>4. o \in 0 .. OffsetLimit - 1
        BY <3>1
      <4> HIDE DEF done, o
      <4> QED BY <4>1, <4>3, <4>4, ZenonT(40) DEF SReqs
    <3> QED BY <2>2, <2>7, <3>3 DEF FileIo, TypeOK, SReqs, given, io, sent
  <2>8. CASE PipeIo(w)
    BY <2>2, <2>8, ZenonT(40) DEF PipeIo, TypeOK, given, io, sent
  <2>9. CASE Shutdown(w)
    BY <2>2, <2>9 DEF Shutdown, TypeOK, given, io, sent
  <2> QED BY <1>4, <2>3, <2>4, <2>5, <2>6, <2>7, <2>8, <2>9 DEF Serve
<1>5. CASE UNCHANGED vars
  BY <1>5 DEF vars, TypeOK
<1> QED BY <1>1, <1>2, <1>3, <1>4, <1>5 DEF Next

\* Each step preserves the invariant, and Order if the offset does not wrap.
LEMMA PipeStep ==
  ASSUME TypeOK, PipeInv, [Next]_vars
  PROVE  PipeInv' /\ (NoWrap /\ Order => Order')
<1>1. CASE ReadEnds
  BY <1>1, ReadEndsSafe
<1>2. CASE PushEnds
  BY <1>2, PushEndsSafe
<1>3. ASSUME NEW w \in Workers, Dequeue(w) PROVE PipeInv' /\ (NoWrap /\ Order => Order')
  BY <1>3, DequeueSafe
<1>4. ASSUME NEW w \in Workers, Serve(w) PROVE PipeInv' /\ (NoWrap /\ Order => Order')
  BY <1>4, HandleSReqSafe, ReadSafe, PushDataSafe, PushNullSafe, FileIoSafe, PipeIoSafe,
     ShutdownSafe DEF Serve
<1>5. CASE UNCHANGED vars
  <2>1. PipeInv'
    BY <1>5 DEF vars, PipeInv, OneRead, OnePush, OneActor, Over, ActorsKnow, TokensKnow,
                DataKnown, Has, Once, At, ReadOut, PushOut, Unstarted, Running, MayForget
  <2>2. Order => Order'
    BY <1>5 DEF vars, Order, InOrder, Block, BytesAt, LastIsEmpty, SentKnown, Has, At, ReadOut,
                PushOut, Unstarted, Running
  <2> QED BY <2>1, <2>2
<1> QED BY <1>1, <1>2, <1>3, <1>4, <1>5 DEF Next

\* The invariant holds throughout the transfer of a file.
THEOREM PipeInductive == Spec => [](TypeOK /\ PipeInv)
<1>1. Init => TypeOK /\ PipeInv
  BY PipeInit
<1>2. TypeOK /\ PipeInv /\ [Next]_vars => (TypeOK /\ PipeInv)'
  BY TypeSafe, PipeStep
<1> QED BY <1>1, <1>2, PTL DEF Spec

\* The variables have their types: no read delivers more than pbReadBuf holds.
THEOREM PipeTypeCorrect == Spec => []TypeOK
BY PipeInductive, PTL

\* The ASSERTs of SServiceRequests hold: between the choice of an action, under the
\* lock, and the action itself, no other worker changes what the choice rested on.
THEOREM WorkersAgree == Spec => []AssertsHold
<1>1. TypeOK /\ PipeInv => AssertsHold
  <2> SUFFICES ASSUME TypeOK, PipeInv, NEW w \in Workers
               PROVE  /\ pc[w] = "read" => ~req.bBuf /\ ~req.bReadOutstanding
                      /\ pc[w] = "push" => ~req.bReadOutstanding /\ ~req.bPushOutstanding
                      /\ pc[w] = "push" /\ ~req.bNullPush => req.bBuf
                      /\ pc[w] = "IoFile" =>
                           req.bReadOutstanding /\ ~req.bBuf /\ ~req.bLastDataPushIssued
                      /\ pc[w] = "IoPipe" => req.bPushOutstanding
    BY DEF AssertsHold
  <2>1. \A k : pc[w] = k => At(k)
    BY DEF At
  <2>2. CASE req.alive
    BY <2>1, <2>2 DEF PipeInv, ActorsKnow, TokensKnow, ReadOut, PushOut, Running
  <2>3. CASE ~req.alive
    BY <2>1, <2>3 DEF PipeInv, Over, ReadOut, PushOut, Acting
  <2> QED BY <2>2, <2>3
<1> QED BY <1>1, PipeInductive, PTL

\* bReadOutstanding and bPushOutstanding tell what is outstanding, so that there is
\* one read and one push at a time at most.
THEOREM FlagsAgree == Spec => []FlagsTruthful
<1>1. TypeOK /\ PipeInv => FlagsTruthful
  <2>1. /\ ReadOut <=> reading \/ Has(port, "IoFile") \/ Has(port, "failed") \/ At("IoFile")
        /\ PushOut <=> pushing \/ Has(port, "IoPipe") \/ At("IoPipe")
        /\ Unstarted <=> Has(port, "IoFileRep") \/ At("IoFileRep")
    BY DEF ReadOut, PushOut, Unstarted
  <2>2. ASSUME TypeOK, PipeInv, req.alive, req.status = "ok", ~Unstarted, ~MayForget
        PROVE  /\ req.bReadOutstanding <=> reading \/ Has(port, "IoFile") \/ At("IoFile")
               /\ req.bPushOutstanding <=> pushing \/ Has(port, "IoPipe") \/ At("IoPipe")
    BY <2>1, <2>2 DEF PipeInv, TokensKnow
  <2> QED BY <2>1, <2>2 DEF FlagsTruthful, Has, At
<1> QED BY <1>1, PipeInductive, PTL

\* ServerShutdownRequest frees the request only when no packet, I/O or worker
\* refers to it, unless a ReadFile failed at once.
THEOREM NeverUsedAfterFree == Spec => []AliveWhenUsed
<1>1. TypeOK /\ PipeInv => AliveWhenUsed
  <2> SUFFICES ASSUME TypeOK, PipeInv, ~req.alive, "readNow" \notin faults
               PROVE  /\ ~reading /\ ~pushing /\ port = <<>>
                      /\ \A w \in Workers : pc[w] \notin Using
    BY DEF AliveWhenUsed
  <2>1. ~ReadOut /\ ~PushOut /\ ~Unstarted /\ \A w \in Workers : pc[w] = "wait"
    BY DEF PipeInv, Over
  <2>2. port = <<>>
    BY <2>1, HasNone DEF ReadOut, PushOut, Unstarted, TypeOK
  <2> QED BY <2>1, <2>2 DEF ReadOut, PushOut, Using
<1> QED BY <1>1, PipeInductive, PTL

-----------------------------------------------------------------------------
\* Nothing was sent when the request was activated.
LEMMA OrderInit ==
  ASSUME Init
  PROVE  Order
<1>1. /\ \A k : k # "IoFileRep" => ~Has(port, k)
      /\ \A k : k # "wait" => ~At(k)
  BY DEF Init, Packet, Has, At
<1>2. InOrder
  BY PipeAssumption DEF Init, InOrder
<1>3. ~ReadOut /\ ~Running
  BY <1>1 DEF Init, ReadOut, PushOut, Running
<1>4. call = "open" /\ ~req.fCallInvalidated /\ stream = <<>> /\ ends = 0
  BY DEF Init
<1> QED BY <1>1, <1>2, <1>3, <1>4 DEF Order

\* Order holds throughout the transfer of a file whose length the offset can hold.
LEMMA OrderInductive == NoWrap /\ Spec => [](TypeOK /\ PipeInv /\ Order)
<1>1. Init => TypeOK /\ PipeInv /\ Order
  BY PipeInit, OrderInit
<1>2. NoWrap /\ TypeOK /\ PipeInv /\ Order /\ [Next]_vars => (TypeOK /\ PipeInv /\ Order)'
  BY TypeSafe, PipeStep
<1>3. NoWrap => []NoWrap
  <2>1. NoWrap => NoWrap'
    BY DEF NoWrap
  <2> QED BY <2>1, PTL
<1> QED BY <1>1, <1>2, <1>3, PTL DEF Spec

\* What SServiceRequests pushes of a file shorter than 2^32 bytes is a prefix of it:
\* no interleaving of reads and pushes loses, repeats or swaps a block.
THEOREM BytesInOrder == NoWrap /\ Spec => []InOrder
<1>1. Order => InOrder
  BY DEF Order
<1> QED BY <1>1, OrderInductive, PTL

\* Each step is a step of module Transfer, or leaves its variables alone, or is one
\* of the two known exceptions.
LEMMA StepPromised ==
  ASSUME TypeOK, PipeInv, Order, TypeOK', Order', [Next]_vars
  PROVE  [Promise!Next \/ Excused']_(Promise!vars)
<1>1. CASE UNCHANGED <<size, stream, ends, call>>
  BY <1>1 DEF Promise!vars
<1>2. ASSUME NEW w \in Workers, PushData(w), req.alive
      PROVE  [Promise!Next \/ Excused']_(Promise!vars)
  <2>1. pc[w] = "push" /\ ~req.bNullPush /\ call' = call /\ size' = size
    BY <1>2 DEF PushData, given
  <2>2. At("push") /\ Running /\ req.bBuf /\ req.cbRead = Len(buf)
    BY <1>2, <2>1 DEF At, Running, PipeInv, ActorsKnow, DataKnown
  <2>3. InOrder /\ InOrder' /\ call = "open" /\ ends = 0 /\ buf = BytesAt(Len(stream))
    BY <1>2, <2>1, <2>2 DEF Order, SentKnown, Block
  <2>4. /\ stream \in Seq(Nat) /\ stream' \in Seq(Nat) /\ size \in Nat
        /\ Len(stream) \in Nat /\ Len(stream') \in Nat
    BY PipeAssumption, SMTT(30) DEF TypeOK
  <2>5. CASE UNCHANGED sent
    BY <1>1, <2>1, <2>5 DEF sent
  <2>6. CASE Sent(SubSeq(buf, 1, req.cbRead))
    <3>1. /\ Len(buf) \in 0 .. BufSize /\ Len(stream) + Len(buf) <= size
          /\ Len(buf) # BufSize => Len(stream) + Len(buf) = size
          /\ Len(stream') = Len(stream) + Len(buf)
          /\ ends' = IF Len(buf) = 0 THEN 1 ELSE 0
      BY <2>2, <2>3, <2>4, <2>6, BytesFollow DEF Sent
    <3>2. Len(buf) \in Nat
      BY <3>1, PipeAssumption
    <3>3. CASE Len(buf) = 0
      <4>1. Len(stream) = size /\ Len(stream') = size /\ ends' = 1
        BY <2>4, <3>1, <3>3, PipeAssumption
      <4>2. stream = Promise!File /\ stream' = stream
        BY <2>1, <2>3, <4>1 DEF InOrder, Promise!File
      <4> QED BY <2>1, <2>3, <4>1, <4>2 DEF Promise!Next, Promise!End
    <3>4. CASE Len(buf) # 0
      <4>1. Len(stream') \in Len(stream) + 1 .. size /\ ends' = ends
        BY <2>3, <2>4, <3>1, <3>2, <3>4
      <4>2. stream' = SubSeq(Promise!File, 1, Len(stream'))
        <5>1. ASSUME NEW n \in Nat, n <= size
              PROVE  SubSeq(Promise!File, 1, n) = [i \in 1 .. n |-> i]
          BY <2>4, <5>1 DEF Promise!File
        <5>2. Len(stream') <= size
          BY <2>4, <4>1
        <5> QED BY <2>3, <2>4, <5>1, <5>2 DEF InOrder
      <4> QED BY <2>1, <2>3, <4>1, <4>2 DEF Promise!Next, Promise!Send
    <3> QED BY <3>3, <3>4
  <2> QED BY <1>2, <2>5, <2>6 DEF PushData
<1>3. ASSUME NEW w \in Workers, PushNull(w), req.alive
      PROVE  [Promise!Next \/ Excused']_(Promise!vars)
  <2>1. pc[w] = "push" /\ req.bNullPush /\ call' = call /\ size' = size
    BY <1>3 DEF PushNull, given
  <2>2. At("push") /\ Running
    BY <2>1 DEF At, Running
  <2>3. /\ Len(stream) = size /\ (ends = 0 \/ LastIsEmpty)
        /\ InOrder /\ call = "open"
    BY <1>3, <2>1, <2>2 DEF Order, SentKnown
  <2>4. CASE UNCHANGED sent
    BY <1>1, <2>1, <2>4 DEF sent
  <2>5. CASE Sent(<<>>) /\ req' = [req EXCEPT !.bPushOutstanding = TRUE, !.status = "ok"]
    <3>1. stream' = stream /\ ends' = ends + 1
      <4>1. stream \o <<>> = stream
        BY DEF TypeOK
      <4> QED BY <2>5, <4>1 DEF Sent
    <3>2. CASE LastIsEmpty
      <4>1. req'.bNullPush
        BY <2>1, <2>5 DEF TypeOK
      <4> QED BY <2>1, <3>2, <4>1 DEF Excused, LastIsEmpty
    <3>3. CASE ~LastIsEmpty
      <4>1. stream = Promise!File /\ ends = 0 /\ ends' = 1
        BY <2>3, <3>1, <3>3 DEF InOrder, Promise!File
      <4> QED BY <2>1, <2>3, <3>1, <4>1 DEF Promise!Next, Promise!End
    <3> QED BY <3>2, <3>3
  <2> QED BY <1>3, <2>4, <2>5 DEF PushNull
<1>4. ASSUME NEW w \in Workers, Shutdown(w), req.alive
      PROVE  [Promise!Next \/ Excused']_(Promise!vars)
  <2>1. /\ UNCHANGED <<size, stream, ends, faults>>
        /\ req' = [req EXCEPT !.alive = FALSE]
        /\ call' = IF req.status # "ok" /\ ~req.fCallInvalidated THEN "aborted" ELSE "completed"
    BY <1>4 DEF Shutdown, given, sent
  <2>2. call = "open" /\ ("push" \in faults \/ ~req.fCallInvalidated)
    BY <1>4 DEF Order
  <2>3. CASE "push" \in faults
    BY <2>1, <2>3 DEF Excused
  <2>4. CASE "push" \notin faults /\ req.status # "ok"
    BY <2>1, <2>2, <2>4 DEF Promise!Next, Promise!Abort
  <2>5. CASE req.status = "ok"
    <3>1. pc[w] = "shutdown"
      BY <1>4, <2>5 DEF Shutdown, PipeInv, ActorsKnow, At
    <3>2. req.bNullPush /\ (ends = 1 \/ LastIsEmpty)
      BY <1>4, <2>5, <3>1 DEF Order, At
    <3>3. req'.bNullPush = req.bNullPush
      BY <2>1 DEF TypeOK
    <3> QED BY <2>1, <2>2, <2>5, <3>2, <3>3
            DEF Promise!Next, Promise!Complete, Excused, LastIsEmpty
  <2> QED BY <2>3, <2>4, <2>5
<1>5. CASE ReadEnds \/ PushEnds \/ \E w \in Workers : Dequeue(w)
  BY <1>1, <1>5 DEF ReadEnds, PushEnds, Dequeue, given, sent
<1>6. ASSUME NEW w \in Workers, HandleSReq(w) \/ Read(w) \/ FileIo(w) \/ PipeIo(w)
      PROVE  [Promise!Next \/ Excused']_(Promise!vars)
  BY <1>1, <1>6 DEF HandleSReq, Read, FileIo, PipeIo, given, sent
<1>7. CASE UNCHANGED vars
  BY <1>1, <1>7 DEF vars
<1> QED BY <1>2, <1>3, <1>4, <1>5, <1>6, <1>7 DEF Next, Serve

\* The workers implement module Transfer: every byte once and in order, then one
\* end, and only then the completion of the call, or else its abortion; except
\* after a failed push, and for the second end of a file of whole blocks.
THEOREM TransferImplemented == NoWrap /\ Spec => ImplementsTransfer
<1>1. Init => Promise!Init
  BY DEF Init, Promise!Init
<1>2. TypeOK /\ PipeInv /\ Order /\ TypeOK' /\ Order' /\ [Next]_vars
        => [Promise!Next \/ Excused']_(Promise!vars)
  BY StepPromised
<1> QED BY <1>1, <1>2, OrderInductive, PTL DEF Spec, ImplementsTransfer
=============================================================================
