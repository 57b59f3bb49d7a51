--------------------------- MODULE ClientPipeProofs ---------------------------
(***************************************************************************)
(* What holds of the transfer of a file at the client, for every number of *)
(* workers, size of the buffer, extension, width of a position, length of  *)
(* the file and set of faults.  What is said of the bytes of the file is   *)
(* said of a file that Fits in the LONGs, and of the positions where no    *)
(* write found the buffer overwritten: the code does no better.            *)
(*                                                                         *)
(* The argument counts: Count(k) is the number of packets in the port and  *)
(* of workers that are at step k, which taking a packet does not change.   *)
(* The duty to pull is in one place (Pullers), a write is outstanding or   *)
(* at step IoFile (Counted), and what a worker may conclude from the flags *)
(* follows from which counts are zero.  Each write was started for bytes   *)
(* of its own, which are in the buffer until the next pull (WritesKnown);  *)
(* in a file that fits a write has its own place too (Placed), and a byte  *)
(* that was pulled is there or in one write (FileKnown).                   *)
(***************************************************************************)
EXTENDS ClientPipe, FiniteSetTheorems, FunctionTheorems, TLAPS

PacketsAt(s, k) == {i \in 1 .. Len(s) : s[i].key = k}
WorkersAt(k)    == {w \in Workers : pc[w] = k}
Count(k)        == Cardinality(PacketsAt(port, k)) + Cardinality(WorkersAt(k))

\* The steps that use the request.
Busy == {"IoFileRep", "IoFile", "IoPipe", "pull"}

Packets == [key : {"IoFileRep", "IoFile", "IoPipe"}, n : 0 .. BufSize, ok : BOOLEAN]
Writes  == [from : Nat, n : 1 .. BufSize, pos : Dwords, done : BOOLEAN]
Request == [alive : BOOLEAN, Status : {"ok", "bad"}, FileWritePos : Longs,
            CurrentExtendedSize : Longs, Offset : Dwords, nWrites : Int, nBytes : Int,
            bCallMade : BOOLEAN, bCallCancelled : BOOLEAN, bPullOutstanding : BOOLEAN,
            bDataAvailable : BOOLEAN, bAllPullsDone : BOOLEAN,
            bCallComplete : BOOLEAN, bAsyncCallFailureReceived : BOOLEAN,
            bFailureFromPull : BOOLEAN, bFailureFromWrite : BOOLEAN]

Typed ==
  /\ faults \in FaultSets
  /\ rpc \in {"none", "open", "ok", "failed"} /\ taken \in Nat /\ pulling \in BOOLEAN
  /\ event \in {"none", "RpcReceiveComplete", "RpcCallComplete"}
  /\ req \in Request
  /\ buf \in [1 .. BufSize -> Nat]
  /\ writes \subseteq Writes /\ IsFiniteSet(writes)
  /\ file \in [Positions -> Nat] /\ length \in 0 .. 2 * PosLimit + BufSize
  /\ pointer \in 0 .. PosLimit - 1 /\ spoiled \subseteq Positions
  /\ completed \in Nat
  /\ port \in Seq(Packets)
  /\ pc \in [Workers -> Steps]
  /\ got \in [Workers -> Packets \cup {NoPacket}]

-----------------------------------------------------------------------------
LEMMA CountParts ==
  ASSUME port \in Seq(Packets), NEW k
  PROVE  /\ IsFiniteSet(PacketsAt(port, k)) /\ IsFiniteSet(WorkersAt(k))
         /\ Cardinality(PacketsAt(port, k)) \in Nat /\ Cardinality(WorkersAt(k)) \in Nat
         /\ Count(k) \in Nat
<1>1. Len(port) \in Nat
  OBVIOUS
<1>2. IsFiniteSet(1 .. Len(port)) /\ IsFiniteSet(Workers)
  BY <1>1, FS_Interval, ClientAssumption
<1>3. PacketsAt(port, k) \subseteq 1 .. Len(port) /\ WorkersAt(k) \subseteq Workers
  BY DEF PacketsAt, WorkersAt
<1>4. IsFiniteSet(PacketsAt(port, k)) /\ IsFiniteSet(WorkersAt(k))
  BY <1>2, <1>3, FS_Subset
<1>5. Cardinality(PacketsAt(port, k)) \in Nat /\ Cardinality(WorkersAt(k)) \in Nat
  BY <1>4, FS_CardinalityType
<1> QED BY <1>4, <1>5 DEF Count

LEMMA CountZero ==
  ASSUME port \in Seq(Packets), NEW k
  PROVE  Count(k) = 0 <=> PacketsAt(port, k) = {} /\ WorkersAt(k) = {}
<1>1. /\ Cardinality(PacketsAt(port, k)) = 0 <=> PacketsAt(port, k) = {}
      /\ Cardinality(WorkersAt(k)) = 0 <=> WorkersAt(k) = {}
  BY CountParts, FS_EmptySet
<1> QED BY <1>1, CountParts DEF Count

\* A worker at a step is counted.
LEMMA CountAt ==
  ASSUME port \in Seq(Packets), NEW w \in Workers
  PROVE  Count(pc[w]) \in Nat /\ Count(pc[w]) > 0
<1>1. w \in WorkersAt(pc[w])
  BY DEF WorkersAt
<1> QED BY <1>1, CountZero, CountParts

\* Where nothing is counted no packet waits, and every worker does.
LEMMA AllZero ==
  ASSUME Typed, \A k \in Busy : Count(k) = 0
  PROVE  port = <<>> /\ \A w \in Workers : pc[w] = "wait"
<1>1. ASSUME port # <<>> PROVE FALSE
  <2>1. 1 \in 1 .. Len(port) /\ port[1] \in Packets
    BY <1>1 DEF Typed
  <2>2. port[1].key \in Busy /\ 1 \in PacketsAt(port, port[1].key)
    BY <2>1 DEF Packets, Busy, PacketsAt
  <2> QED BY <2>2, CountZero DEF Typed
<1>2. ASSUME NEW w \in Workers, pc[w] # "wait" PROVE FALSE
  <2>1. pc[w] \in Busy
    BY <1>2 DEF Typed, Steps, Busy
  <2> QED BY <2>1, CountAt DEF Typed
<1> QED BY <1>1, <1>2

\* A packet is posted.
LEMMA CountPosted ==
  ASSUME Typed, NEW p \in Packets, port' = Append(port, p), UNCHANGED pc
  PROVE  \A k \in Busy : Count(k)' = IF p.key = k THEN Count(k) + 1 ELSE Count(k)
<1> SUFFICES ASSUME NEW k \in Busy
             PROVE  Count(k)' = IF p.key = k THEN Count(k) + 1 ELSE Count(k)
  OBVIOUS
<1>1. /\ Len(port') = Len(port) + 1 /\ Len(port) \in Nat
      /\ \A i \in 1 .. Len(port) : port'[i] = port[i]
      /\ port'[Len(port) + 1] = p
  BY DEF Typed
<1>2. WorkersAt(k)' = WorkersAt(k)
  BY DEF WorkersAt
<1>3. PacketsAt(port', k) = IF p.key = k THEN PacketsAt(port, k) \cup {Len(port) + 1}
                                        ELSE PacketsAt(port, k)
  BY <1>1 DEF PacketsAt
<1>4. Len(port) + 1 \notin PacketsAt(port, k)
  BY <1>1 DEF PacketsAt
<1>5. /\ IsFiniteSet(PacketsAt(port, k)) /\ Cardinality(PacketsAt(port, k)) \in Nat
      /\ Cardinality(WorkersAt(k)) \in Nat
  BY CountParts DEF Typed
<1>6. Cardinality(PacketsAt(port, k) \cup {Len(port) + 1}) = Cardinality(PacketsAt(port, k)) + 1
  BY <1>4, <1>5, FS_AddElement
<1>7. Count(k)' = Cardinality(PacketsAt(port', k)) + Cardinality(WorkersAt(k)')
  BY DEF Count, PacketsAt
<1> QED BY <1>2, <1>3, <1>5, <1>6, <1>7 DEF Count

\* A worker goes to another step.
LEMMA WorkersMoved ==
  ASSUME Typed, NEW w \in Workers, NEW s \in Steps, Goto(w, s), s # pc[w], NEW k
  PROVE  Cardinality(WorkersAt(k)') = Cardinality(WorkersAt(k))
             + (IF k = s THEN 1 ELSE 0) - (IF k = pc[w] THEN 1 ELSE 0)
<1>1. /\ pc'[w] = s
      /\ \A v \in Workers : v # w => pc'[v] = pc[v]
  BY DEF Goto, Typed
<1>2. IsFiniteSet(WorkersAt(k)) /\ Cardinality(WorkersAt(k)) \in Nat
  BY CountParts DEF Typed
<1>3. CASE k = s
  <2>1. w \notin WorkersAt(k) /\ WorkersAt(k)' = WorkersAt(k) \cup {w}
    BY <1>1, <1>3 DEF WorkersAt
  <2>2. Cardinality(WorkersAt(k)') = Cardinality(WorkersAt(k)) + 1
    BY <1>2, <2>1, FS_AddElement
  <2> QED BY <1>2, <1>3, <2>2
<1>4. CASE k = pc[w]
  <2>1. w \in WorkersAt(k) /\ WorkersAt(k)' = WorkersAt(k) \ {w}
    BY <1>1, <1>4 DEF WorkersAt
  <2>2. Cardinality(WorkersAt(k)') = Cardinality(WorkersAt(k)) - 1
    BY <1>2, <2>1, FS_RemoveElement
  <2> QED BY <1>2, <1>4, <2>2
<1>5. CASE k # s /\ k # pc[w]
  <2>1. WorkersAt(k)' = WorkersAt(k)
    BY <1>1, <1>5 DEF WorkersAt
  <2> QED BY <1>2, <1>5, <2>1
<1> QED BY <1>3, <1>4, <1>5

LEMMA CountMoved ==
  ASSUME Typed, NEW w \in Workers, NEW s \in Steps, Goto(w, s), UNCHANGED port
  PROVE  \A k \in Busy :
           Count(k)' = Count(k) + (IF k = s THEN 1 ELSE 0) - (IF k = pc[w] THEN 1 ELSE 0)
<1> SUFFICES ASSUME NEW k \in Busy
             PROVE  Count(k)' = Count(k) + (IF k = s THEN 1 ELSE 0) - (IF k = pc[w] THEN 1 ELSE 0)
  OBVIOUS
<1>1. Count(k)' = Cardinality(PacketsAt(port, k)) + Cardinality(WorkersAt(k)')
  BY DEF Count, PacketsAt
<1>2. Cardinality(PacketsAt(port, k)) \in Nat /\ Cardinality(WorkersAt(k)) \in Nat
  BY CountParts DEF Typed
<1>3. CASE s = pc[w]
  <2>1. pc' = pc
    BY <1>3 DEF Goto, Typed
  <2>2. WorkersAt(k)' = WorkersAt(k)
    BY <2>1 DEF WorkersAt
  <2> QED BY <1>1, <1>2, <1>3, <2>2 DEF Count
<1>4. CASE s # pc[w]
  BY <1>1, <1>2, <1>4, WorkersMoved DEF Count
<1> QED BY <1>3, <1>4

\* The first packet leaves the port: those that stay move up by one.
LEMMA PacketsMoved ==
  ASSUME NEW s \in Seq(Packets), s # <<>>, NEW k
  PROVE  /\ IsFiniteSet(PacketsAt(s, k)) /\ IsFiniteSet(PacketsAt(Tail(s), k))
         /\ 1 \in PacketsAt(s, k) <=> Head(s).key = k
         /\ [i \in PacketsAt(Tail(s), k) |-> i + 1]
              \in Bijection(PacketsAt(Tail(s), k), PacketsAt(s, k) \ {1})
<1> DEFINE t == Tail(s)
           f == [i \in PacketsAt(t, k) |-> i + 1]
<1>1. /\ Len(s) = Len(t) + 1 /\ Len(t) \in Nat
      /\ \A i \in 1 .. Len(t) : t[i] = s[i + 1]
      /\ s[1] = Head(s)
  OBVIOUS
<1> HIDE DEF t
<1>2. IsFiniteSet(1 .. Len(s)) /\ IsFiniteSet(1 .. Len(t))
  BY <1>1, FS_Interval
<1>3. IsFiniteSet(PacketsAt(s, k)) /\ IsFiniteSet(PacketsAt(t, k))
  <2>1. PacketsAt(s, k) \subseteq 1 .. Len(s) /\ PacketsAt(t, k) \subseteq 1 .. Len(t)
    BY DEF PacketsAt
  <2> QED BY <1>2, <2>1, FS_Subset
<1>4. 1 \in PacketsAt(s, k) <=> Head(s).key = k
  BY <1>1 DEF PacketsAt
<1>5. \A i \in PacketsAt(t, k) : i \in 1 .. Len(t) /\ f[i] = i + 1
                                 /\ f[i] \in PacketsAt(s, k) \ {1}
  BY <1>1 DEF PacketsAt
<1>6. \A j \in PacketsAt(s, k) \ {1} : j - 1 \in PacketsAt(t, k) /\ f[j - 1] = j
  <2> SUFFICES ASSUME NEW j \in PacketsAt(s, k) \ {1}
               PROVE  j - 1 \in PacketsAt(t, k) /\ f[j - 1] = j
    OBVIOUS
  <2>1. j \in 1 .. Len(s) /\ j # 1 /\ s[j].key = k
    BY DEF PacketsAt
  <2>2. j - 1 \in 1 .. Len(t) /\ t[j - 1] = s[(j - 1) + 1] /\ (j - 1) + 1 = j
    BY <1>1, <2>1
  <2>3. j - 1 \in PacketsAt(t, k)
    BY <2>1, <2>2 DEF PacketsAt
  <2> QED BY <2>2, <2>3
<1>7. f \in [PacketsAt(t, k) -> PacketsAt(s, k) \ {1}]
  BY <1>5
<1> HIDE DEF f
<1>8. \A a, b \in PacketsAt(t, k) : f[a] = f[b] => a = b
  BY <1>5
<1>9. f \in Bijection(PacketsAt(t, k), PacketsAt(s, k) \ {1})
  BY <1>6, <1>7, <1>8, Fun_IsBij
<1> QED BY <1>3, <1>4, <1>9 DEF f, t

\* Taking a packet changes no count.
LEMMA CountTaken ==
  ASSUME Typed, NEW w \in Workers, pc[w] = "wait", port # <<>>,
         Goto(w, Head(port).key), port' = Tail(port)
  PROVE  \A k \in Busy : Count(k)' = Count(k)
<1> SUFFICES ASSUME NEW k \in Busy PROVE Count(k)' = Count(k)
  OBVIOUS
<1> DEFINE s == Head(port).key
<1>1. s \in Steps /\ s # "wait" /\ k # "wait"
  <2>1. Head(port) \in Packets
    BY DEF Typed
  <2> QED BY <2>1 DEF Packets, Steps, Busy
<1>2. Cardinality(WorkersAt(k)') = Cardinality(WorkersAt(k)) + (IF k = s THEN 1 ELSE 0)
  <2>1. Cardinality(WorkersAt(k)) \in Nat
    BY CountParts DEF Typed
  <2> QED BY <1>1, <2>1, WorkersMoved
<1>3. /\ IsFiniteSet(PacketsAt(port, k)) /\ IsFiniteSet(PacketsAt(Tail(port), k))
      /\ 1 \in PacketsAt(port, k) <=> s = k
      /\ Cardinality(PacketsAt(Tail(port), k)) = Cardinality(PacketsAt(port, k) \ {1})
  <2>1. port \in Seq(Packets)
    BY DEF Typed
  <2>2. ExistsBijection(PacketsAt(Tail(port), k), PacketsAt(port, k) \ {1})
    BY <2>1, PacketsMoved DEF ExistsBijection
  <2>3. IsFiniteSet(PacketsAt(port, k)) /\ IsFiniteSet(PacketsAt(Tail(port), k))
        /\ (1 \in PacketsAt(port, k) <=> s = k)
    BY <2>1, PacketsMoved
  <2>4. IsFiniteSet(PacketsAt(port, k) \ {1})
    BY <2>3, FS_RemoveElement
  <2> QED BY <2>2, <2>3, <2>4, FS_Bijection
<1>4. Cardinality(PacketsAt(port, k) \ {1})
        = IF s = k THEN Cardinality(PacketsAt(port, k)) - 1 ELSE Cardinality(PacketsAt(port, k))
  BY <1>3, FS_RemoveElement
<1>5. Count(k)' = Cardinality(PacketsAt(Tail(port), k)) + Cardinality(WorkersAt(k)')
  BY DEF Count, PacketsAt
<1>6. Cardinality(PacketsAt(port, k)) \in Nat /\ Cardinality(WorkersAt(k)) \in Nat
  BY CountParts DEF Typed
<1> QED BY <1>2, <1>3, <1>4, <1>5, <1>6 DEF Count

-----------------------------------------------------------------------------
(***************************************************************************)
(* The bytes of the writes that were not accounted for: f[i] of each i in  *)
(* a set are as many as there are pairs of an i and a number up to f[i].   *)
(***************************************************************************)
Pairs(I, f) == {p \in I \X (1 .. BufSize) : p[2] <= f[p[1]]}
Bytes(I, f) == Cardinality(Pairs(I, f))

SetBytes(W)  == Bytes(W, [v \in W |-> v.n])
WriteBytes   == SetBytes(writes)
PortBytes(s) == Bytes(PacketsAt(s, "IoFile"), [i \in 1 .. Len(s) |-> s[i].n])
WorkerBytes  == Bytes(WorkersAt("IoFile"), [w \in Workers |-> got[w].n])
Owed         == WriteBytes + PortBytes(port) + WorkerBytes

LEMMA BytesType ==
  ASSUME NEW I, IsFiniteSet(I), NEW f
  PROVE  IsFiniteSet(Pairs(I, f)) /\ Bytes(I, f) \in Nat
<1>1. IsFiniteSet(1 .. BufSize)
  BY FS_Interval, ClientAssumption
<1>2. IsFiniteSet(I \X (1 .. BufSize))
  BY <1>1, FS_Product
<1>3. Pairs(I, f) \subseteq I \X (1 .. BufSize)
  BY DEF Pairs
<1>4. IsFiniteSet(Pairs(I, f))
  BY <1>2, <1>3, FS_Subset
<1> QED BY <1>4, FS_CardinalityType DEF Bytes

LEMMA BytesSame ==
  ASSUME NEW I, NEW f, NEW g, \A i \in I : f[i] = g[i]
  PROVE  Bytes(I, f) = Bytes(I, g)
<1>1. \A p \in I \X (1 .. BufSize) : f[p[1]] = g[p[1]]
  OBVIOUS
<1>2. Pairs(I, f) = Pairs(I, g)
  BY <1>1 DEF Pairs
<1> QED BY <1>2 DEF Bytes

\* One more element adds its bytes.
LEMMA BytesAdded ==
  ASSUME NEW I, IsFiniteSet(I), NEW x, x \notin I, NEW g, g[x] \in 0 .. BufSize
  PROVE  Bytes(I \cup {x}, g) = Bytes(I, g) + g[x]
<1> DEFINE n == g[x]
           X == {x} \X (1 .. n)
<1>1. n \in Nat /\ BufSize \in Nat /\ n <= BufSize
  BY ClientAssumption
<1>2. Pairs(I \cup {x}, g) = Pairs(I, g) \cup X
  <2>1. ASSUME NEW p \in Pairs(I \cup {x}, g) PROVE p \in Pairs(I, g) \cup X
    <3>1. p \in (I \cup {x}) \X (1 .. BufSize) /\ p[2] <= g[p[1]]
      BY <2>1 DEF Pairs
    <3>2. CASE p[1] \in I
      BY <3>1, <3>2 DEF Pairs
    <3>3. CASE p[1] = x
      <4>1. p[2] \in 1 .. n
        BY <1>1, <3>1, <3>3
      <4> QED BY <3>1, <3>3, <4>1
    <3> QED BY <3>1, <3>2, <3>3
  <2>2. ASSUME NEW p \in Pairs(I, g) \cup X PROVE p \in Pairs(I \cup {x}, g)
    <3>1. CASE p \in Pairs(I, g)
      BY <3>1 DEF Pairs
    <3>2. CASE p \in X
      <4>1. p \in {x} \X (1 .. BufSize) /\ p[2] <= g[p[1]] /\ p[1] = x
        BY <1>1, <3>2
      <4> QED BY <4>1 DEF Pairs
    <3> QED BY <2>2, <3>1, <3>2
  <2> QED BY <2>1, <2>2
<1>3. Pairs(I, g) \cap X = {}
  BY DEF Pairs
<1>4. IsFiniteSet(Pairs(I, g))
  BY BytesType
<1>5. IsFiniteSet(X) /\ Cardinality(X) = n
  <2>1. IsFiniteSet(1 .. n) /\ Cardinality(1 .. n) = n
    <3>1. n \in Nat
      BY <1>1
    <3> HIDE DEF n
    <3>2. IsFiniteSet(1 .. n) /\ Cardinality(1 .. n) = IF 1 > n THEN 0 ELSE n - 1 + 1
      BY <3>1, FS_Interval
    <3> QED BY <3>1, <3>2
  <2> DEFINE h == [i \in 1 .. n |-> <<x, i>>]
  <2>2. h \in [1 .. n -> X]
    OBVIOUS
  <2>3. \A a, b \in 1 .. n : h[a] = h[b] => a = b
    OBVIOUS
  <2>4. \A p \in X : \E i \in 1 .. n : h[i] = p
    OBVIOUS
  <2> HIDE DEF h, X
  <2>5. h \in Bijection(1 .. n, X)
    BY <2>2, <2>3, <2>4, Fun_IsBij
  <2>6. ExistsBijection(1 .. n, X)
    BY <2>5 DEF ExistsBijection
  <2> QED BY <2>1, <2>6, FS_Bijection
<1> HIDE DEF X
<1>6. Cardinality(Pairs(I, g) \cup X)
        = Cardinality(Pairs(I, g)) + Cardinality(X) - Cardinality(Pairs(I, g) \cap X)
  BY <1>4, <1>5, FS_Union
<1>7. Cardinality(Pairs(I, g) \cap X) = 0
  BY <1>3, FS_EmptySet
<1>8. Cardinality(Pairs(I, g)) \in Nat
  BY <1>4, FS_CardinalityType
<1>9. Cardinality(Pairs(I, g) \cup X) = Cardinality(Pairs(I, g)) + n
  BY <1>1, <1>5, <1>6, <1>7, <1>8
<1> QED BY <1>2, <1>9 DEF Bytes

LEMMA BytesRemoved ==
  ASSUME NEW I, IsFiniteSet(I), NEW x \in I, NEW g, g[x] \in 0 .. BufSize
  PROVE  Bytes(I \ {x}, g) = Bytes(I, g) - g[x]
<1>1. IsFiniteSet(I \ {x}) /\ x \notin I \ {x} /\ (I \ {x}) \cup {x} = I
  BY FS_RemoveElement
<1>2. Bytes((I \ {x}) \cup {x}, g) = Bytes(I \ {x}, g) + g[x]
  BY <1>1, BytesAdded
<1>3. Bytes(I \ {x}, g) \in Nat /\ g[x] \in Int
  BY <1>1, BytesType, ClientAssumption
<1>4. Bytes(I, g) = Bytes(I \ {x}, g) + g[x]
  BY <1>1, <1>2
<1> QED BY <1>3, <1>4

LEMMA OwedType ==
  ASSUME Typed
  PROVE  WriteBytes \in Nat /\ PortBytes(port) \in Nat /\ WorkerBytes \in Nat /\ Owed \in Nat
<1>1. WriteBytes \in Nat
  BY BytesType DEF WriteBytes, SetBytes, Typed
<1>2. PortBytes(port) \in Nat
  BY BytesType, CountParts DEF PortBytes, Typed
<1>3. WorkerBytes \in Nat
  BY BytesType, CountParts DEF WorkerBytes, Typed
<1> QED BY <1>1, <1>2, <1>3 DEF Owed

\* A packet that is posted is charged its bytes, if it is of a write.
LEMMA OwedPosted ==
  ASSUME Typed, NEW p \in Packets, port' = Append(port, p)
  PROVE  PortBytes(port') = PortBytes(port) + (IF p.key = "IoFile" THEN p.n ELSE 0)
<1> DEFINE I == PacketsAt(port, "IoFile")
           x == Len(port) + 1
           f == [i \in 1 .. Len(port) |-> port[i].n]
           g == [i \in 1 .. Len(port') |-> port'[i].n]
<1>1. /\ Len(port') = x /\ Len(port) \in Nat
      /\ \A i \in 1 .. Len(port) : port'[i] = port[i]
      /\ port'[x] = p
  BY DEF Typed
<1>2. PacketsAt(port', "IoFile") = IF p.key = "IoFile" THEN I \cup {x} ELSE I
  BY <1>1 DEF PacketsAt
<1>3. x \notin I /\ \A i \in I : i \in 1 .. Len(port)
  BY <1>1 DEF PacketsAt
<1>4. IsFiniteSet(I)
  BY CountParts DEF Typed
<1>5. \A i \in I : f[i] = g[i]
  BY <1>1, <1>3
<1>6. g[x] = p.n /\ p.n \in 0 .. BufSize
  BY <1>1 DEF Packets
<1>7. PortBytes(port') = Bytes(PacketsAt(port', "IoFile"), g) /\ PortBytes(port) = Bytes(I, f)
  BY DEF PortBytes
<1> HIDE DEF I, f, g, x
<1>8. CASE p.key = "IoFile"
  <2>1. g[x] \in 0 .. BufSize
    BY <1>6
  <2>2. Bytes(I \cup {x}, g) = Bytes(I, g) + g[x]
    BY <1>3, <1>4, <2>1, BytesAdded
  <2>3. Bytes(I, f) = Bytes(I, g)
    BY <1>5, BytesSame
  <2> QED BY <1>2, <1>6, <1>7, <1>8, <2>2, <2>3
<1>9. CASE p.key # "IoFile"
  <2>1. Bytes(I, f) = Bytes(I, g) /\ Bytes(I, f) \in Nat
    BY <1>4, <1>5, BytesSame, BytesType
  <2> QED BY <1>2, <1>7, <1>9, <2>1
<1> QED BY <1>8, <1>9

\* A worker that leaves step IoFile takes the bytes of its packet with it.
LEMMA OwedMoved ==
  ASSUME Typed, NEW w \in Workers, NEW s \in Steps \ {"IoFile"}, Handled(w, s)
  PROVE  WorkerBytes' = WorkerBytes - (IF pc[w] = "IoFile" THEN got[w].n ELSE 0)
<1> DEFINE I == WorkersAt("IoFile")
           f == [v \in Workers |-> got[v].n]
           g == [v \in Workers |-> got'[v].n]
<1>1. /\ pc'[w] = s
      /\ \A v \in Workers : v # w => pc'[v] = pc[v] /\ got'[v] = got[v]
  BY DEF Handled, Goto, Typed
<1>2. WorkersAt("IoFile")' = IF pc[w] = "IoFile" THEN I \ {w} ELSE I
  BY <1>1 DEF WorkersAt
<1>3. IsFiniteSet(I)
  BY CountParts DEF Typed
<1>4. pc[w] = "IoFile" => w \in I
  BY DEF WorkersAt
<1>5. f[w] \in 0 .. BufSize /\ f[w] = got[w].n
  <2>1. got[w] \in Packets \cup {NoPacket}
    BY DEF Typed
  <2> QED BY <2>1, ClientAssumption DEF Packets, NoPacket
<1>6. WorkerBytes' = Bytes(WorkersAt("IoFile")', g) /\ WorkerBytes = Bytes(I, f)
  BY DEF WorkerBytes, Bytes, Pairs
<1>7. \A v \in I \ {w} : f[v] = g[v]
  BY <1>1 DEF WorkersAt
<1>8. Bytes(I \ {w}, f) = Bytes(I \ {w}, g)
  BY <1>7, BytesSame
<1>9. w \notin I => I \ {w} = I
  OBVIOUS
<1>10. pc[w] # "IoFile" => w \notin I
  BY DEF WorkersAt
<1> HIDE DEF I, f, g
<1>11. CASE pc[w] = "IoFile"
  <2>1. w \in I /\ f[w] \in 0 .. BufSize
    BY <1>4, <1>5, <1>11
  <2>2. Bytes(I \ {w}, f) = Bytes(I, f) - f[w]
    BY <1>3, <2>1, BytesRemoved
  <2> QED BY <1>2, <1>5, <1>6, <1>11, <1>8, <2>2
<1>12. CASE pc[w] # "IoFile"
  <2>1. Bytes(I, f) \in Nat
    BY <1>3, BytesType
  <2> QED BY <1>2, <1>6, <1>12, <1>8, <1>9, <1>10, <2>1
<1> QED BY <1>11, <1>12

\* Taking a packet leaves what is owed as it is.
LEMMA OwedTaken ==
  ASSUME Typed, NEW w \in Workers, pc[w] = "wait", port # <<>>,
         Goto(w, Head(port).key), port' = Tail(port),
         got' = [got EXCEPT ![w] = Head(port)], UNCHANGED writes
  PROVE  Owed' = Owed
<1> DEFINE s == Tail(port)
           p == Head(port)
           I == PacketsAt(port, "IoFile")
           J == PacketsAt(s, "IoFile")
           W == WorkersAt("IoFile")
           f == [i \in 1 .. Len(port) |-> port[i].n]
           g == [i \in 1 .. Len(s) |-> s[i].n]
           h == [i \in J |-> i + 1]
           k == [v \in Workers |-> got[v].n]
           l == [v \in Workers |-> got'[v].n]
<1>1. /\ p \in Packets /\ p.n \in 0 .. BufSize /\ port[1] = p
      /\ Len(port) = Len(s) + 1 /\ Len(s) \in Nat
      /\ \A i \in 1 .. Len(s) : s[i] = port[i + 1]
  <2>1. port \in Seq(Packets)
    BY DEF Typed
  <2>2. /\ p \in Packets /\ port[1] = p
        /\ Len(port) = Len(s) + 1 /\ Len(s) \in Nat
        /\ \A i \in 1 .. Len(s) : s[i] = port[i + 1]
    BY <2>1
  <2> QED BY <2>2 DEF Packets
<1>2. /\ IsFiniteSet(I) /\ IsFiniteSet(J)
      /\ 1 \in I <=> p.key = "IoFile"
      /\ h \in Bijection(J, I \ {1})
  <2>1. port \in Seq(Packets)
    BY DEF Typed
  <2> QED BY <2>1, PacketsMoved
<1>3. Bytes(J, g) = Bytes(I \ {1}, f)
  <2> DEFINE P == Pairs(J, g)
             Q == Pairs(I \ {1}, f)
             m == [q \in P |-> <<q[1] + 1, q[2]>>]
  <2>1. \A i \in J : i \in 1 .. Len(s) /\ i + 1 \in I \ {1} /\ g[i] = f[i + 1]
    <3>1. \A i \in J : h[i] \in I \ {1}
      BY <1>2 DEF Bijection, Injection
    <3>2. \A i \in J : i \in 1 .. Len(s) /\ i + 1 \in 1 .. Len(port)
      BY <1>1 DEF PacketsAt
    <3> QED BY <1>1, <3>1, <3>2
  <2>2. \A j \in I \ {1} : j - 1 \in J /\ g[j - 1] = f[j] /\ j \in Nat
    <3> SUFFICES ASSUME NEW j \in I \ {1} PROVE j - 1 \in J /\ g[j - 1] = f[j] /\ j \in Nat
      OBVIOUS
    <3>1. PICK i \in J : h[i] = j
      BY <1>2 DEF Bijection, Surjection
    <3>2. i \in 1 .. Len(s) /\ h[i] = i + 1
      BY <2>1
    <3>3. j = i + 1 /\ j - 1 = i
      BY <3>1, <3>2
    <3>4. g[i] = f[j] /\ j \in Nat
      <4>1. g[i] = f[i + 1]
        BY <2>1
      <4> HIDE DEF g, f, J, I, s
      <4> QED BY <1>1, <3>2, <3>3, <4>1
    <3>5. j - 1 \in J
      BY <3>3
    <3> HIDE DEF g, f, J, I
    <3> QED BY <3>3, <3>4, <3>5
  <2>3. \A q \in P : q[1] \in J /\ q[2] \in 1 .. BufSize /\ q[2] <= g[q[1]] /\ q = <<q[1], q[2]>>
    <3> HIDE DEF J, g
    <3> QED BY DEF Pairs
  <2>4. \A q \in P : m[q] = <<q[1] + 1, q[2]>> /\ m[q] \in Q
    BY <2>1, <2>3, ZenonT(40) DEF Pairs
  <2>5. \A q \in Q : <<q[1] - 1, q[2]>> \in P /\ m[<<q[1] - 1, q[2]>>] = q
    <3> SUFFICES ASSUME NEW q \in Q PROVE <<q[1] - 1, q[2]>> \in P /\ m[<<q[1] - 1, q[2]>>] = q
      OBVIOUS
    <3>1. q[1] \in I \ {1} /\ q[2] \in 1 .. BufSize /\ q[2] <= f[q[1]] /\ q = <<q[1], q[2]>>
      BY DEF Pairs
    <3>2. <<q[1] - 1, q[2]>> \in P
      BY <2>2, <3>1 DEF Pairs
    <3>3. (q[1] - 1) + 1 = q[1]
      <4>1. q[1] \in Nat
        BY <2>2, <3>1
      <4> QED BY <4>1
    <3> QED BY <3>1, <3>2, <3>3
  <2>6. \A a, b \in P : m[a] = m[b] => a = b
    <3> SUFFICES ASSUME NEW a \in P, NEW b \in P, m[a] = m[b] PROVE a = b
      OBVIOUS
    <3>1. a[1] + 1 = b[1] + 1 /\ a[2] = b[2]
      BY <2>4
    <3>2. a[1] \in Nat /\ b[1] \in Nat
      <4>1. \A i \in J : i \in 1 .. Len(s)
        BY <2>1
      <4>2. a[1] \in J /\ b[1] \in J
        BY <2>3
      <4>3. a[1] \in 1 .. Len(s) /\ b[1] \in 1 .. Len(s)
        BY <4>1, <4>2
      <4> HIDE DEF s
      <4> QED BY <1>1, <4>3
    <3>3. a[1] = b[1]
      BY <3>1, <3>2
    <3>4. a = <<a[1], a[2]>> /\ b = <<b[1], b[2]>>
      BY <2>3
    <3> HIDE DEF P, m
    <3> QED BY <3>1, <3>3, <3>4
  <2>7. m \in [P -> Q]
    BY <2>4
  <2>8. IsFiniteSet(P)
    BY <1>2, BytesType
  <2> HIDE DEF m, P, Q
  <2>9. m \in Bijection(P, Q)
    BY <2>5, <2>6, <2>7, Fun_IsBij
  <2>10. Cardinality(Q) = Cardinality(P)
    BY <2>8, <2>9, FS_Bijection DEF ExistsBijection
  <2> QED BY <2>10 DEF P, Q, Bytes
<1>4. PortBytes(port') = Bytes(J, g) /\ PortBytes(port) = Bytes(I, f)
  BY DEF PortBytes
<1>5. WorkerBytes' = Bytes(WorkersAt("IoFile")', l) /\ WorkerBytes = Bytes(W, k)
  BY DEF WorkerBytes, Bytes, Pairs
<1>6. /\ WorkersAt("IoFile")' = IF p.key = "IoFile" THEN W \cup {w} ELSE W
      /\ w \notin W /\ W \subseteq Workers
      /\ \A v \in W : k[v] = l[v]
      /\ l[w] = p.n
  BY DEF WorkersAt, Goto, Typed
<1>7. IsFiniteSet(W)
  BY CountParts DEF Typed
<1>8. f[1] = p.n
  BY <1>1
<1>9. WriteBytes' = WriteBytes
  BY DEF WriteBytes, SetBytes, Bytes, Pairs
<1>10. WriteBytes \in Nat /\ Bytes(I, f) \in Nat /\ Bytes(W, k) \in Nat /\ p.n \in Nat
  BY <1>1, <1>2, <1>7, BytesType, OwedType, ClientAssumption
<1>11. Owed' = WriteBytes' + PortBytes(port') + WorkerBytes'
  BY DEF Owed
<1> HIDE DEF I, J, W, f, g, k, l
<1>12. CASE p.key = "IoFile"
  <2>1. f[1] \in 0 .. BufSize /\ l[w] \in 0 .. BufSize /\ 1 \in I
    BY <1>1, <1>2, <1>6, <1>8, <1>12
  <2>2. Bytes(I \ {1}, f) = Bytes(I, f) - f[1]
    BY <1>2, <2>1, BytesRemoved
  <2>3. Bytes(W \cup {w}, l) = Bytes(W, l) + l[w]
    BY <1>6, <1>7, <2>1, BytesAdded
  <2>4. Bytes(W, k) = Bytes(W, l)
    BY <1>6, BytesSame
  <2>5. PortBytes(port') = Bytes(I, f) - p.n /\ WorkerBytes' = Bytes(W, k) + p.n
    BY <1>3, <1>4, <1>5, <1>6, <1>8, <1>12, <2>2, <2>3, <2>4
  <2> QED BY <1>4, <1>5, <1>9, <1>10, <1>11, <2>5 DEF Owed
<1>13. CASE p.key # "IoFile"
  <2>1. I \ {1} = I /\ Bytes(W, l) = Bytes(W, k)
    BY <1>2, <1>6, <1>13, BytesSame
  <2> QED BY <1>3, <1>4, <1>5, <1>6, <1>9, <1>11, <1>13, <2>1 DEF Owed
<1> QED BY <1>12, <1>13

\* A write that starts, one that ends, and one that is carried out.
LEMMA OwedStarted ==
  ASSUME NEW W \in SUBSET Writes, IsFiniteSet(W), NEW v \in Writes, v \notin W
  PROVE  SetBytes(W \cup {v}) = SetBytes(W) + v.n
<1> DEFINE f == [u \in W |-> u.n]
           g == [u \in W \cup {v} |-> u.n]
<1>1. SetBytes(W) = Bytes(W, f) /\ SetBytes(W \cup {v}) = Bytes(W \cup {v}, g)
  BY DEF SetBytes
<1>2. (\A u \in W : f[u] = g[u]) /\ g[v] = v.n
  OBVIOUS
<1>3. g[v] \in 0 .. BufSize
  BY <1>2, ClientAssumption DEF Writes
<1> HIDE DEF f, g
<1>4. Bytes(W \cup {v}, g) = Bytes(W, g) + g[v]
  BY <1>3, BytesAdded
<1>5. Bytes(W, f) = Bytes(W, g)
  BY <1>2, BytesSame
<1> QED BY <1>1, <1>2, <1>4, <1>5

LEMMA OwedEnded ==
  ASSUME NEW W \in SUBSET Writes, IsFiniteSet(W), NEW v \in W
  PROVE  SetBytes(W \ {v}) = SetBytes(W) - v.n /\ IsFiniteSet(W \ {v})
<1>1. IsFiniteSet(W \ {v}) /\ (W \ {v}) \cup {v} = W /\ v \notin W \ {v}
  BY FS_RemoveElement
<1>2. SetBytes((W \ {v}) \cup {v}) = SetBytes(W \ {v}) + v.n
  BY <1>1, OwedStarted
<1>3. SetBytes(W \ {v}) \in Nat /\ v.n \in Int
  BY <1>1, BytesType DEF SetBytes, Writes
<1>4. SetBytes(W) = SetBytes(W \ {v}) + v.n
  BY <1>1, <1>2
<1> QED BY <1>1, <1>3, <1>4

LEMMA OwedCarried ==
  ASSUME NEW W \in SUBSET Writes, IsFiniteSet(W), NEW v \in W, NEW u \in Writes \ W, u.n = v.n
  PROVE  /\ SetBytes((W \ {v}) \cup {u}) = SetBytes(W)
         /\ IsFiniteSet((W \ {v}) \cup {u})
         /\ Cardinality((W \ {v}) \cup {u}) = Cardinality(W)
<1>1. IsFiniteSet(W \ {v}) /\ Cardinality(W \ {v}) = Cardinality(W) - 1 /\ Cardinality(W) \in Nat
  BY FS_RemoveElement, FS_CardinalityType
<1>2. /\ IsFiniteSet((W \ {v}) \cup {u})
      /\ Cardinality((W \ {v}) \cup {u}) = Cardinality(W \ {v}) + 1
  BY <1>1, FS_AddElement
<1>3. SetBytes((W \ {v}) \cup {u}) = SetBytes(W \ {v}) + u.n
  BY <1>1, OwedStarted
<1>4. SetBytes(W \ {v}) = SetBytes(W) - v.n
  BY OwedEnded
<1>5. SetBytes(W) \in Nat /\ v.n \in Int
  BY BytesType DEF SetBytes, Writes
<1> QED BY <1>1, <1>2, <1>3, <1>4, <1>5

-----------------------------------------------------------------------------
(***************************************************************************)
(* The inductive invariant.                                                *)
(***************************************************************************)
\* A notification of data that no worker has handled, and who has to pull: a worker
\* that is to make the call or that pulls, the pull that is outstanding, or the
\* worker that will handle the notification.
Noticed == IF event = "RpcReceiveComplete" THEN Count("IoPipe") ELSE 0
Pullers == Count("IoFileRep") + Count("pull") + (IF pulling THEN 1 ELSE 0) + Noticed

\* What the server promises, as far as the client relies on it.
ServerKnown ==
  /\ size \in FileSizes /\ Len(stream) \in Nat /\ Len(stream) <= size
  /\ stream = [i \in 1 .. Len(stream) |-> i]
  /\ ends \in {0, 1}
  /\ ends = 1 => Len(stream) = size
  /\ call = "completed" => ends = 1

Last(write) == write.from + write.n
Covered(i)  == \E write \in writes : ~write.done /\ i \in write.from + 1 .. Last(write)

\* Nothing more was counted than was pulled.
Reached ==
  /\ taken <= Len(stream) /\ req.nWrites <= taken /\ req.nBytes <= taken
  /\ rpc # "none" /\ req.bFailureFromWrite => ~Without({"writeNow", "writeLater"})

\* A write was started for bytes of its own, which are in the buffer until the next pull.
WritesKnown ==
  /\ \A write \in writes :
       /\ Last(write) <= taken
       /\ ~write.done => \/ buf[1] > write.from + 1
                         \/ Intact(write) /\ req.Offset = write.pos
  /\ \A u, v \in writes : u # v => Last(u) <= v.from \/ Last(v) <= u.from
  /\ \A i \in 1 .. BufSize : buf[i] <= taken
  /\ \A i \in Positions : file[i] <= taken

\* If no position overflows, all that was pulled was to be written in its place, unless a
\* WriteFile failed, and the file was extended in time.
Placed ==
  Fits =>
    /\ 0 <= req.FileWritePos /\ req.FileWritePos <= taken
    /\ req.FileWritePos = taken \/ (rpc # "none" /\ req.bFailureFromWrite)
    /\ \E k \in Nat : req.CurrentExtendedSize = k * Extension
    /\ req.FileWritePos <= req.CurrentExtendedSize
    /\ \A write \in writes : Last(write) <= req.FileWritePos /\ write.pos = write.from

\* A byte of the file is not there, or at its place; none is lost unless a write failed,
\* or found the buffer overwritten.
FileKnown ==
  Fits =>
    \A i \in Positions \ spoiled :
      /\ file[i] \in {0, i}
      /\ file[i] = i => i <= req.FileWritePos /\ ~Covered(i)
      /\ i <= req.FileWritePos /\ ~Covered(i) /\ Without({"writeLater"}) => file[i] = i

\* The file is as long as it was extended until the request is freed.
LengthKnown ==
  Fits /\ spoiled = {} /\ req.CurrentExtendedSize # 0 =>
    length = IF req.alive THEN req.CurrentExtendedSize ELSE req.FileWritePos

\* The counters of the request are exact; nBytes is not charged for a write that failed.
Counted ==
  /\ req.nWrites = Cardinality(writes) + Count("IoFile")
  /\ req.nBytes >= Owed
  /\ Without({"writeLater"}) => req.nBytes = Owed
  /\ ~req.alive => req.nWrites = 0

\* No write fails that was started, unless it may.
AllOk == Without({"writeLater"}) => /\ \A i \in 1 .. Len(port) : port[i].ok
                                    /\ \A w \in Workers : got[w].ok

\* Before the call is made nothing is under way, and HandleReq is to come only then.
Unmade ==
  rpc = "none" =>
    /\ event = "none" /\ ~pulling /\ Count("pull") = 0
    /\ taken = 0 /\ req.FileWritePos = 0 /\ req.CurrentExtendedSize = 0
    /\ ~req.bCallMade /\ ~req.bCallCancelled /\ completed = 0
    /\ ~req.alive => Count("IoFileRep") = 0
    /\ ~req.alive /\ Without({"writeLater", "zero"}) => req.Status = "bad"
Made == rpc # "none" => Count("IoFileRep") = 0 /\ req.bCallMade

\* What the notifications say of the call.
CallKnown ==
  /\ event = "RpcCallComplete" => rpc \in {"ok", "failed"}
  /\ event = "none" => Count("IoPipe") = 0
  /\ pulling => rpc = "open"
  /\ rpc = "ok" => /\ event = "RpcCallComplete" /\ Count("IoPipe") <= 1
                   /\ taken = Len(stream) /\ call = "completed"

OnePuller == Pullers <= 1

\* What the flags say of the call and of who pulls.
FlagsKnown ==
  rpc # "none" =>
    /\ req.bDataAvailable => taken < Len(stream) \/ ends > 0
    /\ Noticed > 0 => (taken < Len(stream) \/ ends > 0) /\ req.bPullOutstanding
    /\ pulling => req.bPullOutstanding
    /\ req.bCallComplete => /\ rpc # "open"
                            /\ rpc = "ok" => Count("IoPipe") = 0
                            /\ rpc = "failed" => req.bFailureFromPull
    /\ req.bAsyncCallFailureReceived => rpc = "failed" /\ req.Status = "bad"
    /\ req.bFailureFromPull => rpc = "failed" /\ req.Status = "bad" /\ req.bAllPullsDone
    /\ req.bAllPullsDone => Stopped \/ Pullers = 0

\* How the request ends, if no write fails that was started, and no failure has a Status
\* of 0: what is cancelled is so for a WriteFile that failed at once.
Outcome ==
  Without({"writeLater", "zero"}) /\ rpc # "none" =>
    /\ req.bCallCancelled => req.bFailureFromWrite
    /\ req.bFailureFromWrite => Pullers = 0
    /\ req.bFailureFromWrite /\ req.bAllPullsDone => req.bAsyncCallFailureReceived
    /\ completed > 0 => rpc \in {"ok", "failed"}
    /\ ~req.alive /\ req.Status = "ok" => rpc = "ok" /\ ~req.bFailureFromWrite

\* If the call does not fail by itself either, then there is one notification of its end.
Quiet ==
  Without({"call", "writeLater", "zero"}) /\ rpc # "none" =>
    /\ Count("IoPipe") <= 1
    /\ rpc = "failed" => req.bCallCancelled \/ req.bFailureFromPull
    /\ req.bFailureFromPull => Count("IoPipe") = 0 /\ Pullers = 0
    /\ req.bAsyncCallFailureReceived => Count("IoPipe") = 0 /\ req.bFailureFromWrite

\* Then nothing is left when the request is freed.
Gone ==
  Without({"call", "writeLater", "zero"}) /\ ~req.alive =>
    /\ writes = {} /\ ~pulling /\ rpc # "open"
    /\ \A k \in Busy : Count(k) = 0

Control == /\ Unmade /\ Made /\ CallKnown /\ OnePuller /\ FlagsKnown
           /\ Outcome /\ Quiet /\ Gone

ClientInv == /\ Typed /\ ServerKnown /\ Reached /\ WritesKnown /\ Placed /\ FileKnown
             /\ LengthKnown /\ Counted /\ AllOk /\ Control

-----------------------------------------------------------------------------
LEMMA KindsKept ==
  ASSUME UNCHANGED faults
  PROVE  \A kinds : Without(kinds)' <=> Without(kinds)
BY DEF Without

LEMMA Kinds ==
  /\ Without({"call", "writeLater", "zero"}) => Without({"writeLater", "zero"})
  /\ Without({"writeLater", "zero"}) => Without({"writeLater"}) /\ Without({"zero"})
  /\ Without({"writeNow", "writeLater"}) => Without({"writeLater"})
  /\ "writeLater" \in faults => ~Without({"writeLater"})
  /\ "zero" \in faults => ~Without({"zero"}) /\ ~Without({"writeLater", "zero"})
  /\ "writeNow" \in faults => ~Without({"writeNow", "writeLater"})
  /\ "call" \in faults => ~Without({"call", "writeLater", "zero"})
  /\ ~Without({"writeLater"}) => /\ ~Without({"writeNow", "writeLater"})
                                 /\ ~Without({"writeLater", "zero"})
BY DEF Without

\* The counts are natural numbers, and so is what is owed.
LEMMA CountTypes ==
  ASSUME Typed
  PROVE  /\ Count("IoFileRep") \in Nat /\ Count("IoFile") \in Nat
         /\ Count("IoPipe") \in Nat /\ Count("pull") \in Nat
         /\ Cardinality(writes) \in Nat /\ (Cardinality(writes) = 0 <=> writes = {})
         /\ \A k \in Busy : k \in {"IoFileRep", "IoFile", "IoPipe", "pull"}
<1>1. Cardinality(writes) \in Nat /\ (Cardinality(writes) = 0 <=> writes = {})
  BY FS_CardinalityType, FS_EmptySet DEF Typed
<1> QED BY <1>1, CountParts DEF Typed, Busy

\* Without a write, a packet of one or a worker with one nothing is owed.
LEMMA NothingOwed ==
  ASSUME Typed, writes = {}, Count("IoFile") = 0
  PROVE  Owed = 0
<1>1. PacketsAt(port, "IoFile") = {} /\ WorkersAt("IoFile") = {}
  BY CountZero DEF Typed
<1>2. \A f : Pairs({}, f) = {}
  BY DEF Pairs
<1>3. \A f : Bytes({}, f) = 0
  BY <1>2, FS_EmptySet DEF Bytes
<1>4. WriteBytes = 0 /\ PortBytes(port) = 0 /\ WorkerBytes = 0
  BY <1>1, <1>3 DEF WriteBytes, SetBytes, PortBytes, WorkerBytes
<1> QED BY <1>4 DEF Owed

\* The file fits into Positions.
LEMMA PositionsKnown ==
  /\ \E m \in Nat : Positions = 1 .. m /\ \A n \in FileSizes : n <= m
  /\ \A n \in FileSizes : n \in Nat
<1> DEFINE m == CHOOSE n \in FileSizes : \A k \in FileSizes : k <= n
<1>1. m \in FileSizes /\ \A k \in FileSizes : k <= m
  BY ClientAssumption
<1>2. Positions = 1 .. m
  BY DEF Positions
<1> HIDE DEF m
<1> QED BY <1>1, <1>2, ClientAssumption

\* A request before HandleReq is a Request.
LEMMA FreshRequest ==
  ASSUME NEW B, NEW T, NEW F, T \subseteq B, F \subseteq B, NEW S, NEW K, K \subseteq S,
         NEW I, NEW L, NEW D, NEW Z, Z \subseteq I, Z \subseteq L, Z \subseteq D,
         NEW r \in [alive : T, Status : K, FileWritePos : Z, CurrentExtendedSize : Z,
                   Offset : Z, nWrites : Z, nBytes : Z, bCallMade : F, bCallCancelled : F,
                   bPullOutstanding : B, bDataAvailable : B, bAllPullsDone : B,
                   bCallComplete : B, bAsyncCallFailureReceived : B,
                   bFailureFromPull : B, bFailureFromWrite : B]
  PROVE  r \in [alive : B, Status : S, FileWritePos : L, CurrentExtendedSize : L,
                Offset : D, nWrites : I, nBytes : I, bCallMade : B, bCallCancelled : B,
                bPullOutstanding : B, bDataAvailable : B, bAllPullsDone : B,
                bCallComplete : B, bAsyncCallFailureReceived : B, bFailureFromPull : B,
                bFailureFromWrite : B]
OBVIOUS

\* The invariant holds initially.
LEMMA ClientInit == Init => ClientInv
<1> SUFFICES ASSUME Init PROVE ClientInv
  OBVIOUS
<1>1. /\ rpc = "none" /\ taken = 0 /\ ~pulling /\ event = "none" /\ completed = 0
      /\ writes = {} /\ length = 0 /\ stream = <<>> /\ ends = 0 /\ call = "open"
      /\ size \in FileSizes /\ faults \in FaultSets /\ buf = [i \in 1 .. BufSize |-> 0]
      /\ file = [i \in Positions |-> 0] /\ pointer = 0 /\ spoiled = {}
  BY DEF Init, Server!Init
<1>2. /\ req \in Request /\ req.alive /\ req.FileWritePos = 0 /\ req.CurrentExtendedSize = 0
      /\ req.nWrites = 0 /\ req.nBytes = 0 /\ ~req.bCallMade /\ ~req.bCallCancelled
  <2> DEFINE Fresh ==
        [alive : {TRUE}, Status : {"ok"}, FileWritePos : {0}, CurrentExtendedSize : {0},
         Offset : {0}, nWrites : {0}, nBytes : {0}, bCallMade : {FALSE}, bCallCancelled : {FALSE},
         bPullOutstanding : BOOLEAN, bDataAvailable : BOOLEAN, bAllPullsDone : BOOLEAN,
         bCallComplete : BOOLEAN, bAsyncCallFailureReceived : BOOLEAN,
         bFailureFromPull : BOOLEAN, bFailureFromWrite : BOOLEAN]
  <2>1. req \in Fresh
    BY DEF Init
  <2>2. \A r \in Fresh : r \in Request
    <3> SUFFICES ASSUME NEW r \in Fresh PROVE r \in Request
      OBVIOUS
    <3> DEFINE B == BOOLEAN  T == {TRUE}  F == {FALSE}  S == {"ok", "bad"}  K == {"ok"}
               I == Int  L == Longs  D == Dwords  Z == {0}
    <3>1. T \subseteq B /\ F \subseteq B /\ K \subseteq S /\ Z \subseteq I
          /\ Z \subseteq L /\ Z \subseteq D
      BY ClientAssumption DEF Longs, Dwords
    <3>2. r \in [alive : T, Status : K, FileWritePos : Z, CurrentExtendedSize : Z,
                Offset : Z, nWrites : Z, nBytes : Z, bCallMade : F, bCallCancelled : F,
                bPullOutstanding : B, bDataAvailable : B, bAllPullsDone : B,
                bCallComplete : B, bAsyncCallFailureReceived : B,
                bFailureFromPull : B, bFailureFromWrite : B]
      OBVIOUS
    <3> HIDE DEF B, T, F, S, K, I, L, D, Z
    <3>3. r \in [alive : B, Status : S, FileWritePos : L, CurrentExtendedSize : L,
                Offset : D, nWrites : I, nBytes : I, bCallMade : B, bCallCancelled : B,
                bPullOutstanding : B, bDataAvailable : B, bAllPullsDone : B,
                bCallComplete : B, bAsyncCallFailureReceived : B, bFailureFromPull : B,
                bFailureFromWrite : B]
      BY <3>1, <3>2, FreshRequest
    <3> QED BY <3>3 DEF Request, B, S, I, L, D
  <2>3. \A r \in Fresh : /\ r.alive /\ r.FileWritePos = 0 /\ r.CurrentExtendedSize = 0
                         /\ r.nWrites = 0 /\ r.nBytes = 0
                         /\ ~r.bCallMade /\ ~r.bCallCancelled
    OBVIOUS
  <2> HIDE DEF Fresh
  <2> QED BY <2>1, <2>2, <2>3
<1>3. /\ port = <<Packet("IoFileRep", 0, TRUE)>>
      /\ pc = [w \in Workers |-> "wait"] /\ got = [w \in Workers |-> NoPacket]
  BY DEF Init
<1>4. Packet("IoFileRep", 0, TRUE) \in Packets
  BY ClientAssumption DEF Packet, Packets
<1>5. /\ port \in Seq(Packets) /\ Len(port) = 1 /\ port[1].key = "IoFileRep" /\ port[1].ok
  BY <1>3, <1>4 DEF Packet
<1>6. Typed
  <2>1. IsFiniteSet(writes)
    BY <1>1, FS_EmptySet
  <2>2. buf \in [1 .. BufSize -> Nat]
    BY <1>1
  <2>3. file \in [Positions -> Nat]
    BY <1>1
  <2>4. pc \in [Workers -> Steps] /\ got \in [Workers -> Packets \cup {NoPacket}]
    BY <1>3 DEF Steps
  <2>5. /\ writes \subseteq Writes /\ taken \in Nat /\ completed \in Nat
        /\ length \in 0 .. 2 * PosLimit + BufSize /\ pointer \in 0 .. PosLimit - 1
        /\ spoiled \subseteq Positions
    BY <1>1, ClientAssumption
  <2>6. pulling \in BOOLEAN
    BY DEF Init
  <2> QED BY <1>1, <1>2, <1>5, <2>1, <2>2, <2>3, <2>4, <2>5, <2>6 DEF Typed
<1>7. /\ Count("IoFileRep") = 1 /\ Count("IoFile") = 0 /\ Count("IoPipe") = 0
      /\ Count("pull") = 0
  <2>1. PacketsAt(port, "IoFileRep") = {1}
    BY <1>5 DEF PacketsAt
  <2>2. \A k \in {"IoFile", "IoPipe", "pull"} : PacketsAt(port, k) = {}
    BY <1>5 DEF PacketsAt
  <2>3. \A k \in Busy : WorkersAt(k) = {}
    BY <1>3 DEF WorkersAt, Busy
  <2>4. Cardinality({}) = 0 /\ Cardinality({1}) = 1
    BY FS_EmptySet, FS_Singleton
  <2> QED BY <2>1, <2>2, <2>3, <2>4 DEF Count, Busy
<1>8. Counted
  BY <1>1, <1>2, <1>6, <1>7, NothingOwed, CountTypes DEF Counted
<1>9. AllOk
  <2>1. \A i \in 1 .. Len(port) : port[i].ok
    BY <1>5
  <2>2. \A w \in Workers : got[w].ok
    BY <1>3 DEF NoPacket
  <2> QED BY <2>1, <2>2 DEF AllOk
<1>10. ServerKnown
  <2>1. size \in Nat
    BY <1>1, ClientAssumption
  <2>2. Len(stream) = 0 /\ stream = [i \in 1 .. 0 |-> i]
    BY <1>1
  <2> QED BY <1>1, <2>1, <2>2 DEF ServerKnown
<1>11. Reached
  <2>1. size \in Nat /\ Len(stream) = 0
    BY <1>1, ClientAssumption
  <2> QED BY <1>1, <1>2, <2>1, ClientAssumption DEF Reached
<1>12. WritesKnown /\ Placed
  <2>1. 0 = 0 * Extension
    BY ClientAssumption
  <2>2. WritesKnown
    BY <1>1 DEF WritesKnown
  <2> QED BY <1>1, <1>2, <2>1, <2>2 DEF Placed
<1>13. FileKnown
  <2>1. \A i \in Positions : i \in Nat /\ i > 0 /\ file[i] = 0
    BY <1>1, PositionsKnown
  <2> QED BY <1>2, <2>1 DEF FileKnown
<1>14. LengthKnown
  BY <1>1, <1>2 DEF LengthKnown
<1>15. Control
  BY <1>1, <1>2, <1>7
     DEF Control, Unmade, Made, CallKnown, OnePuller, Pullers, Noticed, FlagsKnown,
         Outcome, Quiet, Gone
<1> QED BY <1>6, <1>8, <1>9, <1>10, <1>11, <1>12, <1>13, <1>14, <1>15 DEF ClientInv

-----------------------------------------------------------------------------
(***************************************************************************)
(* Steps of the environment preserve it.                                   *)
(***************************************************************************)
\* What is known of the data and of the counters, where they stay as they are.
LEMMA DataSame ==
  ASSUME ClientInv, UNCHANGED <<faults, size, writes, buf, taken, local, req>>,
         rpc # "none" => rpc' # "none"
  PROVE  WritesKnown' /\ Placed' /\ FileKnown' /\ LengthKnown'
<1>1. /\ \A i : Covered(i)' <=> Covered(i)
      /\ \A i : Last(i)' = Last(i) /\ Intact(i)' = Intact(i)
      /\ Fits' <=> Fits
  BY DEF Covered, Last, Intact, Fits
<1>2. FileKnown'
  BY <1>1, KindsKept DEF ClientInv, FileKnown, local
<1>3. WritesKnown'
  BY <1>1 DEF ClientInv, WritesKnown, local
<1>4. Placed'
  BY <1>1 DEF ClientInv, Placed
<1> QED BY <1>1, <1>2, <1>3, <1>4 DEF ClientInv, LengthKnown, local

LEMMA CountedSame ==
  ASSUME ClientInv, UNCHANGED <<faults, writes, req, Owed, Count("IoFile")>>
  PROVE  Counted'
BY KindsKept DEF ClientInv, Counted

\* What the server sends the client may pull later.
LEMMA ServerGoesOnSafe ==
  ASSUME ClientInv, ServerGoesOn
  PROVE  ClientInv'
<1>1. /\ rpc = "open" /\ UNCHANGED <<faults, rpc, taken, pulling, event, req, buf, writes,
                                     file, length, pointer, spoiled, completed, port, pc, got>>
  BY DEF ServerGoesOn, runtime, local
<1>2. size \in Nat /\ ServerKnown
  BY PositionsKnown DEF ClientInv, ServerKnown
<1>3. Len(stream) \in Nat /\ Len(stream) <= size /\ ends \in {0, 1}
  BY <1>2 DEF ServerKnown
<1>4. /\ ServerKnown' /\ Len(stream) <= Len(stream') /\ ends <= ends' /\ size' = size
      /\ Len(stream') \in Nat
  <2>1. CASE Server!Send
    <3>1. PICK n \in Len(stream) + 1 .. size :
            stream' = SubSeq([i \in 1 .. size |-> i], 1, n)
      BY <2>1 DEF Server!Send, Server!File
    <3>2. UNCHANGED <<size, ends, call>> /\ ends = 0
      BY <2>1 DEF Server!Send
    <3>3. n \in Nat /\ n <= size /\ Len(stream) <= n
      BY <1>3, <1>2, <3>1
    <3>4. stream' = [i \in 1 .. n |-> i] /\ Len(stream') = n
      BY <1>2, <3>1, <3>3
    <3> QED BY <1>3, <1>2, <3>2, <3>3, <3>4 DEF ServerKnown
  <2>2. CASE Server!End
    <3>1. Len([i \in 1 .. size |-> i]) = size
      BY <1>2
    <3> QED BY <1>2, <2>2, <3>1 DEF Server!End, Server!File, ServerKnown
  <2>3. CASE Server!Complete
    BY <1>2, <2>3 DEF Server!Complete, ServerKnown
  <2> QED BY <2>1, <2>2, <2>3 DEF ServerGoesOn
<1>5. Typed'
  BY <1>1 DEF ClientInv, Typed
<1>6. \A k : Count(k)' = Count(k)
  BY <1>1 DEF Count, PacketsAt, WorkersAt
<1>7. Owed' = Owed
  BY <1>1 DEF Owed, WriteBytes, SetBytes, PortBytes, WorkerBytes, Bytes, Pairs, PacketsAt, WorkersAt
<1>8. WritesKnown' /\ Placed' /\ FileKnown' /\ LengthKnown'
  BY <1>1, <1>4, DataSame DEF local
<1>9. Counted'
  BY <1>1, <1>6, <1>7, CountedSame
<1>10. AllOk'
  BY <1>1, KindsKept DEF ClientInv, AllOk
<1>11. \A kinds : Without(kinds)' <=> Without(kinds)
  BY <1>1, KindsKept
<1>12. Reached'
  <2>1. Typed /\ Reached
    BY DEF ClientInv
  <2>2. taken \in Nat
    BY <2>1 DEF Typed
  <2> QED BY <1>3, <1>1, <1>4, <1>11, <2>1, <2>2 DEF Reached
<1>13. Control'
  <2>1. Pullers' = Pullers /\ Noticed' = Noticed /\ (Stopped' <=> Stopped)
    BY <1>1, <1>6 DEF Pullers, Noticed, Stopped
  <2>2. Unmade' /\ Made' /\ CallKnown' /\ OnePuller'
    BY <1>1, <1>6, <2>1 DEF ClientInv, Control, Unmade, Made, CallKnown, OnePuller
  <2>3. FlagsKnown'
    <3>1. FlagsKnown /\ taken \in Nat
      BY DEF ClientInv, Control, Typed
    <3>2. ends' \in {0, 1}
      BY <1>4 DEF ServerKnown
    <3> QED BY <1>3, <1>1, <1>4, <1>6, <2>1, <3>1, <3>2 DEF FlagsKnown
  <2>4. Outcome' /\ Quiet' /\ Gone'
    BY <1>1, <1>6, <1>11, <2>1 DEF ClientInv, Control, Outcome, Quiet, Gone
  <2> QED BY <2>2, <2>3, <2>4 DEF Control
<1> QED BY <1>4, <1>5, <1>8, <1>9, <1>10, <1>12, <1>13 DEF ClientInv

\* A notification is posted: of data, or of the end of the call.
LEMMA NotifyTyped ==
  ASSUME ClientInv, NEW kind \in {"RpcReceiveComplete", "RpcCallComplete"}, Notify(kind),
         rpc' \in {"open", "ok", "failed"}, pulling' \in BOOLEAN,
         UNCHANGED <<faults, server, taken, req, buf, writes, local, completed, pc, got>>
  PROVE  /\ Typed' /\ ServerKnown' /\ WritesKnown' /\ Placed' /\ FileKnown' /\ LengthKnown'
         /\ Counted' /\ AllOk'
         /\ Count("IoPipe")' = Count("IoPipe") + 1
         /\ Count("IoFileRep")' = Count("IoFileRep") /\ Count("pull")' = Count("pull")
         /\ Count("IoFile")' = Count("IoFile")
<1> DEFINE p == Packet("IoPipe", 0, TRUE)
<1>1. p \in Packets /\ p.key = "IoPipe" /\ p.n = 0 /\ p.ok
  BY ClientAssumption DEF Packet, Packets
<1>2. event' = kind /\ port' = Append(port, p)
  BY DEF Notify
<1> HIDE DEF p
<1>3. Typed
  BY DEF ClientInv
<1>4. port' \in Seq(Packets)
  BY <1>1, <1>2, <1>3 DEF Typed
<1>5. Typed'
  BY <1>2, <1>3, <1>4 DEF Typed, local
<1>6. \A k \in Busy : Count(k)' = IF p.key = k THEN Count(k) + 1 ELSE Count(k)
  BY <1>1, <1>2, <1>3, CountPosted
<1>7. /\ Count("IoPipe")' = Count("IoPipe") + 1
      /\ Count("IoFileRep")' = Count("IoFileRep") /\ Count("pull")' = Count("pull")
      /\ Count("IoFile")' = Count("IoFile")
  BY <1>1, <1>6 DEF Busy
<1>8. Owed' = Owed
  <2>1. PortBytes(port') = PortBytes(port) /\ PortBytes(port) \in Nat
    BY <1>1, <1>2, <1>3, OwedPosted, OwedType
  <2>2. WriteBytes' = WriteBytes /\ WorkerBytes' = WorkerBytes
    BY DEF WriteBytes, SetBytes, WorkerBytes, Bytes, Pairs, WorkersAt
  <2>3. Owed' = WriteBytes' + PortBytes(port') + WorkerBytes'
    BY DEF Owed
  <2> QED BY <2>1, <2>2, <2>3 DEF Owed
<1>9. Counted'
  BY <1>7, <1>8, CountedSame
<1>10. AllOk'
  <2>1. \A i \in 1 .. Len(port') : (i \in 1 .. Len(port) /\ port'[i] = port[i]) \/ port'[i] = p
    BY <1>1, <1>2, <1>3 DEF Typed
  <2> QED BY <1>1, <2>1, KindsKept DEF ClientInv, AllOk
<1>11. ServerKnown'
  BY DEF ClientInv, ServerKnown, server
<1>12. WritesKnown' /\ Placed' /\ FileKnown' /\ LengthKnown'
  <2>1. UNCHANGED size /\ rpc' # "none"
    BY DEF server
  <2> QED BY <2>1, DataSame
<1> QED BY <1>5, <1>7, <1>9, <1>10, <1>11, <1>12

LEMMA ReceiveCompleteSafe ==
  ASSUME ClientInv, ReceiveComplete
  PROVE  ClientInv'
<1>1. /\ rpc = "open" /\ pulling /\ (taken < Len(stream) \/ ends > 0)
      /\ ~pulling' /\ event' = "RpcReceiveComplete"
      /\ UNCHANGED <<faults, size, stream, ends, call, rpc, taken, req, buf, writes, file,
                     length, pointer, spoiled, completed, pc, got>>
  BY DEF ReceiveComplete, Notify, server, local
<1>2. /\ Typed' /\ ServerKnown' /\ WritesKnown' /\ Placed' /\ FileKnown' /\ LengthKnown'
      /\ Counted' /\ AllOk'
      /\ Count("IoPipe")' = Count("IoPipe") + 1
      /\ Count("IoFileRep")' = Count("IoFileRep") /\ Count("pull")' = Count("pull")
      /\ Count("IoFile")' = Count("IoFile")
  <2>1. pulling' \in BOOLEAN
    BY DEF ReceiveComplete
  <2> QED BY <1>1, <2>1, NotifyTyped DEF ReceiveComplete
<1>3. \A kinds : Without(kinds)' <=> Without(kinds)
  BY <1>1, KindsKept
<1>4. Reached'
  BY <1>1, <1>3 DEF ClientInv, Reached
<1>5. Control /\ Typed
      /\ Count("IoFileRep") \in Nat /\ Count("IoPipe") \in Nat /\ Count("pull") \in Nat
  BY CountTypes DEF ClientInv
<1>6. event # "RpcCallComplete"
  BY <1>1, <1>5 DEF Control, CallKnown
<1>7. Count("IoPipe") = 0
  BY <1>1, <1>5, <1>6 DEF Control, CallKnown, OnePuller, Pullers, Noticed, Typed
<1>8. Pullers' = Pullers /\ Noticed' = 1 /\ (Stopped' <=> Stopped)
  BY <1>1, <1>2, <1>5, <1>7 DEF Pullers, Noticed, Stopped
<1>9. Control'
  <2>1. Unmade' /\ Made' /\ CallKnown' /\ OnePuller'
    BY <1>1, <1>2, <1>5, <1>8 DEF Control, Unmade, Made, CallKnown, OnePuller
  <2>2. FlagsKnown'
    BY <1>1, <1>2, <1>5, <1>8 DEF Control, FlagsKnown
  <2>3. Outcome'
    BY <1>1, <1>3, <1>5, <1>8 DEF Control, Outcome
  <2>4. Quiet'
    BY <1>1, <1>2, <1>3, <1>5, <1>7, <1>8, Kinds DEF Control, Quiet, FlagsKnown, Outcome, Pullers
  <2>5. Gone'
    BY <1>1, <1>3, <1>5 DEF Control, Gone
  <2> QED BY <2>1, <2>2, <2>3, <2>4, <2>5 DEF Control
<1> QED BY <1>2, <1>4, <1>9 DEF ClientInv

LEMMA CallCompleteSafe ==
  ASSUME ClientInv, CallComplete
  PROVE  ClientInv'
<1>1. /\ rpc = "open" /\ rpc' = "ok" /\ call = "completed" /\ taken = Len(stream)
      /\ ~pulling /\ event' = "RpcCallComplete"
      /\ UNCHANGED <<faults, size, stream, ends, call, taken, pulling, req, buf, writes, file,
                     length, pointer, spoiled, completed, pc, got>>
  BY DEF CallComplete, Notify, server, local
<1>2. Control /\ Typed
      /\ Count("IoFileRep") \in Nat /\ Count("IoPipe") \in Nat /\ Count("pull") \in Nat
  BY CountTypes DEF ClientInv
<1>3. /\ Typed' /\ ServerKnown' /\ WritesKnown' /\ Placed' /\ FileKnown' /\ LengthKnown'
      /\ Counted' /\ AllOk'
      /\ Count("IoPipe")' = Count("IoPipe") + 1
      /\ Count("IoFileRep")' = Count("IoFileRep") /\ Count("pull")' = Count("pull")
      /\ Count("IoFile")' = Count("IoFile")
  <2>1. pulling' \in BOOLEAN
    BY <1>1, <1>2 DEF Typed
  <2> QED BY <1>1, <2>1, NotifyTyped DEF CallComplete
<1>4. \A kinds : Without(kinds)' <=> Without(kinds)
  BY <1>1, KindsKept
<1>5. Reached'
  BY <1>1, <1>4 DEF ClientInv, Reached
<1>6. Count("IoPipe") = 0
  <2>1. PacketsAt(port, "IoPipe") = {} /\ WorkersAt("IoPipe") = {}
    BY DEF CallComplete, Unnoticed, PacketsAt, WorkersAt
  <2> QED BY <1>2, <2>1, CountZero DEF Typed
<1>7. Noticed = 0 /\ Noticed' = 0 /\ Pullers' = Pullers /\ (Stopped' <=> Stopped)
  BY <1>1, <1>2, <1>3, <1>6 DEF Pullers, Noticed, Stopped
<1>8. Control'
  <2>1. Unmade' /\ Made' /\ CallKnown' /\ OnePuller'
    BY <1>1, <1>2, <1>3, <1>6, <1>7 DEF Control, Unmade, Made, CallKnown, OnePuller
  <2>2. FlagsKnown'
    BY <1>1, <1>2, <1>3, <1>7 DEF Control, FlagsKnown
  <2>3. Outcome'
    BY <1>1, <1>2, <1>4, <1>7, Kinds DEF Control, Outcome, Gone, FlagsKnown
  <2>4. Quiet'
    BY <1>1, <1>2, <1>3, <1>4, <1>6, <1>7 DEF Control, Quiet, FlagsKnown
  <2>5. Gone'
    BY <1>1, <1>2, <1>4 DEF Control, Gone
  <2> QED BY <2>1, <2>2, <2>3, <2>4, <2>5 DEF Control
<1> QED BY <1>3, <1>5, <1>8 DEF ClientInv

LEMMA CallFailsSafe ==
  ASSUME ClientInv, CallFails
  PROVE  ClientInv'
<1>1. /\ rpc = "open" /\ rpc' = "failed" /\ (req.bCallCancelled \/ "call" \in faults)
      /\ ~pulling' /\ event' = "RpcCallComplete"
      /\ UNCHANGED <<faults, size, stream, ends, call, taken, req, buf, writes, file,
                     length, pointer, spoiled, completed, pc, got>>
  BY DEF CallFails, Notify, server, local
<1>2. Control /\ Typed
      /\ Count("IoFileRep") \in Nat /\ Count("IoPipe") \in Nat /\ Count("pull") \in Nat
  BY CountTypes DEF ClientInv
<1>3. /\ Typed' /\ ServerKnown' /\ WritesKnown' /\ Placed' /\ FileKnown' /\ LengthKnown'
      /\ Counted' /\ AllOk'
      /\ Count("IoPipe")' = Count("IoPipe") + 1
      /\ Count("IoFileRep")' = Count("IoFileRep") /\ Count("pull")' = Count("pull")
      /\ Count("IoFile")' = Count("IoFile")
  <2>1. pulling' \in BOOLEAN
    BY DEF CallFails
  <2> QED BY <1>1, <2>1, NotifyTyped DEF CallFails
<1>4. \A kinds : Without(kinds)' <=> Without(kinds)
  BY <1>1, KindsKept
<1>5. Reached'
  BY <1>1, <1>4 DEF ClientInv, Reached
<1>6. event # "RpcCallComplete"
  BY <1>1, <1>2 DEF Control, CallKnown
<1>7. Noticed' = 0 /\ Pullers' <= Pullers /\ Pullers' \in Nat /\ Pullers \in Nat
      /\ (Stopped' <=> Stopped)
  BY <1>1, <1>2, <1>3 DEF Pullers, Noticed, Stopped
<1>8. Control'
  <2>1. Unmade' /\ Made' /\ CallKnown' /\ OnePuller'
    BY <1>1, <1>2, <1>3, <1>7 DEF Control, Unmade, Made, CallKnown, OnePuller
  <2>2. FlagsKnown'
    BY <1>1, <1>2, <1>3, <1>7 DEF Control, FlagsKnown
  <2>3. Outcome'
    BY <1>1, <1>2, <1>4, <1>7 DEF Control, Outcome
  <2>4. Quiet'
    <3> SUFFICES ASSUME Without({"call", "writeLater", "zero"})
                 PROVE  /\ Count("IoPipe")' <= 1 /\ req.bCallCancelled
                        /\ ~req.bFailureFromPull /\ ~req.bAsyncCallFailureReceived
      BY <1>1, <1>4 DEF Quiet
    <3>1. req.bCallCancelled /\ req.bFailureFromWrite /\ Pullers = 0
      BY <1>1, <1>2, Kinds DEF Control, Outcome
    <3>2. Count("IoPipe") = 0
      BY <1>2, <1>6, <3>1 DEF Pullers, Noticed, Control, CallKnown, Typed
    <3>3. ~req.bFailureFromPull /\ ~req.bAsyncCallFailureReceived
      BY <1>1, <1>2 DEF Control, FlagsKnown
    <3> QED BY <1>3, <3>1, <3>2, <3>3
  <2>5. Gone'
    BY <1>1, <1>2, <1>4 DEF Control, Gone
  <2> QED BY <2>1, <2>2, <2>3, <2>4, <2>5 DEF Control
<1> QED BY <1>3, <1>5, <1>8 DEF ClientInv

\* A worker takes a packet.
LEMMA DequeueSafe ==
  ASSUME ClientInv, NEW w \in Workers, Dequeue(w)
  PROVE  ClientInv'
<1>1. /\ pc[w] = "wait" /\ port # <<>> /\ Goto(w, Head(port).key) /\ port' = Tail(port)
      /\ got' = [got EXCEPT ![w] = Head(port)]
      /\ UNCHANGED <<faults, size, stream, ends, call, rpc, taken, pulling, event, req, buf,
                     writes, file, length, pointer, spoiled, completed>>
  BY DEF Dequeue, server, runtime, local
<1>2. Typed /\ Control
  BY DEF ClientInv
<1>3. port \in Seq(Packets) /\ Head(port) \in Packets /\ Tail(port) \in Seq(Packets)
  BY <1>1, <1>2 DEF Typed
<1>4. Typed'
  <2>1. Head(port).key \in Steps
    BY <1>3 DEF Packets, Steps
  <2>2. pc' \in [Workers -> Steps] /\ got' \in [Workers -> Packets \cup {NoPacket}]
    BY <1>1, <1>2, <1>3, <2>1 DEF Typed, Goto
  <2> QED BY <1>1, <1>2, <1>3, <2>2 DEF Typed
<1>5. \A k \in Busy : Count(k)' = Count(k)
  BY <1>1, <1>2, CountTaken
<1>6. /\ Count("IoPipe")' = Count("IoPipe") /\ Count("IoFile")' = Count("IoFile")
      /\ Count("IoFileRep")' = Count("IoFileRep") /\ Count("pull")' = Count("pull")
  BY <1>5 DEF Busy
<1>7. Owed' = Owed
  BY <1>1, <1>2, OwedTaken
<1>8. WritesKnown' /\ Placed' /\ FileKnown' /\ LengthKnown' /\ Counted' /\ ServerKnown'
  <2>1. ServerKnown'
    BY <1>1 DEF ClientInv, ServerKnown
  <2> QED BY <1>1, <1>6, <1>7, <2>1, DataSame, CountedSame DEF local
<1>9. \A kinds : Without(kinds)' <=> Without(kinds)
  BY <1>1, KindsKept
<1>10. AllOk'
  <2> SUFFICES ASSUME Without({"writeLater"})
               PROVE  /\ \A i \in 1 .. Len(port') : port'[i].ok
                      /\ \A v \in Workers : got'[v].ok
    BY <1>9 DEF AllOk
  <2>1. (\A i \in 1 .. Len(port) : port[i].ok) /\ \A v \in Workers : got[v].ok
    BY DEF ClientInv, AllOk
  <2>2. Head(port).ok /\ \A i \in 1 .. Len(Tail(port)) : Tail(port)[i].ok
    <3>1. /\ 1 \in 1 .. Len(port) /\ Head(port) = port[1]
          /\ \A i \in 1 .. Len(Tail(port)) : i + 1 \in 1 .. Len(port) /\ Tail(port)[i] = port[i + 1]
      BY <1>1, <1>3
    <3> QED BY <2>1, <3>1
  <2>3. \A v \in Workers : got'[v] = IF v = w THEN Head(port) ELSE got[v]
    BY <1>1, <1>2 DEF Typed
  <2> QED BY <1>1, <2>1, <2>2, <2>3
<1>11. Reached'
  BY <1>1, <1>9 DEF ClientInv, Reached
<1>12. Control'
  <2>1. Pullers' = Pullers /\ Noticed' = Noticed /\ (Stopped' <=> Stopped)
    BY <1>1, <1>6 DEF Pullers, Noticed, Stopped
  <2>2. Unmade' /\ Made' /\ CallKnown' /\ OnePuller' /\ FlagsKnown'
    BY <1>1, <1>2, <1>6, <1>9, <2>1
       DEF Control, Unmade, Made, CallKnown, OnePuller, FlagsKnown
  <2>3. Outcome' /\ Quiet' /\ Gone'
    BY <1>1, <1>2, <1>5, <1>6, <1>9, <2>1 DEF Control, Outcome, Quiet, Gone
  <2> QED BY <2>2, <2>3 DEF Control
<1> QED BY <1>4, <1>8, <1>10, <1>11, <1>12 DEF ClientInv

\* What is known of one write.
LEMMA WriteFacts ==
  ASSUME ClientInv, NEW v \in writes
  PROVE  /\ v \in Writes /\ v.from \in Nat /\ v.n \in Nat /\ v.n > 0 /\ v.n <= BufSize
         /\ v.pos \in Nat /\ v.pos < 2 * PosLimit /\ v.done \in BOOLEAN
         /\ Last(v) \in Nat /\ Last(v) = v.from + v.n /\ v.from < Last(v) /\ Last(v) <= taken
<1>1. v \in Writes
  BY DEF ClientInv, Typed
<1>2. /\ v.from \in Nat /\ v.n \in 1 .. BufSize /\ v.done \in BOOLEAN
      /\ v.pos \in 0 .. 2 * PosLimit - 1
  BY <1>1 DEF Writes, Dwords
<1>3. BufSize \in Nat /\ PosLimit \in Nat
  BY ClientAssumption
<1>4. /\ v.n \in Nat /\ v.n > 0 /\ v.n <= BufSize /\ v.pos \in Nat /\ v.pos < 2 * PosLimit
  BY <1>2, <1>3
<1>5. Last(v) = v.from + v.n /\ Last(v) <= taken
  BY DEF ClientInv, WritesKnown, Last
<1> QED BY <1>1, <1>2, <1>4, <1>5

\* The bytes of a write that is outstanding no more are in none that is.
LEMMA CoveredLess ==
  ASSUME ClientInv, NEW write \in writes, ~write.done, NEW D, \A v \in D : v.done,
         writes' = (writes \ {write}) \cup D, NEW i \in Positions
  PROVE  /\ Covered(i)' => Covered(i)
         /\ i \in write.from + 1 .. Last(write) => Covered(i) /\ ~Covered(i)'
         /\ Covered(i) => Covered(i)' \/ i \in write.from + 1 .. Last(write)
<1>1. Covered(i)' <=> \E v \in writes \ {write} : ~v.done /\ i \in v.from + 1 .. Last(v)
  BY DEF Covered, Last
<1>2. i \in Nat
  BY PositionsKnown
<1>3. ASSUME i \in write.from + 1 .. Last(write), NEW v \in writes \ {write},
             i \in v.from + 1 .. Last(v)
      PROVE  FALSE
  <2>1. Last(v) <= write.from \/ Last(write) <= v.from
    BY <1>3 DEF ClientInv, WritesKnown
  <2>2. /\ v.from \in Nat /\ Last(v) \in Nat /\ write.from \in Nat /\ Last(write) \in Nat
    BY <1>3, WriteFacts
  <2> QED BY <1>2, <1>3, <2>1, <2>2
<1> QED BY <1>1, <1>3 DEF Covered

\* What stays as it is when a write ends or is carried out.
LEMMA ControlSame ==
  ASSUME ClientInv, req.alive,
         UNCHANGED <<faults, size, stream, ends, call, rpc, taken, pulling, event, req,
                     completed>>,
         Count("IoFileRep")' = Count("IoFileRep"), Count("IoPipe")' = Count("IoPipe"),
         Count("pull")' = Count("pull")
  PROVE  Reached' /\ ServerKnown' /\ Control'
<1>1. \A kinds : Without(kinds)' <=> Without(kinds)
  BY KindsKept
<1>2. Reached' /\ ServerKnown'
  BY <1>1 DEF ClientInv, Reached, ServerKnown
<1>3. Pullers' = Pullers /\ Noticed' = Noticed /\ (Stopped' <=> Stopped) /\ Control
  BY DEF Pullers, Noticed, Stopped, ClientInv
<1>4. Unmade' /\ Made' /\ CallKnown' /\ OnePuller' /\ FlagsKnown'
  BY <1>1, <1>3 DEF Control, Unmade, Made, CallKnown, OnePuller, FlagsKnown
<1>5. Outcome' /\ Quiet' /\ Gone'
  BY <1>1, <1>3 DEF Control, Outcome, Quiet, Gone
<1> QED BY <1>2, <1>4, <1>5 DEF Control

\* A request with a write is alive, and what it is to write lies in the file.
LEMMA WriteAlive ==
  ASSUME ClientInv, NEW v \in writes
  PROVE  /\ req.alive
         /\ \A i \in v.from + 1 .. Last(v) : i \in Positions
<1>1. req.alive
  <2>1. Cardinality(writes) > 0 /\ Cardinality(writes) \in Nat /\ Count("IoFile") \in Nat
    BY CountTypes DEF ClientInv
  <2> QED BY <2>1 DEF ClientInv, Counted
<1>2. /\ taken \in Nat /\ taken <= Len(stream) /\ Len(stream) \in Nat /\ size \in Nat
      /\ Len(stream) <= size /\ size \in FileSizes
  BY PositionsKnown DEF ClientInv, Typed, Reached, ServerKnown
<1>3. PICK m \in Nat : Positions = 1 .. m /\ \A n \in FileSizes : n <= m
  BY PositionsKnown
<1>4. v.from \in Nat /\ Last(v) \in Nat /\ Last(v) <= m
  BY <1>2, <1>3, WriteFacts
<1> QED BY <1>1, <1>3, <1>4

\* The bytes of a write reach their place in the file; or what is in the buffer by then
\* reaches the file, and their places are spoiled.
LEMMA CarryOutSafe ==
  ASSUME ClientInv, CarryOut
  PROVE  ClientInv'
<1>1. UNCHANGED <<faults, size, stream, ends, call, rpc, taken, pulling, event, req, buf,
                  pointer, completed, port, pc, got>>
  BY DEF CarryOut, server, runtime
<1>2. Typed /\ WritesKnown /\ Counted /\ Placed /\ taken \in Nat /\ req \in Request
  BY DEF ClientInv, Typed
<1>3. PICK write \in writes :
        /\ ~write.done
        /\ \E at \in {write.pos, req.Offset} :
             LET last  == at + write.n
                 Place == at + 1 .. last
                 Own   == write.from + 1 .. write.from + write.n
             IN
             /\ file' = [i \in Positions |-> IF i \in Place THEN buf[i - at] ELSE file[i]]
             /\ length' = IF length < last THEN last ELSE length
             /\ spoiled' = IF Intact(write) THEN spoiled
                           ELSE spoiled \cup ((Own \cup Place) \cap Positions)
             /\ writes' = (writes \ {write}) \cup {[write EXCEPT !.done = TRUE]}
  BY DEF CarryOut
<1>4. PICK at \in {write.pos, req.Offset} :
        /\ ~write.done
        /\ file' = [i \in Positions |->
                      IF i \in at + 1 .. at + write.n THEN buf[i - at] ELSE file[i]]
        /\ length' = IF length < at + write.n THEN at + write.n ELSE length
        /\ spoiled' = IF Intact(write) THEN spoiled
                      ELSE spoiled \cup
                             (((write.from + 1 .. write.from + write.n)
                                 \cup (at + 1 .. at + write.n)) \cap Positions)
        /\ writes' = (writes \ {write}) \cup {[write EXCEPT !.done = TRUE]}
  BY <1>3
<1> DEFINE u    == [write EXCEPT !.done = TRUE]
           n    == write.n
           from == write.from
           last == at + n
<1>5. /\ write \in Writes /\ from \in Nat /\ n \in Nat /\ n > 0 /\ n <= BufSize
      /\ write.pos \in Nat /\ write.pos < 2 * PosLimit
      /\ Last(write) = from + n /\ Last(write) <= taken
  BY WriteFacts
<1>6. /\ u \in Writes /\ u.from = from /\ u.n = n /\ u.pos = write.pos /\ u.done
      /\ Last(u) = Last(write)
  BY <1>5 DEF Writes, Last
<1>7. at \in Nat /\ at < 2 * PosLimit /\ BufSize \in Nat /\ PosLimit \in Nat
  <2>1. req.Offset \in 0 .. 2 * PosLimit - 1 /\ PosLimit \in Nat /\ BufSize \in Nat
    BY <1>2, ClientAssumption DEF Request, Dwords
  <2> QED BY <1>4, <1>5, <2>1
<1>8. u \notin writes
  <2> SUFFICES ASSUME u \in writes PROVE FALSE
    OBVIOUS
  <2>1. u # write
    BY <1>4, <1>6
  <2>2. Last(u) <= from \/ Last(write) <= u.from
    BY <1>2, <2>1 DEF WritesKnown
  <2> QED BY <1>5, <1>6, <2>2
<1>9. writes' = (writes \ {write}) \cup {u}
  BY <1>4
<1>10. \A i \in Positions : /\ i \in Nat /\ i > 0
                            /\ Covered(i)' => Covered(i)
                            /\ i \in from + 1 .. from + n => Covered(i) /\ ~Covered(i)'
                            /\ Covered(i) => Covered(i)' \/ i \in from + 1 .. from + n
  <2>1. \A v \in {u} : v.done
    BY <1>6
  <2>2. \A i \in Positions : i \in Nat /\ i > 0
    BY PositionsKnown
  <2> HIDE DEF u
  <2>3. Last(write) = write.from + write.n
    BY <1>5
  <2>4. \A i \in Positions :
          /\ Covered(i)' => Covered(i)
          /\ i \in write.from + 1 .. Last(write) => Covered(i) /\ ~Covered(i)'
          /\ Covered(i) => Covered(i)' \/ i \in write.from + 1 .. Last(write)
    BY <1>4, <1>9, <2>1, CoveredLess
  <2> QED BY <2>2, <2>3, <2>4
<1>11. /\ req.alive /\ from + 1 \in Positions
  <2>1. from + 1 \in from + 1 .. Last(write)
    BY <1>5
  <2> QED BY <2>1, WriteAlive
<1>12. \A i \in at + 1 .. last : i - at \in 1 .. n /\ i - at \in 1 .. BufSize
  BY <1>5, <1>7
<1>13. Intact(write) =>
         /\ at = write.pos /\ spoiled' = spoiled
         /\ \A i \in from + 1 .. from + n : buf[i - from] = i
  <2> SUFFICES ASSUME Intact(write)
               PROVE  /\ at = write.pos
                      /\ \A i \in from + 1 .. from + n : buf[i - from] = i
    BY <1>4
  <2>1. \A i \in 1 .. n : buf[i] = from + i
    BY DEF Intact
  <2>2. buf[1] = from + 1
    BY <1>5, <2>1
  <2>3. req.Offset = write.pos
    BY <1>2, <1>4, <1>5, <2>2 DEF WritesKnown
  <2>4. \A i \in from + 1 .. from + n : i - from \in 1 .. n /\ from + (i - from) = i
    BY <1>5
  <2> QED BY <2>1, <2>3, <2>4
<1>14. ~Intact(write) =>
         spoiled' = spoiled \cup (((from + 1 .. from + n) \cup (at + 1 .. last)) \cap Positions)
  BY <1>4
<1>15. \A i \in Positions : file'[i] = IF i \in at + 1 .. last THEN buf[i - at] ELSE file[i]
  BY <1>4
<1>16. length' = IF length < last THEN last ELSE length
  BY <1>4
<1> HIDE DEF u, last
<1>17. last \in Nat /\ last = at + n
  BY <1>5, <1>7 DEF last
<1>18. \A kinds : Without(kinds)' <=> Without(kinds)
  BY <1>1, KindsKept
<1>19. /\ SetBytes(writes') = SetBytes(writes) /\ IsFiniteSet(writes')
       /\ Cardinality(writes') = Cardinality(writes)
  BY <1>2, <1>6, <1>8, <1>9, OwedCarried DEF Typed
<1>20. Typed'
  <2>1. file' \in [Positions -> Nat]
    <3>1. \A i \in Positions : file'[i] \in Nat
      BY <1>2, <1>12, <1>15 DEF Typed, last
    <3>2. file' = [i \in Positions |-> file'[i]]
      BY <1>4
    <3> QED BY <3>1, <3>2
  <2>2. length' \in 0 .. 2 * PosLimit + BufSize
    BY <1>2, <1>5, <1>7, <1>16, <1>17, SMTT(30) DEF Typed
  <2>3. writes' \subseteq Writes
    BY <1>2, <1>6, <1>9 DEF Typed
  <2>4. spoiled' \subseteq Positions
    BY <1>2, <1>13, <1>14 DEF Typed
  <2> QED BY <1>1, <1>2, <1>19, <2>1, <2>2, <2>3, <2>4 DEF Typed
<1>21. WritesKnown'
  <2>1. \A v : Last(v)' = Last(v) /\ Intact(v)' = Intact(v)
    BY <1>1 DEF Last, Intact
  <2>2. \A i \in Positions : file'[i] <= taken
    BY <1>2, <1>12, <1>15 DEF WritesKnown, last
  <2>3. \A v, x \in writes' : v # x => Last(v) <= x.from \/ Last(x) <= v.from
    BY <1>2, <1>6, <1>9 DEF WritesKnown
  <2>4. \A v \in writes' :
          /\ Last(v) <= taken
          /\ ~v.done => \/ buf[1] > v.from + 1
                        \/ Intact(v) /\ req.Offset = v.pos
    BY <1>2, <1>5, <1>6, <1>9 DEF WritesKnown
  <2> QED BY <1>1, <1>2, <2>1, <2>2, <2>3, <2>4 DEF WritesKnown
<1>22. Placed'
  <2>1. \A v : Last(v)' = Last(v)
    BY DEF Last
  <2>2. Fits' <=> Fits
    BY <1>1 DEF Fits
  <2> QED BY <1>1, <1>2, <1>6, <1>9, <2>1, <2>2 DEF Placed
<1>23. Fits => /\ from = write.pos /\ from + n <= req.FileWritePos
               /\ req.FileWritePos <= req.CurrentExtendedSize
  BY <1>2, <1>5 DEF Placed
<1>24. FileKnown'
  <2> SUFFICES ASSUME Fits, NEW i \in Positions \ spoiled'
               PROVE  /\ file'[i] \in {0, i}
                      /\ file'[i] = i => i <= req.FileWritePos /\ ~Covered(i)'
                      /\ i <= req.FileWritePos /\ ~Covered(i)' /\ Without({"writeLater"})
                           => file'[i] = i
    BY <1>1, <1>18 DEF FileKnown, Fits
  <2>1. i \notin spoiled
    BY <1>13, <1>14
  <2>2. /\ i \in Nat /\ i > 0
        /\ file[i] \in {0, i}
        /\ file[i] = i => i <= req.FileWritePos /\ ~Covered(i)
        /\ i <= req.FileWritePos /\ ~Covered(i) /\ Without({"writeLater"}) => file[i] = i
    BY <1>10, <2>1 DEF ClientInv, FileKnown
  <2>3. CASE Intact(write)
    <3>1. at = from /\ \A j \in from + 1 .. from + n : buf[j - from] = j
      BY <1>13, <1>23, <2>3
    <3>2. CASE i \in from + 1 .. from + n
      <4>1. file'[i] = i
        BY <1>15, <1>17, <3>1, <3>2
      <4>2. i <= req.FileWritePos
        BY <1>2, <1>5, <1>23, <2>2, <3>2 DEF Request, Longs
      <4> QED BY <1>10, <3>2, <4>1, <4>2
    <3>3. CASE i \notin from + 1 .. from + n
      <4>1. file'[i] = file[i]
        BY <1>15, <1>17, <3>1, <3>3
      <4>2. Covered(i)' <=> Covered(i)
        BY <1>10, <3>3
      <4> QED BY <2>2, <4>1, <4>2
    <3> QED BY <3>2, <3>3
  <2>4. CASE ~Intact(write)
    <3>1. i \notin from + 1 .. from + n /\ i \notin at + 1 .. last
      BY <1>14, <2>4
    <3>2. file'[i] = file[i] /\ (Covered(i)' <=> Covered(i))
      BY <1>10, <1>15, <3>1
    <3> QED BY <2>2, <3>2
  <2> QED BY <2>3, <2>4
<1>25. LengthKnown'
  <2> SUFFICES ASSUME Fits, spoiled' = {}, req.CurrentExtendedSize # 0
               PROVE  length' = req.CurrentExtendedSize
    BY <1>1, <1>11 DEF LengthKnown, Fits
  <2>1. Intact(write)
    <3>1. from + 1 \in from + 1 .. from + n
      BY <1>5
    <3> QED BY <1>11, <1>14, <3>1
  <2>2. spoiled = {} /\ last <= req.CurrentExtendedSize
    BY <1>2, <1>5, <1>13, <1>17, <1>23, <2>1 DEF Request, Longs
  <2>3. length = req.CurrentExtendedSize
    BY <1>11, <2>2 DEF ClientInv, LengthKnown
  <2> QED BY <1>2, <1>16, <1>17, <2>2, <2>3 DEF Request, Longs
<1>26. Counted' /\ AllOk'
  <2>1. Count("IoFile")' = Count("IoFile")
    BY <1>1 DEF Count, PacketsAt, WorkersAt
  <2>2. WriteBytes' = WriteBytes
    BY <1>19 DEF WriteBytes
  <2>3. PortBytes(port') = PortBytes(port) /\ WorkerBytes' = WorkerBytes
    BY <1>1 DEF PortBytes, WorkerBytes, Bytes, Pairs, PacketsAt, WorkersAt
  <2>4. Owed' = WriteBytes' + PortBytes(port') + WorkerBytes'
    BY DEF Owed
  <2>5. Owed' = Owed
    BY <2>2, <2>3, <2>4 DEF Owed
  <2> QED BY <1>1, <1>18, <1>19, <2>1, <2>5 DEF ClientInv, Counted, AllOk
<1>27. Reached' /\ ServerKnown' /\ Control'
  <2>1. \A k : Count(k)' = Count(k)
    BY <1>1 DEF Count, PacketsAt, WorkersAt
  <2> QED BY <1>1, <1>11, <2>1, ControlSame
<1> QED BY <1>20, <1>21, <1>22, <1>24, <1>25, <1>26, <1>27 DEF ClientInv

\* The end of a write is posted.
LEMMA WriteEndsSafe ==
  ASSUME ClientInv, WriteEnds
  PROVE  ClientInv'
<1>1. UNCHANGED <<faults, size, stream, ends, call, rpc, taken, pulling, event, req, buf,
                  file, length, pointer, spoiled, completed, pc, got>>
  BY DEF WriteEnds, server, runtime, local
<1>2. Typed /\ WritesKnown /\ Counted /\ Placed /\ req \in Request
  BY DEF ClientInv, Typed
<1>3. PICK write \in writes :
        /\ writes' = writes \ {write}
        /\ \/ write.done /\ port' = Append(port, Packet("IoFile", write.n, TRUE))
           \/ /\ ~write.done /\ "writeLater" \in faults
              /\ port' = Append(port, Packet("IoFile", 0, FALSE))
  BY DEF WriteEnds
<1> DEFINE ok == write.done
           n  == write.n
           p  == IF ok THEN Packet("IoFile", n, TRUE) ELSE Packet("IoFile", 0, FALSE)
<1>4. /\ write \in Writes /\ n \in Nat /\ n > 0 /\ n <= BufSize /\ ok \in BOOLEAN
      /\ Last(write) = write.from + n
  BY WriteFacts
<1>5. BufSize \in Nat
  BY ClientAssumption
<1>6. /\ p \in Packets /\ p.key = "IoFile" /\ p.n = (IF ok THEN n ELSE 0) /\ (ok => p.ok)
      /\ port' = Append(port, p)
  BY <1>3, <1>4, <1>5 DEF Packet, Packets
<1> HIDE DEF p
<1>7. /\ Count("IoFile")' = Count("IoFile") + 1
      /\ Count("IoFileRep")' = Count("IoFileRep")
      /\ Count("IoPipe")' = Count("IoPipe") /\ Count("pull")' = Count("pull")
  <2>1. \A k \in Busy : Count(k)' = IF p.key = k THEN Count(k) + 1 ELSE Count(k)
    BY <1>1, <1>2, <1>6, CountPosted
  <2> QED BY <1>6, <2>1 DEF Busy
<1>8. IsFiniteSet(writes') /\ Cardinality(writes') = Cardinality(writes) - 1
  BY <1>2, <1>3, FS_RemoveElement DEF Typed
<1>9. Cardinality(writes) \in Nat /\ Count("IoFile") \in Nat
  BY <1>2, CountTypes
<1>10. req.alive
  BY WriteAlive
<1>11. ~Without({"writeLater"}) \/ ok
  BY <1>3, Kinds
<1>12. \A kinds : Without(kinds)' <=> Without(kinds)
  BY <1>1, KindsKept
<1>13. Typed'
  <2>1. port' \in Seq(Packets)
    BY <1>2, <1>6 DEF Typed
  <2>2. writes' \subseteq Writes
    BY <1>2, <1>3 DEF Typed
  <2> QED BY <1>1, <1>2, <1>8, <2>1, <2>2 DEF Typed
<1>14. WritesKnown' /\ Placed'
  <2>1. \A v : Last(v)' = Last(v) /\ Intact(v)' = Intact(v)
    BY <1>1 DEF Last, Intact
  <2>2. Fits' <=> Fits
    BY <1>1 DEF Fits
  <2>3. WritesKnown'
    BY <1>1, <1>2, <1>3, <2>1 DEF WritesKnown
  <2> QED BY <1>1, <1>2, <1>3, <2>1, <2>2, <2>3 DEF Placed
<1>15. FileKnown'
  <2> SUFFICES ASSUME Fits, NEW i \in Positions \ spoiled
               PROVE  /\ file[i] \in {0, i}
                      /\ file[i] = i => i <= req.FileWritePos /\ ~Covered(i)'
                      /\ i <= req.FileWritePos /\ ~Covered(i)' /\ Without({"writeLater"})
                           => file[i] = i
    BY <1>1, <1>12 DEF FileKnown, Fits
  <2>1. /\ file[i] \in {0, i}
        /\ file[i] = i => i <= req.FileWritePos /\ ~Covered(i)
        /\ i <= req.FileWritePos /\ ~Covered(i) /\ Without({"writeLater"}) => file[i] = i
    BY DEF ClientInv, FileKnown
  <2>2. Covered(i)' => Covered(i)
    BY <1>3 DEF Covered, Last
  <2>3. Without({"writeLater"}) => (Covered(i) => Covered(i)')
    <3>1. Without({"writeLater"}) => write.done
      BY <1>11
    <3> QED BY <1>3, <3>1 DEF Covered, Last
  <2> QED BY <2>1, <2>2, <2>3
<1>16. LengthKnown'
  BY <1>1 DEF ClientInv, LengthKnown, Fits
<1>17. Counted'
  <2>1. PortBytes(port') = PortBytes(port) + (IF ok THEN n ELSE 0)
    BY <1>2, <1>4, <1>6, OwedPosted
  <2>2. WriteBytes' = WriteBytes - n
    BY <1>2, <1>3, OwedEnded DEF Typed, WriteBytes
  <2>3. WorkerBytes' = WorkerBytes
    BY <1>1 DEF WorkerBytes, Bytes, Pairs, WorkersAt
  <2>4. Owed' = WriteBytes' + PortBytes(port') + WorkerBytes'
    BY DEF Owed
  <2>5. /\ WriteBytes \in Nat /\ PortBytes(port) \in Nat /\ WorkerBytes \in Nat
        /\ Owed = WriteBytes + PortBytes(port) + WorkerBytes
    BY <1>2, OwedType DEF Owed
  <2> HIDE DEF n, ok
  <2>6. Owed' = IF ok THEN Owed ELSE Owed - n
    BY <1>4, <2>1, <2>2, <2>3, <2>4, <2>5
  <2>7. Owed \in Nat /\ req.nBytes \in Int
    BY <1>2, OwedType DEF Request
  <2> QED BY <1>1, <1>2, <1>4, <1>7, <1>8, <1>9, <1>10, <1>11, <1>12, <2>6, <2>7 DEF Counted
<1>18. AllOk'
  <2>1. \A i \in 1 .. Len(port') : (i \in 1 .. Len(port) /\ port'[i] = port[i]) \/ port'[i] = p
    BY <1>2, <1>6 DEF Typed
  <2> QED BY <1>1, <1>6, <1>11, <1>12, <2>1 DEF ClientInv, AllOk
<1>19. Reached' /\ ServerKnown' /\ Control'
  BY <1>1, <1>7, <1>10, ControlSame
<1> QED BY <1>13, <1>14, <1>15, <1>16, <1>17, <1>18, <1>19 DEF ClientInv

-----------------------------------------------------------------------------
(***************************************************************************)
(* What the steps of a worker have in common.                              *)
(***************************************************************************)
\* ClientShutdownRequest frees the request, or tells the runtime of its end.
Frees(r) == ~Cancels(r) /\ ~WaitsForPull(r) /\ ~(r.nWrites > 0)
Tells(r) == Open(r) /\ ~Cancels(r) /\ ~WaitsForPull(r)

\* The request is r now, but for what ClientShutdownRequest sets.
Becomes(r) ==
  /\ req' \in Request
  /\ req'.Status = r.Status
  /\ req'.FileWritePos = r.FileWritePos /\ req'.CurrentExtendedSize = r.CurrentExtendedSize
  /\ req'.Offset = r.Offset
  /\ req'.nWrites = r.nWrites /\ req'.nBytes = r.nBytes
  /\ req'.bCallMade = r.bCallMade /\ req'.bPullOutstanding = r.bPullOutstanding
  /\ req'.bDataAvailable = r.bDataAvailable /\ req'.bAllPullsDone = r.bAllPullsDone
  /\ req'.bCallComplete = r.bCallComplete
  /\ req'.bAsyncCallFailureReceived = r.bAsyncCallFailureReceived
  /\ req'.bFailureFromPull = r.bFailureFromPull
  /\ req'.bFailureFromWrite = r.bFailureFromWrite

\* A step leaves the request as r, after ClientShutdownRequest if down.
Turns(r, down) ==
  /\ Becomes(r)
  /\ req'.alive <=> r.alive /\ ~(down /\ Frees(r))
  /\ req'.bCallCancelled <=> r.bCallCancelled \/ (down /\ Cancels(r))
  /\ completed' = IF down /\ Tells(r) THEN completed + 1 ELSE completed

LEMMA ShutdownTurns ==
  ASSUME NEW r \in Request, Shutdown(r)
  PROVE  /\ Turns(r, TRUE)
         /\ IF Frees(r) /\ r.FileWritePos < r.CurrentExtendedSize
            THEN SetFileSize(r.FileWritePos) ELSE UNCHANGED local
<1>1. completed' = IF Tells(r) THEN completed + 1 ELSE completed
  BY DEF Shutdown, CompleteCall, Tells
<1>2. CASE Frees(r)
  <2>1. Free(r)
    BY <1>2 DEF Shutdown, Frees
  <2>2. req' = [r EXCEPT !.alive = FALSE] /\ ~Cancels(r)
    BY <1>2, <2>1 DEF Free, Frees
  <2>3. Becomes(r) /\ ~req'.alive /\ req'.bCallCancelled = r.bCallCancelled
    BY <2>2 DEF Becomes, Request
  <2> QED BY <1>1, <1>2, <2>1, <2>2, <2>3 DEF Free, Turns
<1>3. CASE ~Frees(r)
  <2>1. Keep(r)
    BY <1>3 DEF Shutdown, Frees
  <2>2. req' = [r EXCEPT !.bCallCancelled = r.bCallCancelled \/ Cancels(r)] /\ UNCHANGED local
    BY <2>1 DEF Keep
  <2> DEFINE b == r.bCallCancelled \/ Cancels(r)
  <2>3. b \in BOOLEAN
    BY DEF Request
  <2>4. req' = [r EXCEPT !.bCallCancelled = b]
    BY <2>2
  <2> HIDE DEF b
  <2>5. Becomes(r) /\ req'.alive = r.alive /\ req'.bCallCancelled = b
    BY <2>3, <2>4 DEF Becomes, Request
  <2> QED BY <1>1, <1>3, <2>2, <2>5 DEF Turns, b
<1> QED BY <1>2, <1>3

LEMMA LeaveTurns ==
  ASSUME NEW r \in Request, Leave(r)
  PROVE  Turns(r, FALSE) /\ UNCHANGED local
BY DEF Leave, Turns, Becomes, local

\* Where the counts and the bytes owed are after a worker went from step pc[w] to s.
LEMMA ServeCounts ==
  ASSUME Typed, NEW w \in Workers, pc[w] \in Busy, NEW s \in {"wait", "pull"}, Handled(w, s),
         UNCHANGED port
  PROVE  /\ pc' \in [Workers -> Steps] /\ got' \in [Workers -> Packets \cup {NoPacket}]
         /\ \A v \in Workers : got'[v] \in {got[v], NoPacket}
         /\ Count("IoFileRep")' = Count("IoFileRep") - (IF pc[w] = "IoFileRep" THEN 1 ELSE 0)
         /\ Count("IoFile")' = Count("IoFile") - (IF pc[w] = "IoFile" THEN 1 ELSE 0)
         /\ Count("IoPipe")' = Count("IoPipe") - (IF pc[w] = "IoPipe" THEN 1 ELSE 0)
         /\ Count("pull")' = Count("pull") + (IF s = "pull" THEN 1 ELSE 0)
                                           - (IF pc[w] = "pull" THEN 1 ELSE 0)
         /\ Count(pc[w]) > 0
         /\ PortBytes(port') = PortBytes(port)
         /\ WorkerBytes' = WorkerBytes - (IF pc[w] = "IoFile" THEN got[w].n ELSE 0)
         /\ got[w].n \in 0 .. BufSize
<1>1. s \in Steps /\ s \in Steps \ {"IoFile"}
  BY DEF Steps
<1>2. /\ pc' \in [Workers -> Steps] /\ got' \in [Workers -> Packets \cup {NoPacket}]
      /\ \A v \in Workers : got'[v] \in {got[v], NoPacket}
  BY <1>1 DEF Handled, Goto, Typed
<1>3. \A k \in Busy :
        Count(k)' = Count(k) + (IF k = s THEN 1 ELSE 0) - (IF k = pc[w] THEN 1 ELSE 0)
  BY <1>1, CountMoved DEF Handled
<1>4. /\ Count("IoFileRep")' = Count("IoFileRep") - (IF pc[w] = "IoFileRep" THEN 1 ELSE 0)
      /\ Count("IoFile")' = Count("IoFile") - (IF pc[w] = "IoFile" THEN 1 ELSE 0)
      /\ Count("IoPipe")' = Count("IoPipe") - (IF pc[w] = "IoPipe" THEN 1 ELSE 0)
      /\ Count("pull")' = Count("pull") + (IF s = "pull" THEN 1 ELSE 0)
                                        - (IF pc[w] = "pull" THEN 1 ELSE 0)
  BY <1>3, CountTypes DEF Busy
<1>5. Count(pc[w]) > 0
  BY CountAt DEF Typed
<1>6. PortBytes(port') = PortBytes(port)
  OBVIOUS
<1>7. WorkerBytes' = WorkerBytes - (IF pc[w] = "IoFile" THEN got[w].n ELSE 0)
  BY <1>1, OwedMoved
<1>8. got[w].n \in 0 .. BufSize
  <2>1. got[w] \in Packets \cup {NoPacket}
    BY DEF Typed
  <2> QED BY <2>1, ClientAssumption DEF Packets, NoPacket
<1> QED BY <1>2, <1>4, <1>5, <1>6, <1>7, <1>8

\* What ClientShutdownRequest does to the file: nothing, or the extension is cut off.
LEMMA ServeLocal ==
  ASSUME Typed, NEW r \in Request, Shutdown(r) \/ Leave(r)
  PROVE  \/ UNCHANGED local /\ (~r.alive \/ req'.alive \/ r.FileWritePos >= r.CurrentExtendedSize)
         \/ /\ ~req'.alive /\ r.FileWritePos < r.CurrentExtendedSize
            /\ \E end \in 0 .. PosLimit - 1 :
                 SetEnd(end) /\ (r.FileWritePos >= 0 => end = r.FileWritePos)
<1>1. /\ r.FileWritePos \in Int /\ r.CurrentExtendedSize \in Int
      /\ r.FileWritePos <= PosLimit - 1 /\ PosLimit \in Nat
  BY ClientAssumption DEF Request, Longs
<1>2. CASE Leave(r)
  BY <1>2 DEF Leave
<1>3. CASE Shutdown(r) /\ ~(Frees(r) /\ r.FileWritePos < r.CurrentExtendedSize)
  <2>1. Turns(r, TRUE) /\ UNCHANGED local
    BY <1>3, ShutdownTurns
  <2> QED BY <1>1, <1>3, <2>1 DEF Turns
<1>4. CASE Shutdown(r) /\ Frees(r) /\ r.FileWritePos < r.CurrentExtendedSize
  <2>1. Turns(r, TRUE) /\ SetFileSize(r.FileWritePos)
    BY <1>4, ShutdownTurns
  <2> DEFINE end == IF r.FileWritePos >= 0 THEN r.FileWritePos ELSE pointer
  <2>2. end \in 0 .. PosLimit - 1
    BY <1>1 DEF Typed
  <2>3. SetEnd(end) /\ (r.FileWritePos >= 0 => end = r.FileWritePos)
    BY <2>1 DEF SetFileSize
  <2>4. ~req'.alive
    BY <1>4, <2>1 DEF Turns
  <2> QED BY <1>4, <2>2, <2>3, <2>4
<1> QED BY <1>2, <1>3, <1>4

\* The data and the counters after a step that starts no write.
LEMMA ServeData ==
  ASSUME ClientInv, req.alive, NEW w \in Workers, pc[w] \in Busy, NEW s \in {"wait", "pull"},
         Handled(w, s), NEW r \in Request, r.alive, Shutdown(r) \/ Leave(r),
         r.FileWritePos = req.FileWritePos, r.CurrentExtendedSize = req.CurrentExtendedSize,
         r.nWrites = req.nWrites - (IF pc[w] = "IoFile" THEN 1 ELSE 0),
         r.nBytes = req.nBytes - (IF pc[w] = "IoFile" THEN got[w].n ELSE 0),
         req.bFailureFromWrite => r.bFailureFromWrite,
         r.bFailureFromWrite =>
           req.bFailureFromWrite \/ ~Without({"writeNow", "writeLater"}),
         \/ UNCHANGED <<taken, buf>> /\ r.Offset = req.Offset
         \/ /\ taken' \in Nat /\ taken <= taken' /\ taken' <= Len(stream)
            /\ rpc # "none" /\ r.bFailureFromWrite
            /\ buf' \in [1 .. BufSize -> Nat] /\ buf'[1] = taken + 1
            /\ \A i \in 1 .. BufSize : buf'[i] <= taken',
         UNCHANGED <<faults, server, event, writes, port>>,
         rpc' \in {"none", "open", "ok", "failed"}, rpc' = "none" <=> rpc = "none",
         pulling' \in BOOLEAN
  PROVE  /\ Typed' /\ ServerKnown' /\ Reached' /\ WritesKnown' /\ Placed' /\ FileKnown'
         /\ LengthKnown' /\ Counted' /\ AllOk'
<1>1. Typed /\ Reached /\ Counted /\ WritesKnown /\ Placed
  BY DEF ClientInv
<1>2. PICK down \in BOOLEAN : Turns(r, down)
  BY ShutdownTurns, LeaveTurns
<1>3. /\ \/ UNCHANGED local /\ (req'.alive \/ r.FileWritePos >= r.CurrentExtendedSize)
         \/ /\ ~req'.alive /\ r.FileWritePos < r.CurrentExtendedSize
            /\ \E end \in 0 .. PosLimit - 1 :
                 SetEnd(end) /\ (r.FileWritePos >= 0 => end = r.FileWritePos)
  BY <1>1, ServeLocal
<1>4. /\ req' \in Request /\ req'.FileWritePos = req.FileWritePos
      /\ req'.CurrentExtendedSize = req.CurrentExtendedSize
      /\ req'.nWrites = r.nWrites /\ req'.nBytes = r.nBytes /\ req'.Offset = r.Offset
      /\ req'.bFailureFromWrite = r.bFailureFromWrite
  BY <1>2 DEF Turns, Becomes
<1>5. \A kinds : Without(kinds)' <=> Without(kinds)
  BY KindsKept
<1>6. /\ req.FileWritePos \in Int /\ req.CurrentExtendedSize \in Int
      /\ req.nWrites \in Int /\ req.nBytes \in Int
      /\ taken \in Nat /\ taken' \in Nat /\ taken <= taken' /\ PosLimit \in Nat
  BY <1>1, ClientAssumption, SMTT(30) DEF Typed, Request, Longs
<1>7. /\ file' \in [Positions -> Nat] /\ length' \in 0 .. 2 * PosLimit + BufSize
      /\ pointer' \in 0 .. PosLimit - 1 /\ spoiled' = spoiled
      /\ \A i \in Positions : file'[i] = file[i] \/ file'[i] = 0
  <2>1. CASE UNCHANGED local
    BY <1>1, <2>1 DEF Typed, local
  <2>2. CASE \E end \in 0 .. PosLimit - 1 : SetEnd(end)
    <3>1. PICK end \in 0 .. PosLimit - 1 : SetEnd(end)
      BY <2>2
    <3>2. end \in 0 .. 2 * PosLimit + BufSize
      BY <1>6, <3>1, ClientAssumption
    <3>3. /\ file' = [i \in Positions |-> IF i <= end THEN file[i] ELSE 0]
          /\ length' = end /\ pointer' = end /\ spoiled' = spoiled
      BY <3>1 DEF SetEnd
    <3>4. \A i \in Positions : file'[i] = file[i] \/ file'[i] = 0
      BY <3>3
    <3>5. \A i \in Positions : file[i] \in Nat
      BY <1>1 DEF Typed
    <3> QED BY <3>2, <3>3, <3>4, <3>5
  <2> QED BY <1>3, <2>1, <2>2
<1>8. completed' \in Nat
  BY <1>1, <1>2 DEF Turns, Typed
<1>9. /\ pc' \in [Workers -> Steps] /\ got' \in [Workers -> Packets \cup {NoPacket}]
      /\ \A v \in Workers : got'[v] \in {got[v], NoPacket}
      /\ Count("IoFile")' = Count("IoFile") - (IF pc[w] = "IoFile" THEN 1 ELSE 0)
      /\ PortBytes(port') = PortBytes(port)
      /\ WorkerBytes' = WorkerBytes - (IF pc[w] = "IoFile" THEN got[w].n ELSE 0)
      /\ got[w].n \in 0 .. BufSize
      /\ pc[w] = "IoFile" => Count("IoFile") > 0
  BY <1>1, ServeCounts
<1>10. Typed'
  <2>1. buf' \in [1 .. BufSize -> Nat]
    BY <1>1 DEF Typed
  <2> QED BY <1>1, <1>4, <1>6, <1>7, <1>8, <1>9, <2>1 DEF Typed
<1>11. ServerKnown'
  BY DEF ClientInv, ServerKnown, server
<1>12. got[w].n \in Int /\ got[w].n >= 0
  BY <1>9, ClientAssumption
<1>13. Reached'
  <2>1. taken' <= Len(stream')
    BY <1>1 DEF Reached, server
  <2>2. req'.nWrites <= taken' /\ req'.nBytes <= taken'
    BY <1>1, <1>4, <1>6, <1>12 DEF Reached
  <2>3. rpc' # "none" /\ req'.bFailureFromWrite => ~Without({"writeNow", "writeLater"})'
    BY <1>1, <1>4, <1>5 DEF Reached
  <2> QED BY <2>1, <2>2, <2>3 DEF Reached
<1>14. \A v : Last(v)' = Last(v)
  BY DEF Last
<1>15. WritesKnown'
  <2>1. \A i \in Positions : file'[i] <= taken'
    <3> SUFFICES ASSUME NEW i \in Positions PROVE file'[i] <= taken'
      OBVIOUS
    <3>1. file[i] \in Nat /\ file[i] <= taken
      BY <1>1 DEF WritesKnown, Typed
    <3>2. file'[i] = file[i] \/ file'[i] = 0
      BY <1>7
    <3> QED BY <1>6, <3>1, <3>2
  <2>2. \A i \in 1 .. BufSize : buf'[i] <= taken'
    BY <1>1, <1>6 DEF WritesKnown
  <2>3. \A v \in writes : v.from \in Nat /\ v.from < Last(v) /\ Last(v) <= taken /\ Last(v) \in Nat
    BY WriteFacts
  <2>4. ASSUME NEW v \in writes, ~v.done
        PROVE  buf'[1] > v.from + 1 \/ (Intact(v)' /\ req'.Offset = v.pos)
    <3>1. CASE UNCHANGED <<taken, buf>> /\ r.Offset = req.Offset
      <4>1. Intact(v)' <=> Intact(v)
        BY <3>1 DEF Intact
      <4> QED BY <1>1, <1>4, <2>4, <3>1, <4>1 DEF WritesKnown
    <3>2. CASE buf'[1] = taken + 1
      BY <1>6, <2>3, <3>2
    <3> QED BY <3>1, <3>2
  <2>5. \A v \in writes : Last(v) <= taken'
    BY <1>6, <2>3
  <2> QED BY <1>1, <1>14, <2>1, <2>2, <2>4, <2>5 DEF WritesKnown
<1>16. Placed'
  <2> SUFFICES ASSUME Fits
               PROVE  /\ 0 <= req'.FileWritePos /\ req'.FileWritePos <= taken'
                      /\ req'.FileWritePos = taken' \/ (rpc' # "none" /\ req'.bFailureFromWrite)
                      /\ \E k \in Nat : req'.CurrentExtendedSize = k * Extension
                      /\ req'.FileWritePos <= req'.CurrentExtendedSize
                      /\ \A v \in writes : Last(v) <= req'.FileWritePos /\ v.pos = v.from
    BY <1>14 DEF Placed, Fits, server
  <2>1. /\ 0 <= req.FileWritePos /\ req.FileWritePos <= taken
        /\ req.FileWritePos = taken \/ (rpc # "none" /\ req.bFailureFromWrite)
        /\ \E k \in Nat : req.CurrentExtendedSize = k * Extension
        /\ req.FileWritePos <= req.CurrentExtendedSize
        /\ \A v \in writes : Last(v) <= req.FileWritePos /\ v.pos = v.from
    BY <1>1 DEF Placed
  <2>2. req'.FileWritePos = taken' \/ (rpc' # "none" /\ req'.bFailureFromWrite)
    BY <1>4, <2>1
  <2> QED BY <1>4, <1>6, <2>1, <2>2
<1>17. FileKnown'
  <2> SUFFICES ASSUME Fits, NEW i \in Positions \ spoiled
               PROVE  /\ file'[i] \in {0, i}
                      /\ file'[i] = i => i <= req'.FileWritePos /\ ~Covered(i)'
                      /\ i <= req'.FileWritePos /\ ~Covered(i)' /\ Without({"writeLater"})
                           => file'[i] = i
    BY <1>5, <1>7 DEF FileKnown, Fits, server
  <2>1. /\ i \in Nat /\ i > 0
        /\ file[i] \in {0, i}
        /\ file[i] = i => i <= req.FileWritePos /\ ~Covered(i)
        /\ i <= req.FileWritePos /\ ~Covered(i) /\ Without({"writeLater"}) => file[i] = i
    BY PositionsKnown DEF ClientInv, FileKnown
  <2>2. Covered(i)' <=> Covered(i)
    BY DEF Covered, Last
  <2>3. file'[i] = file[i] \/ (file'[i] = 0 /\ ~(i <= req.FileWritePos))
    <3>1. req.FileWritePos >= 0
      BY <1>1, <1>6 DEF Placed
    <3> QED BY <1>3, <3>1 DEF SetEnd, local
  <2> QED BY <1>4, <2>1, <2>2, <2>3
<1>18. LengthKnown'
  <2> SUFFICES ASSUME Fits, spoiled = {}, req.CurrentExtendedSize # 0
               PROVE  length' = IF req'.alive THEN req.CurrentExtendedSize ELSE req.FileWritePos
    BY <1>4, <1>7 DEF LengthKnown, Fits, server
  <2>1. /\ length = req.CurrentExtendedSize /\ req.FileWritePos >= 0
        /\ req.FileWritePos <= req.CurrentExtendedSize
    BY <1>1, <1>6 DEF ClientInv, LengthKnown, Placed
  <2> QED BY <1>3, <1>6, <2>1 DEF SetEnd, local
<1>19. Counted'
  <2>1. Cardinality(writes) \in Nat /\ Count("IoFile") \in Nat
    BY <1>1, CountTypes
  <2>2. WriteBytes' = WriteBytes
    BY DEF WriteBytes, SetBytes, Bytes, Pairs
  <2>3. Owed' = WriteBytes' + PortBytes(port') + WorkerBytes'
    BY DEF Owed
  <2>4. Owed' = Owed - (IF pc[w] = "IoFile" THEN got[w].n ELSE 0) /\ Owed \in Nat
    BY <1>1, <1>9, <1>12, <2>2, <2>3, OwedType DEF Owed
  <2>5. ~req'.alive => r.nWrites <= 0
    BY <1>2, <1>4 DEF Turns, Frees, Request
  <2>6. Owed' = Owed - (req.nBytes - r.nBytes) /\ r.nBytes \in Int
    BY <1>6, <1>12, <2>4, SMTT(30) DEF Request
  <2>7. /\ req'.nBytes >= Owed'
        /\ Without({"writeLater"})' => req'.nBytes = Owed'
    BY <1>1, <1>4, <1>5, <1>6, <2>4, <2>6 DEF Counted
  <2>8. req'.nWrites = Cardinality(writes') + Count("IoFile")'
    BY <1>1, <1>4, <1>6, <1>9, <2>1 DEF Counted
  <2>9. ~req'.alive => req'.nWrites = 0
    BY <1>4, <1>9, <2>1, <2>5, <2>8
  <2> QED BY <2>7, <2>8, <2>9 DEF Counted
<1>20. AllOk'
  <2>1. NoPacket.ok
    BY DEF NoPacket
  <2> QED BY <1>5, <1>9, <2>1 DEF ClientInv, AllOk
<1> QED BY <1>10, <1>11, <1>13, <1>15, <1>16, <1>17, <1>18, <1>19, <1>20

\* A request that is freed has no write left: the rest of Gone is about who else is there.
LEMMA GoneIf ==
  ASSUME Typed', Counted', Count("IoFile")' \in Nat,
         Without({"call", "writeLater", "zero"})' /\ ~req'.alive =>
           /\ ~pulling' /\ rpc' # "open" /\ Count("IoFileRep")' = 0
           /\ Count("IoPipe")' = 0 /\ Count("pull")' = 0
  PROVE  Gone'
<1> SUFFICES ASSUME Without({"call", "writeLater", "zero"})', ~req'.alive
             PROVE  /\ writes' = {} /\ ~pulling' /\ rpc' # "open"
                    /\ \A k \in Busy : Count(k)' = 0
  BY DEF Gone
<1>1. /\ Cardinality(writes') \in Nat /\ (Cardinality(writes') = 0 <=> writes' = {})
  <2>1. IsFiniteSet(writes')
    BY DEF Typed
  <2> QED BY <2>1, FS_CardinalityType, FS_EmptySet
<1>2. Cardinality(writes') + Count("IoFile")' = 0
  BY DEF Counted
<1> QED BY <1>1, <1>2 DEF Busy

\* A worker finds that the pulls were stopped.
LEMMA PullStoppedSafe ==
  ASSUME ClientInv, req.alive, NEW w \in Workers, PullStopped(w)
  PROVE  ClientInv'
<1>1. /\ pc[w] = "pull" /\ Handled(w, "wait") /\ Leave(req)
      /\ UNCHANGED <<faults, server, rpc, taken, pulling, event, req, buf, writes, port,
                     size, stream, ends, call, completed>>
  BY DEF PullStopped, runtime, server, Leave
<1>2. Typed /\ Control /\ req \in Request /\ pulling \in BOOLEAN
      /\ rpc \in {"none", "open", "ok", "failed"}
  BY DEF ClientInv, Typed
<1>3. /\ Typed' /\ ServerKnown' /\ Reached' /\ WritesKnown' /\ Placed' /\ FileKnown' /\ LengthKnown'
      /\ Counted' /\ AllOk'
  <2>1. req.nWrites = req.nWrites - 0 /\ req.nBytes = req.nBytes - 0
    BY <1>2 DEF Request
  <2> QED BY <1>1, <1>2, <2>1, ServeData DEF Busy
<1>4. /\ Count("IoFileRep")' = Count("IoFileRep") /\ Count("IoFile")' = Count("IoFile")
      /\ Count("IoPipe")' = Count("IoPipe") /\ Count("pull")' = Count("pull") - 1
      /\ Count("pull") > 0
      /\ Count("IoFileRep") \in Nat /\ Count("IoFile") \in Nat /\ Count("IoPipe") \in Nat
      /\ Count("pull") \in Nat
  BY <1>1, <1>2, ServeCounts, CountTypes DEF Busy
<1>5. \A kinds : Without(kinds)' <=> Without(kinds)
  BY <1>1, KindsKept
<1>6. Pullers = 1 /\ Pullers' = 0 /\ Noticed' = 0 /\ Noticed = 0 /\ (Stopped' <=> Stopped)
  <2>1. Stopped' <=> Stopped
    BY <1>1 DEF Stopped
  <2> QED BY <1>1, <1>2, <1>4, <2>1 DEF Control, OnePuller, Pullers, Noticed
<1>7. Unmade' /\ Made' /\ CallKnown' /\ OnePuller' /\ FlagsKnown'
  BY <1>1, <1>2, <1>4, <1>6 DEF Control, Unmade, Made, CallKnown, OnePuller, FlagsKnown
<1>8. Outcome' /\ Quiet'
  BY <1>1, <1>2, <1>4, <1>5, <1>6 DEF Control, Outcome, Quiet
<1>9. Gone'
  BY <1>1, <1>2, <1>3, <1>4, GoneIf
<1> QED BY <1>3, <1>7, <1>8, <1>9 DEF ClientInv, Control

\* The pull fails: the request is freed, unless a write is outstanding.
LEMMA PullFailsSafe ==
  ASSUME ClientInv, req.alive, NEW w \in Workers, PullFails(w)
  PROVE  ClientInv'
<1> DEFINE r == [req EXCEPT !.bFailureFromPull = TRUE, !.bAllPullsDone = TRUE,
                            !.bPullOutstanding = FALSE, !.bCallComplete = TRUE,
                            !.Status = "bad"]
<1>1. /\ pc[w] = "pull" /\ ~Stopped /\ Handled(w, "wait") /\ Shutdown(r)
      /\ rpc \in {"open", "failed"} /\ rpc' = "failed"
      /\ UNCHANGED <<faults, server, taken, pulling, event, buf, writes, port,
                     size, stream, ends, call>>
  BY DEF PullFails, server
<1>2. Typed /\ Control /\ req \in Request /\ pulling \in BOOLEAN
  BY DEF ClientInv, Typed
<1>3. /\ r \in Request /\ r.alive /\ r.FileWritePos = req.FileWritePos
      /\ r.CurrentExtendedSize = req.CurrentExtendedSize
      /\ r.Offset = req.Offset /\ r.nWrites = req.nWrites
      /\ r.nBytes = req.nBytes /\ r.bFailureFromWrite = req.bFailureFromWrite
      /\ r.bCallMade = req.bCallMade /\ r.bCallCancelled = req.bCallCancelled
      /\ r.bAsyncCallFailureReceived = req.bAsyncCallFailureReceived
      /\ r.bDataAvailable = req.bDataAvailable
      /\ r.bFailureFromPull /\ r.bAllPullsDone /\ r.bCallComplete /\ ~r.bPullOutstanding
      /\ r.Status = "bad"
  BY <1>2 DEF Request
<1> HIDE DEF r
<1>4. Turns(r, TRUE) /\ ~Cancels(r) /\ ~Tells(r)
  BY <1>1, <1>3, ShutdownTurns DEF Cancels, Tells, Open
<1>5. /\ Typed' /\ ServerKnown' /\ Reached' /\ WritesKnown' /\ Placed' /\ FileKnown' /\ LengthKnown'
      /\ Counted' /\ AllOk'
  <2>1. r.nWrites = req.nWrites - 0 /\ r.nBytes = req.nBytes - 0
    BY <1>2, <1>3 DEF Request
  <2> QED BY <1>1, <1>2, <1>3, <2>1, ServeData DEF Busy
<1>6. /\ Count("IoFileRep")' = Count("IoFileRep") /\ Count("IoFile")' = Count("IoFile")
      /\ Count("IoPipe")' = Count("IoPipe") /\ Count("pull")' = Count("pull") - 1
      /\ Count("pull") > 0
      /\ Count("IoFileRep") \in Nat /\ Count("IoFile") \in Nat /\ Count("IoPipe") \in Nat
      /\ Count("pull") \in Nat
  BY <1>1, <1>2, ServeCounts, CountTypes DEF Busy
<1>7. \A kinds : Without(kinds)' <=> Without(kinds)
  BY <1>1, KindsKept
<1>8. Pullers = 1 /\ Pullers' = 0 /\ Noticed = 0 /\ Noticed' = 0 /\ ~pulling
      /\ Count("IoFileRep") = 0
  BY <1>1, <1>2, <1>6 DEF Control, OnePuller, Pullers, Noticed
<1>9. /\ req'.bFailureFromPull /\ req'.bAllPullsDone /\ req'.bCallComplete
      /\ ~req'.bPullOutstanding /\ req'.Status = "bad"
      /\ req'.bFailureFromWrite = req.bFailureFromWrite /\ req'.bCallMade = req.bCallMade
      /\ req'.bAsyncCallFailureReceived = req.bAsyncCallFailureReceived
      /\ req'.bDataAvailable = req.bDataAvailable
      /\ req'.bCallCancelled <=> req.bCallCancelled
      /\ completed' = completed
  BY <1>3, <1>4 DEF Turns, Becomes
<1>10. ~req.bAsyncCallFailureReceived /\ ~req.bFailureFromWrite
  BY <1>1 DEF Stopped
<1>11. Unmade' /\ Made' /\ CallKnown' /\ OnePuller'
  BY <1>1, <1>2, <1>6, <1>8, <1>9 DEF Control, Unmade, Made, CallKnown, OnePuller
<1>12. FlagsKnown'
  BY <1>1, <1>2, <1>6, <1>8, <1>9, <1>10 DEF Control, FlagsKnown
<1>13. Outcome'
  BY <1>1, <1>2, <1>7, <1>8, <1>9, <1>10 DEF Control, Outcome
<1>14. ASSUME Without({"call", "writeLater", "zero"}) PROVE Count("IoPipe") = 0
  <2>1. ~req.bCallCancelled
    BY <1>1, <1>2, <1>10, <1>14, Kinds DEF Control, Outcome
  <2>2. ~req.bFailureFromPull
    BY <1>1, <1>2, <1>8, <1>10 DEF Control, FlagsKnown, Stopped
  <2>3. rpc = "open"
    BY <1>1, <1>2, <1>14, <2>1, <2>2 DEF Control, Quiet
  <2> QED BY <1>2, <1>8, <2>3 DEF Control, CallKnown, Noticed, Typed
<1>15. Quiet'
  BY <1>1, <1>6, <1>7, <1>8, <1>9, <1>10, <1>14 DEF Quiet
<1>16. Gone'
  BY <1>1, <1>5, <1>6, <1>7, <1>8, <1>14, GoneIf DEF Pullers
<1> QED BY <1>5, <1>11, <1>12, <1>13, <1>15, <1>16 DEF ClientInv, Control

\* The pull finds the end of the pipe.
LEMMA PullEndSafe ==
  ASSUME ClientInv, req.alive, NEW w \in Workers, PullEnd(w)
  PROVE  ClientInv'
<1> DEFINE r == [req EXCEPT !.bDataAvailable = FALSE, !.bPullOutstanding = FALSE,
                            !.bAllPullsDone = TRUE]
<1>1. /\ pc[w] = "pull" /\ ~Stopped /\ Handled(w, "wait") /\ rpc # "failed"
      /\ IF r.bCallComplete THEN Shutdown(r) ELSE Leave(r)
      /\ UNCHANGED <<faults, server, rpc, taken, pulling, event, buf, writes, port,
                     size, stream, ends, call>>
  BY DEF PullEnd, server, runtime
<1>2. Typed /\ Control /\ req \in Request /\ pulling \in BOOLEAN
      /\ rpc \in {"none", "open", "ok", "failed"}
  BY DEF ClientInv, Typed
<1>3. /\ r \in Request /\ r.alive /\ r.FileWritePos = req.FileWritePos
      /\ r.CurrentExtendedSize = req.CurrentExtendedSize
      /\ r.Offset = req.Offset /\ r.nWrites = req.nWrites
      /\ r.nBytes = req.nBytes /\ r.bFailureFromWrite = req.bFailureFromWrite
      /\ r.bCallMade = req.bCallMade /\ r.bCallCancelled = req.bCallCancelled
      /\ r.bAsyncCallFailureReceived = req.bAsyncCallFailureReceived
      /\ r.bFailureFromPull = req.bFailureFromPull /\ r.bCallComplete = req.bCallComplete
      /\ r.Status = req.Status
      /\ ~r.bDataAvailable /\ ~r.bPullOutstanding /\ r.bAllPullsDone
  BY <1>2 DEF Request
<1> HIDE DEF r
<1>4. Turns(r, req.bCallComplete) /\ ~(req.bCallComplete /\ Cancels(r))
  BY <1>1, <1>2, <1>3, ShutdownTurns, LeaveTurns DEF Cancels, Turns
<1>5. /\ Typed' /\ ServerKnown' /\ Reached' /\ WritesKnown' /\ Placed' /\ FileKnown' /\ LengthKnown'
      /\ Counted' /\ AllOk'
  <2>1. r.nWrites = req.nWrites - 0 /\ r.nBytes = req.nBytes - 0
    BY <1>2, <1>3 DEF Request
  <2> QED BY <1>1, <1>2, <1>3, <2>1, ServeData DEF Busy
<1>6. /\ Count("IoFileRep")' = Count("IoFileRep") /\ Count("IoFile")' = Count("IoFile")
      /\ Count("IoPipe")' = Count("IoPipe") /\ Count("pull")' = Count("pull") - 1
      /\ Count("pull") > 0
      /\ Count("IoFileRep") \in Nat /\ Count("IoFile") \in Nat /\ Count("IoPipe") \in Nat
      /\ Count("pull") \in Nat
  BY <1>1, <1>2, ServeCounts, CountTypes DEF Busy
<1>7. \A kinds : Without(kinds)' <=> Without(kinds)
  BY <1>1, KindsKept
<1>8. Pullers = 1 /\ Pullers' = 0 /\ Noticed = 0 /\ Noticed' = 0 /\ ~pulling
      /\ Count("IoFileRep") = 0
  BY <1>1, <1>2, <1>6 DEF Control, OnePuller, Pullers, Noticed
<1>9. /\ req'.bFailureFromPull = req.bFailureFromPull /\ req'.bAllPullsDone
      /\ req'.bCallComplete = req.bCallComplete
      /\ ~req'.bPullOutstanding /\ ~req'.bDataAvailable /\ req'.Status = req.Status
      /\ req'.bFailureFromWrite = req.bFailureFromWrite /\ req'.bCallMade = req.bCallMade
      /\ req'.bAsyncCallFailureReceived = req.bAsyncCallFailureReceived
      /\ req'.bCallCancelled <=> req.bCallCancelled
      /\ ~req'.alive => req.bCallComplete
      /\ completed' = completed \/ req.bCallComplete
  BY <1>3, <1>4, <1>1 DEF Turns, Becomes
<1>10. /\ ~req.bAsyncCallFailureReceived /\ ~req.bFailureFromWrite
       /\ rpc \in {"open", "ok"}
  BY <1>1, <1>2, <1>6 DEF Stopped, Control, Unmade
<1>11. req.bCallComplete => rpc = "ok" /\ Count("IoPipe") = 0
  BY <1>2, <1>10 DEF Control, FlagsKnown
<1>12. Unmade' /\ Made' /\ CallKnown' /\ OnePuller'
  BY <1>1, <1>2, <1>6, <1>8, <1>9, <1>10 DEF Control, Unmade, Made, CallKnown, OnePuller
<1>13. FlagsKnown'
  BY <1>1, <1>2, <1>6, <1>8, <1>9, <1>10, <1>11 DEF Control, FlagsKnown
<1>14. Outcome'
  BY <1>1, <1>2, <1>7, <1>8, <1>9, <1>10, <1>11 DEF Control, Outcome
<1>15. Quiet'
  BY <1>1, <1>2, <1>6, <1>7, <1>8, <1>9, <1>10 DEF Control, Quiet
<1>16. Gone'
  BY <1>1, <1>5, <1>6, <1>7, <1>8, <1>9, <1>11, GoneIf DEF Pullers
<1> QED BY <1>5, <1>12, <1>13, <1>14, <1>15, <1>16 DEF ClientInv, Control

\* There is nothing to pull: the pull is outstanding now.
LEMMA PullPendingSafe ==
  ASSUME ClientInv, req.alive, NEW w \in Workers, PullPending(w)
  PROVE  ClientInv'
<1> DEFINE r == [req EXCEPT !.bPullOutstanding = TRUE]
<1>1. /\ pc[w] = "pull" /\ ~Stopped /\ Handled(w, "wait") /\ rpc = "open" /\ pulling' = TRUE
      /\ Leave(r)
      /\ UNCHANGED <<faults, server, rpc, taken, event, buf, writes, port,
                     size, stream, ends, call>>
  BY DEF PullPending, server
<1>2. Typed /\ Control /\ req \in Request /\ pulling \in BOOLEAN
  BY DEF ClientInv, Typed
<1>3. /\ r \in Request /\ r.alive /\ r.FileWritePos = req.FileWritePos
      /\ r.CurrentExtendedSize = req.CurrentExtendedSize
      /\ r.Offset = req.Offset /\ r.nWrites = req.nWrites
      /\ r.nBytes = req.nBytes /\ r.bFailureFromWrite = req.bFailureFromWrite
      /\ r.bCallMade = req.bCallMade /\ r.bCallCancelled = req.bCallCancelled
      /\ r.bAsyncCallFailureReceived = req.bAsyncCallFailureReceived
      /\ r.bFailureFromPull = req.bFailureFromPull /\ r.bCallComplete = req.bCallComplete
      /\ r.Status = req.Status /\ r.bDataAvailable = req.bDataAvailable
      /\ r.bAllPullsDone = req.bAllPullsDone /\ r.bPullOutstanding
  BY <1>2 DEF Request
<1> HIDE DEF r
<1>4. req' = r /\ completed' = completed
  BY <1>1 DEF Leave
<1>5. /\ Typed' /\ ServerKnown' /\ Reached' /\ WritesKnown' /\ Placed' /\ FileKnown' /\ LengthKnown'
      /\ Counted' /\ AllOk'
  <2>1. r.nWrites = req.nWrites - 0 /\ r.nBytes = req.nBytes - 0
    BY <1>2, <1>3 DEF Request
  <2>2. pulling' \in BOOLEAN /\ rpc' \in {"none", "open", "ok", "failed"}
        /\ (rpc' = "none" <=> rpc = "none")
    BY <1>1
  <2> QED BY <1>1, <1>2, <1>3, <2>1, <2>2, ServeData DEF Busy
<1>6. /\ Count("IoFileRep")' = Count("IoFileRep") /\ Count("IoFile")' = Count("IoFile")
      /\ Count("IoPipe")' = Count("IoPipe") /\ Count("pull")' = Count("pull") - 1
      /\ Count("pull") > 0
      /\ Count("IoFileRep") \in Nat /\ Count("IoFile") \in Nat /\ Count("IoPipe") \in Nat
      /\ Count("pull") \in Nat
  BY <1>1, <1>2, ServeCounts, CountTypes DEF Busy
<1>7. \A kinds : Without(kinds)' <=> Without(kinds)
  BY <1>1, KindsKept
<1>8. Pullers = 1 /\ Pullers' = 1 /\ Noticed = 0 /\ Noticed' = 0
  BY <1>1, <1>2, <1>6 DEF Control, OnePuller, Pullers, Noticed
<1>9. ~req.bAsyncCallFailureReceived /\ ~req.bFailureFromWrite /\ ~req.bAllPullsDone
  BY <1>1, <1>2, <1>8 DEF Stopped, Control, FlagsKnown
<1>10. Unmade' /\ Made' /\ CallKnown' /\ OnePuller'
  BY <1>1, <1>2, <1>3, <1>4, <1>6, <1>8 DEF Control, Unmade, Made, CallKnown, OnePuller
<1>11. FlagsKnown'
  BY <1>1, <1>2, <1>3, <1>4, <1>6, <1>8, <1>9 DEF Control, FlagsKnown
<1>12. Outcome'
  BY <1>1, <1>2, <1>3, <1>4, <1>7, <1>8, <1>9 DEF Control, Outcome
<1>13. Quiet'
  BY <1>1, <1>2, <1>3, <1>4, <1>6, <1>7, <1>8, <1>9 DEF Control, Quiet, FlagsKnown
<1>14. Gone'
  BY <1>3, <1>4 DEF Gone
<1> QED BY <1>5, <1>10, <1>11, <1>12, <1>13, <1>14 DEF ClientInv, Control

\* The notification of data is handled: the worker pulls, unless the call is cancelled.
LEMMA ReceiveIoSafe ==
  ASSUME ClientInv, req.alive, NEW w \in Workers, ReceiveIo(w)
  PROVE  ClientInv'
<1> DEFINE r == [req EXCEPT !.bPullOutstanding = FALSE,
                            !.bDataAvailable = @ \/ ~req.bCallCancelled]
           s == IF req.bCallCancelled THEN "wait" ELSE "pull"
<1>1. /\ pc[w] = "IoPipe" /\ event = "RpcReceiveComplete" /\ Handled(w, s) /\ Leave(r)
      /\ UNCHANGED <<faults, server, rpc, taken, pulling, event, buf, writes, port,
                     size, stream, ends, call>>
  BY DEF ReceiveIo, server, runtime
<1>2. Typed /\ Control /\ req \in Request /\ pulling \in BOOLEAN
      /\ rpc \in {"none", "open", "ok", "failed"}
  BY DEF ClientInv, Typed
<1>3. /\ r \in Request /\ r.alive /\ r.FileWritePos = req.FileWritePos
      /\ r.CurrentExtendedSize = req.CurrentExtendedSize
      /\ r.Offset = req.Offset /\ r.nWrites = req.nWrites
      /\ r.nBytes = req.nBytes /\ r.bFailureFromWrite = req.bFailureFromWrite
      /\ r.bCallMade = req.bCallMade /\ r.bCallCancelled = req.bCallCancelled
      /\ r.bAsyncCallFailureReceived = req.bAsyncCallFailureReceived
      /\ r.bFailureFromPull = req.bFailureFromPull /\ r.bCallComplete = req.bCallComplete
      /\ r.Status = req.Status /\ r.bAllPullsDone = req.bAllPullsDone
  <2> DEFINE b == req.bDataAvailable \/ ~req.bCallCancelled
  <2>1. b \in BOOLEAN
    OBVIOUS
  <2>2. r = [req EXCEPT !.bPullOutstanding = FALSE, !.bDataAvailable = b]
    OBVIOUS
  <2> HIDE DEF b
  <2> QED BY <1>2, <2>1, <2>2 DEF Request
<1> HIDE DEF r
<1>4. req' = r /\ completed' = completed
  BY <1>1 DEF Leave
<1>5. /\ Typed' /\ ServerKnown' /\ Reached' /\ WritesKnown' /\ Placed' /\ FileKnown' /\ LengthKnown'
      /\ Counted' /\ AllOk'
  <2>1. r.nWrites = req.nWrites - 0 /\ r.nBytes = req.nBytes - 0
    BY <1>2, <1>3 DEF Request
  <2> QED BY <1>1, <1>2, <1>3, <2>1, ServeData DEF Busy
<1>6. /\ Count("IoFileRep")' = Count("IoFileRep") /\ Count("IoFile")' = Count("IoFile")
      /\ Count("IoPipe")' = Count("IoPipe") - 1 /\ Count("IoPipe") > 0
      /\ Count("pull")' = Count("pull") + (IF s = "pull" THEN 1 ELSE 0)
      /\ Count("IoFileRep") \in Nat /\ Count("IoFile") \in Nat /\ Count("IoPipe") \in Nat
      /\ Count("pull") \in Nat
  BY <1>1, <1>2, ServeCounts, CountTypes DEF Busy
<1>7. \A kinds : Without(kinds)' <=> Without(kinds)
  BY <1>1, KindsKept
<1>8. /\ Pullers = 1 /\ Pullers' \in {0, 1} /\ Noticed = 1 /\ Noticed' = 0 /\ ~pulling
      /\ Count("IoPipe")' = 0
  <2>1. Noticed = Count("IoPipe") /\ Pullers <= 1
    BY <1>1, <1>2 DEF Control, OnePuller, Noticed
  <2>2. Pullers = 1 /\ Noticed = 1 /\ ~pulling /\ Count("pull") = 0 /\ Count("IoFileRep") = 0
    BY <1>2, <1>6, <2>1 DEF Pullers
  <2>3. Count("IoPipe")' = 0
    BY <1>6, <2>1, <2>2
  <2>4. Noticed' = 0
    BY <1>1, <2>3 DEF Noticed
  <2>5. Pullers' = (IF s = "pull" THEN 1 ELSE 0)
    BY <1>1, <1>6, <2>2, <2>4 DEF Pullers
  <2> QED BY <2>2, <2>3, <2>4, <2>5
<1>9. rpc # "none" /\ rpc # "ok"
  BY <1>1, <1>2 DEF Control, Unmade, CallKnown
<1>10. Unmade' /\ Made' /\ CallKnown' /\ OnePuller'
  BY <1>1, <1>2, <1>3, <1>4, <1>6, <1>8, <1>9
     DEF Control, Unmade, Made, CallKnown, OnePuller
<1>11. FlagsKnown'
  <2>1. Stopped' <=> Stopped
    BY <1>3, <1>4 DEF Stopped
  <2> QED BY <1>1, <1>2, <1>3, <1>4, <1>6, <1>8, <1>9, <2>1 DEF Control, FlagsKnown
<1>12. Outcome'
  BY <1>1, <1>2, <1>3, <1>4, <1>7, <1>8, <1>9 DEF Control, Outcome
<1>13. Quiet'
  BY <1>1, <1>2, <1>3, <1>4, <1>6, <1>7, <1>8, <1>9 DEF Control, Quiet
<1>14. Gone'
  BY <1>3, <1>4 DEF Gone
<1> QED BY <1>5, <1>10, <1>11, <1>12, <1>13, <1>14 DEF ClientInv, Control

\* The end of the call is handled: the request is freed, unless something is outstanding.
LEMMA CallIoSafe ==
  ASSUME ClientInv, req.alive, NEW w \in Workers, CallIo(w)
  PROVE  ClientInv'
<1> DEFINE bad  == [req EXCEPT !.Status = "bad", !.bAllPullsDone = TRUE,
                               !.bPullOutstanding = FALSE, !.bAsyncCallFailureReceived = TRUE]
           good == [req EXCEPT !.Status = "ok", !.bCallComplete = TRUE]
<1>1. /\ pc[w] = "IoPipe" /\ event = "RpcCallComplete" /\ Handled(w, "wait")
      /\ UNCHANGED <<faults, server, rpc, taken, pulling, event, buf, writes, port,
                     size, stream, ends, call>>
  BY DEF CallIo, server, runtime
<1>2. Typed /\ Control /\ req \in Request /\ pulling \in BOOLEAN
      /\ rpc \in {"none", "open", "ok", "failed"}
  BY DEF ClientInv, Typed
<1>3. \/ rpc = "failed" /\ Shutdown(bad)
      \/ rpc = "ok" /\ IF req.bAllPullsDone THEN Shutdown(good) ELSE Leave(good)
  <2>1. rpc \in {"ok", "failed"}
    BY <1>1, <1>2 DEF Control, CallKnown
  <2>2. /\ rpc = "failed" => Shutdown([[req EXCEPT !.Status = "bad"] EXCEPT
                               !.bAllPullsDone = TRUE, !.bPullOutstanding = FALSE,
                               !.bAsyncCallFailureReceived = TRUE])
        /\ rpc = "ok" => IF [req EXCEPT !.Status = "ok"].bAllPullsDone
                         THEN Shutdown([[req EXCEPT !.Status = "ok"] EXCEPT !.bCallComplete = TRUE])
                         ELSE Leave([[req EXCEPT !.Status = "ok"] EXCEPT !.bCallComplete = TRUE])
    BY <1>2 DEF CallIo, Request
  <2>3. /\ [[req EXCEPT !.Status = "bad"] EXCEPT
               !.bAllPullsDone = TRUE, !.bPullOutstanding = FALSE,
               !.bAsyncCallFailureReceived = TRUE] = bad
        /\ [[req EXCEPT !.Status = "ok"] EXCEPT !.bCallComplete = TRUE] = good
        /\ [req EXCEPT !.Status = "ok"].bAllPullsDone = req.bAllPullsDone
    BY <1>2 DEF Request
  <2> HIDE DEF bad, good
  <2> QED BY <2>1, <2>2, <2>3
<1>4. \A r \in {bad, good} :
        /\ r \in Request /\ r.alive /\ r.FileWritePos = req.FileWritePos
        /\ r.CurrentExtendedSize = req.CurrentExtendedSize
        /\ r.Offset = req.Offset /\ r.nWrites = req.nWrites
        /\ r.nBytes = req.nBytes /\ r.bFailureFromWrite = req.bFailureFromWrite
        /\ r.bCallMade = req.bCallMade /\ r.bCallCancelled = req.bCallCancelled
        /\ r.bFailureFromPull = req.bFailureFromPull
        /\ r.bDataAvailable = req.bDataAvailable
  <2>1. bad \in Request /\ good \in Request
    BY <1>2 DEF Request
  <2>2. /\ bad.alive /\ bad.FileWritePos = req.FileWritePos
        /\ bad.CurrentExtendedSize = req.CurrentExtendedSize
        /\ bad.Offset = req.Offset /\ bad.nWrites = req.nWrites
        /\ bad.nBytes = req.nBytes /\ bad.bFailureFromWrite = req.bFailureFromWrite
        /\ bad.bCallMade = req.bCallMade /\ bad.bCallCancelled = req.bCallCancelled
        /\ bad.bFailureFromPull = req.bFailureFromPull
        /\ bad.bDataAvailable = req.bDataAvailable
    BY <1>2 DEF Request
  <2>3. /\ good.alive /\ good.FileWritePos = req.FileWritePos
        /\ good.CurrentExtendedSize = req.CurrentExtendedSize
        /\ good.Offset = req.Offset /\ good.nWrites = req.nWrites
        /\ good.nBytes = req.nBytes /\ good.bFailureFromWrite = req.bFailureFromWrite
        /\ good.bCallMade = req.bCallMade /\ good.bCallCancelled = req.bCallCancelled
        /\ good.bFailureFromPull = req.bFailureFromPull
        /\ good.bDataAvailable = req.bDataAvailable
    BY <1>2 DEF Request
  <2> HIDE DEF bad, good
  <2> QED BY <2>1, <2>2, <2>3
<1>5. /\ bad.Status = "bad" /\ bad.bAllPullsDone /\ ~bad.bPullOutstanding
      /\ bad.bAsyncCallFailureReceived /\ bad.bCallComplete = req.bCallComplete
      /\ good.Status = "ok" /\ good.bCallComplete /\ good.bAllPullsDone = req.bAllPullsDone
      /\ good.bPullOutstanding = req.bPullOutstanding
      /\ good.bAsyncCallFailureReceived = req.bAsyncCallFailureReceived
  BY <1>2 DEF Request
<1> HIDE DEF bad, good
<1>6. /\ Typed' /\ ServerKnown' /\ Reached' /\ WritesKnown' /\ Placed' /\ FileKnown' /\ LengthKnown'
      /\ Counted' /\ AllOk'
  <2> SUFFICES ASSUME NEW r \in {bad, good}, Shutdown(r) \/ Leave(r)
               PROVE  /\ Typed' /\ ServerKnown' /\ Reached' /\ WritesKnown' /\ Placed' /\ FileKnown'
                      /\ LengthKnown' /\ Counted' /\ AllOk'
    BY <1>3
  <2>1. r.nWrites = req.nWrites - 0 /\ r.nBytes = req.nBytes - 0
    BY <1>2, <1>4 DEF Request
  <2> QED BY <1>1, <1>2, <1>4, <2>1, ServeData DEF Busy
<1>7. /\ Count("IoFileRep")' = Count("IoFileRep") /\ Count("IoFile")' = Count("IoFile")
      /\ Count("IoPipe")' = Count("IoPipe") - 1 /\ Count("IoPipe") > 0
      /\ Count("pull")' = Count("pull")
      /\ Count("IoFileRep") \in Nat /\ Count("IoFile") \in Nat /\ Count("IoPipe") \in Nat
      /\ Count("pull") \in Nat
  BY <1>1, <1>2, ServeCounts, CountTypes DEF Busy
<1>8. \A kinds : Without(kinds)' <=> Without(kinds)
  BY <1>1, KindsKept
<1>9. Pullers' = Pullers /\ Noticed = 0 /\ Noticed' = 0
  BY <1>1, <1>2, <1>7 DEF Pullers, Noticed
<1>10. Control'
  <2>1. CASE rpc = "failed" /\ Shutdown(bad)
    <3>1. Turns(bad, TRUE) /\ ~Cancels(bad)
      BY <1>4, <1>5, <2>1, ShutdownTurns DEF Cancels
    <3>2. /\ req'.Status = "bad" /\ req'.bAllPullsDone /\ ~req'.bPullOutstanding
          /\ req'.bAsyncCallFailureReceived /\ req'.bCallComplete = req.bCallComplete
          /\ req'.bFailureFromWrite = req.bFailureFromWrite
          /\ req'.bFailureFromPull = req.bFailureFromPull /\ req'.bCallMade = req.bCallMade
          /\ req'.bDataAvailable = req.bDataAvailable
          /\ req'.bCallCancelled <=> req.bCallCancelled
      BY <1>4, <1>5, <3>1 DEF Turns, Becomes
    <3>3. Stopped'
      BY <3>2 DEF Stopped
    <3>4. Unmade' /\ Made' /\ CallKnown' /\ OnePuller' /\ ~pulling
      BY <1>1, <1>2, <1>7, <1>9, <2>1, <3>2
         DEF Control, Unmade, Made, CallKnown, OnePuller
    <3>5. FlagsKnown'
      BY <1>1, <1>2, <1>7, <1>9, <2>1, <3>2, <3>3, <3>4 DEF Control, FlagsKnown
    <3>6. Outcome'
      BY <1>1, <1>2, <1>8, <1>9, <2>1, <3>2 DEF Control, Outcome
    <3>7. ASSUME Without({"call", "writeLater", "zero"})
          PROVE  /\ req.bFailureFromWrite /\ ~req.bFailureFromPull /\ Pullers = 0
                 /\ Count("IoPipe")' = 0
      BY <1>2, <1>7, <2>1, <3>7, Kinds DEF Control, Quiet, Outcome
    <3>8. Quiet'
      BY <1>1, <1>2, <1>7, <1>8, <1>9, <2>1, <3>2, <3>7 DEF Control, Quiet
    <3>9. Gone'
      BY <1>1, <1>2, <1>6, <1>7, <1>8, <1>9, <2>1, <3>4, <3>7, GoneIf DEF Pullers
    <3> QED BY <3>4, <3>5, <3>6, <3>8, <3>9 DEF Control
  <2>2. CASE rpc = "ok" /\ IF req.bAllPullsDone THEN Shutdown(good) ELSE Leave(good)
    <3>1. Turns(good, req.bAllPullsDone) /\ ~Cancels(good)
      BY <1>4, <1>5, <2>2, <1>2, ShutdownTurns, LeaveTurns DEF Cancels, Turns
    <3>2. /\ req'.Status = "ok" /\ req'.bCallComplete
          /\ req'.bAllPullsDone = req.bAllPullsDone
          /\ req'.bPullOutstanding = req.bPullOutstanding
          /\ req'.bAsyncCallFailureReceived = req.bAsyncCallFailureReceived
          /\ req'.bFailureFromWrite = req.bFailureFromWrite
          /\ req'.bFailureFromPull = req.bFailureFromPull /\ req'.bCallMade = req.bCallMade
          /\ req'.bDataAvailable = req.bDataAvailable
          /\ req'.bCallCancelled <=> req.bCallCancelled
          /\ ~req'.alive => req.bAllPullsDone
      BY <1>4, <1>5, <3>1 DEF Turns, Becomes
    <3>3. (Stopped' <=> Stopped) /\ ~pulling /\ Count("IoPipe")' = 0
          /\ ~req.bAsyncCallFailureReceived /\ ~req.bFailureFromPull
      BY <1>2, <1>7, <2>2, <3>2 DEF Stopped, Control, CallKnown, FlagsKnown
    <3>4. Unmade' /\ Made' /\ CallKnown' /\ OnePuller'
      BY <1>1, <1>2, <1>7, <1>9, <2>2, <3>2
         DEF Control, Unmade, Made, CallKnown, OnePuller
    <3>5. FlagsKnown'
      BY <1>1, <1>2, <1>7, <1>9, <2>2, <3>2, <3>3 DEF Control, FlagsKnown
    <3>6. Outcome'
      BY <1>1, <1>2, <1>8, <1>9, <2>2, <3>2, <3>3 DEF Control, Outcome
    <3>7. Quiet'
      BY <1>1, <1>2, <1>8, <1>9, <2>2, <3>2, <3>3 DEF Control, Quiet
    <3>8. ASSUME Without({"call", "writeLater", "zero"}), req.bAllPullsDone PROVE Pullers = 0
      BY <1>2, <2>2, <3>3, <3>8, Kinds DEF Control, FlagsKnown, Stopped, Outcome
    <3>9. Gone'
      BY <1>1, <1>2, <1>6, <1>7, <1>8, <1>9, <2>2, <3>2, <3>3, <3>8, GoneIf DEF Pullers
    <3> QED BY <3>4, <3>5, <3>6, <3>7, <3>9 DEF Control
  <2> QED BY <1>3, <2>1, <2>2
<1> QED BY <1>6, <1>10 DEF ClientInv

\* The end of a write is handled: the last one may have to free the request.
LEMMA FileIoSafe ==
  ASSUME ClientInv, req.alive, NEW w \in Workers, FileIo(w)
  PROVE  ClientInv'
<1> DEFINE m    == req.nWrites - 1
           b    == req.nBytes - got[w].n
           good == [req EXCEPT !.nWrites = m, !.nBytes = b]
           bad  == [req EXCEPT !.nWrites = m, !.nBytes = b, !.bFailureFromWrite = TRUE,
                               !.bAllPullsDone = TRUE, !.Status = "bad"]
           ended == /\ req.bAllPullsDone /\ m <= 0
                    /\ req.bCallComplete \/ req.bAsyncCallFailureReceived
                       \/ req.bFailureFromWrite
<1>1. /\ pc[w] = "IoFile" /\ Handled(w, "wait")
      /\ UNCHANGED <<faults, server, rpc, taken, pulling, event, buf, writes, port,
                     size, stream, ends, call>>
  BY DEF FileIo, server, runtime
<1>2. Typed /\ Control /\ req \in Request /\ pulling \in BOOLEAN
      /\ rpc \in {"none", "open", "ok", "failed"}
  BY DEF ClientInv, Typed
<1>3. /\ Count("IoFileRep")' = Count("IoFileRep") /\ Count("IoFile")' = Count("IoFile") - 1
      /\ Count("IoPipe")' = Count("IoPipe") /\ Count("IoFile") > 0
      /\ Count("pull")' = Count("pull")
      /\ Count("IoFileRep") \in Nat /\ Count("IoFile") \in Nat /\ Count("IoPipe") \in Nat
      /\ Count("pull") \in Nat /\ got[w].n \in Int
  BY <1>1, <1>2, ServeCounts, CountTypes, ClientAssumption DEF Busy
<1>4. m \in Int /\ b \in Int
  BY <1>2, <1>3 DEF Request
<1>5. \/ ~got[w].ok /\ Shutdown(bad)
      \/ got[w].ok /\ IF ended THEN Shutdown(good) ELSE Leave(good)
  <2> HIDE DEF m, b
  <2>1. /\ [good EXCEPT !.bFailureFromWrite = TRUE, !.bAllPullsDone = TRUE, !.Status = "bad"]
             = bad
        /\ good.bAllPullsDone = req.bAllPullsDone /\ good.nWrites = m
        /\ good.bCallComplete = req.bCallComplete
        /\ good.bAsyncCallFailureReceived = req.bAsyncCallFailureReceived
        /\ good.bFailureFromWrite = req.bFailureFromWrite
    BY <1>2 DEF Request
  <2>2. IF ~got[w].ok
        THEN Shutdown([good EXCEPT !.bFailureFromWrite = TRUE, !.bAllPullsDone = TRUE,
                                   !.Status = "bad"])
        ELSE IF /\ good.bAllPullsDone /\ good.nWrites <= 0
                /\ good.bCallComplete \/ good.bAsyncCallFailureReceived
                   \/ good.bFailureFromWrite
        THEN Shutdown(good) ELSE Leave(good)
    BY DEF FileIo, m, b
  <2> HIDE DEF good, bad
  <2> QED BY <2>1, <2>2
<1> HIDE DEF m, b
<1>6. \A r \in {bad, good} :
        /\ r \in Request /\ r.alive /\ r.FileWritePos = req.FileWritePos
        /\ r.CurrentExtendedSize = req.CurrentExtendedSize
        /\ r.Offset = req.Offset /\ r.nWrites = m /\ r.nBytes = b
        /\ r.bCallMade = req.bCallMade /\ r.bCallCancelled = req.bCallCancelled
        /\ r.bAsyncCallFailureReceived = req.bAsyncCallFailureReceived
        /\ r.bFailureFromPull = req.bFailureFromPull /\ r.bCallComplete = req.bCallComplete
        /\ r.bDataAvailable = req.bDataAvailable
        /\ r.bPullOutstanding = req.bPullOutstanding
  <2>1. bad \in Request /\ good \in Request
    BY <1>2, <1>4 DEF Request
  <2>2. /\ bad.alive /\ bad.FileWritePos = req.FileWritePos
        /\ bad.CurrentExtendedSize = req.CurrentExtendedSize /\ bad.Offset = req.Offset
        /\ bad.nWrites = m /\ bad.nBytes = b
        /\ bad.bCallMade = req.bCallMade /\ bad.bCallCancelled = req.bCallCancelled
        /\ bad.bAsyncCallFailureReceived = req.bAsyncCallFailureReceived
        /\ bad.bFailureFromPull = req.bFailureFromPull
        /\ bad.bCallComplete = req.bCallComplete
        /\ bad.bDataAvailable = req.bDataAvailable
        /\ bad.bPullOutstanding = req.bPullOutstanding
    BY <1>2, <1>4 DEF Request
  <2>3. /\ good.alive /\ good.FileWritePos = req.FileWritePos
        /\ good.CurrentExtendedSize = req.CurrentExtendedSize /\ good.Offset = req.Offset
        /\ good.nWrites = m /\ good.nBytes = b
        /\ good.bCallMade = req.bCallMade /\ good.bCallCancelled = req.bCallCancelled
        /\ good.bAsyncCallFailureReceived = req.bAsyncCallFailureReceived
        /\ good.bFailureFromPull = req.bFailureFromPull
        /\ good.bCallComplete = req.bCallComplete
        /\ good.bDataAvailable = req.bDataAvailable
        /\ good.bPullOutstanding = req.bPullOutstanding
    BY <1>2, <1>4 DEF Request
  <2> HIDE DEF bad, good
  <2> QED BY <2>1, <2>2, <2>3
<1>7. /\ bad.Status = "bad" /\ bad.bAllPullsDone /\ bad.bFailureFromWrite
      /\ good.Status = req.Status /\ good.bAllPullsDone = req.bAllPullsDone
      /\ good.bFailureFromWrite = req.bFailureFromWrite
  BY <1>2, <1>4 DEF Request
<1> HIDE DEF bad, good
<1>8. \A kinds : Without(kinds)' <=> Without(kinds)
  BY <1>1, KindsKept
<1>9. ~got[w].ok => ~Without({"writeLater"}) /\ ~Without({"writeNow", "writeLater"})
  BY Kinds DEF ClientInv, AllOk
<1>10. rpc # "none"
  <2>1. req.nWrites > 0 /\ req.nWrites <= taken /\ req.nWrites \in Int
    BY <1>2, <1>3, CountTypes DEF ClientInv, Counted, Reached, Request
  <2> QED BY <1>2, <2>1 DEF Control, Unmade, Typed
<1>11. /\ Typed' /\ ServerKnown' /\ Reached' /\ WritesKnown' /\ Placed'
       /\ FileKnown' /\ LengthKnown'
       /\ Counted' /\ AllOk'
  <2> SUFFICES ASSUME NEW r \in {bad, good}, Shutdown(r) \/ Leave(r),
                      r = good \/ ~got[w].ok
               PROVE  /\ Typed' /\ ServerKnown' /\ Reached' /\ WritesKnown' /\ Placed' /\ FileKnown'
                      /\ LengthKnown' /\ Counted' /\ AllOk'
    BY <1>5
  <2>1. r.nWrites = req.nWrites - 1 /\ r.nBytes = req.nBytes - got[w].n
    BY <1>6 DEF m, b
  <2>2. /\ req.bFailureFromWrite => r.bFailureFromWrite
        /\ r.bFailureFromWrite => req.bFailureFromWrite \/ ~Without({"writeNow", "writeLater"})
    BY <1>7, <1>9
  <2> QED BY <1>1, <1>2, <1>6, <2>1, <2>2, ServeData DEF Busy
<1>12. Pullers' = Pullers /\ Noticed' = Noticed
  BY <1>1, <1>2, <1>3 DEF Pullers, Noticed
<1>13. Control'
  <2>1. CASE ~got[w].ok /\ Shutdown(bad)
    <3>1. Turns(bad, TRUE)
      BY <1>6, <2>1, ShutdownTurns
    <3>2. /\ req'.Status = "bad" /\ req'.bAllPullsDone /\ req'.bFailureFromWrite
          /\ req'.bAsyncCallFailureReceived = req.bAsyncCallFailureReceived
          /\ req'.bFailureFromPull = req.bFailureFromPull /\ req'.bCallMade = req.bCallMade
          /\ req'.bCallComplete = req.bCallComplete
          /\ req'.bDataAvailable = req.bDataAvailable
          /\ req'.bPullOutstanding = req.bPullOutstanding
      BY <1>6, <1>7, <3>1 DEF Turns, Becomes
    <3>3. Stopped'
      BY <3>2 DEF Stopped
    <3>4. Unmade' /\ Made' /\ CallKnown' /\ OnePuller'
      BY <1>1, <1>2, <1>3, <1>10, <1>12, <3>2
         DEF Control, Unmade, Made, CallKnown, OnePuller
    <3>5. FlagsKnown'
      BY <1>1, <1>2, <1>3, <1>10, <1>12, <3>2, <3>3 DEF Control, FlagsKnown
    <3>6. ~Without({"writeLater", "zero"})' /\ ~Without({"call", "writeLater", "zero"})'
      BY <1>8, <1>9, <2>1, Kinds
    <3>7. Outcome' /\ Quiet' /\ Gone'
      BY <3>6 DEF Outcome, Quiet, Gone
    <3> QED BY <3>4, <3>5, <3>7 DEF Control
  <2>2. CASE got[w].ok /\ IF ended THEN Shutdown(good) ELSE Leave(good)
    <3>1. Turns(good, ended)
      BY <1>6, <2>2, ShutdownTurns, LeaveTurns
    <3>2. /\ req'.Status = req.Status /\ req'.bAllPullsDone = req.bAllPullsDone
          /\ req'.bFailureFromWrite = req.bFailureFromWrite
          /\ req'.bAsyncCallFailureReceived = req.bAsyncCallFailureReceived
          /\ req'.bFailureFromPull = req.bFailureFromPull /\ req'.bCallMade = req.bCallMade
          /\ req'.bCallComplete = req.bCallComplete
          /\ req'.bDataAvailable = req.bDataAvailable
          /\ req'.bPullOutstanding = req.bPullOutstanding
          /\ req'.bCallCancelled <=> req.bCallCancelled \/ (ended /\ Cancels(good))
          /\ ~req'.alive => ended
          /\ completed' = completed \/ ended
      BY <1>6, <1>7, <3>1 DEF Turns, Becomes
    <3>3. Stopped' <=> Stopped
      BY <3>2 DEF Stopped
    <3>4. Unmade' /\ Made' /\ CallKnown' /\ OnePuller'
      BY <1>1, <1>2, <1>3, <1>10, <1>12, <3>2
         DEF Control, Unmade, Made, CallKnown, OnePuller
    <3>5. FlagsKnown'
      BY <1>1, <1>2, <1>3, <1>10, <1>12, <3>2, <3>3 DEF Control, FlagsKnown
    <3>6. ASSUME Without({"writeLater", "zero"}), ended
          PROVE  /\ req.bCallComplete \/ req.bAsyncCallFailureReceived
                 /\ ~Cancels(good) /\ rpc \in {"ok", "failed"}
                 /\ req.Status = "ok" => rpc = "ok" /\ ~req.bFailureFromWrite
      <4>1. req.bCallComplete \/ req.bAsyncCallFailureReceived
        BY <1>2, <1>10, <3>6 DEF Control, Outcome
      <4>2. ~Cancels(good)
        BY <1>6, <4>1 DEF Cancels
      <4>3. rpc \in {"ok", "failed"}
        BY <1>2, <1>10, <4>1 DEF Control, FlagsKnown
      <4>4. ASSUME req.Status = "ok" PROVE rpc = "ok" /\ ~req.bFailureFromWrite
        BY <1>2, <1>10, <3>6, <4>1, <4>3, <4>4 DEF Control, FlagsKnown, Outcome
      <4> QED BY <4>1, <4>2, <4>3, <4>4
    <3>7. Outcome'
      BY <1>1, <1>2, <1>8, <1>10, <1>12, <3>2, <3>6 DEF Control, Outcome
    <3>8. Quiet'
      <4> SUFFICES ASSUME Without({"call", "writeLater", "zero"})
                   PROVE  /\ Count("IoPipe")' <= 1
                          /\ rpc' = "failed" => req'.bCallCancelled \/ req'.bFailureFromPull
                          /\ req'.bFailureFromPull => Count("IoPipe")' = 0 /\ Pullers' = 0
                          /\ req'.bAsyncCallFailureReceived =>
                               Count("IoPipe")' = 0 /\ req'.bFailureFromWrite
        BY <1>8 DEF Quiet
      <4> QED BY <1>1, <1>2, <1>3, <1>10, <1>12, <3>2 DEF Control, Quiet
    <3>9. ASSUME Without({"call", "writeLater", "zero"}), ended
          PROVE  Pullers = 0 /\ Count("IoPipe") = 0
      <4>1. Without({"writeLater", "zero"})
        BY <3>9, Kinds
      <4>2. /\ req.bCallComplete \/ req.bAsyncCallFailureReceived
            /\ req.bFailureFromWrite => Pullers = 0
            /\ req.bAllPullsDone => Stopped \/ Pullers = 0
        BY <1>2, <1>10, <3>6, <3>9, <4>1 DEF Control, Outcome, FlagsKnown
      <4>3. CASE req.bAsyncCallFailureReceived
        BY <1>2, <1>10, <3>9, <4>2, <4>3 DEF Control, Quiet
      <4>4. CASE req.bCallComplete /\ ~req.bAsyncCallFailureReceived
        <5>1. Pullers = 0
          BY <3>9, <4>2, <4>4 DEF Stopped
        <5>2. Count("IoPipe") = 0
          BY <1>2, <1>10, <3>9, <4>4 DEF Control, FlagsKnown, Quiet
        <5> QED BY <5>1, <5>2
      <4> QED BY <4>2, <4>3, <4>4
    <3>10. Gone'
      <4> SUFFICES ASSUME Without({"call", "writeLater", "zero"}), ~req'.alive
                   PROVE  /\ ~pulling' /\ rpc' # "open" /\ Count("IoFileRep")' = 0
                          /\ Count("IoPipe")' = 0 /\ Count("pull")' = 0
        <5>1. Count("IoFile")' \in Nat
          BY <1>3
        <5> QED BY <1>8, <1>11, <5>1, GoneIf
      <4>1. ended /\ Pullers = 0 /\ Count("IoPipe") = 0 /\ rpc # "open"
        BY <3>2, <3>6, <3>9, Kinds
      <4> QED BY <1>1, <1>2, <1>3, <4>1 DEF Pullers, Noticed
    <3> QED BY <3>4, <3>5, <3>7, <3>8, <3>10 DEF Control
  <2> QED BY <1>5, <2>1, <2>2
<1> QED BY <1>11, <1>13 DEF ClientInv

\* HandleReq: the call is made, or the request is freed.
LEMMA HandleReqSafe ==
  ASSUME ClientInv, req.alive, NEW w \in Workers, HandleReq(w)
  PROVE  ClientInv'
<1> DEFINE ready == [req EXCEPT !.bPullOutstanding = FALSE, !.bDataAvailable = FALSE,
                           !.bAllPullsDone = FALSE, !.bCallComplete = FALSE,
                           !.bAsyncCallFailureReceived = FALSE,
                           !.bFailureFromPull = FALSE, !.bFailureFromWrite = FALSE,
                           !.FileWritePos = 0, !.CurrentExtendedSize = 0,
                           !.Offset = 0]
           unmade == [ready EXCEPT !.Status = "bad", !.alive = FALSE]
           made == [ready EXCEPT !.bCallMade = TRUE]
<1>1. /\ pc[w] = "IoFileRep"
      /\ UNCHANGED <<faults, server, taken, pulling, event, buf, writes, port,
                     size, stream, ends, call>>
  BY DEF HandleReq, server
<1>2. Typed /\ Control /\ Reached /\ Counted /\ req \in Request /\ pulling \in BOOLEAN
      /\ rpc \in {"none", "open", "ok", "failed"}
  BY DEF ClientInv, Typed
<1>3. \/ /\ \E error \in LastError : Shutdown([req EXCEPT !.Status = error])
         /\ Handled(w, "wait") /\ rpc' = rpc
      \/ /\ SetFileSize(Extension) /\ req' = unmade
         /\ Handled(w, "wait") /\ rpc' = rpc /\ completed' = completed
      \/ /\ SetFileSize(Extension) /\ req' = made
         /\ Handled(w, "pull") /\ rpc' = "open" /\ completed' = completed
  BY DEF HandleReq
<1> DEFINE Error(error) == [req EXCEPT !.Status = error]
           Sized == SetFileSize(Extension) /\ completed' = completed
<1> HIDE DEF ready, unmade, made
<1>4. PICK error \in {"ok", "bad"} :
        /\ error = "ok" => "zero" \in faults
        /\ \/ Shutdown(Error(error)) /\ Handled(w, "wait") /\ rpc' = rpc
           \/ Sized /\ req' = unmade /\ Handled(w, "wait") /\ rpc' = rpc
           \/ Sized /\ req' = made /\ Handled(w, "pull") /\ rpc' = "open"
  <2>1. CASE /\ \E error \in LastError : Shutdown(Error(error))
             /\ Handled(w, "wait") /\ rpc' = rpc
    <3>1. PICK error \in LastError : Shutdown(Error(error))
      BY <2>1
    <3>2. error \in {"ok", "bad"} /\ (error = "ok" => "zero" \in faults)
      BY DEF LastError
    <3> QED BY <2>1, <3>1, <3>2
  <2>2. "bad" \in {"ok", "bad"} /\ "bad" # "ok"
    OBVIOUS
  <2> QED BY <1>3, <2>1, <2>2
<1> DEFINE bad == Error(error)
<1> USE DEF unmade, made
<1> USE DEF ready
<1>5. /\ ready \in Request /\ ready.alive /\ ready.Status = req.Status
      /\ ready.FileWritePos = 0 /\ ready.CurrentExtendedSize = 0 /\ ready.Offset = 0
      /\ ready.nWrites = req.nWrites /\ ready.nBytes = req.nBytes
      /\ ready.bCallMade = req.bCallMade /\ ready.bCallCancelled = req.bCallCancelled
      /\ ~ready.bPullOutstanding /\ ~ready.bDataAvailable /\ ~ready.bAllPullsDone
      /\ ~ready.bCallComplete /\ ~ready.bAsyncCallFailureReceived
      /\ ~ready.bFailureFromPull /\ ~ready.bFailureFromWrite
  <2>1. ready \in Request
    <3> DEFINE zero == 0
               half == [req EXCEPT !.bPullOutstanding = FALSE, !.bDataAvailable = FALSE,
                              !.bAllPullsDone = FALSE, !.bCallComplete = FALSE,
                              !.bAsyncCallFailureReceived = FALSE,
                              !.bFailureFromPull = FALSE, !.bFailureFromWrite = FALSE]
    <3>1. zero \in Longs /\ zero \in Dwords
      BY ClientAssumption DEF Longs, Dwords
    <3>2. half \in Request
      <4> DEFINE fewer == [req EXCEPT !.bPullOutstanding = FALSE, !.bDataAvailable = FALSE,
                                      !.bAllPullsDone = FALSE, !.bCallComplete = FALSE]
      <4>1. fewer \in Request
        BY <1>2 DEF Request
      <4>2. half = [fewer EXCEPT !.bAsyncCallFailureReceived = FALSE,
                      !.bFailureFromPull = FALSE, !.bFailureFromWrite = FALSE]
        BY <1>2 DEF Request
      <4> HIDE DEF half, fewer
      <4>3. [fewer EXCEPT !.bAsyncCallFailureReceived = FALSE,
               !.bFailureFromPull = FALSE, !.bFailureFromWrite = FALSE] \in Request
        BY <4>1 DEF Request
      <4> QED BY <4>2, <4>3
    <3>3. ready = [half EXCEPT !.FileWritePos = zero, !.CurrentExtendedSize = zero,
                               !.Offset = zero]
      BY <1>2 DEF Request
    <3> HIDE DEF half, ready, zero
    <3>4. [half EXCEPT !.FileWritePos = zero, !.CurrentExtendedSize = zero,
                       !.Offset = zero] \in Request
      BY <3>1, <3>2 DEF Request
    <3> QED BY <3>3, <3>4
  <2>2. /\ ready.alive /\ ready.Status = req.Status
        /\ ready.FileWritePos = 0 /\ ready.CurrentExtendedSize = 0 /\ ready.Offset = 0
        /\ ready.nWrites = req.nWrites /\ ready.nBytes = req.nBytes
        /\ ready.bCallMade = req.bCallMade /\ ready.bCallCancelled = req.bCallCancelled
    BY <1>2 DEF Request
  <2>3. /\ ~ready.bPullOutstanding /\ ~ready.bDataAvailable /\ ~ready.bAllPullsDone
        /\ ~ready.bCallComplete /\ ~ready.bAsyncCallFailureReceived
        /\ ~ready.bFailureFromPull /\ ~ready.bFailureFromWrite
    BY <1>2 DEF Request
  <2> QED BY <2>1, <2>2, <2>3
<1> HIDE DEF ready
<1>6. /\ unmade \in Request /\ ~unmade.alive /\ unmade.Status = "bad"
      /\ unmade.bCallMade = req.bCallMade /\ made \in Request /\ made.alive /\ made.bCallMade
      /\ ~made.bPullOutstanding /\ ~made.bDataAvailable /\ ~made.bAllPullsDone
      /\ ~made.bCallComplete /\ ~made.bAsyncCallFailureReceived
      /\ ~made.bFailureFromPull
      /\ \A r \in {unmade, made} :
           /\ r.FileWritePos = 0 /\ r.CurrentExtendedSize = 0 /\ ~r.bFailureFromWrite
           /\ r.nWrites = req.nWrites /\ r.nBytes = req.nBytes
           /\ r.bCallCancelled = req.bCallCancelled
  <2>1. /\ unmade \in Request /\ ~unmade.alive /\ unmade.Status = "bad"
        /\ unmade.bCallMade = req.bCallMade /\ unmade.bCallCancelled = req.bCallCancelled
        /\ unmade.FileWritePos = 0 /\ unmade.CurrentExtendedSize = 0
        /\ ~unmade.bFailureFromWrite
        /\ unmade.nWrites = req.nWrites /\ unmade.nBytes = req.nBytes
    BY <1>5 DEF Request
  <2>2. /\ made \in Request /\ made.alive /\ made.bCallMade
        /\ made.bCallCancelled = req.bCallCancelled
        /\ made.FileWritePos = 0 /\ made.CurrentExtendedSize = 0
        /\ ~made.bFailureFromWrite
        /\ made.nWrites = req.nWrites /\ made.nBytes = req.nBytes
    BY <1>5 DEF Request
  <2>3. /\ ~made.bPullOutstanding /\ ~made.bDataAvailable /\ ~made.bAllPullsDone
        /\ ~made.bCallComplete /\ ~made.bAsyncCallFailureReceived
        /\ ~made.bFailureFromPull
    BY <1>5 DEF Request
  <2> HIDE DEF unmade, made
  <2> QED BY <2>1, <2>2, <2>3
<1>7. /\ bad \in Request /\ bad.alive /\ bad.Status = error
      /\ bad.FileWritePos = req.FileWritePos
      /\ bad.CurrentExtendedSize = req.CurrentExtendedSize /\ bad.nWrites = req.nWrites
      /\ bad.Offset = req.Offset
      /\ bad.nBytes = req.nBytes /\ bad.bFailureFromWrite = req.bFailureFromWrite
      /\ bad.bCallMade = req.bCallMade /\ bad.bCallCancelled = req.bCallCancelled
  BY <1>2 DEF Request
<1> HIDE DEF bad, Error, unmade, made, Sized
<1>8. \A kinds : Without(kinds)' <=> Without(kinds)
  BY <1>1, KindsKept
<1>9. PICK s \in {"wait", "pull"} :
        /\ Handled(w, s)
        /\ s = "wait" => rpc' = rpc /\ (Shutdown(bad) \/ req' = unmade)
        /\ s = "pull" => rpc' = "open" /\ req' = made
        /\ \/ Shutdown(bad) /\ s = "wait"
           \/ /\ Sized
              /\ \/ s = "wait" /\ req' = unmade
                 \/ s = "pull" /\ req' = made
  BY <1>4 DEF bad
<1>10. /\ Count("IoFileRep")' = Count("IoFileRep") - 1 /\ Count("IoFile")' = Count("IoFile")
       /\ Count("IoPipe")' = Count("IoPipe") /\ Count("IoFileRep") > 0
       /\ Count("pull")' = Count("pull") + (IF s = "pull" THEN 1 ELSE 0)
       /\ Count("IoFileRep") \in Nat /\ Count("IoFile") \in Nat /\ Count("IoPipe") \in Nat
       /\ Count("pull") \in Nat
       /\ Cardinality(writes) \in Nat /\ (Cardinality(writes) = 0 <=> writes = {})
       /\ pc' \in [Workers -> Steps] /\ got' \in [Workers -> Packets \cup {NoPacket}]
       /\ \A v \in Workers : got'[v] \in {got[v], NoPacket}
       /\ PortBytes(port') = PortBytes(port)
       /\ WorkerBytes' = WorkerBytes - 0
  <2>1. pc[w] \in Busy /\ pc[w] # "IoFile" /\ pc[w] # "IoPipe" /\ pc[w] # "pull"
    BY <1>1 DEF Busy
  <2>2. WorkerBytes' = WorkerBytes - (IF pc[w] = "IoFile" THEN got[w].n ELSE 0)
    BY <1>1, <1>2, <1>9, <2>1, ServeCounts
  <2>3. WorkerBytes' = WorkerBytes - 0
    BY <2>1, <2>2
  <2> QED BY <1>1, <1>2, <1>9, <2>1, <2>3, ServeCounts, CountTypes
<1>11. /\ rpc = "none" /\ event = "none" /\ ~pulling /\ Count("pull") = 0
       /\ taken = 0 /\ req.FileWritePos = 0 /\ req.CurrentExtendedSize = 0
       /\ ~req.bCallMade /\ ~req.bCallCancelled /\ completed = 0 /\ Count("IoPipe") = 0
  BY <1>2, <1>10 DEF Control, Unmade, Made, CallKnown
<1>12. /\ req.nWrites = 0 /\ Cardinality(writes) = 0 /\ Count("IoFile") = 0 /\ writes = {}
       /\ req.nBytes <= 0 /\ req.nBytes \in Int
  BY <1>2, <1>10, <1>11 DEF Reached, Counted, Request
<1>13. Noticed = 0 /\ Noticed' = 0 /\ Count("IoFileRep") = 1 /\ Count("IoFileRep")' = 0
       /\ Pullers' = IF s = "pull" THEN 1 ELSE 0
  BY <1>1, <1>2, <1>9, <1>10, <1>11 DEF Control, OnePuller, Pullers, Noticed
<1>14. CASE Shutdown(bad) /\ s = "wait"
  <2>1. /\ Typed' /\ ServerKnown' /\ Reached' /\ WritesKnown' /\ Placed'
        /\ FileKnown' /\ LengthKnown'
        /\ Counted' /\ AllOk'
    <3>1. bad.nWrites = req.nWrites - 0 /\ bad.nBytes = req.nBytes - 0
      BY <1>7, <1>12
    <3>2. rpc' = rpc
      BY <1>9, <1>14
    <3> QED BY <1>1, <1>2, <1>7, <1>9, <1>14, <3>1, <3>2, ServeData DEF Busy
  <2>2. Turns(bad, TRUE) /\ ~Cancels(bad) /\ ~Tells(bad) /\ Frees(bad)
    <3>1. ~Open(bad)
      BY <1>7, <1>11 DEF Open
    <3>2. ~Cancels(bad) /\ ~WaitsForPull(bad) /\ ~Tells(bad)
      BY <3>1 DEF Cancels, WaitsForPull, Tells
    <3>3. Frees(bad)
      BY <1>7, <1>12, <3>2 DEF Frees
    <3> QED BY <1>7, <1>14, <3>2, <3>3, ShutdownTurns
  <2>3. /\ ~req'.alive /\ req'.Status = error /\ req'.FileWritePos = 0
        /\ req'.CurrentExtendedSize = 0 /\ ~req'.bCallMade /\ ~req'.bCallCancelled
        /\ completed' = completed /\ rpc' = "none"
    BY <1>7, <1>9, <1>11, <1>14, <2>2 DEF Turns, Becomes
  <2>4. Without({"writeLater", "zero"})' => error = "bad"
    BY <1>4, <1>8, Kinds
  <2>5. Unmade' /\ Made' /\ CallKnown' /\ OnePuller'
    BY <1>1, <1>10, <1>11, <1>13, <1>14, <2>4, <2>3 DEF Unmade, Made, CallKnown, OnePuller
  <2>6. FlagsKnown' /\ Outcome' /\ Quiet'
    BY <2>3 DEF FlagsKnown, Outcome, Quiet
  <2>7. Gone'
    <3>1. Count("IoFile")' \in Nat /\ ~pulling' /\ rpc' # "open" /\ Count("IoFileRep")' = 0
          /\ Count("IoPipe")' = 0 /\ Count("pull")' = 0
      BY <1>1, <1>10, <1>11, <1>13, <1>14, <2>3
    <3> QED BY <2>1, <3>1, GoneIf
  <2> QED BY <2>1, <2>5, <2>6, <2>7 DEF ClientInv, Control
<1>15. CASE /\ Sized
            /\ \/ s = "wait" /\ req' = unmade
               \/ s = "pull" /\ req' = made
  <2>1. /\ req' \in Request /\ req'.FileWritePos = 0 /\ req'.CurrentExtendedSize = 0
        /\ ~req'.bFailureFromWrite /\ req'.nWrites = 0 /\ req'.nBytes = req.nBytes
        /\ ~req'.bCallCancelled
    BY <1>6, <1>11, <1>12, <1>15
  <2>2. /\ Extension \in Nat /\ Extension < PosLimit /\ PosLimit \in Nat /\ BufSize \in Nat
    BY ClientAssumption
  <2>3. /\ length' = Extension /\ pointer' = Extension /\ spoiled' = spoiled
        /\ file' = [i \in Positions |-> IF i <= Extension THEN file[i] ELSE 0]
        /\ completed' = completed
    BY <1>15, <2>2 DEF Sized, SetFileSize, SetEnd
  <2>4. \A i \in Positions : file[i] = 0 /\ file'[i] = 0
    <3>1. \A i \in Positions : file[i] \in Nat /\ file[i] <= 0
      BY <1>2, <1>11 DEF ClientInv, WritesKnown, Typed
    <3>2. \A i \in Positions : file[i] = 0
      BY <3>1
    <3> QED BY <2>3, <3>2
  <2>5. rpc' \in {"none", "open"} /\ (rpc' = "open" <=> s = "pull")
    BY <1>9, <1>11
  <2>6. Typed'
    <3>1. file' \in [Positions -> Nat]
      BY <2>3, <2>4
    <3>2. length' \in 0 .. 2 * PosLimit + BufSize /\ pointer' \in 0 .. PosLimit - 1
      BY <2>3, <2>2
    <3> QED BY <1>1, <1>2, <1>10, <2>3, <2>1, <2>5, <3>1, <3>2 DEF Typed
  <2>7. ServerKnown'
    BY <1>1 DEF ClientInv, ServerKnown
  <2>8. Reached'
    <3>1. Len(stream) \in Nat /\ size \in Nat
      BY PositionsKnown DEF ClientInv, ServerKnown
    <3> QED BY <1>1, <1>2, <1>11, <1>12, <2>1, <2>2, <3>1 DEF Reached
  <2>9. WritesKnown' /\ Placed'
    <3>1. WritesKnown'
      BY <1>1, <1>11, <1>12, <2>4 DEF ClientInv, WritesKnown
    <3>2. 0 = 0 * Extension
      BY <2>2
    <3> QED BY <1>1, <1>11, <1>12, <2>1, <3>1, <3>2 DEF Placed
  <2>10. FileKnown'
    <3>1. \A i \in Positions : i \in Nat /\ i > 0
      BY PositionsKnown
    <3> QED BY <2>1, <2>4, <3>1 DEF FileKnown
  <2>11. LengthKnown'
    BY <2>1 DEF LengthKnown
  <2>12. Counted'
    <3>1. WriteBytes' = WriteBytes
      BY <1>1 DEF WriteBytes, SetBytes, Bytes, Pairs
    <3>2. Owed' = WriteBytes' + PortBytes(port') + WorkerBytes'
      BY DEF Owed
    <3>3. Owed' = Owed
      BY <1>2, <1>10, <3>1, <3>2, OwedType DEF Owed
    <3> QED BY <1>1, <1>2, <1>8, <1>10, <1>12, <2>1, <3>3 DEF Counted
  <2>13. AllOk'
    <3>1. NoPacket.ok
      BY DEF NoPacket
    <3> QED BY <1>1, <1>8, <1>10, <3>1 DEF ClientInv, AllOk
  <2>14. Control'
    <3>1. CASE s = "wait"
      <4>1. req' = unmade /\ rpc' = "none" /\ ~req'.alive /\ req'.Status = "bad"
            /\ ~req'.bCallMade
        BY <1>6, <1>9, <1>11, <1>15, <3>1
      <4>2. Unmade' /\ Made' /\ CallKnown' /\ OnePuller'
        BY <1>1, <1>10, <1>11, <1>13, <2>3, <2>1, <3>1, <4>1
           DEF Unmade, Made, CallKnown, OnePuller
      <4>3. FlagsKnown' /\ Outcome' /\ Quiet'
        BY <4>1 DEF FlagsKnown, Outcome, Quiet
      <4>4. Gone'
        <5>1. Count("IoFile")' \in Nat /\ ~pulling' /\ rpc' # "open"
              /\ Count("IoFileRep")' = 0 /\ Count("IoPipe")' = 0 /\ Count("pull")' = 0
          BY <1>1, <1>10, <1>11, <1>13, <3>1, <4>1
        <5> QED BY <2>6, <2>12, <5>1, GoneIf
      <4> QED BY <4>2, <4>3, <4>4 DEF Control
    <3>2. CASE s = "pull"
      <4>1. /\ req' = made /\ rpc' = "open" /\ req'.alive /\ req'.bCallMade
            /\ ~req'.bPullOutstanding /\ ~req'.bDataAvailable /\ ~req'.bAllPullsDone
            /\ ~req'.bCallComplete /\ ~req'.bAsyncCallFailureReceived
            /\ ~req'.bFailureFromPull
        BY <1>6, <1>9, <1>15, <3>2
      <4>2. Unmade' /\ Made' /\ CallKnown' /\ OnePuller'
        BY <1>1, <1>10, <1>11, <1>13, <2>3, <3>2, <4>1
           DEF Unmade, Made, CallKnown, OnePuller
      <4>3. FlagsKnown' /\ Outcome' /\ Quiet' /\ Gone'
        BY <1>1, <1>10, <1>11, <1>13, <2>3, <2>1, <4>1 DEF FlagsKnown, Outcome, Quiet, Gone
      <4> QED BY <4>2, <4>3 DEF Control
    <3> QED BY <3>1, <3>2
  <2> QED BY <2>6, <2>7, <2>8, <2>9, <2>10, <2>11, <2>12, <2>13, <2>14 DEF ClientInv
<1> QED BY <1>9, <1>14, <1>15

\* What a pull leaves in the buffer: the next bytes of the file at its front.
LEMMA PulledBytes ==
  ASSUME ServerKnown, taken \in Nat, NEW n \in 1 .. BufSize, taken + n <= Len(stream),
         buf \in [1 .. BufSize -> Nat], \A i \in 1 .. BufSize : buf[i] <= taken,
         buf' = [i \in 1 .. BufSize |-> IF i <= n THEN stream[taken + i] ELSE buf[i]]
  PROVE  /\ buf' \in [1 .. BufSize -> Nat] /\ buf'[1] = taken + 1
         /\ \A i \in 1 .. n : buf'[i] = taken + i
         /\ \A i \in 1 .. BufSize : buf'[i] <= taken + n
<1>1. n \in Nat /\ n > 0 /\ n <= BufSize /\ BufSize \in Nat
  BY ClientAssumption
<1>2. Len(stream) \in Nat /\ stream = [i \in 1 .. Len(stream) |-> i]
  BY DEF ServerKnown
<1>3. \A i \in 1 .. n : taken + i \in 1 .. Len(stream)
  BY <1>1, <1>2
<1>4. \A j \in 1 .. Len(stream) : stream[j] = j
  BY <1>2
<1>5. \A i \in 1 .. n : stream[taken + i] = taken + i
  BY <1>3, <1>4
<1>6. \A i \in 1 .. BufSize : /\ i <= n => buf'[i] = taken + i
                              /\ ~(i <= n) => buf'[i] = buf[i]
  BY <1>1, <1>5
<1>7. \A i \in 1 .. BufSize : buf'[i] \in Nat /\ buf'[i] <= taken + n
  <2> SUFFICES ASSUME NEW i \in 1 .. BufSize
               PROVE  buf'[i] \in Nat /\ buf'[i] <= taken + n
    OBVIOUS
  <2>1. i \in Nat /\ buf[i] \in Nat /\ buf[i] <= taken
    BY <1>1
  <2>2. CASE i <= n
    <3>1. buf'[i] = taken + i
      BY <1>6, <2>2
    <3>2. taken + i \in Nat /\ taken + i <= taken + n
      BY <1>1, <2>1, <2>2
    <3> QED BY <3>1, <3>2
  <2>3. CASE ~(i <= n)
    <3>1. buf'[i] = buf[i]
      BY <1>6, <2>3
    <3>2. buf[i] <= taken + n
      BY <1>1, <2>1
    <3> QED BY <2>1, <3>1, <3>2
  <2> QED BY <2>2, <2>3
<1>8. buf' = [i \in 1 .. BufSize |-> buf'[i]]
  OBVIOUS
<1>9. buf' \in [1 .. BufSize -> Nat]
  BY <1>7, <1>8
<1>10. \A i \in 1 .. n : i \in 1 .. BufSize /\ i <= n
  BY <1>1
<1>11. \A i \in 1 .. n : buf'[i] = taken + i
  BY <1>6, <1>10
<1>12. 1 \in 1 .. n
  BY <1>1
<1>13. buf'[1] = taken + 1
  BY <1>11, <1>12
<1> QED BY <1>7, <1>9, <1>11, <1>13

\* A position stays a LONG, and is what it should be if it is less than PosLimit.
LEMMA Widths ==
  /\ \A x \in Longs : \A n \in 0 .. Extension :
       /\ Wrap(x + n) \in Longs
       /\ x + n < PosLimit => Wrap(x + n) = x + n
  /\ \A x \in Longs : /\ Unsigned(x) \in Dwords
                      /\ x >= 0 => Unsigned(x) = x
<1>1. PosLimit \in Nat /\ Extension \in Nat /\ Extension < PosLimit
  BY ClientAssumption
<1> QED BY <1>1 DEF Longs, Dwords, Wrap, Unsigned

\* A file that fits is extended to no more than PosLimit.
LEMMA ExtensionFits ==
  ASSUME Fits, size \in Nat, NEW k \in Nat, NEW p \in Nat, p <= size, k * Extension < p
  PROVE  (k + 1) * Extension < PosLimit /\ (k + 1) * Extension = k * Extension + Extension
<1>1. PosLimit \in Nat /\ Extension \in Nat
  BY ClientAssumption
<1>2. PICK m \in 0 .. PosLimit : size <= m * Extension /\ m * Extension < PosLimit
  BY DEF Fits
<1>3. m \in Nat /\ m * Extension \in Nat /\ k * Extension \in Nat
  BY <1>1, <1>2
<1>4. k * Extension < m * Extension
  BY <1>2, <1>3
<1>5. k < m
  <2> SUFFICES ASSUME m <= k PROVE m * Extension <= k * Extension
    BY <1>3, <1>4
  <2>1. k - m \in Nat /\ k = m + (k - m)
    BY <1>3
  <2>2. (m + (k - m)) * Extension = m * Extension + (k - m) * Extension
        /\ (k - m) * Extension \in Nat
    BY <1>1, <1>3, <2>1
  <2> QED BY <1>3, <2>1, <2>2
<1>6. (k + 1) * Extension = k * Extension + Extension
  BY <1>1
<1>7. (k + 1) * Extension <= m * Extension
  <2>1. m - (k + 1) \in Nat /\ m = (k + 1) + (m - (k + 1))
    BY <1>3, <1>5
  <2>2. ((k + 1) + (m - (k + 1))) * Extension
          = (k + 1) * Extension + (m - (k + 1)) * Extension
        /\ (m - (k + 1)) * Extension \in Nat /\ (k + 1) * Extension \in Nat
    BY <1>1, <1>3, <2>1
  <2> QED BY <1>3, <2>1, <2>2
<1> QED BY <1>1, <1>2, <1>3, <1>6, <1>7

\* The request after the write of n bytes is started.
Starts(n, pos, end, extended) ==
  [req EXCEPT !.bDataAvailable = FALSE, !.bPullOutstanding = FALSE, !.Offset = pos,
     !.nWrites = @ + 1, !.nBytes = @ + n, !.FileWritePos = end,
     !.CurrentExtendedSize = extended]

LEMMA SumGrows ==
  ASSUME NEW a \in Nat, NEW b \in Nat, NEW c \in Nat, NEW n \in Nat
  PROVE  a + n + b + c = a + b + c + n
OBVIOUS

\* A chunk is pulled, and its write is started.
LEMMA PullWriteSafe ==
  ASSUME ClientInv, req.alive, NEW w \in Workers, pc[w] = "pull", ~Stopped,
         rpc # "failed", NEW n \in 1 .. BufSize, taken + n <= Len(stream),
         taken' = taken + n,
         buf' = [i \in 1 .. BufSize |-> IF i <= n THEN stream[taken + i] ELSE buf[i]],
         NEW pos, pos = Unsigned(req.FileWritePos),
         NEW end, end = Wrap(req.FileWritePos + n),
         NEW extend \in BOOLEAN, extend <=> end > req.CurrentExtendedSize,
         NEW c, c = IF extend THEN Wrap(req.CurrentExtendedSize + Extension)
                    ELSE req.CurrentExtendedSize,
         req' = Starts(n, pos, end, c),
         writes' = writes \cup {[from |-> taken, n |-> n, pos |-> pos, done |-> FALSE]},
         IF extend THEN SetFileSize(c) ELSE UNCHANGED local,
         Handled(w, "pull"),
         UNCHANGED <<completed, faults, server, rpc, pulling, event, port>>
  PROVE  ClientInv'
<1>1. UNCHANGED <<size, stream, ends, call>>
  BY DEF server
<1>2. Typed /\ Control /\ Reached /\ Counted /\ WritesKnown /\ Placed /\ req \in Request
      /\ pulling \in BOOLEAN /\ rpc \in {"none", "open", "ok", "failed"} /\ taken \in Nat
  BY DEF ClientInv, Typed
<1>3. Len(stream) \in Nat /\ size \in Nat /\ Len(stream) <= size
  BY PositionsKnown DEF ClientInv, ServerKnown
<1>4. n \in Nat /\ n > 0 /\ n <= BufSize /\ Extension \in Nat /\ Extension >= BufSize
      /\ BufSize \in Nat /\ PosLimit \in Nat
  BY ClientAssumption
<1> DEFINE v == [from |-> taken, n |-> n, pos |-> pos, done |-> FALSE]
<1>5. /\ buf' \in [1 .. BufSize -> Nat] /\ buf'[1] = taken + 1
      /\ \A i \in 1 .. n : buf'[i] = taken + i
      /\ \A i \in 1 .. BufSize : buf'[i] <= taken + n
  <2>1. buf \in [1 .. BufSize -> Nat] /\ \A i \in 1 .. BufSize : buf[i] <= taken
    BY <1>2 DEF Typed, WritesKnown
  <2> QED BY <1>2, <2>1, PulledBytes DEF ClientInv
<1>6. /\ req.FileWritePos \in Longs /\ req.CurrentExtendedSize \in Longs
      /\ req.nWrites \in Int /\ req.nBytes \in Int
  BY <1>2 DEF Request
<1>7. pos \in Dwords /\ end \in Longs /\ c \in Longs
  <2>1. n \in 0 .. Extension /\ Extension \in 0 .. Extension
    BY <1>4
  <2> QED BY <1>6, <2>1, Widths
<1>8. /\ req' \in Request /\ req'.FileWritePos = end /\ req'.Offset = pos
      /\ req'.CurrentExtendedSize = c /\ req'.nWrites = req.nWrites + 1
      /\ req'.nBytes = req.nBytes + n /\ req'.alive
      /\ ~req'.bDataAvailable /\ ~req'.bPullOutstanding
      /\ req'.Status = req.Status /\ req'.bCallMade = req.bCallMade
      /\ req'.bCallCancelled = req.bCallCancelled
      /\ req'.bAllPullsDone = req.bAllPullsDone /\ req'.bCallComplete = req.bCallComplete
      /\ req'.bAsyncCallFailureReceived = req.bAsyncCallFailureReceived
      /\ req'.bFailureFromPull = req.bFailureFromPull
      /\ req'.bFailureFromWrite = req.bFailureFromWrite
  <2> DEFINE x == req.nWrites + 1  y == req.nBytes + n
  <2>1. x \in Int /\ y \in Int
    BY <1>4, <1>6
  <2>2. req' = [req EXCEPT !.bDataAvailable = FALSE, !.bPullOutstanding = FALSE,
                  !.Offset = pos, !.nWrites = x, !.nBytes = y, !.FileWritePos = end,
                  !.CurrentExtendedSize = c]
    BY DEF Starts
  <2>3. x = req.nWrites + 1 /\ y = req.nBytes + n
    OBVIOUS
  <2> HIDE DEF x, y
  <2>4. /\ req' \in Request /\ req'.FileWritePos = end /\ req'.CurrentExtendedSize = c
        /\ req'.nWrites = x /\ req'.nBytes = y /\ req'.Offset = pos
    <3>1. req' \in Request
      <4>1. PICK a : a = [req EXCEPT !.bDataAvailable = FALSE, !.bPullOutstanding = FALSE,
                                 !.Offset = pos, !.nWrites = x]
        OBVIOUS
      <4>2. a \in Request
        BY <1>2, <1>7, <2>1, <4>1 DEF Request
      <4>3. req' = [a EXCEPT !.nBytes = y, !.FileWritePos = end, !.CurrentExtendedSize = c]
        BY <2>2, <4>1
      <4> QED BY <1>7, <2>1, <4>2, <4>3 DEF Request
    <3>2. req'.FileWritePos = end /\ req'.CurrentExtendedSize = c /\ req'.Offset = pos
      BY <1>2, <2>2 DEF Request
    <3>3. req'.nWrites = x /\ req'.nBytes = y
      BY <1>2, <2>2 DEF Request
    <3> QED BY <3>1, <3>2, <3>3
  <2>5. /\ req'.alive /\ ~req'.bDataAvailable /\ ~req'.bPullOutstanding
        /\ req'.Status = req.Status /\ req'.bCallMade = req.bCallMade
        /\ req'.bCallCancelled = req.bCallCancelled
        /\ req'.bAllPullsDone = req.bAllPullsDone /\ req'.bCallComplete = req.bCallComplete
        /\ req'.bAsyncCallFailureReceived = req.bAsyncCallFailureReceived
        /\ req'.bFailureFromPull = req.bFailureFromPull
        /\ req'.bFailureFromWrite = req.bFailureFromWrite
    BY <1>2, <2>2 DEF Request
  <2> QED BY <2>3, <2>4, <2>5
<1>9. /\ Count("IoFileRep")' = Count("IoFileRep") /\ Count("IoFile")' = Count("IoFile")
      /\ Count("IoPipe")' = Count("IoPipe") /\ Count("pull")' = Count("pull")
      /\ Count("pull") > 0
      /\ pc' \in [Workers -> Steps] /\ got' \in [Workers -> Packets \cup {NoPacket}]
      /\ \A u \in Workers : got'[u] \in {got[u], NoPacket}
      /\ PortBytes(port') = PortBytes(port) /\ WorkerBytes' = WorkerBytes
      /\ Count("IoFileRep") \in Nat /\ Count("IoFile") \in Nat /\ Count("IoPipe") \in Nat
      /\ Count("pull") \in Nat
  <2>1. WorkerBytes' = WorkerBytes - 0 /\ WorkerBytes \in Nat
    BY <1>2, ServeCounts, OwedType DEF Busy
  <2>2. WorkerBytes' = WorkerBytes
    BY <2>1
  <2>3. /\ Count("IoFileRep") \in Nat /\ Count("IoFile") \in Nat /\ Count("IoPipe") \in Nat
        /\ Count("pull") \in Nat
    BY <1>2, CountTypes
  <2>4. "pull" \in {"wait", "pull"} /\ pc[w] \in Busy
    BY DEF Busy
  <2>5. /\ Count("IoFileRep")' = Count("IoFileRep") - 0
        /\ Count("IoFile")' = Count("IoFile") - 0
        /\ Count("IoPipe")' = Count("IoPipe") - 0
        /\ Count("pull")' = Count("pull") + 1 - 1
        /\ Count("pull") > 0
        /\ pc' \in [Workers -> Steps] /\ got' \in [Workers -> Packets \cup {NoPacket}]
        /\ \A u \in Workers : got'[u] \in {got[u], NoPacket}
        /\ PortBytes(port') = PortBytes(port)
    BY <1>2, <2>4, ServeCounts
  <2> QED BY <2>2, <2>3, <2>5
<1>10. \A kinds : Without(kinds)' <=> Without(kinds)
  BY KindsKept
<1>11. /\ Pullers = 1 /\ Pullers' = 1 /\ Noticed = 0 /\ Noticed' = 0 /\ ~pulling
  BY <1>2, <1>9 DEF Control, OnePuller, Pullers, Noticed
<1>12. /\ ~req.bAsyncCallFailureReceived /\ ~req.bFailureFromWrite /\ rpc = "open"
       /\ ~req.bAllPullsDone
  <2>1. rpc # "none" /\ rpc # "ok"
    BY <1>2, <1>3, <1>4, <1>9 DEF Control, Unmade, CallKnown
  <2> QED BY <1>2, <1>11, <2>1 DEF Stopped, Control, FlagsKnown
<1>13. Fits => /\ req.FileWritePos = taken /\ pos = taken /\ end = taken + n
               /\ taken <= req.CurrentExtendedSize
               /\ req.CurrentExtendedSize <= c /\ end <= c /\ 0 < c
               /\ \E k \in Nat : c = k * Extension
               /\ \A u \in writes : Last(u) <= taken /\ u.pos = u.from
  <2> SUFFICES ASSUME Fits
               PROVE  /\ req.FileWritePos = taken /\ pos = taken /\ end = taken + n
                      /\ taken <= req.CurrentExtendedSize
                      /\ req.CurrentExtendedSize <= c /\ end <= c /\ 0 < c
                      /\ \E k \in Nat : c = k * Extension
                      /\ \A u \in writes : Last(u) <= taken /\ u.pos = u.from
    OBVIOUS
  <2>1. /\ req.FileWritePos = taken /\ taken <= req.CurrentExtendedSize
        /\ \A u \in writes : Last(u) <= taken /\ u.pos = u.from
    BY <1>2, <1>12 DEF Placed
  <2>2. PICK k \in Nat : req.CurrentExtendedSize = k * Extension
    BY <1>2 DEF Placed
  <2>3. PICK m \in 0 .. PosLimit : size <= m * Extension /\ m * Extension < PosLimit
    BY DEF Fits
  <2>4. taken + n <= size /\ m * Extension \in Nat /\ taken + n \in Nat
    BY <1>2, <1>3, <1>4, <2>3
  <2>5. taken + n < PosLimit
    BY <1>3, <1>4, <2>3, <2>4
  <2>6. pos = taken /\ end = taken + n
    <3>1. n \in 0 .. Extension
      BY <1>4
    <3> QED BY <1>2, <1>6, <2>1, <2>5, <3>1, Widths
  <2>7. k * Extension \in Nat
    BY <1>4
  <2>8. CASE extend
    <3>1. k * Extension < taken + n
      BY <1>2, <1>4, <2>2, <2>6, <2>7, <2>8
    <3>2. (k + 1) * Extension < PosLimit /\ (k + 1) * Extension = k * Extension + Extension
      BY <1>3, <2>4, <3>1, ExtensionFits
    <3>3. c = (k + 1) * Extension
      <4>1. Extension \in 0 .. Extension
        BY <1>4
      <4> QED BY <1>6, <2>2, <2>8, <3>2, <4>1, Widths
    <3>4. req.CurrentExtendedSize <= c /\ end <= c /\ 0 < c
      BY <1>2, <1>4, <2>1, <2>2, <2>6, <2>7, <3>2, <3>3
    <3> QED BY <2>1, <2>6, <3>3, <3>4
  <2>9. CASE ~extend
    <3>1. c = req.CurrentExtendedSize /\ ~(end > req.CurrentExtendedSize)
      BY <2>9
    <3>2. end <= c /\ 0 < c
      BY <1>2, <1>4, <2>2, <2>6, <2>7, <3>1
    <3> QED BY <2>1, <2>2, <2>6, <2>7, <3>1, <3>2
  <2> QED BY <2>8, <2>9
<1>14. /\ length' \in 0 .. 2 * PosLimit + BufSize /\ pointer' \in 0 .. PosLimit - 1
       /\ spoiled' = spoiled /\ file' \in [Positions -> Nat]
       /\ \A i \in Positions : \/ file'[i] = file[i]
                               \/ file'[i] = 0 /\ (c >= 0 => ~(i <= c))
       /\ extend /\ c >= 0 => length' = c
       /\ ~extend => length' = length
  <2>1. c \in Int /\ c <= PosLimit - 1
    BY <1>4, <1>7 DEF Longs
  <2>2. CASE extend
    <3> DEFINE e == IF c >= 0 THEN c ELSE pointer
    <3>1. e \in 0 .. PosLimit - 1 /\ (c >= 0 => e = c)
      BY <1>2, <2>1 DEF Typed
    <3>2. SetEnd(e)
      BY <2>2 DEF SetFileSize
    <3> HIDE DEF e
    <3>3. /\ pointer' = e /\ length' = e /\ spoiled' = spoiled
          /\ file' = [i \in Positions |-> IF i <= e THEN file[i] ELSE 0]
      BY <3>2 DEF SetEnd
    <3>4. \A i \in Positions : file[i] \in Nat
      BY <1>2 DEF Typed
    <3>5. e \in 0 .. 2 * PosLimit + BufSize
      BY <1>4, <3>1
    <3> QED BY <2>2, <3>1, <3>3, <3>4, <3>5
  <2>3. CASE ~extend
    BY <1>2, <2>3 DEF local, Typed
  <2> QED BY <2>2, <2>3
<1> HIDE DEF v
<1>15. /\ v \in Writes /\ v.from = taken /\ v.n = n /\ v.pos = pos /\ v.done = FALSE
       /\ Last(v) = taken + n /\ writes' = writes \cup {v}
  BY <1>2, <1>4, <1>7 DEF v, Writes, Last
<1>16. \A u \in writes : /\ u \in Writes /\ u.from \in Nat /\ Last(u) \in Nat
                         /\ Last(u) <= taken /\ u.from < Last(u)
  BY WriteFacts
<1>17. v \notin writes
  BY <1>2, <1>4, <1>15, <1>16
<1>18. \A i \in Positions :
         /\ i \in Nat /\ i > 0
         /\ Covered(i)' <=> Covered(i) \/ (i > taken /\ i <= taken + n)
         /\ Covered(i) => i <= taken
  <2> SUFFICES ASSUME NEW i \in Positions
               PROVE  /\ i \in Nat /\ i > 0
                      /\ Covered(i)' <=> Covered(i) \/ (i > taken /\ i <= taken + n)
                      /\ Covered(i) => i <= taken
    OBVIOUS
  <2>1. i \in Nat /\ i > 0
    BY PositionsKnown
  <2>2. Covered(i)' <=> \E u \in writes \cup {v} : ~u.done /\ i \in u.from + 1 .. Last(u)
    BY <1>15 DEF Covered, Last
  <2>3. i \in v.from + 1 .. Last(v) <=> i > taken /\ i <= taken + n
    BY <1>2, <1>4, <1>15, <2>1
  <2>4. Covered(i) => i <= taken
    BY <1>2, <1>16, <2>1 DEF Covered
  <2> QED BY <1>15, <2>1, <2>2, <2>3, <2>4 DEF Covered
<1>19. \A x : Last(x)' = Last(x)
  BY DEF Last
<1>20. Typed'
  <2>1. writes' \subseteq Writes /\ IsFiniteSet(writes')
    <3>1. IsFiniteSet(writes) /\ writes \subseteq Writes
      BY <1>2 DEF Typed
    <3>2. IsFiniteSet(writes \cup {v})
      BY <3>1, FS_AddElement
    <3> QED BY <1>15, <3>1, <3>2
  <2>2. taken' \in Nat /\ spoiled' \subseteq Positions
    BY <1>2, <1>4, <1>14 DEF Typed
  <2> QED BY <1>2, <1>5, <1>8, <1>9, <1>14, <2>1, <2>2 DEF Typed
<1>21. ServerKnown'
  BY <1>1 DEF ClientInv, ServerKnown
<1>22. Reached'
  <2>1. taken' <= Len(stream')
    BY <1>1
  <2>2. req.nWrites + 1 <= taken + n /\ req.nBytes + n <= taken + n
    BY <1>2, <1>4, <1>6 DEF Reached
  <2>3. ~req'.bFailureFromWrite
    BY <1>8, <1>12
  <2> QED BY <1>8, <2>1, <2>2, <2>3 DEF Reached
<1>23. WritesKnown'
  <2>1. \A u \in writes' :
          /\ Last(u) <= taken + n
          /\ ~u.done => \/ buf'[1] > u.from + 1
                        \/ Intact(u)' /\ req'.Offset = u.pos
    <3> SUFFICES ASSUME NEW u \in writes'
                 PROVE  /\ Last(u) <= taken + n
                        /\ \/ buf'[1] > u.from + 1
                           \/ Intact(u)' /\ req'.Offset = u.pos
      OBVIOUS
    <3>1. CASE u \in writes
      BY <1>2, <1>4, <1>5, <1>16, <3>1
    <3>2. CASE u = v
      <4>1. \A i \in 1 .. u.n : buf'[i] = u.from + i
        BY <1>5, <1>15, <3>2
      <4>2. Intact(u)'
        BY <4>1 DEF Intact
      <4>3. taken + n <= taken + n
        BY <1>2, <1>4
      <4>4. Last(u) <= taken + n /\ req'.Offset = u.pos
        BY <1>8, <1>15, <3>2, <4>3
      <4> QED BY <4>2, <4>4
    <3> QED BY <1>15, <3>1, <3>2
  <2>2. \A u, x \in writes' : u # x => Last(u) <= x.from \/ Last(x) <= u.from
    BY <1>2, <1>15, <1>16 DEF WritesKnown
  <2>3. \A i \in Positions : file'[i] <= taken'
    <3> SUFFICES ASSUME NEW i \in Positions PROVE file'[i] <= taken + n
      OBVIOUS
    <3>1. file[i] \in Nat /\ file[i] <= taken
      BY <1>2 DEF WritesKnown, Typed
    <3>2. file'[i] = file[i] \/ file'[i] = 0
      BY <1>14
    <3> QED BY <1>2, <1>4, <3>1, <3>2
  <2> QED BY <1>5, <1>19, <2>1, <2>2, <2>3 DEF WritesKnown
<1>24. Fits' <=> Fits
  BY <1>1 DEF Fits
<1>25. Placed'
  <2> SUFFICES ASSUME Fits
               PROVE  /\ 0 <= end /\ end <= taken'
                      /\ end = taken'
                      /\ \E k \in Nat : c = k * Extension
                      /\ end <= c
                      /\ \A u \in writes' : Last(u) <= end /\ u.pos = u.from
    BY <1>8, <1>19, <1>24 DEF Placed
  <2>1. end = taken + n /\ pos = taken /\ end <= c /\ \E k \in Nat : c = k * Extension
    BY <1>13
  <2>2. \A u \in writes' : Last(u) <= end /\ u.pos = u.from
    BY <1>2, <1>4, <1>13, <1>15, <1>16, <2>1
  <2>3. taken + n \in Nat /\ taken' = taken + n
    BY <1>2, <1>4
  <2>4. 0 <= end /\ end <= taken' /\ end = taken'
    BY <2>1, <2>3
  <2> QED BY <2>1, <2>2, <2>4
<1>26. FileKnown'
  <2> SUFFICES ASSUME Fits, NEW i \in Positions \ spoiled
               PROVE  /\ file'[i] \in {0, i}
                      /\ file'[i] = i => i <= end /\ ~Covered(i)'
                      /\ i <= end /\ ~Covered(i)' /\ Without({"writeLater"})
                           => file'[i] = i
    BY <1>8, <1>10, <1>14, <1>24 DEF FileKnown
  <2>1. /\ end = taken + n /\ req.FileWritePos = taken /\ taken <= req.CurrentExtendedSize
        /\ req.CurrentExtendedSize <= c /\ 0 < c /\ c \in Int
        /\ req.CurrentExtendedSize \in Int
    BY <1>6, <1>7, <1>13 DEF Longs
  <2>2. /\ file[i] \in {0, i}
        /\ file[i] = i => i <= taken /\ ~Covered(i)
        /\ i <= taken /\ ~Covered(i) /\ Without({"writeLater"}) => file[i] = i
    BY <2>1 DEF ClientInv, FileKnown
  <2>3. file'[i] = file[i]
    <3>1. CASE file'[i] = 0 /\ ~(i <= c)
      BY <1>2, <1>18, <2>1, <2>2, <3>1
    <3> QED BY <1>14, <2>1, <3>1
  <2> QED BY <1>2, <1>4, <1>18, <2>1, <2>2, <2>3
<1>27. LengthKnown'
  <2> SUFFICES ASSUME Fits, spoiled = {} PROVE length' = c
    BY <1>8, <1>14, <1>24 DEF LengthKnown
  <2>1. 0 < c /\ c \in Int
    BY <1>7, <1>13 DEF Longs
  <2>2. CASE ~extend
    <3>1. c = req.CurrentExtendedSize
      BY <2>2
    <3>2. length = c
      BY <2>1, <3>1 DEF ClientInv, LengthKnown
    <3> QED BY <1>14, <2>2, <3>2
  <2> QED BY <1>14, <2>1, <2>2
<1>28. Counted'
  <2>1. Cardinality(writes') = Cardinality(writes) + 1 /\ Cardinality(writes) \in Nat
    <3>1. IsFiniteSet(writes) /\ Cardinality(writes) \in Nat
      BY <1>2, CountTypes DEF Typed
    <3>2. Cardinality(writes \cup {v}) = Cardinality(writes) + 1
      BY <1>17, <3>1, FS_AddElement
    <3> QED BY <1>15, <3>1, <3>2
  <2>2. WriteBytes' = WriteBytes + n
    BY <1>2, <1>15, <1>17, OwedStarted DEF Typed, WriteBytes
  <2>3. Owed' = WriteBytes' + PortBytes(port') + WorkerBytes'
    BY DEF Owed
  <2>4. Owed' = Owed + n /\ Owed \in Nat
    <3>1. Owed = WriteBytes + PortBytes(port) + WorkerBytes
      BY DEF Owed
    <3>2. /\ WriteBytes \in Nat /\ PortBytes(port) \in Nat /\ WorkerBytes \in Nat
          /\ Owed \in Nat
      BY <1>2, OwedType
    <3>3. Owed' = WriteBytes + n + PortBytes(port) + WorkerBytes
      BY <1>9, <2>2, <2>3
    <3> QED BY <1>4, <3>1, <3>2, <3>3, SumGrows, SMTT(30)
  <2>5. /\ req'.nBytes >= Owed'
        /\ Without({"writeLater"})' => req'.nBytes = Owed'
    <3>1. req.nBytes >= Owed /\ (Without({"writeLater"}) => req.nBytes = Owed)
      BY <1>2 DEF Counted
    <3>2. req.nBytes + n >= Owed + n
      BY <1>4, <1>6, <2>4, <3>1
    <3> QED BY <1>8, <1>10, <2>4, <3>1, <3>2
  <2>6. req'.nWrites = Cardinality(writes') + Count("IoFile")'
    BY <1>2, <1>6, <1>8, <1>9, <2>1 DEF Counted
  <2> QED BY <1>8, <2>5, <2>6 DEF Counted
<1>29. AllOk'
  <2>1. NoPacket.ok
    BY DEF NoPacket
  <2> QED BY <1>9, <1>10, <2>1 DEF ClientInv, AllOk
<1>30. Unmade' /\ Made' /\ CallKnown' /\ OnePuller'
  BY <1>1, <1>2, <1>8, <1>9, <1>11, <1>12 DEF Control, Unmade, Made, CallKnown, OnePuller
<1>31. FlagsKnown'
  BY <1>1, <1>2, <1>8, <1>9, <1>11, <1>12 DEF Control, FlagsKnown
<1>32. Outcome' /\ Quiet' /\ Gone'
  BY <1>1, <1>2, <1>8, <1>9, <1>10, <1>11, <1>12 DEF Control, Outcome, Quiet, Gone
<1> QED BY <1>20, <1>21, <1>22, <1>23, <1>25, <1>26, <1>27, <1>28, <1>29, <1>30, <1>31, <1>32
        DEF ClientInv, Control

\* A chunk is pulled, and WriteFile fails at once.
Fails(pos, error) ==
  [req EXCEPT !.bDataAvailable = FALSE, !.bPullOutstanding = FALSE, !.Offset = pos,
     !.bFailureFromWrite = TRUE, !.Status = error]

LEMMA PullLostSafe ==
  ASSUME ClientInv, req.alive, NEW w \in Workers, pc[w] = "pull", ~Stopped,
         rpc # "failed", NEW n \in 1 .. BufSize, taken + n <= Len(stream),
         taken' = taken + n,
         buf' = [i \in 1 .. BufSize |-> IF i <= n THEN stream[taken + i] ELSE buf[i]],
         NEW pos, pos = Unsigned(req.FileWritePos),
         NEW error \in LastError, "writeNow" \in faults,
         Shutdown(Fails(pos, error)),
         Handled(w, "wait"),
         UNCHANGED <<faults, server, rpc, pulling, event, writes, port>>
  PROVE  ClientInv'
<1> DEFINE r == Fails(pos, error)
<1>1. Shutdown(r) /\ UNCHANGED <<size, stream, ends, call>>
  BY DEF server
<1>2. Typed /\ Control /\ Reached /\ WritesKnown /\ req \in Request
      /\ pulling \in BOOLEAN /\ rpc \in {"none", "open", "ok", "failed"} /\ taken \in Nat
  BY DEF ClientInv, Typed
<1>3. Len(stream) \in Nat /\ n \in Nat /\ n > 0 /\ n <= BufSize
  <2>1. Len(stream) \in Nat
    BY DEF ClientInv, ServerKnown
  <2> QED BY <2>1, ClientAssumption
<1>4. pos \in Dwords
  BY <1>2, Widths DEF Request
<1>5. error \in {"ok", "bad"} /\ (Without({"zero"}) => error = "bad")
  BY DEF LastError, Without
<1>6. /\ r \in Request /\ r.alive /\ r.FileWritePos = req.FileWritePos
      /\ r.CurrentExtendedSize = req.CurrentExtendedSize /\ r.nWrites = req.nWrites
      /\ r.nBytes = req.nBytes /\ r.bFailureFromWrite /\ r.Status = error
      /\ r.bCallMade = req.bCallMade /\ r.bCallCancelled = req.bCallCancelled
      /\ r.bAsyncCallFailureReceived = req.bAsyncCallFailureReceived
      /\ r.bFailureFromPull = req.bFailureFromPull /\ r.bCallComplete = req.bCallComplete
      /\ r.bAllPullsDone = req.bAllPullsDone
      /\ ~r.bDataAvailable /\ ~r.bPullOutstanding
  BY <1>2, <1>4, <1>5 DEF Request, Fails
<1> HIDE DEF r
<1>7. /\ Count("IoFileRep")' = Count("IoFileRep") /\ Count("IoFile")' = Count("IoFile")
      /\ Count("IoPipe")' = Count("IoPipe") /\ Count("pull")' = Count("pull") - 1
      /\ Count("pull") > 0
      /\ Count("IoFileRep") \in Nat /\ Count("IoFile") \in Nat /\ Count("IoPipe") \in Nat
      /\ Count("pull") \in Nat
  <2>1. /\ Count("IoFileRep") \in Nat /\ Count("IoFile") \in Nat /\ Count("IoPipe") \in Nat
        /\ Count("pull") \in Nat
    BY <1>2, CountTypes
  <2>2. "wait" \in {"wait", "pull"} /\ pc[w] \in Busy
    BY DEF Busy
  <2>3. /\ Count("IoFileRep")' = Count("IoFileRep") - 0
        /\ Count("IoFile")' = Count("IoFile") - 0
        /\ Count("IoPipe")' = Count("IoPipe") - 0
        /\ Count("pull")' = Count("pull") + 0 - 1 /\ Count("pull") > 0
    BY <1>2, <2>2, ServeCounts
  <2> QED BY <2>1, <2>3
<1>8. Pullers = 1 /\ Pullers' = 0 /\ Noticed = 0 /\ Noticed' = 0 /\ ~pulling
  BY <1>2, <1>7 DEF Control, OnePuller, Pullers, Noticed
<1>9. /\ ~req.bAsyncCallFailureReceived /\ ~req.bFailureFromWrite /\ rpc = "open"
      /\ ~req.bAllPullsDone /\ ~req.bFailureFromPull /\ ~req.bCallComplete /\ req.bCallMade
  <2>1. rpc # "none" /\ rpc # "ok"
    BY <1>2, <1>3, <1>7 DEF Control, Unmade, CallKnown
  <2>2. rpc = "open" /\ ~req.bAsyncCallFailureReceived /\ ~req.bFailureFromWrite
    BY <1>2, <2>1 DEF Stopped
  <2> QED BY <1>2, <1>8, <2>2 DEF Stopped, Control, FlagsKnown, Made
<1>10. /\ Typed' /\ ServerKnown' /\ Reached' /\ WritesKnown' /\ Placed'
       /\ FileKnown' /\ LengthKnown' /\ Counted' /\ AllOk'
  <2>1. r.nWrites = req.nWrites - 0 /\ r.nBytes = req.nBytes - 0
    BY <1>2, <1>6 DEF Request
  <2>2. taken' \in Nat /\ taken <= taken' /\ taken' <= Len(stream)
    <3>1. taken + n \in Nat /\ taken <= taken + n
      BY <1>2, <1>3
    <3> QED BY <3>1
  <2>3. /\ buf' \in [1 .. BufSize -> Nat] /\ buf'[1] = taken + 1
        /\ \A i \in 1 .. BufSize : buf'[i] <= taken'
    <3>1. buf \in [1 .. BufSize -> Nat] /\ \A i \in 1 .. BufSize : buf[i] <= taken
      BY <1>2 DEF Typed, WritesKnown
    <3> QED BY <1>2, <3>1, PulledBytes DEF ClientInv
  <2>4. ~Without({"writeNow", "writeLater"})
    BY Kinds
  <2> QED BY <1>1, <1>2, <1>6, <1>9, <2>1, <2>2, <2>4, <2>3, ServeData DEF Busy
<1>11. \A kinds : Without(kinds)' <=> Without(kinds)
  BY KindsKept
<1>12. Turns(r, TRUE)
  BY <1>1, <1>6, ShutdownTurns
<1>13. /\ req'.Status = error /\ req'.bFailureFromWrite /\ req'.bCallMade
       /\ ~req'.bAllPullsDone /\ ~req'.bCallComplete /\ ~req'.bFailureFromPull
       /\ ~req'.bAsyncCallFailureReceived /\ ~req'.bDataAvailable /\ ~req'.bPullOutstanding
  BY <1>6, <1>9, <1>12 DEF Turns, Becomes
<1>14. Without({"writeLater", "zero"}) => /\ req'.alive /\ completed' = completed
                                          /\ ~req.bCallCancelled
  <2> SUFFICES ASSUME Without({"writeLater", "zero"})
               PROVE  req'.alive /\ completed' = completed /\ ~req.bCallCancelled
    OBVIOUS
  <2>1. ~req.bCallCancelled
    BY <1>2, <1>9 DEF Control, Outcome
  <2>2. error = "bad"
    BY <1>5, Kinds
  <2>3. Cancels(r)
    BY <1>6, <1>9, <2>1, <2>2 DEF Cancels, Open
  <2> QED BY <1>6, <1>12, <2>1, <2>3 DEF Turns, Frees, Tells
<1>15. Unmade' /\ Made' /\ CallKnown' /\ OnePuller'
  BY <1>1, <1>2, <1>7, <1>8, <1>9, <1>13 DEF Control, Unmade, Made, CallKnown, OnePuller
<1>16. FlagsKnown'
  BY <1>1, <1>2, <1>7, <1>8, <1>9, <1>13 DEF Control, FlagsKnown
<1>17. Outcome'
  BY <1>2, <1>8, <1>9, <1>11, <1>13, <1>14 DEF Control, Outcome
<1>18. Quiet'
  BY <1>2, <1>7, <1>8, <1>9, <1>11, <1>13 DEF Control, Quiet
<1>19. Gone'
  BY <1>11, <1>14, Kinds DEF Gone
<1> QED BY <1>10, <1>15, <1>16, <1>17, <1>18, <1>19 DEF ClientInv, Control

LEMMA PullDataSafe ==
  ASSUME ClientInv, req.alive, NEW w \in Workers, PullData(w)
  PROVE  ClientInv'
<1>1. /\ pc[w] = "pull" /\ ~Stopped /\ rpc # "failed"
      /\ UNCHANGED <<faults, server, rpc, pulling, event, port>>
  BY DEF PullData
<1> DEFINE pos       == Unsigned(req.FileWritePos)
           pulled    == [req EXCEPT !.bDataAvailable = FALSE, !.bPullOutstanding = FALSE,
                                    !.Offset = pos]
           end(n)    == Wrap(req.FileWritePos + n)
           extend(n) == end(n) > req.CurrentExtendedSize
           Filled(n) == buf' = [i \in 1 .. BufSize |->
                                  IF i <= n THEN stream[taken + i] ELSE buf[i]]
           Wrote(n)  == /\ req' = [pulled EXCEPT
                                    !.nWrites = @ + 1, !.nBytes = @ + n,
                                    !.FileWritePos = end(n),
                                    !.CurrentExtendedSize =
                                      IF extend(n) THEN Wrap(@ + Extension) ELSE @]
                        /\ writes' = writes \cup
                             {[from |-> taken, n |-> n, pos |-> pos, done |-> FALSE]}
                        /\ IF extend(n) THEN SetFileSize(req'.CurrentExtendedSize)
                           ELSE UNCHANGED local
                        /\ UNCHANGED completed
                        /\ Handled(w, "pull")
           Lost      == /\ "writeNow" \in faults
                        /\ \E error \in LastError :
                             Shutdown([pulled EXCEPT !.bFailureFromWrite = TRUE,
                                                     !.Status = error])
                        /\ writes' = writes
                        /\ Handled(w, "wait")
<1>2. PICK n \in 1 .. BufSize :
        taken + n <= Len(stream) /\ taken' = taken + n /\ Filled(n) /\ (Wrote(n) \/ Lost)
  BY DEF PullData
<1>3. req \in Request
  BY DEF ClientInv, Typed
<1> HIDE DEF Wrote, Lost, Filled
<1>4. CASE Lost
  <2>1. PICK error \in LastError :
          Shutdown([pulled EXCEPT !.bFailureFromWrite = TRUE, !.Status = error])
    BY <1>4 DEF Lost
  <2>2. [pulled EXCEPT !.bFailureFromWrite = TRUE, !.Status = error] = Fails(pos, error)
    BY <1>3 DEF Request, Fails
  <2>3. Shutdown(Fails(pos, error))
    BY <2>1, <2>2
  <2>4. "writeNow" \in faults /\ writes' = writes /\ Handled(w, "wait")
    BY <1>4 DEF Lost
  <2>5. PICK p : p = Unsigned(req.FileWritePos)
    OBVIOUS
  <2>6. Shutdown(Fails(p, error))
    BY <2>3, <2>5
  <2> QED BY <1>1, <1>2, <2>4, <2>5, <2>6, PullLostSafe DEF Filled
<1>5. CASE Wrote(n)
  <2> DEFINE c == IF extend(n) THEN Wrap(req.CurrentExtendedSize + Extension)
                  ELSE req.CurrentExtendedSize
  <2>1. /\ req' = [pulled EXCEPT
                    !.nWrites = @ + 1, !.nBytes = @ + n, !.FileWritePos = end(n),
                    !.CurrentExtendedSize =
                      IF extend(n) THEN Wrap(@ + Extension) ELSE @]
        /\ writes' = writes \cup {[from |-> taken, n |-> n, pos |-> pos, done |-> FALSE]}
        /\ IF extend(n) THEN SetFileSize(req'.CurrentExtendedSize) ELSE UNCHANGED local
        /\ UNCHANGED completed
        /\ Handled(w, "pull")
    BY <1>5 DEF Wrote
  <2>2. /\ pulled.nWrites = req.nWrites /\ pulled.nBytes = req.nBytes
        /\ pulled.CurrentExtendedSize = req.CurrentExtendedSize
    BY <1>3 DEF Request
  <2>3. req' = Starts(n, pos, end(n), c)
    BY <1>3, <2>1, <2>2 DEF Request, Starts
  <2>4. req'.CurrentExtendedSize = c
    BY <1>3, <2>3 DEF Request, Starts
  <2>5. extend(n) \in BOOLEAN
    OBVIOUS
  <2>6. PICK p, e, x, d : /\ p = pos /\ e = end(n) /\ x = extend(n) /\ d = c
    OBVIOUS
  <2>7. /\ p = Unsigned(req.FileWritePos) /\ e = Wrap(req.FileWritePos + n)
        /\ x \in BOOLEAN /\ (x <=> e > req.CurrentExtendedSize)
        /\ d = IF x THEN Wrap(req.CurrentExtendedSize + Extension)
               ELSE req.CurrentExtendedSize
    BY <2>5, <2>6
  <2>8. /\ req' = Starts(n, p, e, d)
        /\ writes' = writes \cup {[from |-> taken, n |-> n, pos |-> p, done |-> FALSE]}
        /\ IF x THEN SetFileSize(d) ELSE UNCHANGED local
        /\ UNCHANGED completed
        /\ Handled(w, "pull")
    BY <2>1, <2>3, <2>4, <2>6
  <2> QED BY <1>1, <1>2, <2>7, <2>8, PullWriteSafe DEF Filled
<1> QED BY <1>2, <1>4, <1>5

-----------------------------------------------------------------------------
(***************************************************************************)
(* The invariant, and what follows from it.                                *)
(***************************************************************************)
LEMMA ServeSafe ==
  ASSUME ClientInv, NEW w \in Workers, Serve(w)
  PROVE  ClientInv'
<1>1. req.alive
  BY DEF Serve
<1>2. CASE HandleReq(w)
  BY <1>1, <1>2, HandleReqSafe
<1>3. CASE PullStopped(w)
  BY <1>1, <1>3, PullStoppedSafe
<1>4. CASE PullFails(w)
  BY <1>1, <1>4, PullFailsSafe
<1>5. CASE PullData(w)
  BY <1>1, <1>5, PullDataSafe
<1>6. CASE PullEnd(w)
  BY <1>1, <1>6, PullEndSafe
<1>7. CASE PullPending(w)
  BY <1>1, <1>7, PullPendingSafe
<1>8. CASE FileIo(w)
  BY <1>1, <1>8, FileIoSafe
<1>9. CASE CallIo(w)
  BY <1>1, <1>9, CallIoSafe
<1>10. CASE ReceiveIo(w)
  BY <1>1, <1>10, ReceiveIoSafe
<1> QED BY <1>2, <1>3, <1>4, <1>5, <1>6, <1>7, <1>8, <1>9, <1>10 DEF Serve

LEMMA StutterSafe ==
  ASSUME ClientInv, UNCHANGED vars
  PROVE  ClientInv'
<1>1. UNCHANGED <<faults, size, stream, ends, call, rpc, taken, pulling, event, req, buf,
                  writes, file, length, pointer, spoiled, completed, port, pc, got>>
  BY DEF vars, server, runtime, local
<1>2. /\ \A k : Count(k)' = Count(k)
      /\ Noticed' = Noticed /\ Pullers' = Pullers /\ (Stopped' <=> Stopped)
  BY <1>1 DEF Count, PacketsAt, WorkersAt, Noticed, Pullers, Stopped
<1>3. Owed' = Owed
  BY <1>1 DEF Owed, WriteBytes, SetBytes, PortBytes, WorkerBytes, Bytes, Pairs, PacketsAt, WorkersAt
<1>4. \A kinds : Without(kinds)' <=> Without(kinds)
  BY <1>1, KindsKept
<1>5. Typed' /\ ServerKnown' /\ Reached' /\ AllOk'
  BY <1>1, <1>4 DEF ClientInv, Typed, ServerKnown, Reached, AllOk
<1>6. WritesKnown' /\ Placed' /\ FileKnown' /\ LengthKnown'
  BY <1>1, DataSame DEF local
<1>7. Counted'
  BY <1>1, <1>2, <1>3, CountedSame
<1>8. Unmade' /\ Made' /\ CallKnown' /\ OnePuller' /\ FlagsKnown'
  BY <1>1, <1>2, <1>4 DEF ClientInv, Control, Unmade, Made, CallKnown, OnePuller, FlagsKnown
<1>9. Outcome' /\ Quiet' /\ Gone'
  BY <1>1, <1>2, <1>4 DEF ClientInv, Control, Outcome, Quiet, Gone
<1> QED BY <1>5, <1>6, <1>7, <1>8, <1>9 DEF ClientInv, Control

LEMMA ClientNext == ClientInv /\ [Next]_vars => ClientInv'
<1> SUFFICES ASSUME ClientInv, [Next]_vars PROVE ClientInv'
  OBVIOUS
<1>1. CASE ServerGoesOn
  BY <1>1, ServerGoesOnSafe
<1>2. CASE ReceiveComplete
  BY <1>2, ReceiveCompleteSafe
<1>3. CASE CallComplete
  BY <1>3, CallCompleteSafe
<1>4. CASE CallFails
  BY <1>4, CallFailsSafe
<1>5. CASE CarryOut
  BY <1>5, CarryOutSafe
<1>6. CASE WriteEnds
  BY <1>6, WriteEndsSafe
<1>7. CASE \E w \in Workers : Dequeue(w) \/ Serve(w)
  <2>1. PICK w \in Workers : Dequeue(w) \/ Serve(w)
    BY <1>7
  <2> QED BY <2>1, DequeueSafe, ServeSafe
<1>8. CASE UNCHANGED vars
  BY <1>8, StutterSafe
<1> QED BY <1>1, <1>2, <1>3, <1>4, <1>6, <1>7, <1>8, <1>5 DEF Next

\* Who pulls, what the flags of the request say of the call and of the notifications
\* still to come, and where each byte is that was pulled, hold in every state.
THEOREM ClientInvariant == Spec => []ClientInv
BY ClientInit, ClientNext, PTL DEF Spec

\* A request whose counters are in a given set.
LEMMA BoundedRequest ==
  ASSUME NEW B, NEW S, NEW L, NEW D, NEW I, NEW P,
         NEW r \in [alive : B, Status : S, FileWritePos : L, CurrentExtendedSize : L,
                   Offset : D, nWrites : I, nBytes : I, bCallMade : B, bCallCancelled : B,
                   bPullOutstanding : B, bDataAvailable : B, bAllPullsDone : B,
                   bCallComplete : B, bAsyncCallFailureReceived : B, bFailureFromPull : B,
                   bFailureFromWrite : B],
         r.nWrites \in P, r.nBytes \in P
  PROVE  r \in [alive : B, Status : S, FileWritePos : L, CurrentExtendedSize : L,
                Offset : D, nWrites : P, nBytes : P, bCallMade : B, bCallCancelled : B,
                bPullOutstanding : B, bDataAvailable : B, bAllPullsDone : B,
                bCallComplete : B, bAsyncCallFailureReceived : B, bFailureFromPull : B,
                bFailureFromWrite : B]
OBVIOUS

LEMMA ClientTyped == ClientInv => TypeOK
<1> SUFFICES ASSUME ClientInv PROVE TypeOK
  OBVIOUS
<1>1. Typed /\ Reached /\ WritesKnown /\ Counted
  BY DEF ClientInv
<1>2. size \in Nat /\ Len(stream) \in Nat /\ Len(stream) <= size
  BY PositionsKnown DEF ClientInv, ServerKnown
<1>3. /\ req \in Request /\ req.nWrites \in Int /\ req.nBytes \in Int /\ taken \in Nat
  BY <1>1 DEF Typed, Request
<1>4. taken \in 0 .. size
  BY <1>1, <1>2, <1>3 DEF Reached
<1>5. req.nWrites \in 0 .. size /\ req.nBytes \in 0 .. size
  <2>1. req.nWrites >= 0 /\ req.nBytes >= 0
    <3>1. Cardinality(writes) \in Nat /\ Count("IoFile") \in Nat /\ Owed \in Nat
      BY <1>1, CountTypes, OwedType
    <3> QED BY <1>1, <1>3, <3>1 DEF Counted
  <2> QED BY <1>1, <1>2, <1>3, <1>4, <2>1 DEF Reached
<1>6. req \in [alive : BOOLEAN, Status : {"ok", "bad"}, FileWritePos : Longs,
               CurrentExtendedSize : Longs, Offset : Dwords,
               nWrites : 0 .. size, nBytes : 0 .. size, bCallMade : BOOLEAN,
               bCallCancelled : BOOLEAN, bPullOutstanding : BOOLEAN,
               bDataAvailable : BOOLEAN, bAllPullsDone : BOOLEAN,
               bCallComplete : BOOLEAN, bAsyncCallFailureReceived : BOOLEAN,
               bFailureFromPull : BOOLEAN, bFailureFromWrite : BOOLEAN]
  <2> DEFINE B == BOOLEAN  S == {"ok", "bad"}  I == Int  P == 0 .. size
             L == Longs  D == Dwords
  <2>1. req \in [alive : B, Status : S, FileWritePos : L, CurrentExtendedSize : L,
                Offset : D, nWrites : I, nBytes : I, bCallMade : B, bCallCancelled : B,
                bPullOutstanding : B, bDataAvailable : B, bAllPullsDone : B,
                bCallComplete : B, bAsyncCallFailureReceived : B, bFailureFromPull : B,
                bFailureFromWrite : B]
    BY <1>3 DEF Request
  <2>2. req.nWrites \in P /\ req.nBytes \in P
    BY <1>5
  <2> HIDE DEF B, S, I, P, L, D
  <2>3. req \in [alive : B, Status : S, FileWritePos : L, CurrentExtendedSize : L,
                Offset : D, nWrites : P, nBytes : P, bCallMade : B, bCallCancelled : B,
                bPullOutstanding : B, bDataAvailable : B, bAllPullsDone : B,
                bCallComplete : B, bAsyncCallFailureReceived : B, bFailureFromPull : B,
                bFailureFromWrite : B]
    BY <2>1, <2>2, BoundedRequest
  <2> QED BY <2>3 DEF B, S, P, L, D
<1>7. writes \subseteq [from : 0 .. size, n : 1 .. BufSize, pos : Dwords, done : BOOLEAN]
  <2> SUFFICES ASSUME NEW write \in writes
               PROVE  write \in [from : 0 .. size, n : 1 .. BufSize, pos : Dwords,
                                 done : BOOLEAN]
    OBVIOUS
  <2>1. write \in Writes /\ write.from \in Nat /\ Last(write) \in Nat
        /\ Last(write) <= taken /\ write.from < Last(write)
    BY WriteFacts
  <2>2. write.from \in 0 .. size
    BY <1>2, <1>4, <2>1
  <2> QED BY <2>1, <2>2 DEF Writes
<1>8. file \in [Positions -> 0 .. size]
  <2>1. \A i \in Positions : file[i] \in 0 .. size
    BY <1>1, <1>2, <1>4 DEF Typed, WritesKnown
  <2> QED BY <1>1, <2>1 DEF Typed
<1>9. buf \in [1 .. BufSize -> 0 .. size]
  <2>1. \A i \in 1 .. BufSize : buf[i] \in 0 .. size
    BY <1>1, <1>2, <1>4, SMTT(30) DEF Typed, WritesKnown
  <2> QED BY <1>1, <2>1 DEF Typed
<1>10. \A i \in 1 .. Len(port) : port[i].key \in Steps /\ port[i].n \in 0 .. BufSize
  <2>1. \A i \in 1 .. Len(port) : port[i] \in Packets
    BY <1>1 DEF Typed
  <2> QED BY <2>1 DEF Packets, Steps
<1> QED BY <1>1, <1>4, <1>6, <1>7, <1>8, <1>9, <1>10 DEF TypeOK, Typed

\* The counters and positions of the request, the bytes of a write and of the file, and
\* the packets of the port keep their types and bounds, whatever fails.
THEOREM ClientTypeCorrect == Spec => []TypeOK
BY ClientInvariant, ClientTyped, PTL

\* A request that was freed has no write left.
LEMMA NoWriteLeft ==
  ASSUME ClientInv, ~req.alive
  PROVE  writes = {} /\ Count("IoFile") = 0
BY CountTypes DEF ClientInv, Counted

LEMMA ClientAsserts == ClientInv => AssertsHold
<1> SUFFICES ASSUME ClientInv PROVE AssertsHold
  OBVIOUS
<1>1. Typed /\ Control
  BY DEF ClientInv
<1>2. ASSUME NEW w \in Workers
      PROVE  /\ pc[w] = "pull" /\ ~Stopped /\ taken = Len(stream) /\ ends = 0
                  /\ rpc = "open" => ~req.bDataAvailable
             /\ pc[w] = "IoFile" => req.nWrites > 0
             /\ pc[w] = "IoPipe" /\ req.bCallComplete => rpc = "failed"
             /\ pc[w] = "IoPipe" /\ event = "RpcReceiveComplete" => req.bPullOutstanding
  <2>1. ASSUME pc[w] = "pull", taken = Len(stream), ends = 0, rpc = "open"
        PROVE  ~req.bDataAvailable
    <3>1. Len(stream) \in Nat
      BY DEF ClientInv, ServerKnown
    <3> QED BY <1>1, <2>1, <3>1 DEF Control, FlagsKnown
  <2>2. ASSUME pc[w] = "IoFile" PROVE req.nWrites > 0
    <3>1. Count("IoFile") > 0 /\ Count("IoFile") \in Nat /\ Cardinality(writes) \in Nat
      BY <1>1, <2>2, CountAt, CountTypes DEF Typed
    <3>2. req.nWrites = Cardinality(writes) + Count("IoFile")
      BY DEF ClientInv, Counted
    <3> QED BY <3>1, <3>2
  <2>3. ASSUME pc[w] = "IoPipe"
        PROVE  /\ rpc # "none" /\ Count("IoPipe") \in Nat /\ Count("IoPipe") > 0
    <3>1. Count("IoPipe") > 0 /\ Count("IoPipe") \in Nat
      BY <1>1, <2>3, CountAt DEF Typed
    <3>2. event # "none"
      BY <1>1, <3>1 DEF Control, CallKnown
    <3> QED BY <1>1, <3>1, <3>2 DEF Control, Unmade
  <2>4. ASSUME pc[w] = "IoPipe", req.bCallComplete PROVE rpc = "failed"
    BY <1>1, <2>3, <2>4 DEF Control, FlagsKnown, Typed
  <2>5. ASSUME pc[w] = "IoPipe", event = "RpcReceiveComplete" PROVE req.bPullOutstanding
    BY <1>1, <2>3, <2>5 DEF Control, FlagsKnown, Noticed
  <2> QED BY <2>1, <2>2, <2>4, <2>5
<1>3. ASSUME ~req.alive, Without({"writeLater"}) PROVE req.nBytes = 0
  BY <1>1, <1>3, NoWriteLeft, NothingOwed DEF ClientInv, Counted
<1> QED BY <1>2, <1>3 DEF AssertsHold

\* The ASSERTs of ServiceRequests hold: a worker that finds nothing to pull was told of
\* no data, the end of a write meets a write that is counted, what is notified was waited
\* for, and a request that ends well is charged no byte.
THEOREM AssertsNeverFail == Spec => []AssertsHold
BY ClientInvariant, ClientAsserts, PTL

LEMMA ClientFreed == ClientInv => AliveWhenUsed
<1> SUFFICES ASSUME ClientInv, Without({"call", "writeLater", "zero"}), ~req.alive
             PROVE  /\ writes = {} /\ ~pulling /\ rpc # "open" /\ port = <<>>
                    /\ \A w \in Workers : pc[w] = "wait"
  BY DEF AliveWhenUsed, FreedWhenUnused
<1>1. /\ writes = {} /\ ~pulling /\ rpc # "open"
      /\ \A k \in Busy : Count(k) = 0
  BY DEF ClientInv, Control, Gone
<1> QED BY <1>1, AllZero DEF ClientInv

\* A request is freed only when nothing refers to it any more, unless the call fails by
\* itself, a write that was started fails or GetLastError says 0 of a failure: no write,
\* no pull and no open call is outstanding, no packet waits for a worker, and no worker is
\* about to use it.
THEOREM FreedOnlyWhenUnused == Spec => []AliveWhenUsed
BY ClientInvariant, ClientFreed, PTL

LEMMA ClientBytes == ClientInv => EachByteOnce
<1> SUFFICES ASSUME ClientInv, Fits
             PROVE  /\ \A i \in Positions \ spoiled : file[i] \in {0, i}
                    /\ Without({"writeNow", "writeLater"}) =>
                         \A i \in (1 .. taken) \ spoiled :
                           Cardinality({write \in writes :
                                          ~write.done
                                          /\ i \in write.from + 1 .. write.from + write.n})
                             = IF file[i] = i THEN 0 ELSE 1
  BY DEF EachByteOnce
<1>1. Typed /\ Reached /\ WritesKnown /\ Placed /\ FileKnown
  BY DEF ClientInv
<1>2. ASSUME Without({"writeNow", "writeLater"}), NEW i \in (1 .. taken) \ spoiled
      PROVE  Cardinality({write \in writes :
                            ~write.done /\ i \in write.from + 1 .. write.from + write.n})
               = IF file[i] = i THEN 0 ELSE 1
  <2> DEFINE S == {write \in writes :
                     ~write.done /\ i \in write.from + 1 .. write.from + write.n}
  <2>1. /\ taken \in Nat /\ size \in Nat /\ Len(stream) \in Nat /\ Len(stream) <= size
        /\ taken <= Len(stream) /\ i \in Nat /\ i > 0 /\ i <= taken
    BY <1>1, PositionsKnown DEF Typed, Reached, ClientInv, ServerKnown
  <2>2. i \in Positions \ spoiled
    <3>1. PICK m \in Nat : Positions = 1 .. m /\ \A n \in FileSizes : n <= m
      BY PositionsKnown
    <3>2. size <= m
      BY <3>1 DEF ClientInv, ServerKnown
    <3> QED BY <2>1, <3>1, <3>2
  <2>3. req.FileWritePos = taken /\ Without({"writeLater"})
    BY <1>1, <1>2, Kinds DEF Reached, Placed
  <2>4. Covered(i) <=> S # {}
    BY DEF Covered, Last
  <2>5. CASE S = {}
    <3>1. file[i] = i
      BY <1>1, <2>1, <2>2, <2>3, <2>4, <2>5 DEF FileKnown
    <3> QED BY <2>5, <3>1, FS_EmptySet
  <2>6. CASE S # {}
    <3>1. file[i] # i
      BY <1>1, <2>2, <2>4, <2>6 DEF FileKnown
    <3>2. PICK u \in writes : u \in S
      BY <2>6
    <3>3. \A v \in S : v = u
      <4> SUFFICES ASSUME NEW v \in S, v # u PROVE FALSE
        OBVIOUS
      <4>1. /\ u.from \in Nat /\ Last(u) \in Nat /\ v.from \in Nat /\ Last(v) \in Nat
        BY <3>2, WriteFacts
      <4>2. Last(u) <= v.from \/ Last(v) <= u.from
        BY <1>1, <3>2 DEF WritesKnown
      <4>3. i >= u.from + 1 /\ i <= Last(u) /\ i >= v.from + 1 /\ i <= Last(v)
        BY <2>1, <3>2, <4>1 DEF Last
      <4> QED BY <2>1, <4>1, <4>2, <4>3
    <3>4. S = {u}
      BY <3>2, <3>3
    <3> HIDE DEF S
    <3>5. Cardinality(S) = 1
      BY <3>4, FS_Singleton
    <3> QED BY <3>1, <3>5 DEF S
  <2> QED BY <2>5, <2>6
<1>3. \A i \in Positions \ spoiled : file[i] \in {0, i}
  BY <1>1 DEF FileKnown
<1> QED BY <1>2, <1>3

\* In a file that fits in the LONGs, and but for the positions where a write found the
\* buffer overwritten: a byte of the file is absent or the remote byte of that place, and,
\* if no write fails, each byte that a pull returned is in the file or in exactly one
\* write that is still to be carried out.  How much the overwritten buffer spoils is not
\* bounded: that each write is carried out in time is what BufferIntact would say.
THEOREM BytesAccountedFor == Spec => []EachByteOnce
BY ClientInvariant, ClientBytes, PTL

LEMMA ClientCopies == ClientInv => Copied
<1> SUFFICES ASSUME ClientInv, ~req.alive, req.Status = "ok", Fits,
                    Without({"writeLater", "zero"})
             PROVE  /\ \A i \in Positions \ spoiled : file[i] = IF i <= size THEN i ELSE 0
                    /\ size > 0 /\ spoiled = {} => length = size
  BY DEF Copied
<1>1. rpc # "none"
  BY DEF ClientInv, Control, Unmade
<1>2. rpc = "ok" /\ ~req.bFailureFromWrite
  BY <1>1 DEF ClientInv, Control, Outcome
<1>3. taken = Len(stream) /\ ends = 1 /\ Len(stream) = size
  BY <1>2 DEF ClientInv, Control, CallKnown, ServerKnown
<1>4. req.FileWritePos = size /\ size <= req.CurrentExtendedSize
      /\ req.CurrentExtendedSize \in Int /\ size \in Nat
  <2>1. size \in Nat /\ req.CurrentExtendedSize \in Int
    BY PositionsKnown DEF ClientInv, Typed, Request, Longs, ServerKnown
  <2> QED BY <1>2, <1>3, <2>1 DEF ClientInv, Placed
<1>5. \A i : ~Covered(i)
  BY NoWriteLeft DEF Covered
<1>6. ASSUME NEW i \in Positions \ spoiled PROVE file[i] = IF i <= size THEN i ELSE 0
  <2>1. Without({"writeLater"})
    BY Kinds
  <2>2. /\ file[i] \in {0, i} /\ (file[i] = i => i <= size)
        /\ (i <= size => file[i] = i)
    BY <1>4, <1>5, <2>1 DEF ClientInv, FileKnown
  <2> QED BY <2>2
<1>7. size > 0 /\ spoiled = {} => length = size
  BY <1>4 DEF ClientInv, LengthKnown
<1> QED BY <1>6, <1>7

\* A request that ends without an error leaves, of a file that fits in the LONGs, the
\* remote bytes and no others but where a write found the buffer overwritten, and, if none
\* did, the whole file in its length; unless a write that was started failed or
\* GetLastError said 0 of a failure.
THEOREM CopyComplete == Spec => []Copied
BY ClientInvariant, ClientCopies, PTL

LEMMA ClientNoticed == ClientInv => CompletedAfterNotice
<1> SUFFICES ASSUME ClientInv, completed > 0, Without({"writeLater", "zero"})
             PROVE  rpc \in {"ok", "failed"}
  BY DEF CompletedAfterNotice
<1>1. rpc # "none"
  BY DEF ClientInv, Control, Unmade
<1> QED BY <1>1 DEF ClientInv, Control, Outcome

\* RpcAsyncCompleteCall is called only when the end of the call was notified, unless a
\* write that was started failed or GetLastError said 0 of a failure.
THEOREM CompletedOnlyAfterNotice == Spec => []CompletedAfterNotice
BY ClientInvariant, ClientNoticed, PTL
=============================================================================
