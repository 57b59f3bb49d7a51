--------------------------- MODULE MultiUserProofs ---------------------------
(***************************************************************************)
(* What holds of the client service of filerepmultiuser for every number   *)
(* of calls, users and groups, every bound and every length of the files.  *)
(*                                                                         *)
(* The list of a group is reasoned about as the sequence of its nodes,     *)
(* Chain(g).  The steps change pointers; ChainIs says when a sequence is   *)
(* the chain that the pointers make (there is only one), and each step is  *)
(* shown to make the chain that it should.  pLast may point to a node that *)
(* was unlinked: what is added then is lost, but never in two places.      *)
(***************************************************************************)
EXTENDS MultiUser, SequenceTheorems, FiniteSetTheorems, TLAPS

(***************************************************************************)
(* Sets of numbers.                                                        *)
(***************************************************************************)
LEMMA LastBefore ==
  ASSUME NEW P \in SUBSET Nat, IsFiniteSet(P), 0 \in P
  PROVE  \E c \in P : c + 1 \notin P
<1>. SUFFICES ASSUME \A c \in P : c + 1 \in P PROVE FALSE
  OBVIOUS
<1>. DEFINE Q == P \ {0}  f == [c \in P |-> c + 1]
<1>1. f \in [P -> Q] /\ \A c, d \in P : f[c] = f[d] => c = d
  OBVIOUS
<1>2. f \in Injection(P, Q)
  BY <1>1 DEF Injection, IsInjective
<1>3. IsFiniteSet(Q) /\ Cardinality(Q) = Cardinality(P) - 1
  BY FS_RemoveElement
<1>4. Cardinality(P) \in Nat
  BY FS_CardinalityType
<1>. HIDE DEF f, Q
<1>5. Cardinality(P) <= Cardinality(Q)
  BY <1>2, <1>3, FS_Injection
<1>. QED BY <1>3, <1>4, <1>5

LEMMA Least ==
  ASSUME NEW n \in Nat, NEW S \in SUBSET (1 .. n), S # {}
  PROVE  \E i \in S : \A j \in S : i <= j
<1>. DEFINE P == {p \in 0 .. n : \A j \in S : p < j}
<1>1. IsFiniteSet(0 .. n) /\ P \in SUBSET (0 .. n) /\ P \in SUBSET Nat /\ 0 \in P
  BY FS_Interval
<1>2. IsFiniteSet(P)
  BY <1>1, FS_Subset
<1>3. PICK c \in P : c + 1 \notin P
  BY <1>1, <1>2, LastBefore
<1>4. \A j \in S : j \in Nat /\ c < j /\ j <= n
  OBVIOUS
<1>5. c \in Nat /\ c + 1 \in 0 .. n
  <2>1. PICK j \in S : TRUE
    OBVIOUS
  <2>2. c \in Nat
    OBVIOUS
  <2>. QED BY <1>4, <2>1, <2>2
<1>6. PICK i \in S : ~(c + 1 < i)
  BY <1>3, <1>5
<1>7. \A j \in S : i <= j
  BY <1>4, <1>5, <1>6
<1>. QED BY <1>7

\* Finite sets that differ in one element at most.
Ind(b) == IF b THEN 1 ELSE 0

LEMMA CountIn ==
  ASSUME NEW S, IsFiniteSet(S), NEW A \in SUBSET S, NEW B \in SUBSET S, NEW x \in S,
         \A r \in S \ {x} : r \in A <=> r \in B
  PROVE  /\ Cardinality(A) \in Nat /\ Cardinality(B) \in Nat
         /\ Cardinality(B) = Cardinality(A) + Ind(x \in B) - Ind(x \in A)
<1>1. IsFiniteSet(A) /\ IsFiniteSet(B)
  BY FS_Subset
<1>2. Cardinality(A) \in Nat /\ Cardinality(B) \in Nat
  BY <1>1, FS_CardinalityType
<1>3. CASE x \in A <=> x \in B
  <2>1. A = B
    BY <1>3
  <2>. QED BY <1>2, <1>3, <2>1 DEF Ind
<1>4. CASE x \notin A /\ x \in B
  <2>1. B = A \cup {x}
    BY <1>4
  <2>2. Cardinality(B) = Cardinality(A) + 1
    BY <1>1, <1>4, <2>1, FS_AddElement
  <2>. QED BY <1>2, <1>4, <2>2 DEF Ind
<1>5. CASE x \in A /\ x \notin B
  <2>1. B = A \ {x}
    BY <1>5
  <2>2. Cardinality(B) = Cardinality(A) - 1
    BY <1>1, <1>5, <2>1, FS_RemoveElement
  <2>. QED BY <1>2, <1>5, <2>2 DEF Ind
<1>. QED BY <1>3, <1>4, <1>5

LEMMA CountTo == \A n \in Nat : IsFiniteSet(1 .. n) /\ Cardinality(1 .. n) = n
<1>. SUFFICES ASSUME NEW n \in Nat PROVE IsFiniteSet(1 .. n) /\ Cardinality(1 .. n) = n
  OBVIOUS
<1>1. /\ IsFiniteSet(1 .. n)
      /\ Cardinality(1 .. n) = IF 1 > n THEN 0 ELSE n - 1 + 1
  BY FS_Interval
<1>. QED BY <1>1

\* Sequences without repetition are no longer than what they are made of.
Distinct(s) == \A i, j \in 1 .. Len(s) : s[i] = s[j] => i = j

LEMMA DistinctLength ==
  ASSUME NEW S, IsFiniteSet(S), NEW s \in Seq(S), Distinct(s)
  PROVE  Len(s) <= Cardinality(S)
<1>1. s \in [1 .. Len(s) -> S] /\ Len(s) \in Nat
  BY LenProperties
<1>2. s \in Injection(1 .. Len(s), S)
  BY <1>1 DEF Injection, IsInjective, Distinct
<1>3. Cardinality(1 .. Len(s)) <= Cardinality(S)
  BY <1>2, FS_Injection
<1>4. Cardinality(1 .. Len(s)) = Len(s)
  BY <1>1, CountTo
<1>. QED BY <1>3, <1>4

(***************************************************************************)
(* Types, and the chain of a group.                                        *)
(***************************************************************************)
Before == {"incActive", "incUser", "decActive", "putBack", "decReq"}
During == {"handle", "handleActive", "releaseFirst", "release", "freeFirst", "free"}
Steps  == {"arrive", "refuse", "queue", "take", "active", "done"} \cup Before \cup During

TypeThreads ==
  /\ pc \in [Reqs -> Steps]
  /\ isRPC \in [Reqs -> BOOLEAN] /\ found \in [Reqs -> BOOLEAN]
  /\ cur \in [Reqs -> Reqs \cup {NoReq}]
  /\ pri \in [Reqs -> Groups]
  /\ state \in [Reqs -> {"arrived", "queued", "active", "freed"}]
  /\ left \in [Reqs -> 0 .. Chunks]
  /\ reqQ \in [Groups -> Seq(Reqs)]
  /\ \A t \in Reqs : pc[t] \in InHand <=> cur[t] # NoReq
TypeCounters ==
  /\ reqs \in [Groups -> Int] /\ active \in [Groups -> Int]
  /\ user \in [Groups -> [Users -> Int]]
TypeLists ==
  /\ used \in Nat
  /\ hash \in [Groups -> [first : 0 .. used, last : 0 .. used]]
  /\ node \in [1 .. used -> [key : Users, sub : Seq(Reqs), next : 0 .. used]]
  /\ passed \in [Groups -> [Users -> Nat]]

LEMMA Assumed ==
  /\ IsFiniteSet(Reqs) /\ NoReq \notin Reqs /\ IsFiniteSet(Users)
  /\ NumPriGroups \in Nat /\ NumPriGroups # 0 /\ NumPriGroups \in Groups
  /\ Chunks \in Nat
  /\ \A r \in Reqs : UserOf[r] \in Users /\ PriOf[r] \in Groups
  /\ ReqBound \in Nat /\ ActiveBound \in Nat /\ MaxUserReqs \in Nat
BY MultiUserAssumption DEF Groups

LEMMA WalkPrefix ==
  ASSUME TypeLists, NEW g \in Groups, NEW s \in Seq(1 .. used), NEW w \in Seq(1 .. used),
         IsWalk(g, s), IsWalk(g, w)
  PROVE  Len(s) <= Len(w) /\ \A i \in 1 .. Len(s) : s[i] = w[i]
<1>1. /\ Len(s) \in Nat /\ Len(w) \in Nat
      /\ \A i \in 1 .. Len(s) : s[i] \in 1 .. used
      /\ \A i \in 1 .. Len(w) : w[i] \in 1 .. used
      /\ s = <<>> <=> Len(s) = 0
      /\ w = <<>> <=> Len(w) = 0
  BY EmptySeq, ElementOfSeq, LenProperties
<1>. DEFINE P == {p \in 0 .. Len(s) : \A k \in 1 .. p : k <= Len(w) /\ s[k] = w[k]}
<1>2. P \in SUBSET (0 .. Len(s)) /\ P \in SUBSET Nat /\ 0 \in P
  BY <1>1
<1>3. IsFiniteSet(P)
  <2>1. IsFiniteSet(0 .. Len(s))
    BY <1>1, FS_Interval
  <2>. HIDE DEF P
  <2>. QED BY <1>2, <2>1, FS_Subset
<1>4. PICK c \in P : c + 1 \notin P
  BY <1>2, <1>3, LastBefore
<1>5. c \in Nat /\ c <= Len(s) /\ \A k \in 1 .. c : k <= Len(w) /\ s[k] = w[k]
  BY <1>1
<1>6. ASSUME c < Len(s) PROVE FALSE
  <2>1. c + 1 \in 0 .. Len(s) /\ c + 1 \in 1 .. Len(s)
    BY <1>1, <1>5, <1>6
  <2>2. c + 1 <= Len(w) /\ s[c + 1] = w[c + 1]
    <3>1. CASE c = 0
      <4>1. s # <<>> /\ hash[g].first = s[1] /\ s[1] \in 1 .. used
        BY <1>1, <2>1, <3>1 DEF IsWalk
      <4>2. w # <<>> /\ hash[g].first = w[1]
        BY <4>1 DEF IsWalk, Null
      <4>3. c + 1 = 1 /\ s[1] = w[1]
        BY <3>1, <4>1, <4>2
      <4>4. 1 <= Len(w)
        BY <1>1, <4>2
      <4>. QED BY <4>3, <4>4
    <3>2. CASE c # 0
      <4>1. c \in 1 .. Len(s) /\ c \in 1 .. Len(w) /\ s[c] = w[c] /\ c # Len(s)
        BY <1>1, <1>5, <1>6, <3>2
      <4>2. node[s[c]].next = s[c + 1] /\ s[c + 1] \in 1 .. used
        BY <1>1, <2>1, <4>1 DEF IsWalk
      <4>3. c # Len(w)
        BY <4>1, <4>2 DEF IsWalk, Null
      <4>4. node[w[c]].next = w[c + 1]
        BY <4>1, <4>3 DEF IsWalk
      <4>. QED BY <1>1, <4>1, <4>2, <4>3, <4>4
    <3>. QED BY <3>1, <3>2
  <2>3. \A k \in 1 .. c + 1 : k \in 1 .. c \/ k = c + 1
    BY <1>5
  <2>4. c + 1 \in P
    BY <1>5, <2>1, <2>2, <2>3
  <2>. QED BY <1>4, <2>4
<1>. QED BY <1>1, <1>5, <1>6

\* There is one chain at most.
LEMMA ChainIs ==
  ASSUME TypeLists, NEW g \in Groups, NEW s \in Seq(1 .. used), IsWalk(g, s), Distinct(s)
  PROVE  Chain(g) = s
<1>. DEFINE W == UNION {[1 .. n -> 1 .. used] : n \in 0 .. used}
<1>1. used \in Nat
  BY DEF TypeLists
<1>2. Len(s) \in 0 .. used /\ s \in [1 .. Len(s) -> 1 .. used]
  <2>1. IsFiniteSet(1 .. used) /\ Cardinality(1 .. used) = used
    BY <1>1, CountTo
  <2>. QED BY <1>1, <2>1, DistinctLength, LenProperties
<1>3. s \in W
  BY <1>2
<1>4. W \subseteq Seq(1 .. used)
  BY <1>1, SeqDef
<1>. HIDE DEF W
<1>5. Chain(g) = CHOOSE c \in W : IsWalk(g, c)
  BY DEF Chain, W
<1>6. Chain(g) \in W /\ IsWalk(g, Chain(g))
  BY <1>3, <1>5
<1>7. Chain(g) \in Seq(1 .. used)
  BY <1>4, <1>6
<1>8. /\ Len(Chain(g)) <= Len(s) /\ Len(s) <= Len(Chain(g))
      /\ \A i \in 1 .. Len(s) : s[i] = Chain(g)[i]
  BY <1>6, <1>7, WalkPrefix
<1>9. Len(Chain(g)) = Len(s)
  BY <1>7, <1>8, LenProperties
<1>. QED BY <1>7, <1>8, <1>9, SeqEqual

Unique == \A g \in Groups : \A s \in Seq(1 .. used) :
            IsWalk(g, s) /\ Distinct(s) => Chain(g) = s

LEMMA UniqueNext == TypeLists' => Unique'
<1>1. TypeLists => Unique
  BY ChainIs DEF Unique
<1>. QED BY <1>1, PTL

LEMMA ChainIsNext ==
  ASSUME TypeLists', NEW g \in Groups, NEW s \in Seq(1 .. used'), IsWalk(g, s)', Distinct(s)
  PROVE  Chain(g)' = s
BY UniqueNext DEF Unique

(***************************************************************************)
(* The lists: each group has a chain, no node is in two places of them, no *)
(* two nodes of a chain are of the same user, and pLast is the end of its  *)
(* own group's chain, or an unlinked node.                                 *)
(***************************************************************************)
Chained == \A g \in Groups : Chain(g) \in Seq(1 .. used) /\ IsWalk(g, Chain(g))
Apart   == \A g, h \in Groups : \A i \in 1 .. Len(Chain(g)), j \in 1 .. Len(Chain(h)) :
             Chain(g)[i] = Chain(h)[j] => g = h /\ i = j
Ended   == \A g \in Groups :
             /\ hash[g].first # Null => hash[g].last # Null
             /\ \A h \in Groups : \A i \in 1 .. Len(Chain(h)) :
                  Chain(h)[i] = hash[g].last => h = g /\ i = Len(Chain(h))
Keyed   == \A g \in Groups : \A i, j \in 1 .. Len(Chain(g)) :
             node[Chain(g)[i]].key = node[Chain(g)[j]].key => i = j

Lists == TypeLists /\ Chained /\ Apart /\ Ended /\ Keyed

LEMMA ChainFacts ==
  ASSUME Lists, NEW g \in Groups
  PROVE  /\ Chain(g) \in Seq(1 .. used) /\ Len(Chain(g)) \in Nat /\ used \in Nat
         /\ \A i \in 1 .. Len(Chain(g)) :
              /\ Chain(g)[i] \in 1 .. used /\ Chain(g)[i] # Null
              /\ node[Chain(g)[i]].next = IF i = Len(Chain(g)) THEN Null ELSE Chain(g)[i + 1]
         /\ Distinct(Chain(g))
         /\ Len(Chain(g)) = 0 <=> hash[g].first = Null
         /\ Len(Chain(g)) # 0 => hash[g].first = Chain(g)[1]
<1>1. Chain(g) \in Seq(1 .. used) /\ IsWalk(g, Chain(g)) /\ used \in Nat
  BY DEF Lists, Chained, TypeLists
<1>2. /\ Len(Chain(g)) \in Nat
      /\ \A i \in 1 .. Len(Chain(g)) : Chain(g)[i] \in 1 .. used
      /\ Len(Chain(g)) = 0 <=> Chain(g) = <<>>
  BY <1>1, EmptySeq, ElementOfSeq, LenProperties
<1>3. \A i \in 1 .. Len(Chain(g)) :
         /\ Chain(g)[i] \in 1 .. used /\ Chain(g)[i] # Null
         /\ node[Chain(g)[i]].next = IF i = Len(Chain(g)) THEN Null ELSE Chain(g)[i + 1]
  BY <1>1, <1>2 DEF IsWalk, Null
<1>4. Distinct(Chain(g))
  BY DEF Distinct, Lists, Apart
<1>5. Len(Chain(g)) # 0 => hash[g].first = Chain(g)[1] /\ 1 \in 1 .. Len(Chain(g))
  BY <1>1, <1>2 DEF IsWalk
<1>6. Len(Chain(g)) = 0 => hash[g].first = Null
  BY <1>1, <1>2 DEF IsWalk
<1>. QED BY <1>1, <1>2, <1>3, <1>4, <1>5, <1>6

\* A step makes the chains that the pointers after it are a walk of.
LEMMA ListsMade ==
  ASSUME TypeLists', NEW T,
         \A g \in Groups : T[g] \in Seq(1 .. used') /\ IsWalk(g, T[g])',
         \A g, h \in Groups : \A i \in 1 .. Len(T[g]), j \in 1 .. Len(T[h]) :
            T[g][i] = T[h][j] => g = h /\ i = j
  PROVE  /\ \A g \in Groups : Chain(g)' = T[g]
         /\ Chained' /\ Apart'
<1>1. ASSUME NEW g \in Groups PROVE Chain(g)' = T[g]
  <2>1. Distinct(T[g])
    BY DEF Distinct
  <2>. QED BY <2>1, ChainIsNext
<1>2. Chained'
  BY <1>1 DEF Chained
<1>3. Apart'
  BY <1>1 DEF Apart
<1>. QED BY <1>1, <1>2, <1>3

LEMMA LookupFacts ==
  ASSUME Lists, NEW g \in Groups, NEW u
  PROVE  /\ Lookup(g, u) # Null => \E i \in 1 .. Len(Chain(g)) :
                Lookup(g, u) = Chain(g)[i] /\ node[Chain(g)[i]].key = u
         /\ Lookup(g, u) = Null => \A i \in 1 .. Len(Chain(g)) : node[Chain(g)[i]].key # u
<1>. DEFINE mine == {i \in 1 .. Len(Chain(g)) : node[Chain(g)[i]].key = u}
            least == CHOOSE i \in mine : \A j \in mine : i <= j
<1>1. Lookup(g, u) = IF mine = {} THEN Null ELSE Chain(g)[least]
  BY DEF Lookup
<1>2. Len(Chain(g)) \in Nat /\ \A i \in 1 .. Len(Chain(g)) : Chain(g)[i] # Null
  BY ChainFacts
<1>3. mine # {} => least \in mine
  <2>1. mine \in SUBSET (1 .. Len(Chain(g)))
    OBVIOUS
  <2>. HIDE DEF mine
  <2>2. mine # {} => \E i \in mine : \A j \in mine : i <= j
    BY <1>2, <2>1, Least
  <2>. QED BY <2>2
<1>. HIDE DEF least
<1>4. CASE mine = {}
  BY <1>1, <1>4
<1>5. CASE mine # {}
  BY <1>1, <1>2, <1>3, <1>5
<1>. QED BY <1>4, <1>5

\* The first node of the chain whose subqueue is not empty, and the one before it.
IsFirstFull(g, i) ==
  /\ i \in 1 .. Len(Chain(g)) /\ node[Chain(g)[i]].sub # <<>>
  /\ \A j \in 1 .. Len(Chain(g)) : node[Chain(g)[j]].sub # <<>> => i <= j
Ahead(g, i) == IF i = 1 THEN Null ELSE Chain(g)[i - 1]

LEMMA RemoveFacts ==
  ASSUME Lists, NEW t \in Reqs, NEW g \in Groups, RemoveFromSubqueue(t, g)
  PROVE  \E i : /\ IsFirstFull(g, i)
                /\ MoveToBack(g, Chain(g)[i], Ahead(g, i))
                /\ cur' = [cur EXCEPT ![t] = Head(node[Chain(g)[i]].sub)]
                /\ used' = used
                /\ passed' = [passed EXCEPT ![g] = [u \in Users |->
                     IF u # node[Chain(g)[i]].key /\ u \in Waiting(g) THEN @[u] + 1 ELSE 0]]
<1>. DEFINE full == {i \in 1 .. Len(Chain(g)) : node[Chain(g)[i]].sub # <<>>}
            i == CHOOSE j \in full : \A k \in full : j <= k
<1>1. Len(Chain(g)) \in Nat /\ full \in SUBSET (1 .. Len(Chain(g)))
  BY ChainFacts
<1>2. full # {}
  BY DEF RemoveFromSubqueue
<1>3. i \in full /\ \A k \in full : i <= k
  <2>. HIDE DEF full
  <2>1. \E j \in full : \A k \in full : j <= k
    BY <1>1, <1>2, Least
  <2>. QED BY <2>1
<1>4. /\ MoveToBack(g, Chain(g)[i], Ahead(g, i))
      /\ cur' = [cur EXCEPT ![t] = Head(node[Chain(g)[i]].sub)]
      /\ used' = used
      /\ passed' = [passed EXCEPT ![g] = [u \in Users |->
                     IF u # node[Chain(g)[i]].key /\ u \in Waiting(g) THEN @[u] + 1 ELSE 0]]
  BY DEF RemoveFromSubqueue, Ahead
<1>. HIDE DEF i
<1>5. IsFirstFull(g, i)
  BY <1>3 DEF IsFirstFull
<1>. QED BY <1>4, <1>5

(***************************************************************************)
(* The pointers after a step, node by node.                                *)
(***************************************************************************)

\* Steps that change no pointer, nor whose a node is.
LEMMA SameChains ==
  ASSUME Lists, TypeLists', used' = used, hash' = hash,
         \A m \in 1 .. used : node'[m].next = node[m].next /\ node'[m].key = node[m].key
  PROVE  Lists' /\ \A g \in Groups : Chain(g)' = Chain(g)
<1>1. PICK T : T = [g \in Groups |-> Chain(g)]
  OBVIOUS
<1>2. ASSUME NEW g \in Groups PROVE T[g] \in Seq(1 .. used') /\ IsWalk(g, T[g])'
  <2>1. /\ Chain(g) \in Seq(1 .. used) /\ IsWalk(g, Chain(g)) /\ T[g] = Chain(g)
        /\ \A i \in 1 .. Len(Chain(g)) : Chain(g)[i] \in 1 .. used
    BY <1>1, ChainFacts DEF Lists, Chained
  <2>. QED BY <2>1 DEF IsWalk
<1>3. \A g, h \in Groups : \A i \in 1 .. Len(T[g]), j \in 1 .. Len(T[h]) :
         T[g][i] = T[h][j] => g = h /\ i = j
  BY <1>1 DEF Lists, Apart
<1>4. (\A g \in Groups : Chain(g)' = T[g]) /\ Chained' /\ Apart'
  BY <1>2, <1>3, ListsMade
<1>5. \A g \in Groups : Chain(g)' = Chain(g)
  BY <1>1, <1>4
<1>6. Ended'
  BY <1>5 DEF Lists, Ended
<1>7. Keyed'
  <2>1. \A g \in Groups : \A i \in 1 .. Len(Chain(g)) : Chain(g)[i] \in 1 .. used
    BY ChainFacts
  <2>. QED BY <1>5, <2>1 DEF Lists, Keyed
<1>. QED BY <1>4, <1>5, <1>6, <1>7 DEF Lists

\* A request is added to a node of its user.
LEMMA AddKnown ==
  ASSUME Lists, NEW r \in Reqs, AddToSubqueue(r), Lookup(PriOf[r], UserOf[r]) # Null
  PROVE  /\ Lists' /\ \A g \in Groups : Chain(g)' = Chain(g)
         /\ UNCHANGED <<hash, used, passed>>
         /\ \E i \in 1 .. Len(Chain(PriOf[r])) :
              /\ node[Chain(PriOf[r])[i]].key = UserOf[r]
              /\ \A m \in 1 .. used :
                   /\ node'[m].key = node[m].key /\ node'[m].next = node[m].next
                   /\ node'[m].sub = IF m = Chain(PriOf[r])[i] THEN Append(node[m].sub, r)
                                                               ELSE node[m].sub
<1>. DEFINE g0 == PriOf[r]
<1>0. g0 \in Groups
  BY Assumed
<1>. HIDE DEF g0
<1>1. PICK i \in 1 .. Len(Chain(g0)) :
        Lookup(g0, UserOf[r]) = Chain(g0)[i] /\ node[Chain(g0)[i]].key = UserOf[r]
  BY <1>0, LookupFacts DEF g0
<1>2. PICK n \in 1 .. used : n = Chain(g0)[i]
  BY <1>0, ChainFacts
<1>3. UNCHANGED <<hash, used, passed>> /\ node' = [node EXCEPT ![n].sub = Append(@, r)]
  BY <1>1, <1>2 DEF AddToSubqueue, AddTo, g0
<1>4. \A m \in 1 .. used : node[m] \in [key : Users, sub : Seq(Reqs), next : 0 .. used]
  BY DEF Lists, TypeLists
<1>5. \A m \in 1 .. used : node'[m] = IF m = n THEN [node[n] EXCEPT !.sub = Append(@, r)]
                                               ELSE node[m]
  BY <1>3 DEF Lists, TypeLists
<1>6. node'[n] = [node[n] EXCEPT !.sub = Append(node[n].sub, r)]
  BY <1>5
<1>7. /\ node'[n].key = node[n].key /\ node'[n].next = node[n].next
      /\ node'[n].sub = Append(node[n].sub, r)
      /\ node'[n] \in [key : Users, sub : Seq(Reqs), next : 0 .. used]
  <2>1. node[n] \in [key : Users, sub : Seq(Reqs), next : 0 .. used]
    BY <1>4
  <2>2. Append(node[n].sub, r) \in Seq(Reqs)
    BY <2>1
  <2>. QED BY <1>6, <2>1, <2>2
<1>8. \A m \in 1 .. used :
         /\ node'[m].key = node[m].key /\ node'[m].next = node[m].next
         /\ node'[m].sub = IF m = n THEN Append(node[m].sub, r) ELSE node[m].sub
  BY <1>5, <1>7
<1>9. TypeLists'
  <2>1. \A m \in 1 .. used : node'[m] \in [key : Users, sub : Seq(Reqs), next : 0 .. used]
    BY <1>4, <1>5, <1>7
  <2>2. node' \in [1 .. used -> [key : Users, sub : Seq(Reqs), next : 0 .. used]]
    <3>1. node' = [m \in 1 .. used |-> node'[m]]
      BY <1>3 DEF Lists, TypeLists
    <3>. QED BY <2>1, <3>1
  <2>. QED BY <1>3, <2>2 DEF Lists, TypeLists
<1>10. Lists' /\ \A g \in Groups : Chain(g)' = Chain(g)
  BY <1>3, <1>8, <1>9, SameChains
<1>. QED BY <1>1, <1>2, <1>3, <1>8, <1>10, SMTT(30) DEF g0

\* A request gets a new node, behind pLast: at the end of the chain, or lost.
LEMMA AddNewNode ==
  ASSUME Lists, NEW r \in Reqs, AddToSubqueue(r), Lookup(PriOf[r], UserOf[r]) = Null
  PROVE  /\ used' = used + 1 /\ passed' = passed /\ TypeLists'
         /\ node'[used + 1] = [key |-> UserOf[r], sub |-> <<r>>, next |-> Null]
         /\ \A m \in 1 .. used :
              /\ node'[m].key = node[m].key /\ node'[m].sub = node[m].sub
              /\ node'[m].next = IF hash[PriOf[r]].first # Null /\ m = hash[PriOf[r]].last
                                 THEN used + 1 ELSE node[m].next
         /\ \A g \in Groups \ {PriOf[r]} : hash'[g] = hash[g]
         /\ hash'[PriOf[r]].first = IF hash[PriOf[r]].first = Null THEN used + 1
                                    ELSE hash[PriOf[r]].first
         /\ hash'[PriOf[r]].last = used + 1
<1>. DEFINE g == PriOf[r]  new == used + 1
            fresh == [key |-> UserOf[r], sub |-> <<r>>, next |-> Null]
            known == [m \in 1 .. new |-> IF m = new THEN fresh ELSE node[m]]
            RecOf == [key : Users, sub : Seq(Reqs), next : 0 .. new]
<1>1. /\ g \in Groups /\ used \in Nat /\ new \in 1 .. new /\ new \notin 1 .. used
      /\ \A m \in 1 .. used : m \in 1 .. new /\ m # new
      /\ \A m \in 1 .. new : m = new \/ m \in 1 .. used
  BY Assumed DEF Lists, TypeLists
<1>2. /\ hash[g] \in [first : 0 .. used, last : 0 .. used]
      /\ hash[g].first # Null => hash[g].last \in 1 .. used
  BY <1>1 DEF Lists, TypeLists, Ended, Null
<1>3. /\ used' = new /\ passed' = passed
      /\ hash' = [hash EXCEPT ![g] = [first |-> IF @.first = Null THEN new ELSE @.first,
                                      last |-> new]]
      /\ node' = IF hash[g].first = Null THEN known
                 ELSE [known EXCEPT ![hash[g].last].next = new]
  BY DEF AddToSubqueue, AddTo
<1>4. /\ \A h \in Groups \ {g} : hash'[h] = hash[h]
      /\ hash'[g] = [first |-> IF hash[g].first = Null THEN new ELSE hash[g].first,
                     last |-> new]
  BY <1>1, <1>3 DEF Lists, TypeLists
<1>5. /\ hash'[g].first = IF hash[g].first = Null THEN new ELSE hash[g].first
      /\ hash'[g].last = new
  BY <1>4
<1>6. hash' \in [Groups -> [first : 0 .. new, last : 0 .. new]]
  <2>1. \A h \in Groups : hash[h] \in [first : 0 .. new, last : 0 .. new]
    BY <1>1 DEF Lists, TypeLists
  <2>2. hash'[g] \in [first : 0 .. new, last : 0 .. new]
    BY <1>1, <1>2, <1>4
  <2>3. hash' = [h \in Groups |-> hash'[h]]
    BY <1>3 DEF Lists, TypeLists
  <2>. QED BY <1>4, <2>1, <2>2, <2>3
<1>7. \A m \in 1 .. used : node[m] \in RecOf /\ known[m] = node[m]
  BY <1>1 DEF Lists, TypeLists
<1>8. fresh \in RecOf /\ known[new] = fresh
  BY <1>1, Assumed DEF Null
<1>9. known \in [1 .. new -> RecOf]
  BY <1>1, <1>7, <1>8
<1>. HIDE DEF known, fresh, RecOf
<1>10. CASE hash[g].first = Null
  <2>1. node' = known
    BY <1>3, <1>10
  <2>2. node' \in [1 .. used' -> [key : Users, sub : Seq(Reqs), next : 0 .. used']]
    BY <1>3, <1>9, <2>1 DEF RecOf
  <2>3. TypeLists'
    BY <1>1, <1>3, <1>6, <2>2 DEF Lists, TypeLists
  <2>. QED BY <1>1, <1>3, <1>4, <1>5, <1>7, <1>8, <1>10, <2>1, <2>3 DEF fresh
<1>11. CASE hash[g].first # Null
  <2>1. PICK l \in 1 .. used : l = hash[g].last
    BY <1>2, <1>11
  <2>2. node' = [known EXCEPT ![l].next = new] /\ l \in 1 .. new /\ l # new
    BY <1>1, <1>3, <1>11, <2>1
  <2>3. /\ node'[l] = [known[l] EXCEPT !.next = new]
        /\ \A m \in 1 .. new : m # l => node'[m] = known[m]
    BY <1>9, <2>2
  <2>4. /\ node'[l].key = node[l].key /\ node'[l].sub = node[l].sub
        /\ node'[l].next = new /\ node'[l] \in RecOf
    <3>1. known[l] = node[l] /\ node[l] \in RecOf
      BY <1>7
    <3>2. new \in 0 .. new
      BY <1>1
    <3>. QED BY <2>3, <3>1, <3>2 DEF RecOf
  <2>5. \A m \in 1 .. used :
          /\ node'[m].key = node[m].key /\ node'[m].sub = node[m].sub
          /\ node'[m].next = IF m = l THEN new ELSE node[m].next
    BY <1>1, <1>7, <2>3, <2>4
  <2>6. node'[new] = fresh
    BY <1>1, <1>8, <2>2, <2>3
  <2>7. node' \in [1 .. new -> RecOf]
    <3>1. \A m \in 1 .. new : node'[m] \in RecOf
      BY <1>9, <2>3, <2>4
    <3>2. node' = [m \in 1 .. new |-> node'[m]]
      BY <1>9, <2>2
    <3>. QED BY <3>1, <3>2
  <2>8. TypeLists'
    <3>1. node' \in [1 .. used' -> [key : Users, sub : Seq(Reqs), next : 0 .. used']]
      BY <1>3, <2>7 DEF RecOf
    <3>2. used' \in Nat /\ hash' \in [Groups -> [first : 0 .. used', last : 0 .. used']]
      BY <1>1, <1>3, <1>6
    <3>3. passed' \in [Groups -> [Users -> Nat]]
      BY <1>3 DEF Lists, TypeLists
    <3>. QED BY <3>1, <3>2, <3>3 DEF TypeLists
  <2>. QED BY <1>3, <1>4, <1>5, <1>11, <2>1, <2>5, <2>6, <2>8 DEF fresh
<1>. QED BY <1>10, <1>11

\* pLast is the end of the chain, or there is no chain: what is added is at its end.
Reaches(g) == Len(Chain(g)) = 0 \/ Chain(g)[Len(Chain(g))] = hash[g].last

LEMMA AppendFacts ==
  ASSUME NEW S, NEW s \in Seq(S), NEW e \in S
  PROVE  /\ Append(s, e) \in Seq(S) /\ Len(s) \in Nat /\ Len(Append(s, e)) = Len(s) + 1
         /\ Append(s, e)[Len(s) + 1] = e
         /\ \A i \in 1 .. Len(s) : Append(s, e)[i] = s[i]
         /\ \A i \in 1 .. Len(s) + 1 : i = Len(s) + 1 \/ i \in 1 .. Len(s)
         /\ Append(s, e) # <<>>
<1>1. /\ Append(s, e) \in Seq(S) /\ Len(s) \in Nat /\ Len(Append(s, e)) = Len(s) + 1
      /\ Append(s, e)[Len(s) + 1] = e
  OBVIOUS
<1>2. \A i \in 1 .. Len(s) : Append(s, e)[i] = s[i]
  OBVIOUS
<1>3. \A i \in 1 .. Len(s) + 1 : i = Len(s) + 1 \/ i \in 1 .. Len(s)
  BY <1>1
<1>4. Append(s, e) # <<>>
  BY <1>1, EmptySeq
<1>. QED BY <1>1, <1>2, <1>3, <1>4

LEMMA AddNewChain ==
  ASSUME Lists, NEW r \in Reqs, AddToSubqueue(r), Lookup(PriOf[r], UserOf[r]) = Null
  PROVE  /\ \A g \in Groups \ {PriOf[r]} : Chain(g)' = Chain(g)
         /\ Chain(PriOf[r])' = IF Reaches(PriOf[r]) THEN Append(Chain(PriOf[r]), used + 1)
                               ELSE Chain(PriOf[r])
         /\ Lists'
<1>1. PICK g \in Groups : g = PriOf[r]
  BY Assumed
<1>2. PICK new \in Nat : /\ new = used + 1 /\ used' = new /\ TypeLists'
                         /\ \A m \in 0 .. used : m # new
                         /\ \A m \in 1 .. used : m \in 1 .. new /\ m # new
                         /\ new \in 1 .. new /\ new # Null
  <2>1. used \in Nat
    BY DEF Lists, TypeLists
  <2>2. PICK new \in Nat : new = used + 1
    BY <2>1
  <2>3. used' = new /\ TypeLists'
    BY <2>2, AddNewNode
  <2>4. /\ \A m \in 0 .. used : m # new
        /\ \A m \in 1 .. used : m \in 1 .. new /\ m # new
        /\ new \in 1 .. new /\ new # Null
    BY <2>1, <2>2 DEF Null
  <2>. QED BY <2>2, <2>3, <2>4
<1>3. /\ node'[new].key = UserOf[r] /\ node'[new].next = Null
      /\ \A m \in 1 .. used :
           /\ node'[m].key = node[m].key
           /\ node'[m].next = IF hash[g].first # Null /\ m = hash[g].last
                              THEN new ELSE node[m].next
      /\ \A h \in Groups \ {g} : hash'[h] = hash[h]
      /\ hash'[g].first = IF hash[g].first = Null THEN new ELSE hash[g].first
      /\ hash'[g].last = new
  <2>1. /\ node'[new] = [key |-> UserOf[r], sub |-> <<r>>, next |-> Null]
        /\ \A m \in 1 .. used :
             /\ node'[m].key = node[m].key
             /\ node'[m].next = IF hash[g].first # Null /\ m = hash[g].last
                                THEN new ELSE node[m].next
    BY <1>1, <1>2, AddNewNode
  <2>2. /\ \A h \in Groups \ {g} : hash'[h] = hash[h]
        /\ hash'[g].first = IF hash[g].first = Null THEN new ELSE hash[g].first
        /\ hash'[g].last = new
    BY <1>1, <1>2, AddNewNode
  <2>. QED BY <2>1, <2>2
<1>4. \A h \in Groups : hash[h].last \in 0 .. used /\ hash[h].first \in 0 .. used
  BY DEF Lists, TypeLists
<1>5. PICK c : c = [h \in Groups |-> Chain(h)]
  OBVIOUS
<1>6. ASSUME NEW h \in Groups
      PROVE  /\ c[h] = Chain(h) /\ c[h] \in Seq(1 .. used) /\ Len(c[h]) \in Nat
             /\ c[h] \in Seq(1 .. new)
             /\ \A i \in 1 .. Len(c[h]) :
                  /\ c[h][i] \in 1 .. used /\ c[h][i] # new
                  /\ node[c[h][i]].next = IF i = Len(c[h]) THEN Null ELSE c[h][i + 1]
             /\ c[h] = <<>> <=> Len(c[h]) = 0
             /\ Len(c[h]) = 0 <=> hash[h].first = Null
             /\ Len(c[h]) # 0 => hash[h].first = c[h][1]
  <2>1. c[h] = Chain(h) /\ c[h] \in Seq(1 .. used)
    BY <1>5, ChainFacts
  <2>2. 1 .. used \subseteq 1 .. new
    BY <1>2
  <2>3. c[h] \in Seq(1 .. new)
    BY <2>1, <2>2, SeqMonotonic
  <2>4. c[h] = <<>> <=> Len(c[h]) = 0
    BY <2>1
  <2>. QED BY <1>2, <2>1, <2>3, <2>4, ChainFacts
<1>7. \A h, k \in Groups : \A i \in 1 .. Len(c[h]), j \in 1 .. Len(c[k]) :
         c[h][i] = c[k][j] => h = k /\ i = j
  <2>. SUFFICES ASSUME NEW h \in Groups, NEW k \in Groups
                PROVE  \A i \in 1 .. Len(c[h]), j \in 1 .. Len(c[k]) :
                          c[h][i] = c[k][j] => h = k /\ i = j
    OBVIOUS
  <2>1. c[h] = Chain(h) /\ c[k] = Chain(k)
    BY <1>6
  <2>. QED BY <2>1 DEF Lists, Apart
<1>8. \A h, k \in Groups : \A i \in 1 .. Len(c[k]) :
         c[k][i] = hash[h].last => k = h /\ i = Len(c[k])
  BY <1>6 DEF Lists, Ended
<1>9. \A i \in 1 .. Len(c[g]) : node[c[g][i]].key # UserOf[r]
  BY <1>1, <1>6, LookupFacts
<1>10. PICK T : T = [h \in Groups |-> IF h = g /\ Reaches(g) THEN Append(c[g], new)
                                      ELSE c[h]]
  OBVIOUS
<1>11. /\ \A h \in Groups \ {g} : T[h] = c[h]
       /\ T[g] = IF Reaches(g) THEN Append(c[g], new) ELSE c[g]
  BY <1>10
<1>12. Reaches(g) <=> Len(c[g]) = 0 \/ c[g][Len(c[g])] = hash[g].last
  BY <1>6 DEF Reaches
<1>13. ASSUME NEW h \in Groups \ {g}
       PROVE  T[h] \in Seq(1 .. used') /\ IsWalk(h, T[h])'
  <2>1. \A i \in 1 .. Len(c[h]) : node'[c[h][i]].next = node[c[h][i]].next
    BY <1>3, <1>6, <1>8
  <2>2. T[h] = c[h] /\ hash'[h] = hash[h] /\ T[h] \in Seq(1 .. used')
    BY <1>2, <1>3, <1>6, <1>11
  <2>3. hash[h].first = IF c[h] = <<>> THEN Null ELSE c[h][1]
    BY <1>6
  <2>4. \A i \in 1 .. Len(c[h]) : node'[c[h][i]].next = IF i = Len(c[h]) THEN Null ELSE c[h][i + 1]
    BY <1>6, <2>1
  <2>. QED BY <2>2, <2>3, <2>4 DEF IsWalk
<1>14. T[g] \in Seq(1 .. used') /\ IsWalk(g, T[g])'
  <2>1. CASE ~Reaches(g)
    <3>1. \A i \in 1 .. Len(c[g]) : node'[c[g][i]].next = node[c[g][i]].next
      <4>1. \A i \in 1 .. Len(c[g]) : c[g][i] \in 1 .. used
        BY <1>6
      <4>2. \A i \in 1 .. Len(c[g]) : c[g][i] # hash[g].last
        BY <1>8, <1>12, <2>1
      <4>. QED BY <1>3, <4>1, <4>2
    <3>2. hash'[g].first = hash[g].first
      BY <1>3, <1>6, <1>12, <2>1
    <3>. QED BY <1>2, <1>6, <1>11, <1>12, <2>1, <3>1, <3>2 DEF IsWalk
  <2>2. CASE Reaches(g)
    <3>0. T[g] = Append(c[g], new)
      BY <1>11, <2>2
    <3>. DEFINE L == Len(c[g])
    <3>1. /\ T[g] \in Seq(1 .. new) /\ L \in Nat /\ Len(T[g]) = L + 1
          /\ T[g][L + 1] = new /\ T[g] # <<>>
          /\ \A i \in 1 .. L : T[g][i] = c[g][i]
          /\ \A i \in 1 .. L + 1 : i = L + 1 \/ i \in 1 .. L
      BY <1>2, <1>6, <3>0, AppendFacts
    <3>2. \A i \in 1 .. L : node'[c[g][i]].next = IF i = L THEN new ELSE c[g][i + 1]
      <4>. SUFFICES ASSUME NEW i \in 1 .. L
                    PROVE  node'[c[g][i]].next = IF i = L THEN new ELSE c[g][i + 1]
        OBVIOUS
      <4>1. c[g][i] \in 1 .. used /\ L # 0 /\ hash[g].first # Null
        BY <1>6, <3>1
      <4>2. CASE i = L
        BY <1>3, <1>12, <2>2, <4>1, <4>2
      <4>3. CASE i # L
        <5>1. c[g][i] # hash[g].last
          BY <1>8, <4>3
        <5>2. node'[c[g][i]].next = node[c[g][i]].next
          BY <1>3, <4>1, <5>1
        <5>. QED BY <1>6, <4>3, <5>2
      <4>. QED BY <4>2, <4>3
    <3>3. hash'[g].first = T[g][1]
      <4>1. CASE L = 0
        BY <1>3, <1>6, <3>1, <4>1
      <4>2. CASE L # 0
        <5>1. 1 \in 1 .. L
          BY <3>1, <4>2
        <5>. QED BY <1>3, <1>6, <3>1, <4>2, <5>1
      <4>. QED BY <4>1, <4>2
    <3>4. ASSUME NEW i \in 1 .. L + 1
          PROVE  node'[T[g][i]].next = IF i = L + 1 THEN Null ELSE T[g][i + 1]
      <4>1. CASE i = L + 1
        BY <1>3, <3>1, <4>1
      <4>2. CASE i \in 1 .. L /\ i # L
        <5>1. i + 1 \in 1 .. L /\ i # L + 1
          BY <3>1, <4>2
        <5>. QED BY <3>1, <3>2, <4>2, <5>1
      <4>3. CASE i = L /\ i \in 1 .. L
        <5>1. i # L + 1 /\ T[g][i] = c[g][i]
          BY <3>1, <4>3
        <5>2. node'[c[g][i]].next = new
          BY <3>2, <4>3
        <5>. QED BY <3>1, <4>3, <5>1, <5>2
      <4>. QED BY <3>1, <4>1, <4>2, <4>3
    <3>. HIDE DEF L
    <3>5. IsWalk(g, T[g])'
      BY <3>1, <3>3, <3>4 DEF IsWalk
    <3>. QED BY <1>2, <3>1, <3>5
  <2>. QED BY <2>1, <2>2
\* Where the new node is.
<1>15. ASSUME NEW h \in Groups, NEW i \in 1 .. Len(T[h])
       PROVE  \/ i \in 1 .. Len(c[h]) /\ T[h][i] = c[h][i]
              \/ h = g /\ i = Len(T[g]) /\ T[h][i] = new
  <2>1. CASE h = g /\ Reaches(g)
    <3>1. /\ T[g] = Append(c[g], new) /\ c[g] \in Seq(1 .. new) /\ new \in 1 .. new
      BY <1>2, <1>6, <1>11, <2>1
    <3>2. /\ Len(c[g]) \in Nat /\ Len(T[g]) = Len(c[g]) + 1 /\ T[g][Len(c[g]) + 1] = new
          /\ \A k \in 1 .. Len(c[g]) : T[g][k] = c[g][k]
          /\ \A k \in 1 .. Len(c[g]) + 1 : k = Len(c[g]) + 1 \/ k \in 1 .. Len(c[g])
      BY <3>1, AppendFacts
    <3>. QED BY <1>15, <2>1, <3>2
  <2>2. CASE ~(h = g /\ Reaches(g))
    BY <1>11, <1>15, <2>2
  <2>. QED BY <2>1, <2>2
<1>16. \A h, k \in Groups : \A i \in 1 .. Len(T[h]), j \in 1 .. Len(T[k]) :
          T[h][i] = T[k][j] => h = k /\ i = j
  <2>. SUFFICES ASSUME NEW h \in Groups, NEW k \in Groups, NEW i \in 1 .. Len(T[h]),
                       NEW j \in 1 .. Len(T[k]), T[h][i] = T[k][j]
                PROVE  h = k /\ i = j
    OBVIOUS
  <2>1. \/ i \in 1 .. Len(c[h]) /\ T[h][i] = c[h][i] /\ c[h][i] # new
        \/ h = g /\ i = Len(T[g]) /\ T[h][i] = new
    BY <1>6, <1>15
  <2>2. \/ j \in 1 .. Len(c[k]) /\ T[k][j] = c[k][j] /\ c[k][j] # new
        \/ k = g /\ j = Len(T[g]) /\ T[k][j] = new
    BY <1>6, <1>15
  <2>. QED BY <1>7, <2>1, <2>2
<1>17. (\A h \in Groups : Chain(h)' = T[h]) /\ Chained' /\ Apart'
  <2>1. \A h \in Groups : T[h] \in Seq(1 .. used') /\ IsWalk(h, T[h])'
    BY <1>13, <1>14
  <2>. QED BY <1>2, <1>16, <2>1, ListsMade
<1>18. Ended'
  <2>1. ASSUME NEW h \in Groups, NEW k \in Groups, NEW i \in 1 .. Len(T[k]),
               T[k][i] = hash'[h].last
        PROVE  k = h /\ i = Len(T[k])
    <3>1. CASE h = g
      <4>1. T[k][i] = new
        BY <1>3, <2>1, <3>1
      <4>2. ~(i \in 1 .. Len(c[k]) /\ T[k][i] = c[k][i])
        BY <1>6, <4>1
      <4>. QED BY <1>15, <3>1, <4>2
    <3>2. CASE h # g
      <4>1. hash'[h].last = hash[h].last /\ hash[h].last # new
        BY <1>2, <1>3, <1>4, <3>2
      <4>2. i \in 1 .. Len(c[k]) /\ T[k][i] = c[k][i]
        BY <1>15, <2>1, <4>1
      <4>3. k = h /\ i = Len(c[k])
        BY <1>8, <2>1, <4>1, <4>2
      <4>. QED BY <1>11, <3>2, <4>3
    <3>. QED BY <3>1, <3>2
  <2>2. \A h \in Groups : hash'[h].first # Null => hash'[h].last # Null
    BY <1>2, <1>3 DEF Lists, Ended
  <2>. QED BY <1>17, <2>1, <2>2 DEF Ended
<1>19. Keyed'
  <2>. SUFFICES ASSUME NEW h \in Groups, NEW i \in 1 .. Len(T[h]), NEW j \in 1 .. Len(T[h]),
                       node'[T[h][i]].key = node'[T[h][j]].key
                PROVE  i = j
    BY <1>17 DEF Keyed
  <2>1. \A k, l \in 1 .. Len(c[h]) : node[c[h][k]].key = node[c[h][l]].key => k = l
    <3>1. c[h] = Chain(h)
      BY <1>6
    <3>. QED BY <3>1 DEF Lists, Keyed
  <2>2. \A k \in 1 .. Len(c[h]) : node'[c[h][k]].key = node[c[h][k]].key
    BY <1>3, <1>6
  <2>3. \/ i \in 1 .. Len(c[h]) /\ T[h][i] = c[h][i]
        \/ h = g /\ i = Len(T[g]) /\ T[h][i] = new
    BY <1>15
  <2>4. \/ j \in 1 .. Len(c[h]) /\ T[h][j] = c[h][j]
        \/ h = g /\ j = Len(T[g]) /\ T[h][j] = new
    BY <1>15
  <2>5. node'[new].key = UserOf[r]
    BY <1>3
  <2>6. CASE i \in 1 .. Len(c[h]) /\ T[h][i] = c[h][i]
    <3>1. CASE j \in 1 .. Len(c[h]) /\ T[h][j] = c[h][j]
      BY <2>1, <2>2, <2>6, <3>1
    <3>2. CASE h = g /\ T[h][j] = new
      BY <1>9, <2>2, <2>5, <2>6, <3>2
    <3>. QED BY <2>4, <3>1, <3>2
  <2>7. CASE h = g /\ i = Len(T[g]) /\ T[h][i] = new
    <3>1. CASE j \in 1 .. Len(c[h]) /\ T[h][j] = c[h][j]
      BY <1>9, <2>2, <2>5, <2>7, <3>1
    <3>. QED BY <2>4, <2>7, <3>1
  <2>. QED BY <2>3, <2>6, <2>7
<1>20. Lists'
  BY <1>2, <1>17, <1>18, <1>19 DEF Lists
<1>21. \A h \in Groups : Chain(h)' = T[h] /\ c[h] = Chain(h)
  BY <1>6, <1>17
<1>. QED BY <1>1, <1>2, <1>11, <1>20, <1>21

NodesOf(n) == [1 .. n -> [key : Users, sub : Seq(Reqs), next : 0 .. n]]

SetNext(f, p, v) == [f EXCEPT ![p].next = v]
CutOut(f, p)     == [f EXCEPT ![p].sub = Tail(@), ![p].next = Null]

IsRelinked(n, f, e, p, v) ==
  /\ e \in NodesOf(n)
  /\ \A m \in 1 .. n : /\ e[m].key = f[m].key /\ e[m].sub = f[m].sub
                       /\ e[m].next = IF m = p THEN v ELSE f[m].next
IsCutOut(n, f, e, p) ==
  /\ e \in NodesOf(n)
  /\ e[p].key = f[p].key /\ e[p].sub = Tail(f[p].sub) /\ e[p].next = Null
  /\ \A m \in 1 .. n : m # p => e[m] = f[m]

LEMMA NextSet ==
  ASSUME NEW n \in Nat, NEW f \in NodesOf(n), NEW p \in 1 .. n, NEW v \in 0 .. n,
         NEW e, e = SetNext(f, p, v)
  PROVE  IsRelinked(n, f, e, p, v)
<1>. DEFINE R == [key : Users, sub : Seq(Reqs), next : 0 .. n]
<1>1. f \in [1 .. n -> R]
  BY DEF NodesOf
<1>2. f[p] \in R
  BY <1>1
<1>3. [f[p] EXCEPT !.next = v] \in R
  BY <1>2
<1>. DEFINE d == [f[p] EXCEPT !.next = v]
<1>4. e \in [1 .. n -> R]
  BY <1>1, <1>3 DEF SetNext
<1>5. \A m \in 1 .. n : e[m] = IF m = p THEN d ELSE f[m]
  BY <1>1 DEF SetNext
<1>6. d.key = f[p].key /\ d.sub = f[p].sub /\ d.next = v
  BY <1>2
<1>. HIDE DEF d
<1>7. \A m \in 1 .. n : /\ e[m].key = f[m].key /\ e[m].sub = f[m].sub
                        /\ e[m].next = IF m = p THEN v ELSE f[m].next
  BY <1>5, <1>6
<1>8. e \in NodesOf(n)
  BY <1>4 DEF NodesOf
<1>. QED BY <1>7, <1>8 DEF IsRelinked

LEMMA Unlink ==
  ASSUME NEW n \in Nat, NEW f \in NodesOf(n), NEW p \in 1 .. n, f[p].sub # <<>>,
         NEW e, e = CutOut(f, p)
  PROVE  IsCutOut(n, f, e, p)
<1>. DEFINE R == [key : Users, sub : Seq(Reqs), next : 0 .. n]
            d == [key |-> f[p].key, sub |-> Tail(f[p].sub), next |-> Null]
<1>1. f \in [1 .. n -> R]
  BY DEF NodesOf
<1>2. f[p] \in R /\ Tail(f[p].sub) \in Seq(Reqs)
  BY <1>1
<1>3. d \in R
  BY <1>2 DEF Null
<1>4. e[p] = d
  <2>1. e[p] = [[f[p] EXCEPT !.sub = Tail(@)] EXCEPT !.next = Null]
    BY <1>1 DEF CutOut
  <2>2. PICK x : x = [f[p] EXCEPT !.sub = Tail(@)]
    OBVIOUS
  <2>3. x \in R /\ x.key = f[p].key /\ x.sub = Tail(f[p].sub)
    BY <1>2, <2>2
  <2>4. PICK y : y = [x EXCEPT !.next = Null]
    OBVIOUS
  <2>5. y \in R /\ y.key = x.key /\ y.sub = x.sub /\ y.next = Null
    BY <2>3, <2>4 DEF Null
  <2>6. y = d
    BY <2>3, <2>5
  <2>. QED BY <2>1, <2>2, <2>4, <2>6
<1>5. \A m \in 1 .. n : m # p => e[m] = f[m]
  BY <1>1 DEF CutOut
<1>6. e = [m \in 1 .. n |-> e[m]]
  BY <1>1 DEF CutOut
<1>7. e \in [1 .. n -> R]
  <2>1. \A m \in 1 .. n : e[m] \in R
    BY <1>1, <1>3, <1>4, <1>5
  <2>. QED BY <1>6, <2>1
<1>8. e[p].key = f[p].key /\ e[p].sub = Tail(f[p].sub) /\ e[p].next = Null
  BY <1>4
<1>9. e \in NodesOf(n)
  BY <1>7 DEF NodesOf
<1>. QED BY <1>5, <1>8, <1>9 DEF IsCutOut

\* The node is unlinked, and linked behind pLast unless it was the end of the chain.
LEMMA MoveNode ==
  ASSUME Lists, NEW g \in Groups, NEW i, IsFirstFull(g, i),
         MoveToBack(g, Chain(g)[i], Ahead(g, i)),
         used' = used, passed' \in [Groups -> [Users -> Nat]]
  PROVE  /\ TypeLists'
         /\ \A m \in 1 .. used :
              /\ node'[m].key = node[m].key
              /\ node'[m].sub = IF m = Chain(g)[i] THEN Tail(node[m].sub) ELSE node[m].sub
              /\ node'[m].next =
                   IF m = Chain(g)[i] THEN Null
                   ELSE IF m = Ahead(g, i) THEN node[Chain(g)[i]].next
                   ELSE IF node[Chain(g)[i]].next # Null /\ m = hash[g].last THEN Chain(g)[i]
                   ELSE node[m].next
         /\ \A h \in Groups \ {g} : hash'[h] = hash[h]
         /\ hash'[g].first = IF i = 1 THEN node[Chain(g)[i]].next ELSE hash[g].first
         /\ hash'[g].last = IF node[Chain(g)[i]].next = Null THEN hash[g].last
                            ELSE Chain(g)[i]
<1>1. /\ Chain(g) \in Seq(1 .. used) /\ Len(Chain(g)) \in Nat /\ used \in Nat
      /\ \A k \in 1 .. Len(Chain(g)) : Chain(g)[k] \in 1 .. used /\ Chain(g)[k] # Null
      /\ i \in 1 .. Len(Chain(g)) /\ hash[g].first # Null
      /\ Distinct(Chain(g))
  BY ChainFacts DEF IsFirstFull
<1>2. PICK n \in 1 .. used : n = Chain(g)[i]
  BY <1>1
<1>3. PICK prev \in 0 .. used : /\ prev = Ahead(g, i) /\ prev # n
                                /\ prev = Null <=> i = 1
                                /\ prev # Null => i - 1 \in 1 .. Len(Chain(g))
                                                  /\ prev = Chain(g)[i - 1]
  <2>1. CASE i = 1
    BY <1>1, <1>2, <2>1 DEF Ahead, Null
  <2>2. CASE i # 1
    <3>1. i - 1 \in 1 .. Len(Chain(g)) /\ i - 1 # i
      BY <1>1, <2>2
    <3>2. Ahead(g, i) = Chain(g)[i - 1] /\ Chain(g)[i - 1] # n
      BY <1>1, <1>2, <2>2, <3>1 DEF Ahead, Distinct
    <3>. QED BY <1>1, <2>2, <3>1, <3>2 DEF Null
  <2>. QED BY <2>1, <2>2
<1>4. node \in NodesOf(used) /\ hash \in [Groups -> [first : 0 .. used, last : 0 .. used]]
  BY DEF Lists, TypeLists, NodesOf
<1>5. PICK next \in 0 .. used : next = node[n].next
  BY <1>4 DEF NodesOf
<1>6. PICK last \in 1 .. used : /\ last = hash[g].last
                                /\ next # Null => last # n /\ last # prev
  <2>1. hash[g].last \in 1 .. used
    BY <1>1, <1>4 DEF Lists, Ended, Null
  <2>2. \A k \in 1 .. Len(Chain(g)) : Chain(g)[k] = hash[g].last => k = Len(Chain(g))
    BY DEF Lists, Ended
  <2>3. next # Null => i # Len(Chain(g))
    BY <1>1, <1>2, <1>5, ChainFacts
  <2>4. i - 1 # Len(Chain(g))
    BY <1>1
  <2>5. next # Null => hash[g].last # n
    BY <1>1, <1>2, <2>2, <2>3
  <2>6. hash[g].last # prev
    BY <1>3, <2>1, <2>2, <2>4 DEF Null
  <2>. QED BY <2>1, <2>5, <2>6
<1>. DEFINE unlinked == [node EXCEPT ![n].sub = Tail(@), ![n].next = Null]
            around == IF prev = Null THEN unlinked ELSE [unlinked EXCEPT ![prev].next = next]
<1>7. /\ node' = IF next = Null THEN around ELSE [around EXCEPT ![last].next = n]
      /\ hash' = [hash EXCEPT ![g] = [first |-> IF prev = Null THEN next ELSE @.first,
                                      last  |-> IF next = Null THEN @.last ELSE n]]
  BY <1>2, <1>3, <1>5, <1>6 DEF MoveToBack
<1>8. /\ unlinked \in NodesOf(used)
      /\ \A m \in 1 .. used :
           /\ unlinked[m].key = node[m].key
           /\ unlinked[m].sub = IF m = n THEN Tail(node[n].sub) ELSE node[m].sub
           /\ unlinked[m].next = IF m = n THEN Null ELSE node[m].next
  <2>1. node[n].sub # <<>> /\ used \in Nat /\ node \in NodesOf(used)
    BY <1>1, <1>2, <1>4 DEF IsFirstFull
  <2>2. PICK f \in NodesOf(used) : f = node
    BY <2>1
  <2>3. f[n].sub # <<>>
    BY <2>1, <2>2
  <2>4. unlinked = CutOut(f, n)
    BY <2>2 DEF CutOut
  <2>. HIDE DEF unlinked
  <2>5. /\ unlinked \in NodesOf(used)
        /\ \A m \in 1 .. used :
             /\ unlinked[m].key = f[m].key
             /\ unlinked[m].sub = IF m = n THEN Tail(f[n].sub) ELSE f[m].sub
             /\ unlinked[m].next = IF m = n THEN Null ELSE f[m].next
    <3>1. IsCutOut(used, f, unlinked, n)
      BY <2>1, <2>3, <2>4, Unlink, Zenon
    <3>. QED BY <3>1 DEF IsCutOut
  <2>. QED BY <2>2, <2>5
<1>. HIDE DEF unlinked
<1>9. /\ around \in NodesOf(used)
      /\ \A m \in 1 .. used :
           /\ around[m].key = node[m].key
           /\ around[m].sub = IF m = n THEN Tail(node[n].sub) ELSE node[m].sub
           /\ around[m].next = IF m = n THEN Null ELSE IF m = prev THEN next ELSE node[m].next
  <2>1. CASE prev = Null
    <3>1. \A m \in 1 .. used : m # prev
      BY <2>1 DEF Null
    <3>. QED BY <1>8, <2>1, <3>1
  <2>2. CASE prev # Null
    <3>1. prev \in 1 .. used
      BY <1>1, <2>2 DEF Null
    <3>2. around = SetNext(unlinked, prev, next)
      BY <2>2 DEF SetNext
    <3>. HIDE DEF around
    <3>3. /\ around \in NodesOf(used)
          /\ \A m \in 1 .. used :
               /\ around[m].key = unlinked[m].key /\ around[m].sub = unlinked[m].sub
               /\ around[m].next = IF m = prev THEN next ELSE unlinked[m].next
      <4>1. used \in Nat /\ unlinked \in NodesOf(used)
        BY <1>1, <1>8
      <4>2. IsRelinked(used, unlinked, around, prev, next)
        BY <3>1, <3>2, <4>1, NextSet, Zenon
      <4>. QED BY <4>2 DEF IsRelinked
    <3>. QED BY <1>3, <1>8, <3>3
  <2>. QED BY <2>1, <2>2
<1>. HIDE DEF around
<1>10. /\ node' \in NodesOf(used)
       /\ \A m \in 1 .. used :
            /\ node'[m].key = node[m].key
            /\ node'[m].sub = IF m = n THEN Tail(node[n].sub) ELSE node[m].sub
            /\ node'[m].next = IF m = n THEN Null ELSE IF m = prev THEN next
                               ELSE IF next # Null /\ m = last THEN n ELSE node[m].next
  <2>1. CASE next = Null
    BY <1>7, <1>9, <2>1
  <2>2. CASE next # Null
    <3>1. node' = SetNext(around, last, n) /\ n \in 0 .. used
      BY <1>7, <2>2 DEF SetNext
    <3>2. /\ node' \in NodesOf(used)
          /\ \A m \in 1 .. used :
               /\ node'[m].key = around[m].key /\ node'[m].sub = around[m].sub
               /\ node'[m].next = IF m = last THEN n ELSE around[m].next
      <4>1. used \in Nat /\ around \in NodesOf(used)
        BY <1>1, <1>9
      <4>2. IsRelinked(used, around, node', last, n)
        BY <3>1, <4>1, NextSet, Zenon
      <4>. QED BY <4>2 DEF IsRelinked
    <3>. QED BY <1>6, <1>9, <2>2, <3>2
  <2>. QED BY <2>1, <2>2
<1>11. /\ \A h \in Groups \ {g} : hash'[h] = hash[h]
       /\ hash'[g] = [first |-> IF prev = Null THEN next ELSE hash[g].first,
                      last  |-> IF next = Null THEN hash[g].last ELSE n]
  BY <1>4, <1>7
<1>12. hash' \in [Groups -> [first : 0 .. used, last : 0 .. used]]
  <2>1. hash[g].first \in 0 .. used /\ hash[g].last \in 0 .. used /\ n \in 0 .. used
    BY <1>4
  <2>2. hash'[g] \in [first : 0 .. used, last : 0 .. used]
    BY <1>11, <2>1
  <2>3. hash' = [h \in Groups |-> hash'[h]]
    BY <1>4, <1>7
  <2>. QED BY <1>4, <1>11, <2>2, <2>3
<1>13. TypeLists'
  BY <1>1, <1>10, <1>12 DEF TypeLists, NodesOf
<1>14. /\ hash'[g].first = IF i = 1 THEN next ELSE hash[g].first
       /\ hash'[g].last = IF next = Null THEN hash[g].last ELSE n
  BY <1>3, <1>11
<1>. QED BY <1>2, <1>3, <1>5, <1>6, <1>10, <1>11, <1>13, <1>14

\* A sequence without its element at i.
Without(c, i) == [k \in 1 .. Len(c) - 1 |-> IF k < i THEN c[k] ELSE c[k + 1]]
Origin(i, k)  == IF k < i THEN k ELSE k + 1
IsWithout(S, c, i) ==
  /\ Without(c, i) \in Seq(S) /\ Len(c) \in Nat /\ Len(Without(c, i)) = Len(c) - 1
  /\ Without(c, i) = <<>> <=> Len(c) = 1
  /\ \A k \in 1 .. Len(c) - 1 : /\ Without(c, i)[k] = c[Origin(i, k)]
                                /\ Origin(i, k) \in 1 .. Len(c) /\ Origin(i, k) # i
                                /\ Origin(i, k) = Len(c) => k = Len(c) - 1
  /\ \A k, l \in 1 .. Len(c) - 1 : Origin(i, k) = Origin(i, l) => k = l

LEMMA WithoutFacts ==
  ASSUME NEW S, NEW c \in Seq(S), NEW i \in 1 .. Len(c)
  PROVE  IsWithout(S, c, i)
<1>1. Len(c) \in Nat /\ Len(c) - 1 \in Nat /\ \A k \in 1 .. Len(c) : c[k] \in S
  BY LenProperties
<1>2. ASSUME NEW k \in 1 .. Len(c) - 1
      PROVE  /\ Origin(i, k) \in 1 .. Len(c) /\ Origin(i, k) # i
             /\ Origin(i, k) = Len(c) => k = Len(c) - 1
             /\ Without(c, i)[k] = c[Origin(i, k)]
  BY <1>1 DEF Origin, Without
<1>3. PICK w : w = Without(c, i)
  OBVIOUS
<1>4. w \in [1 .. Len(c) - 1 -> S]
  <2>1. \A k \in 1 .. Len(c) - 1 : (IF k < i THEN c[k] ELSE c[k + 1]) \in S
    BY <1>1
  <2>. QED BY <1>3, <2>1 DEF Without
<1>5. w \in Seq(S) /\ Len(w) = Len(c) - 1
  BY <1>1, <1>4, SeqDef, LenProperties
<1>6. w = <<>> <=> Len(w) = 0
  BY <1>5, EmptySeq
<1>7. \A k, l \in 1 .. Len(c) - 1 : Origin(i, k) = Origin(i, l) => k = l
  BY <1>1 DEF Origin
<1>. QED BY <1>1, <1>2, <1>3, <1>5, <1>6, <1>7 DEF IsWithout

LEMMA MoveChain ==
  ASSUME Lists, NEW g \in Groups, NEW i, IsFirstFull(g, i),
         MoveToBack(g, Chain(g)[i], Ahead(g, i)),
         used' = used, passed' \in [Groups -> [Users -> Nat]]
  PROVE  /\ Lists'
         /\ \A h \in Groups \ {g} : Chain(h)' = Chain(h)
         /\ Chain(g)' = IF i # Len(Chain(g)) /\ Reaches(g)
                        THEN Append(Without(Chain(g), i), Chain(g)[i])
                        ELSE Without(Chain(g), i)
<1>1. PICK c : c = [h \in Groups |-> Chain(h)]
  OBVIOUS
<1>2. ASSUME NEW h \in Groups
      PROVE  /\ c[h] = Chain(h) /\ c[h] \in Seq(1 .. used) /\ Len(c[h]) \in Nat
             /\ \A k \in 1 .. Len(c[h]) :
                  /\ c[h][k] \in 1 .. used /\ c[h][k] # Null
                  /\ node[c[h][k]].next = IF k = Len(c[h]) THEN Null ELSE c[h][k + 1]
             /\ c[h] = <<>> <=> Len(c[h]) = 0
             /\ Len(c[h]) = 0 <=> hash[h].first = Null
             /\ Len(c[h]) # 0 => hash[h].first = c[h][1]
  <2>1. c[h] = Chain(h) /\ c[h] \in Seq(1 .. used)
    BY <1>1, ChainFacts
  <2>2. c[h] = <<>> <=> Len(c[h]) = 0
    BY <2>1
  <2>. QED BY <2>1, <2>2, ChainFacts
<1>3. \A h, k \in Groups : \A a \in 1 .. Len(c[h]), b \in 1 .. Len(c[k]) :
         c[h][a] = c[k][b] => h = k /\ a = b
  <2>. SUFFICES ASSUME NEW h \in Groups, NEW k \in Groups
                PROVE  \A a \in 1 .. Len(c[h]), b \in 1 .. Len(c[k]) :
                          c[h][a] = c[k][b] => h = k /\ a = b
    OBVIOUS
  <2>1. c[h] = Chain(h) /\ c[k] = Chain(k)
    BY <1>2
  <2>. QED BY <2>1 DEF Lists, Apart
<1>4. \A h, k \in Groups : \A a \in 1 .. Len(c[k]) :
         c[k][a] = hash[h].last => k = h /\ a = Len(c[k])
  BY <1>2 DEF Lists, Ended
<1>5. PICK L \in Nat : L = Len(c[g])
  BY <1>2
<1>6. i \in 1 .. L
  BY <1>2, <1>5 DEF IsFirstFull
<1>7. PICK n \in 1 .. used : n = c[g][i] /\ n = Chain(g)[i] /\ n # Null
  BY <1>2, <1>5, <1>6
<1>8. /\ node[n].next = Null <=> i = L
      /\ i # L => i + 1 \in 1 .. L /\ node[n].next = c[g][i + 1]
  <2>1. i # L => i + 1 \in 1 .. L
    BY <1>6
  <2>. QED BY <1>2, <1>5, <1>6, <1>7, <2>1
<1>9. \A k \in 1 .. L : c[g][k] = Ahead(g, i) <=> k = i - 1
  <2>1. CASE i = 1
    BY <1>2, <1>5, <2>1 DEF Ahead
  <2>2. CASE i # 1
    <3>1. i - 1 \in 1 .. L /\ Ahead(g, i) = c[g][i - 1]
      BY <1>2, <1>6, <2>2 DEF Ahead
    <3>. QED BY <1>3, <1>5, <3>1
  <2>. QED BY <2>1, <2>2
<1>10. \A h \in Groups \ {g} : \A k \in 1 .. Len(c[h]) : c[h][k] # n /\ c[h][k] # Ahead(g, i)
  <2>. SUFFICES ASSUME NEW h \in Groups \ {g}, NEW k \in 1 .. Len(c[h])
                PROVE  c[h][k] # n /\ c[h][k] # Ahead(g, i)
    OBVIOUS
  <2>1. c[h][k] # n /\ c[h][k] # Null
    BY <1>2, <1>3, <1>5, <1>6, <1>7
  <2>2. CASE i = 1
    BY <2>1, <2>2 DEF Ahead
  <2>3. CASE i # 1
    <3>1. i - 1 \in 1 .. L /\ Ahead(g, i) = c[g][i - 1]
      BY <1>2, <1>6, <2>3 DEF Ahead
    <3>. QED BY <1>3, <1>5, <2>1, <3>1
  <2>. QED BY <2>2, <2>3
<1>11. /\ TypeLists'
       /\ \A m \in 1 .. used :
            /\ node'[m].key = node[m].key
            /\ node'[m].next = IF m = n THEN Null ELSE IF m = Ahead(g, i) THEN node[n].next
                               ELSE IF i # L /\ m = hash[g].last THEN n ELSE node[m].next
       /\ \A h \in Groups \ {g} : hash'[h] = hash[h]
       /\ hash'[g].first = IF i = 1 THEN node[n].next ELSE hash[g].first
       /\ hash'[g].last = IF i = L THEN hash[g].last ELSE n
  <2>1. /\ TypeLists'
        /\ \A m \in 1 .. used :
             /\ node'[m].key = node[m].key
             /\ node'[m].next =
                   IF m = Chain(g)[i] THEN Null
                   ELSE IF m = Ahead(g, i) THEN node[Chain(g)[i]].next
                   ELSE IF node[Chain(g)[i]].next # Null /\ m = hash[g].last THEN Chain(g)[i]
                   ELSE node[m].next
        /\ \A h \in Groups \ {g} : hash'[h] = hash[h]
        /\ hash'[g].first = IF i = 1 THEN node[Chain(g)[i]].next ELSE hash[g].first
        /\ hash'[g].last = IF node[Chain(g)[i]].next = Null THEN hash[g].last
                            ELSE Chain(g)[i]
    BY MoveNode
  <2>2. Chain(g)[i] = n
    BY <1>7
  <2>. QED BY <1>8, <2>1, <2>2
<1>12. IsWithout(1 .. used, c[g], i)
  <2>1. PICK s : s = c[g]
    OBVIOUS
  <2>2. s \in Seq(1 .. used) /\ i \in 1 .. Len(s) /\ Len(s) = L
    BY <1>2, <1>5, <1>6, <2>1
  <2>3. IsWithout(1 .. used, s, i)
    BY <2>2, WithoutFacts, Zenon
  <2>. QED BY <2>1, <2>3
<1>13. PICK w \in Seq(1 .. used) : w = Without(c[g], i)
  BY <1>12 DEF IsWithout
<1>14. Len(w) = L - 1 /\ (w = <<>> <=> L = 1)
  BY <1>5, <1>12, <1>13 DEF IsWithout
<1>15. \A k \in 1 .. L - 1 : /\ w[k] = c[g][Origin(i, k)]
                             /\ Origin(i, k) \in 1 .. L /\ Origin(i, k) # i
                             /\ Origin(i, k) = L => k = L - 1
  BY <1>5, <1>12, <1>13 DEF IsWithout
<1>16. \A k, l \in 1 .. L - 1 : Origin(i, k) = Origin(i, l) => k = l
  BY <1>5, <1>12 DEF IsWithout
<1>17. Reaches(g) <=> c[g][L] = hash[g].last
  BY <1>2, <1>5, <1>6 DEF Reaches
<1>18. PICK e : e = IF i # L /\ Reaches(g) THEN n ELSE Null
  OBVIOUS
<1>19. \A k \in 1 .. L - 1 : node'[w[k]].next = IF k = L - 1 THEN e ELSE w[k + 1]
  <2>. SUFFICES ASSUME NEW k \in 1 .. L - 1
                PROVE  node'[w[k]].next = IF k = L - 1 THEN e ELSE w[k + 1]
    OBVIOUS
  <2>1. PICK j \in 1 .. L : j = Origin(i, k) /\ j # i /\ w[k] = c[g][j]
    BY <1>14, <1>15
  <2>2. c[g][j] # n /\ c[g][j] \in 1 .. used
    BY <1>2, <1>3, <1>5, <1>6, <1>7, <2>1
  <2>3. k # L - 1 => k + 1 \in 1 .. L - 1 /\ w[k + 1] = c[g][Origin(i, k + 1)]
    BY <1>14, <1>15
  <2>4. CASE j = i - 1
    <3>1. node'[w[k]].next = node[n].next
      BY <1>9, <1>11, <2>1, <2>2, <2>4
    <3>2. k = i - 1 /\ k < i /\ (k = L - 1 <=> i = L)
      BY <1>6, <2>1, <2>4 DEF Origin
    <3>3. k # L - 1 => Origin(i, k + 1) = i + 1
      BY <3>2, <1>6 DEF Origin
    <3>. QED BY <1>8, <1>18, <2>3, <3>1, <3>2, <3>3
  <2>5. CASE j # i - 1
    <3>1. node'[w[k]].next = IF i # L /\ c[g][j] = hash[g].last THEN n ELSE node[c[g][j]].next
      BY <1>9, <1>11, <2>1, <2>2, <2>5
    <3>2. CASE j = L
      <4>1. k = L - 1 /\ i # L
        BY <1>14, <1>15, <2>1, <3>2
      <4>2. node[c[g][j]].next = Null
        BY <1>2, <1>5, <3>2
      <4>. QED BY <1>17, <1>18, <3>1, <3>2, <4>1, <4>2
    <3>3. CASE j # L
      <4>1. c[g][j] # hash[g].last
        BY <1>4, <1>5, <3>3
      <4>2. node[c[g][j]].next = c[g][j + 1]
        BY <1>2, <1>5, <3>3
      <4>3. k # L - 1 /\ Origin(i, k + 1) = j + 1
        BY <1>5, <1>6, <2>1, <2>5, <3>3 DEF Origin
      <4>. QED BY <2>3, <3>1, <4>1, <4>2, <4>3
    <3>. QED BY <3>2, <3>3
  <2>. QED BY <2>4, <2>5
<1>20. hash'[g].first = IF w = <<>> THEN Null ELSE w[1]
  <2>1. CASE L = 1
    BY <1>6, <1>8, <1>11, <1>14, <1>15, <2>1
  <2>2. CASE L # 1
    <3>1. 1 \in 1 .. L - 1 /\ w # <<>>
      BY <1>6, <1>14, <1>15, <2>2
    <3>2. CASE i = 1
      <4>1. Origin(i, 1) = 2 /\ i # L
        BY <2>2, <3>2 DEF Origin
      <4>2. w[1] = c[g][2] /\ node[n].next = c[g][2]
        <5>1. w[1] = c[g][Origin(i, 1)]
          BY <1>15, <3>1
        <5>2. node[n].next = c[g][i + 1] /\ i + 1 = 2
          BY <1>8, <3>2, <4>1
        <5>. QED BY <4>1, <5>1, <5>2
      <4>. QED BY <1>11, <3>1, <3>2, <4>2
    <3>3. CASE i # 1
      <4>1. Origin(i, 1) = 1
        BY <1>6, <3>3 DEF Origin
      <4>2. w[1] = c[g][1] /\ hash[g].first = c[g][1]
        BY <1>2, <1>5, <1>6, <1>14, <1>15, <3>1, <4>1
      <4>. QED BY <1>11, <3>1, <3>3, <4>2
    <3>. QED BY <3>2, <3>3
  <2>. QED BY <2>1, <2>2
<1>21. PICK T : T = [h \in Groups |-> IF h # g THEN c[h]
                                      ELSE IF e = n THEN Append(w, n) ELSE w]
  OBVIOUS
<1>22. /\ \A h \in Groups \ {g} : T[h] = c[h]
       /\ T[g] = IF e = n THEN Append(w, n) ELSE w
       /\ e = n <=> i # L /\ Reaches(g)
  BY <1>7, <1>18, <1>21
<1>23. ASSUME NEW h \in Groups \ {g} PROVE T[h] \in Seq(1 .. used') /\ IsWalk(h, T[h])'
  <2>1. \A k \in 1 .. Len(c[h]) : node'[c[h][k]].next = node[c[h][k]].next
    <3>1. \A k \in 1 .. Len(c[h]) : /\ c[h][k] \in 1 .. used /\ c[h][k] # hash[g].last
                                     /\ c[h][k] # n /\ c[h][k] # Ahead(g, i)
      BY <1>2, <1>4, <1>10
    <3>. QED BY <1>11, <3>1
  <2>2. T[h] = c[h] /\ hash'[h] = hash[h] /\ T[h] \in Seq(1 .. used')
    BY <1>2, <1>11, <1>22
  <2>3. hash[h].first = IF c[h] = <<>> THEN Null ELSE c[h][1]
    BY <1>2
  <2>4. \A k \in 1 .. Len(c[h]) : node'[c[h][k]].next = IF k = Len(c[h]) THEN Null ELSE c[h][k + 1]
    BY <1>2, <2>1
  <2>. QED BY <2>2, <2>3, <2>4 DEF IsWalk
<1>24. T[g] \in Seq(1 .. used') /\ IsWalk(g, T[g])'
  <2>1. CASE e # n
    <3>1. T[g] = w /\ e = Null
      BY <1>18, <1>22, <2>1
    <3>. QED BY <1>14, <1>15, <1>19, <1>20, <3>1 DEF IsWalk
  <2>2. CASE e = n
    <3>1. T[g] = Append(w, n) /\ i # L
      BY <1>22, <2>2
    <3>2. /\ T[g] \in Seq(1 .. used) /\ Len(T[g]) = L
          /\ T[g][L] = n /\ T[g] # <<>>
          /\ \A k \in 1 .. L - 1 : T[g][k] = w[k]
          /\ \A k \in 1 .. L : k = L \/ k \in 1 .. L - 1
      <4>1. /\ T[g] \in Seq(1 .. used) /\ Len(T[g]) = Len(w) + 1
            /\ T[g][Len(w) + 1] = n /\ T[g] # <<>>
            /\ \A k \in 1 .. Len(w) : T[g][k] = w[k]
        BY <1>14, <1>15, <3>1, AppendFacts
      <4>2. Len(w) = L - 1 /\ Len(w) + 1 = L
        BY <1>14, <1>15
      <4>3. \A k \in 1 .. L : k = L \/ k \in 1 .. L - 1
        OBVIOUS
      <4>. QED BY <4>1, <4>2, <4>3
    <3>3. w # <<>> /\ 1 \in 1 .. L - 1
      BY <1>6, <1>14, <1>15, <3>1
    <3>4. node'[n].next = Null
      BY <1>11
    <3>5. ASSUME NEW k \in 1 .. L
          PROVE  node'[T[g][k]].next = IF k = L THEN Null ELSE T[g][k + 1]
      <4>1. CASE k = L
        BY <3>2, <3>4, <4>1
      <4>2. CASE k \in 1 .. L - 1 /\ k = L - 1
        <5>1. T[g][k] = w[k] /\ k + 1 = L /\ k # L
          BY <3>2, <4>2
        <5>. QED BY <1>19, <2>2, <3>2, <4>2, <5>1
      <4>3. CASE k \in 1 .. L - 1 /\ k # L - 1
        <5>1. T[g][k] = w[k] /\ k + 1 \in 1 .. L - 1 /\ k # L
          BY <3>2, <4>3
        <5>2. T[g][k + 1] = w[k + 1]
          BY <3>2, <5>1
        <5>. QED BY <1>19, <4>3, <5>1, <5>2
      <4>. QED BY <3>2, <4>1, <4>2, <4>3
    <3>6. hash'[g].first = T[g][1]
      BY <1>20, <3>2, <3>3
    <3>. QED BY <3>2, <3>5, <3>6 DEF IsWalk
  <2>. QED BY <2>1, <2>2
\* Where a node of the new chains was.
<1>25. ASSUME NEW h \in Groups, NEW k \in 1 .. Len(T[h])
       PROVE  \/ h # g /\ k \in 1 .. Len(c[h]) /\ T[h][k] = c[h][k] /\ T[h] = c[h]
              \/ h = g /\ k \in 1 .. L - 1 /\ T[h][k] = c[g][Origin(i, k)]
              \/ h = g /\ k = L /\ k = Len(T[g]) /\ T[h][k] = c[g][i] /\ e = n
  <2>1. CASE h # g
    BY <1>22, <1>25, <2>1
  <2>2. CASE h = g /\ e # n
    BY <1>14, <1>15, <1>22, <1>25, <2>2
  <2>3. CASE h = g /\ e = n
    <3>1. T[g] = Append(w, n)
      BY <1>22, <2>3
    <3>2. /\ Len(T[g]) = Len(w) + 1 /\ T[g][Len(w) + 1] = n
          /\ \A a \in 1 .. Len(w) : T[g][a] = w[a]
          /\ \A a \in 1 .. Len(w) + 1 : a = Len(w) + 1 \/ a \in 1 .. Len(w)
      BY <3>1, AppendFacts
    <3>3. Len(w) = L - 1 /\ Len(w) + 1 = L
      BY <1>14, <1>15
    <3>. QED BY <1>7, <1>14, <1>15, <2>3, <3>2, <3>3
  <2>. QED BY <2>1, <2>2, <2>3
<1>26. \A h, k \in Groups : \A a \in 1 .. Len(T[h]), b \in 1 .. Len(T[k]) :
          T[h][a] = T[k][b] => h = k /\ a = b
  <2>. SUFFICES ASSUME NEW h \in Groups, NEW k \in Groups, NEW a \in 1 .. Len(T[h]),
                       NEW b \in 1 .. Len(T[k]), T[h][a] = T[k][b]
                PROVE  h = k /\ a = b
    OBVIOUS
  <2>1. \/ h # g /\ a \in 1 .. Len(c[h]) /\ T[h][a] = c[h][a]
        \/ h = g /\ a \in 1 .. L - 1 /\ T[h][a] = c[g][Origin(i, a)]
        \/ h = g /\ a = L /\ T[h][a] = c[g][i]
    BY <1>25
  <2>2. \/ k # g /\ b \in 1 .. Len(c[k]) /\ T[k][b] = c[k][b]
        \/ k = g /\ b \in 1 .. L - 1 /\ T[k][b] = c[g][Origin(i, b)]
        \/ k = g /\ b = L /\ T[k][b] = c[g][i]
    BY <1>25
  <2>3. \A x \in 1 .. L - 1 : Origin(i, x) \in 1 .. Len(c[g]) /\ Origin(i, x) # i
    BY <1>5, <1>14, <1>15
  <2>4. i \in 1 .. Len(c[g])
    BY <1>5, <1>6
  <2>5. CASE h # g \/ k # g
    <3>1. CASE h # g /\ k # g
      BY <1>3, <2>1, <2>2, <3>1
    <3>2. CASE h # g /\ k = g
      BY <1>3, <2>1, <2>2, <2>3, <2>4, <3>2
    <3>3. CASE h = g /\ k # g
      BY <1>3, <2>1, <2>2, <2>3, <2>4, <3>3
    <3>. QED BY <2>5, <3>1, <3>2, <3>3
  <2>6. CASE h = g /\ k = g
    <3>1. \A x, y \in 1 .. Len(c[g]) : c[g][x] = c[g][y] => x = y
      BY <1>3
    <3>2. \/ a \in 1 .. L - 1 /\ T[h][a] = c[g][Origin(i, a)]
          \/ a = L /\ T[h][a] = c[g][i]
      BY <2>1, <2>6
    <3>3. \/ b \in 1 .. L - 1 /\ T[k][b] = c[g][Origin(i, b)]
          \/ b = L /\ T[k][b] = c[g][i]
      BY <2>2, <2>6
    <3>4. CASE a \in 1 .. L - 1 /\ T[h][a] = c[g][Origin(i, a)]
      <4>1. Origin(i, a) \in 1 .. Len(c[g]) /\ Origin(i, a) # i
        BY <2>3, <3>4
      <4>2. b \in 1 .. L - 1 /\ T[k][b] = c[g][Origin(i, b)]
        BY <2>4, <3>1, <3>3, <3>4, <4>1
      <4>3. Origin(i, a) = Origin(i, b)
        BY <2>3, <3>1, <3>4, <4>1, <4>2
      <4>. QED BY <1>16, <2>6, <3>4, <4>2, <4>3
    <3>5. CASE a = L /\ T[h][a] = c[g][i]
      <4>1. ~(b \in 1 .. L - 1 /\ T[k][b] = c[g][Origin(i, b)])
        BY <2>3, <2>4, <3>1, <3>5
      <4>. QED BY <2>6, <3>3, <3>5, <4>1
    <3>. QED BY <3>2, <3>4, <3>5
  <2>. QED BY <2>5, <2>6
<1>27. (\A h \in Groups : Chain(h)' = T[h]) /\ Chained' /\ Apart'
  <2>1. \A h \in Groups : T[h] \in Seq(1 .. used') /\ IsWalk(h, T[h])'
    BY <1>23, <1>24
  <2>. QED BY <1>11, <1>26, <2>1, ListsMade
<1>28. Ended'
  <2>1. ASSUME NEW h \in Groups, NEW k \in Groups, NEW a \in 1 .. Len(T[k]),
               T[k][a] = hash'[h].last
        PROVE  k = h /\ a = Len(T[k])
    <3>0. \A x \in 1 .. L - 1 : Origin(i, x) \in 1 .. Len(c[g]) /\ Origin(i, x) # i
      BY <1>5, <1>14, <1>15
    <3>1. CASE h = g /\ i # L
      <4>1. T[k][a] = c[g][i] /\ i \in 1 .. Len(c[g])
        BY <1>5, <1>6, <1>7, <1>11, <2>1, <3>1
      <4>2. CASE k # g
        <5>1. a \in 1 .. Len(c[k]) /\ T[k][a] = c[k][a]
          BY <1>25, <4>2
        <5>2. \A x \in 1 .. Len(c[k]) : c[k][x] = c[g][i] => k = g
          BY <1>3, <4>1
        <5>. QED BY <4>1, <4>2, <5>1, <5>2
      <4>3. CASE k = g /\ a \in 1 .. L - 1 /\ T[k][a] = c[g][Origin(i, a)]
        BY <1>3, <3>0, <4>1, <4>3
      <4>4. CASE k = g /\ a = L /\ a = Len(T[g]) /\ T[k][a] = c[g][i] /\ e = n
        BY <3>1, <4>4
      <4>. QED BY <1>25, <4>2, <4>3, <4>4
    <3>2. CASE ~(h = g /\ i # L)
      <4>1. T[k][a] = hash[h].last
        BY <1>11, <2>1, <3>2
      <4>2. CASE k # g
        BY <1>4, <1>25, <4>1, <4>2
      <4>3. CASE k = g /\ a \in 1 .. L - 1 /\ T[k][a] = c[g][Origin(i, a)]
        <5>1. h = g /\ Origin(i, a) = L
          BY <1>4, <1>5, <3>0, <4>1, <4>3
        <5>2. i = L
          BY <3>2, <5>1
        <5>. QED BY <3>0, <4>3, <5>1, <5>2
      <4>4. CASE k = g /\ a = L /\ a = Len(T[g]) /\ T[k][a] = c[g][i] /\ e = n
        <5>1. h = g /\ i = L
          BY <1>4, <1>5, <1>6, <4>1, <4>4
        <5>. QED BY <3>2, <4>4, <5>1
      <4>. QED BY <1>25, <4>2, <4>3, <4>4
    <3>. QED BY <3>1, <3>2
  <2>2. \A h \in Groups : hash'[h].first # Null => hash'[h].last # Null
    <3>1. hash[g].first # Null
      BY <1>2, <1>5, <1>6
    <3>2. \A h \in Groups : hash[h].first # Null => hash[h].last # Null
      BY DEF Lists, Ended
    <3>3. hash'[g].last # Null
      BY <1>7, <1>11, <3>1, <3>2
    <3>. QED BY <1>11, <3>2, <3>3
  <2>. QED BY <1>27, <2>1, <2>2 DEF Ended
<1>29. Keyed'
  <2>. SUFFICES ASSUME NEW h \in Groups, NEW a \in 1 .. Len(Chain(h)'),
                       NEW b \in 1 .. Len(Chain(h)'),
                       node'[Chain(h)'[a]].key = node'[Chain(h)'[b]].key
                PROVE  a = b
    BY DEF Keyed
  <2>0. /\ a \in 1 .. Len(T[h]) /\ b \in 1 .. Len(T[h])
        /\ node'[T[h][a]].key = node'[T[h][b]].key
    BY <1>27
  <2>1. ASSUME NEW k \in 1 .. Len(T[h])
        PROVE  \E x \in 1 .. Len(c[h]) : T[h][k] = c[h][x]
    <3>1. \A x \in 1 .. L - 1 : Origin(i, x) \in 1 .. Len(c[g])
      BY <1>5, <1>14, <1>15
    <3>2. i \in 1 .. Len(c[g])
      BY <1>5, <1>6
    <3>3. CASE h # g
      BY <1>25, <3>3
    <3>4. CASE h = g
      <4>1. \/ k \in 1 .. L - 1 /\ T[h][k] = c[g][Origin(i, k)]
            \/ T[h][k] = c[g][i]
        BY <1>25, <3>4
      <4>. QED BY <3>1, <3>2, <3>4, <4>1
    <3>. QED BY <3>3, <3>4
  <2>2. PICK x \in 1 .. Len(c[h]) : T[h][a] = c[h][x]
    BY <2>0, <2>1
  <2>3. PICK y \in 1 .. Len(c[h]) : T[h][b] = c[h][y]
    BY <2>0, <2>1
  <2>4. \A k, l \in 1 .. Len(c[h]) : node[c[h][k]].key = node[c[h][l]].key => k = l
    <3>1. c[h] = Chain(h)
      BY <1>2
    <3>. QED BY <3>1 DEF Lists, Keyed
  <2>5. node'[c[h][x]].key = node[c[h][x]].key /\ node'[c[h][y]].key = node[c[h][y]].key
    BY <1>2, <1>11
  <2>6. T[h][a] = T[h][b]
    BY <2>0, <2>2, <2>3, <2>4, <2>5
  <2>. QED BY <1>26, <2>0, <2>6
<1>30. Lists'
  BY <1>11, <1>27, <1>28, <1>29 DEF Lists
<1>31. c[g] = Chain(g) /\ \A h \in Groups \ {g} : T[h] = Chain(h)
  BY <1>2, <1>22
<1>32. Chain(g)' = IF i # L /\ Reaches(g) THEN Append(Without(Chain(g), i), Chain(g)[i])
                   ELSE Without(Chain(g), i)
  BY <1>7, <1>13, <1>22, <1>27, <1>31
<1>. QED BY <1>5, <1>27, <1>30, <1>31, <1>32

(***************************************************************************)
(* Where a request is.  What a thread has in hand, what is in a queue and  *)
(* what is in a subqueue agree with the state of the request, no request   *)
(* is in two of these places, and one that waits or is active is in one.   *)
(***************************************************************************)
Idle == {"take", "active", "done"}

Hands == \A t \in Reqs :
  /\ pc[t] \in Before => state[cur[t]] = "queued" /\ pc[cur[t]] # "queue"
  /\ pc[t] \in During => state[cur[t]] = "active"
HeldOnce == \A s, t \in Reqs : cur[s] # NoReq /\ cur[s] = cur[t] => s = t
QueueSound == \A g \in Groups : \A k \in 1 .. Len(reqQ[g]) :
  /\ state[reqQ[g][k]] = "queued" /\ PriOf[reqQ[g][k]] = g
  /\ pc[reqQ[g][k]] # "queue" /\ \A t \in Reqs : cur[t] # reqQ[g][k]
QueueOnce == \A g \in Groups : \A k, l \in 1 .. Len(reqQ[g]) : reqQ[g][k] = reqQ[g][l] => k = l
SubSound == \A m \in 1 .. used : \A k \in 1 .. Len(node[m].sub) :
  /\ state[node[m].sub[k]] = "active" /\ UserOf[node[m].sub[k]] = node[m].key
  /\ \A t \in Reqs : cur[t] # node[m].sub[k]
SubOnce == \A m, n \in 1 .. used :
  \A k \in 1 .. Len(node[m].sub), l \in 1 .. Len(node[n].sub) :
     node[m].sub[k] = node[n].sub[l] => m = n /\ k = l
IsHeld(r)  == \E t \in Reqs : cur[t] = r
InQueue(r) == \E k \in 1 .. Len(reqQ[PriOf[r]]) : reqQ[PriOf[r]][k] = r
InSub(r)   == \E m \in 1 .. used : \E k \in 1 .. Len(node[m].sub) : node[m].sub[k] = r
Somewhere == \A r \in Reqs :
  /\ state[r] = "queued" /\ pc[r] # "queue" => IsHeld(r) \/ InQueue(r)
  /\ state[r] = "active" => IsHeld(r) \/ InSub(r)
Own == \A r \in Reqs : /\ state[r] = "arrived" <=> pc[r] \in {"arrive", "refuse"}
                       /\ pc[r] = "queue" => state[r] = "queued"

Placed == /\ Hands /\ HeldOnce /\ QueueSound /\ QueueOnce
          /\ SubSound /\ SubOnce /\ Somewhere /\ Own

PlaceInv == Lists /\ TypeThreads /\ Placed

LEMMA StepSets == /\ InHand = Before \cup During /\ Before \cap During = {}
                  /\ Idle \cap InHand = {}
                  /\ Steps = {"arrive", "refuse", "queue"} \cup Idle \cup Before \cup During
BY DEF InHand, Before, During, Idle, Steps

LEMMA TailFacts ==
  ASSUME NEW S, NEW s \in Seq(S), s # <<>>
  PROVE  /\ Head(s) \in S /\ Head(s) = s[1] /\ 1 \in 1 .. Len(s)
         /\ Tail(s) \in Seq(S) /\ Len(s) \in Nat /\ Len(Tail(s)) = Len(s) - 1
         /\ \A k \in 1 .. Len(s) - 1 : Tail(s)[k] = s[k + 1] /\ k + 1 \in 1 .. Len(s)
         /\ \A k \in 1 .. Len(s) : k # 1 => k - 1 \in 1 .. Len(s) - 1
<1>1. /\ Head(s) \in S /\ Head(s) = s[1] /\ Tail(s) \in Seq(S)
      /\ Len(s) \in Nat /\ Len(s) # 0 /\ Len(Tail(s)) = Len(s) - 1
  BY EmptySeq
<1>2. \A k \in 1 .. Len(s) - 1 : Tail(s)[k] = s[k + 1]
  OBVIOUS
<1>3. /\ 1 \in 1 .. Len(s)
      /\ \A k \in 1 .. Len(s) - 1 : k + 1 \in 1 .. Len(s)
      /\ \A k \in 1 .. Len(s) : k # 1 => k - 1 \in 1 .. Len(s) - 1
  BY <1>1
<1>. QED BY <1>1, <1>2, <1>3

LEMMA Members ==
  ASSUME PlaceInv
  PROVE  /\ \A g \in Groups : \A k \in 1 .. Len(reqQ[g]) : reqQ[g][k] \in Reqs
         /\ \A m \in 1 .. used : \A k \in 1 .. Len(node[m].sub) : node[m].sub[k] \in Reqs
         /\ \A m \in 1 .. used : node[m].sub \in Seq(Reqs)
         /\ \A t \in Reqs : \/ pc[t] \in InHand /\ cur[t] \in Reqs
                            \/ pc[t] \notin InHand /\ cur[t] = NoReq
         /\ \A t \in Reqs : cur[t] # NoReq =>
              state[cur[t]] \in {"queued", "active"} /\ pc[cur[t]] # "queue"
<1>1. \A g \in Groups : \A k \in 1 .. Len(reqQ[g]) : reqQ[g][k] \in Reqs
  <2>1. \A g \in Groups : reqQ[g] \in Seq(Reqs)
    BY DEF PlaceInv, TypeThreads
  <2>. QED BY <2>1, ElementOfSeq
<1>2. \A m \in 1 .. used : node[m].sub \in Seq(Reqs)
  BY DEF PlaceInv, Lists, TypeLists
<1>3. \A m \in 1 .. used : \A k \in 1 .. Len(node[m].sub) : node[m].sub[k] \in Reqs
  BY <1>2, ElementOfSeq
<1>4. \A t \in Reqs : \/ pc[t] \in InHand /\ cur[t] \in Reqs
                      \/ pc[t] \notin InHand /\ cur[t] = NoReq
  <2>1. \A t \in Reqs : cur[t] \in Reqs \cup {NoReq} /\ (pc[t] \in InHand <=> cur[t] # NoReq)
    BY DEF PlaceInv, TypeThreads
  <2>. QED BY <2>1
<1>5. ASSUME NEW t \in Reqs, cur[t] # NoReq
      PROVE  state[cur[t]] \in {"queued", "active"} /\ pc[cur[t]] # "queue"
  <2>1. cur[t] \in Reqs /\ (pc[t] \in Before \/ pc[t] \in During)
    BY <1>4, <1>5, StepSets
  <2>2. CASE pc[t] \in Before
    BY <2>2 DEF PlaceInv, Placed, Hands
  <2>3. CASE pc[t] \in During
    <3>1. state[cur[t]] = "active"
      BY <2>3 DEF PlaceInv, Placed, Hands
    <3>. QED BY <2>1, <3>1 DEF PlaceInv, Placed, Own
  <2>. QED BY <2>1, <2>2, <2>3
<1>. QED BY <1>1, <1>2, <1>3, <1>4, <1>5

\* Steps within a call of a function.
LEMMA Goes ==
  ASSUME PlaceInv, NEW t \in Reqs, pc' \in [Reqs -> Steps],
         UNCHANGED <<cur, state, reqQ, node, used>>,
         \A u \in Reqs \ {t} : pc'[u] = pc[u],
         \/ pc[t] \in Before /\ pc'[t] \in Before
         \/ pc[t] \in During /\ pc'[t] \in During
         \/ pc[t] \in Idle /\ pc'[t] \in Idle
  PROVE  Placed' /\ (pc'[t] \in InHand <=> pc[t] \in InHand)
<1>1. pc[t] \in InHand <=> pc'[t] \in InHand
  BY StepSets
<1>2. pc'[t] \notin {"arrive", "refuse", "queue"} /\ pc[t] \notin {"arrive", "refuse", "queue"}
  BY DEF Before, During, Idle
<1>3. Hands'
  <2>. SUFFICES ASSUME NEW u \in Reqs
                PROVE  /\ pc'[u] \in Before => state[cur[u]] = "queued" /\ pc'[cur[u]] # "queue"
                       /\ pc'[u] \in During => state[cur[u]] = "active"
    BY DEF Hands
  <2>1. /\ pc[u] \in Before => state[cur[u]] = "queued" /\ pc[cur[u]] # "queue"
        /\ pc[u] \in During => state[cur[u]] = "active"
    BY DEF PlaceInv, Placed, Hands
  <2>2. /\ pc'[u] \in Before <=> pc[u] \in Before
        /\ pc'[u] \in During <=> pc[u] \in During
    BY StepSets
  <2>3. pc[u] \in Before => cur[u] \in Reqs
    BY StepSets, Members
  <2>. QED BY <1>2, <2>1, <2>2, <2>3
<1>4. QueueSound'
  BY <1>2, Members DEF PlaceInv, Placed, QueueSound
<1>5. HeldOnce' /\ QueueOnce' /\ SubSound' /\ SubOnce'
  <2>1. HeldOnce' /\ QueueOnce'
    BY DEF PlaceInv, Placed, HeldOnce, QueueOnce
  <2>2. SubSound'
    BY DEF PlaceInv, Placed, SubSound
  <2>3. SubOnce'
    BY DEF PlaceInv, Placed, SubOnce
  <2>. QED BY <2>1, <2>2, <2>3
<1>6. Somewhere'
  BY <1>2 DEF PlaceInv, Placed, Somewhere, IsHeld, InQueue, InSub
<1>7. Own'
  BY <1>2 DEF PlaceInv, Placed, Own
<1>. QED BY <1>1, <1>3, <1>4, <1>5, <1>6, <1>7 DEF Placed

LEMMA ArrivePlaced ==
  ASSUME PlaceInv, NEW t \in Reqs, Arrive(t)
  PROVE  TypeThreads' /\ Placed'
<1>1. /\ UNCHANGED <<cur, reqQ, node, used>> /\ UNCHANGED <<isRPC, found, pri, left>>
      /\ pc[t] = "arrive" /\ state[t] = "arrived"
      /\ \/ pc' = [pc EXCEPT ![t] = "refuse"] /\ state' = state
         \/ pc' = [pc EXCEPT ![t] = "queue"] /\ state' = [state EXCEPT ![t] = "queued"]
  BY DEF Arrive, Goto, thread, lists, PlaceInv, Placed, Own
<1>2. /\ \A u \in Reqs \ {t} : pc'[u] = pc[u] /\ state'[u] = state[u]
      /\ pc'[t] \in {"refuse", "queue"}
      /\ state'[t] = IF pc'[t] = "refuse" THEN "arrived" ELSE "queued"
  BY <1>1 DEF PlaceInv, TypeThreads
<1>3. TypeThreads'
  <2>1. /\ pc' \in [Reqs -> Steps]
        /\ state' \in [Reqs -> {"arrived", "queued", "active", "freed"}]
    BY <1>1 DEF PlaceInv, TypeThreads, Steps
  <2>2. \A u \in Reqs : pc'[u] \in InHand <=> pc[u] \in InHand
    BY <1>1, <1>2 DEF InHand
  <2>. QED BY <1>1, <2>1, <2>2 DEF PlaceInv, TypeThreads
<1>4. \A u \in Reqs : cur[u] # t
  BY <1>1, Assumed, Members
<1>5. Hands'
  BY <1>1, <1>2, <1>4, StepSets DEF PlaceInv, Placed, Hands, TypeThreads, Before, During
<1>6. QueueSound'
  BY <1>1, <1>2, Members DEF PlaceInv, Placed, QueueSound
<1>7. SubSound'
  <2>. SUFFICES ASSUME NEW m \in 1 .. used, NEW k \in 1 .. Len(node[m].sub)
                PROVE  /\ state'[node[m].sub[k]] = "active"
                       /\ UserOf[node[m].sub[k]] = node[m].key
                       /\ \A u \in Reqs : cur[u] # node[m].sub[k]
    BY <1>1 DEF SubSound
  <2>1. /\ state[node[m].sub[k]] = "active" /\ UserOf[node[m].sub[k]] = node[m].key
        /\ \A u \in Reqs : cur[u] # node[m].sub[k]
    BY DEF PlaceInv, Placed, SubSound
  <2>2. node[m].sub[k] \in Reqs
    BY Members
  <2>. QED BY <1>1, <1>2, <2>1, <2>2
<1>8. HeldOnce' /\ QueueOnce' /\ SubOnce'
  BY <1>1 DEF PlaceInv, Placed, HeldOnce, QueueOnce, SubOnce
<1>9. Somewhere'
  BY <1>1, <1>2 DEF PlaceInv, Placed, Somewhere, IsHeld, InQueue, InSub
<1>10. Own'
  BY <1>1, <1>2 DEF PlaceInv, Placed, Own
<1>. QED BY <1>3, <1>5, <1>6, <1>7, <1>8, <1>9, <1>10 DEF Placed

LEMMA RefusePlaced ==
  ASSUME PlaceInv, NEW t \in Reqs, Refuse(t)
  PROVE  TypeThreads' /\ Placed'
<1>1. /\ UNCHANGED <<cur, reqQ, node, used>> /\ UNCHANGED <<isRPC, found, pri, left>>
      /\ pc[t] = "refuse" /\ state[t] = "arrived"
      /\ pc' = [pc EXCEPT ![t] = "done"] /\ state' = [state EXCEPT ![t] = "freed"]
  BY DEF Refuse, Goto, thread, lists, PlaceInv, Placed, Own
<1>2. /\ \A u \in Reqs \ {t} : pc'[u] = pc[u] /\ state'[u] = state[u]
      /\ pc'[t] = "done" /\ state'[t] = "freed"
  BY <1>1 DEF PlaceInv, TypeThreads
<1>3. TypeThreads'
  <2>1. /\ pc' \in [Reqs -> Steps]
        /\ state' \in [Reqs -> {"arrived", "queued", "active", "freed"}]
    BY <1>1 DEF PlaceInv, TypeThreads, Steps
  <2>2. \A u \in Reqs : pc'[u] \in InHand <=> pc[u] \in InHand
    BY <1>1, <1>2 DEF InHand
  <2>. QED BY <1>1, <2>1, <2>2 DEF PlaceInv, TypeThreads
<1>4. \A u \in Reqs : cur[u] # t
  BY <1>1, Assumed, Members
<1>5. Hands'
  BY <1>1, <1>2, <1>4, StepSets DEF PlaceInv, Placed, Hands, TypeThreads, Before, During
<1>6. QueueSound'
  BY <1>1, <1>2, Members DEF PlaceInv, Placed, QueueSound
<1>7. SubSound'
  BY <1>1, <1>2, Members DEF PlaceInv, Placed, SubSound
<1>8. HeldOnce' /\ QueueOnce' /\ SubOnce'
  BY <1>1 DEF PlaceInv, Placed, HeldOnce, QueueOnce, SubOnce
<1>9. Somewhere'
  BY <1>1, <1>2 DEF PlaceInv, Placed, Somewhere, IsHeld, InQueue, InSub
<1>10. Own'
  BY <1>1, <1>2 DEF PlaceInv, Placed, Own
<1>. QED BY <1>3, <1>5, <1>6, <1>7, <1>8, <1>9, <1>10 DEF Placed

\* A request is put into the queue of its group, by the call that brought it or by a
\* thread that gives it back.
LEMMA QueuePlaced ==
  ASSUME PlaceInv, NEW t \in Reqs, NEW r \in Reqs,
         pc' \in [Reqs -> Steps], \A u \in Reqs \ {t} : pc'[u] = pc[u], pc'[t] \in Idle,
         cur' \in [Reqs -> Reqs \cup {NoReq}],
         \A u \in Reqs \ {t} : cur'[u] = cur[u], cur'[t] = NoReq,
         UNCHANGED <<state, node, used>>,
         reqQ' = [reqQ EXCEPT ![PriOf[r]] = Append(@, r)],
         \/ pc[t] = "queue" /\ r = t
         \/ pc[t] \in Before /\ r = cur[t]
  PROVE  Placed' /\ reqQ' \in [Groups -> Seq(Reqs)]
<1>1. PICK g \in Groups : g = PriOf[r]
  BY Assumed
<1>2. reqQ \in [Groups -> Seq(Reqs)] /\ \A h \in Groups : reqQ[h] \in Seq(Reqs)
  BY DEF PlaceInv, TypeThreads
<1>3. /\ \A h \in Groups \ {g} : reqQ'[h] = reqQ[h]
      /\ reqQ'[g] = Append(reqQ[g], r)
  BY <1>1, <1>2
<1>4. /\ reqQ'[g] \in Seq(Reqs) /\ Len(reqQ[g]) \in Nat
      /\ Len(reqQ'[g]) = Len(reqQ[g]) + 1 /\ reqQ'[g][Len(reqQ[g]) + 1] = r
      /\ \A k \in 1 .. Len(reqQ[g]) : reqQ'[g][k] = reqQ[g][k]
      /\ \A k \in 1 .. Len(reqQ[g]) + 1 : k = Len(reqQ[g]) + 1 \/ k \in 1 .. Len(reqQ[g])
  <2>1. reqQ[g] \in Seq(Reqs)
    BY <1>2
  <2>. QED BY <1>3, <2>1, AppendFacts
<1>5. reqQ' \in [Groups -> Seq(Reqs)]
  BY <1>2, <1>3, <1>4
<1>6. state[r] = "queued"
  BY DEF PlaceInv, Placed, Own, Hands
<1>7. pc'[r] # "queue"
  <2>1. pc'[t] # "queue"
    BY DEF Idle
  <2>2. CASE r = t
    BY <2>1, <2>2
  <2>3. CASE r # t
    <3>1. pc[r] # "queue"
      BY <2>3 DEF PlaceInv, Placed, Hands
    <3>. QED BY <2>3, <3>1
  <2>. QED BY <2>2, <2>3
<1>8. \A u \in Reqs : cur'[u] # r
  <2>1. CASE pc[t] = "queue" /\ r = t
    <3>1. \A u \in Reqs : cur[u] # t
      BY <2>1, Assumed, Members
    <3>. QED BY <2>1, <3>1, Assumed
  <2>2. CASE pc[t] \in Before /\ r = cur[t]
    <3>1. \A u \in Reqs \ {t} : cur[u] # r
      BY <2>2, Assumed DEF PlaceInv, Placed, HeldOnce
    <3>. QED BY <3>1, Assumed
  <2>. QED BY <2>1, <2>2
<1>9. \A h \in Groups : \A k \in 1 .. Len(reqQ[h]) : reqQ[h][k] # r /\ reqQ[h][k] \in Reqs
  <2>. SUFFICES ASSUME NEW h \in Groups, NEW k \in 1 .. Len(reqQ[h])
                PROVE  reqQ[h][k] # r /\ reqQ[h][k] \in Reqs
    OBVIOUS
  <2>1. reqQ[h][k] \in Reqs
    BY <1>2, ElementOfSeq
  <2>2. pc[reqQ[h][k]] # "queue" /\ cur[t] # reqQ[h][k]
    BY DEF PlaceInv, Placed, QueueSound
  <2>. QED BY <2>1, <2>2
<1>10. \A m \in 1 .. used : \A k \in 1 .. Len(node[m].sub) : node[m].sub[k] # r
  BY <1>6 DEF PlaceInv, Placed, SubSound
<1>11. Hands'
  <2>1. pc'[t] \notin Before /\ pc'[t] \notin During /\ pc'[t] # "queue"
    BY DEF Idle, Before, During
  <2>2. ASSUME NEW u \in Reqs \ {t}, cur[u] # NoReq PROVE pc'[cur[u]] # "queue"
    BY <2>1, <2>2, Members
  <2>3. \A u \in Reqs \ {t} : pc[u] \in Before \/ pc[u] \in During => cur[u] # NoReq
    BY StepSets DEF PlaceInv, TypeThreads
  <2>. QED BY <2>1, <2>2, <2>3 DEF PlaceInv, Placed, Hands
<1>12. HeldOnce'
  BY DEF PlaceInv, Placed, HeldOnce
<1>13. QueueSound'
  <2>. SUFFICES ASSUME NEW h \in Groups, NEW k \in 1 .. Len(reqQ'[h])
                PROVE  /\ state[reqQ'[h][k]] = "queued" /\ PriOf[reqQ'[h][k]] = h
                       /\ pc'[reqQ'[h][k]] # "queue"
                       /\ \A u \in Reqs : cur'[u] # reqQ'[h][k]
    BY DEF QueueSound
  <2>1. CASE h = g /\ k = Len(reqQ[g]) + 1
    BY <1>1, <1>4, <1>6, <1>7, <1>8, <2>1
  <2>2. CASE ~(h = g /\ k = Len(reqQ[g]) + 1)
    <3>1. k \in 1 .. Len(reqQ[h]) /\ reqQ'[h][k] = reqQ[h][k] /\ reqQ[h][k] \in Reqs
      BY <1>3, <1>4, <1>9, <2>2
    <3>2. /\ state[reqQ[h][k]] = "queued" /\ PriOf[reqQ[h][k]] = h
          /\ pc[reqQ[h][k]] # "queue" /\ \A u \in Reqs : cur[u] # reqQ[h][k]
      BY <3>1 DEF PlaceInv, Placed, QueueSound
    <3>3. pc'[reqQ[h][k]] # "queue"
      BY <3>1, <3>2 DEF Idle
    <3>4. \A u \in Reqs : cur'[u] # reqQ[h][k]
      BY <3>1, <3>2, Assumed
    <3>. QED BY <3>1, <3>2, <3>3, <3>4
  <2>. QED BY <2>1, <2>2
<1>14. QueueOnce'
  <2>. SUFFICES ASSUME NEW h \in Groups, NEW k \in 1 .. Len(reqQ'[h]),
                       NEW l \in 1 .. Len(reqQ'[h]), reqQ'[h][k] = reqQ'[h][l]
                PROVE  k = l
    BY DEF QueueOnce
  <2>1. \/ h = g /\ k = Len(reqQ[g]) + 1 /\ reqQ'[h][k] = r
        \/ k \in 1 .. Len(reqQ[h]) /\ reqQ'[h][k] = reqQ[h][k]
    BY <1>3, <1>4
  <2>2. \/ h = g /\ l = Len(reqQ[g]) + 1 /\ reqQ'[h][l] = r
        \/ l \in 1 .. Len(reqQ[h]) /\ reqQ'[h][l] = reqQ[h][l]
    BY <1>3, <1>4
  <2>. QED BY <1>9, <2>1, <2>2 DEF PlaceInv, Placed, QueueOnce
<1>15. SubSound'
  <2>. SUFFICES ASSUME NEW m \in 1 .. used, NEW k \in 1 .. Len(node[m].sub)
                PROVE  /\ state[node[m].sub[k]] = "active"
                       /\ UserOf[node[m].sub[k]] = node[m].key
                       /\ \A u \in Reqs : cur'[u] # node[m].sub[k]
    BY DEF SubSound
  <2>1. /\ state[node[m].sub[k]] = "active" /\ UserOf[node[m].sub[k]] = node[m].key
        /\ \A u \in Reqs : cur[u] # node[m].sub[k]
    BY DEF PlaceInv, Placed, SubSound
  <2>2. node[m].sub[k] \in Reqs
    <3>1. node[m].sub \in Seq(Reqs)
      BY DEF PlaceInv, Lists, TypeLists
    <3>. QED BY <3>1, ElementOfSeq
  <2>. QED BY <2>1, <2>2, Assumed
<1>16. SubOnce'
  BY DEF PlaceInv, Placed, SubOnce
<1>17. Somewhere'
  <2>. SUFFICES ASSUME NEW x \in Reqs
                PROVE  /\ state[x] = "queued" /\ pc'[x] # "queue" => IsHeld(x)' \/ InQueue(x)'
                       /\ state[x] = "active" => IsHeld(x)' \/ InSub(x)'
    BY DEF Somewhere
  <2>1. CASE x = r
    <3>1. InQueue(r)'
      <4>1. Len(reqQ[g]) + 1 \in 1 .. Len(reqQ'[g])
        BY <1>4
      <4>. QED BY <1>1, <1>4, <4>1 DEF InQueue
    <3>. QED BY <1>6, <2>1, <3>1
  <2>2. CASE x # r
    <3>1. IsHeld(x) => IsHeld(x)'
      <4>. SUFFICES ASSUME NEW u \in Reqs, cur[u] = x PROVE IsHeld(x)'
        BY DEF IsHeld
      <4>1. u # t
        BY <2>2, StepSets, Assumed DEF PlaceInv, TypeThreads, InHand, Before
      <4>. QED BY <4>1 DEF IsHeld
    <3>2. InQueue(x) => InQueue(x)'
      <4>. SUFFICES ASSUME NEW k \in 1 .. Len(reqQ[PriOf[x]]), reqQ[PriOf[x]][k] = x
                    PROVE  InQueue(x)'
        BY DEF InQueue
      <4>1. PICK h \in Groups : h = PriOf[x]
        BY Assumed
      <4>2. k \in 1 .. Len(reqQ'[h]) /\ reqQ'[h][k] = x
        BY <1>3, <1>4, <4>1
      <4>. QED BY <4>1, <4>2 DEF InQueue
    <3>3. InSub(x) => InSub(x)'
      BY DEF InSub
    <3>4. pc'[x] # "queue" => pc[x] # "queue"
      <4>1. pc[t] = "queue" => x # t
        BY <2>2 DEF Before
      <4>. QED BY <4>1
    <3>. QED BY <3>1, <3>2, <3>3, <3>4 DEF PlaceInv, Placed, Somewhere
  <2>. QED BY <2>1, <2>2
<1>18. Own'
  <2>1. pc[t] \notin {"arrive", "refuse"} /\ pc'[t] \notin {"arrive", "refuse", "queue"}
    BY DEF Idle, Before
  <2>. QED BY <2>1 DEF PlaceInv, Placed, Own
<1>. QED BY <1>5, <1>11, <1>12, <1>13, <1>14, <1>15, <1>16, <1>17, <1>18 DEF Placed

\* A thread takes the first request of a queue into its hands.
LEMMA TakePlaced ==
  ASSUME PlaceInv, NEW t \in Reqs, NEW g \in Groups, reqQ[g] # <<>>, pc[t] \in Idle,
         pc' \in [Reqs -> Steps], \A u \in Reqs \ {t} : pc'[u] = pc[u], pc'[t] \in Before,
         cur' = [cur EXCEPT ![t] = Head(reqQ[g])],
         reqQ' = [reqQ EXCEPT ![g] = Tail(@)],
         UNCHANGED <<state, node, used>>
  PROVE  /\ Placed' /\ reqQ' \in [Groups -> Seq(Reqs)]
         /\ cur' \in [Reqs -> Reqs \cup {NoReq}] /\ cur'[t] # NoReq
         /\ \A u \in Reqs \ {t} : cur'[u] = cur[u]
<1>1. reqQ \in [Groups -> Seq(Reqs)] /\ reqQ[g] \in Seq(Reqs)
  BY DEF PlaceInv, TypeThreads
<1>2. PICK r \in Reqs : r = Head(reqQ[g])
  BY <1>1, TailFacts
<1>3. /\ \A h \in Groups \ {g} : reqQ'[h] = reqQ[h]
      /\ reqQ'[g] = Tail(reqQ[g])
  BY <1>1
<1>4. /\ r = reqQ[g][1] /\ 1 \in 1 .. Len(reqQ[g])
      /\ reqQ'[g] \in Seq(Reqs) /\ Len(reqQ[g]) \in Nat /\ Len(reqQ'[g]) = Len(reqQ[g]) - 1
      /\ \A k \in 1 .. Len(reqQ[g]) - 1 : reqQ'[g][k] = reqQ[g][k + 1] /\ k + 1 \in 1 .. Len(reqQ[g])
      /\ \A k \in 1 .. Len(reqQ[g]) : k # 1 => k - 1 \in 1 .. Len(reqQ[g]) - 1
  BY <1>1, <1>2, <1>3, TailFacts
<1>5. reqQ' \in [Groups -> Seq(Reqs)]
  BY <1>1, <1>3, <1>4
<1>6. /\ cur'[t] = r /\ \A u \in Reqs \ {t} : cur'[u] = cur[u]
      /\ cur' \in [Reqs -> Reqs \cup {NoReq}] /\ r # NoReq
  BY <1>2, Assumed DEF PlaceInv, TypeThreads
<1>7. state[r] = "queued" /\ pc[r] # "queue" /\ \A u \in Reqs : cur[u] # r
  BY <1>4 DEF PlaceInv, Placed, QueueSound
<1>8. pc[t] # "queue" /\ pc'[t] # "queue" /\ cur[t] = NoReq
  BY StepSets, Members DEF Idle, Before
<1>9. \A h \in Groups : \A k \in 1 .. Len(reqQ'[h]) :
         \E l \in 1 .. Len(reqQ[h]) :
            /\ reqQ'[h][k] = reqQ[h][l]
            /\ h # g => l = k
            /\ h = g => l = k + 1 /\ l # 1
  <2>. SUFFICES ASSUME NEW h \in Groups, NEW k \in 1 .. Len(reqQ'[h])
                PROVE  \E l \in 1 .. Len(reqQ[h]) : /\ reqQ'[h][k] = reqQ[h][l]
                                                    /\ h # g => l = k
                                                    /\ h = g => l = k + 1 /\ l # 1
    OBVIOUS
  <2>1. CASE h # g
    BY <1>3, <2>1
  <2>2. CASE h = g
    BY <1>4, <2>2
  <2>. QED BY <2>1, <2>2
<1>10. \A h \in Groups : \A k \in 1 .. Len(reqQ'[h]) : reqQ'[h][k] # r /\ reqQ'[h][k] \in Reqs
  <2>. SUFFICES ASSUME NEW h \in Groups, NEW k \in 1 .. Len(reqQ'[h])
                PROVE  reqQ'[h][k] # r /\ reqQ'[h][k] \in Reqs
    OBVIOUS
  <2>1. PICK l \in 1 .. Len(reqQ[h]) : reqQ'[h][k] = reqQ[h][l] /\ (h = g => l # 1)
    BY <1>9
  <2>2. PriOf[reqQ[h][l]] = h /\ PriOf[r] = g
    BY <1>4 DEF PlaceInv, Placed, QueueSound
  <2>3. h = g => reqQ[h][l] # r
    BY <1>4, <2>1 DEF PlaceInv, Placed, QueueOnce
  <2>. QED BY <2>1, <2>2, <2>3, Members
<1>11. Hands'
  <2>1. ASSUME NEW u \in Reqs \ {t}, cur[u] # NoReq PROVE pc'[cur[u]] # "queue"
    BY <1>8, <2>1, Members
  <2>2. \A u \in Reqs \ {t} : pc[u] \in Before \/ pc[u] \in During => cur[u] # NoReq
    BY StepSets DEF PlaceInv, TypeThreads
  <2>3. pc'[r] # "queue" /\ pc'[t] \notin During
    BY <1>7, <1>8, StepSets
  <2>. QED BY <1>6, <1>7, <2>1, <2>2, <2>3 DEF PlaceInv, Placed, Hands
<1>12. HeldOnce'
  BY <1>6, <1>7 DEF PlaceInv, Placed, HeldOnce
<1>13. QueueSound'
  <2>. SUFFICES ASSUME NEW h \in Groups, NEW k \in 1 .. Len(reqQ'[h])
                PROVE  /\ state[reqQ'[h][k]] = "queued" /\ PriOf[reqQ'[h][k]] = h
                       /\ pc'[reqQ'[h][k]] # "queue"
                       /\ \A u \in Reqs : cur'[u] # reqQ'[h][k]
    BY DEF QueueSound
  <2>1. PICK l \in 1 .. Len(reqQ[h]) : reqQ'[h][k] = reqQ[h][l]
    BY <1>9
  <2>2. /\ state[reqQ[h][l]] = "queued" /\ PriOf[reqQ[h][l]] = h
        /\ pc[reqQ[h][l]] # "queue" /\ \A u \in Reqs : cur[u] # reqQ[h][l]
    BY DEF PlaceInv, Placed, QueueSound
  <2>3. reqQ'[h][k] # r /\ reqQ'[h][k] \in Reqs
    BY <1>10
  <2>. QED BY <1>6, <1>8, <2>1, <2>2, <2>3
<1>14. QueueOnce'
  <2>. SUFFICES ASSUME NEW h \in Groups, NEW k \in 1 .. Len(reqQ'[h]),
                       NEW l \in 1 .. Len(reqQ'[h]), reqQ'[h][k] = reqQ'[h][l]
                PROVE  k = l
    BY DEF QueueOnce
  <2>0. \A m \in 1 .. Len(reqQ'[h]) : \E x \in 1 .. Len(reqQ[h]) :
           /\ reqQ'[h][m] = reqQ[h][x] /\ (h # g => x = m)
           /\ h = g => x = m + 1
    BY <1>9
  <2>1. PICK a \in 1 .. Len(reqQ[h]) : /\ reqQ'[h][k] = reqQ[h][a] /\ (h # g => a = k)
                                       /\ h = g => a = k + 1
    BY <2>0
  <2>2. PICK b \in 1 .. Len(reqQ[h]) : /\ reqQ'[h][l] = reqQ[h][b] /\ (h # g => b = l)
                                       /\ h = g => b = l + 1
    BY <2>0
  <2>3. a = b
    BY <2>1, <2>2 DEF PlaceInv, Placed, QueueOnce
  <2>. QED BY <2>1, <2>2, <2>3
<1>15. SubSound'
  <2>1. \A m \in 1 .. used : \A k \in 1 .. Len(node[m].sub) : node[m].sub[k] # r
    BY <1>7 DEF PlaceInv, Placed, SubSound
  <2>. QED BY <1>6, <2>1 DEF PlaceInv, Placed, SubSound
<1>16. SubOnce'
  BY DEF PlaceInv, Placed, SubOnce
<1>17. Somewhere'
  <2>. SUFFICES ASSUME NEW x \in Reqs
                PROVE  /\ state[x] = "queued" /\ pc'[x] # "queue" => IsHeld(x)' \/ InQueue(x)'
                       /\ state[x] = "active" => IsHeld(x)' \/ InSub(x)'
    BY DEF Somewhere
  <2>1. CASE x = r
    BY <1>6, <2>1 DEF IsHeld
  <2>2. CASE x # r
    <3>1. IsHeld(x) => IsHeld(x)'
      <4>. SUFFICES ASSUME NEW u \in Reqs, cur[u] = x PROVE IsHeld(x)'
        BY DEF IsHeld
      <4>1. u # t
        BY <1>8, Assumed
      <4>. QED BY <1>6, <4>1 DEF IsHeld
    <3>2. InQueue(x) => InQueue(x)'
      <4>. SUFFICES ASSUME NEW k \in 1 .. Len(reqQ[PriOf[x]]), reqQ[PriOf[x]][k] = x
                    PROVE  InQueue(x)'
        BY DEF InQueue
      <4>1. PICK h \in Groups : h = PriOf[x]
        BY Assumed
      <4>2. CASE h # g
        BY <1>3, <4>1, <4>2 DEF InQueue
      <4>3. CASE h = g
        <5>1. k # 1 /\ k \in 1 .. Len(reqQ[g])
          BY <1>4, <2>2, <4>1, <4>3
        <5>2. k - 1 \in 1 .. Len(reqQ'[g]) /\ reqQ'[g][k - 1] = reqQ[g][(k - 1) + 1]
          BY <1>4, <5>1
        <5>3. (k - 1) + 1 = k
          BY <5>1
        <5>4. reqQ'[g][k - 1] = x
          BY <4>1, <4>3, <5>2, <5>3
        <5>. QED BY <4>1, <4>3, <5>2, <5>4 DEF InQueue
      <4>. QED BY <4>2, <4>3
    <3>3. InSub(x) => InSub(x)'
      BY DEF InSub
    <3>4. pc'[x] # "queue" => pc[x] # "queue"
      BY <1>8
    <3>. QED BY <3>1, <3>2, <3>3, <3>4 DEF PlaceInv, Placed, Somewhere
  <2>. QED BY <2>1, <2>2
<1>18. Own'
  <2>1. pc[t] \notin {"arrive", "refuse"} /\ pc'[t] \notin {"arrive", "refuse", "queue"}
    BY DEF Idle, Before
  <2>. QED BY <2>1 DEF PlaceInv, Placed, Own
<1>. QED BY <1>5, <1>6, <1>11, <1>12, <1>13, <1>14, <1>15, <1>16, <1>17, <1>18 DEF Placed

\* The request in the hands of a thread becomes active, or is freed.
LEMMA StatePlaced ==
  ASSUME PlaceInv, NEW t \in Reqs, NEW r \in Reqs, r = cur[t],
         pc' \in [Reqs -> Steps], \A u \in Reqs \ {t} : pc'[u] = pc[u],
         cur' \in [Reqs -> Reqs \cup {NoReq}], \A u \in Reqs \ {t} : cur'[u] = cur[u],
         \A u \in Reqs \ {r} : state'[u] = state[u],
         UNCHANGED <<reqQ, node, used>>,
         \/ state'[r] = "active" /\ pc'[t] \in During /\ cur'[t] = r /\ pc[t] \in Before
         \/ state'[r] = "freed" /\ pc'[t] \in Idle /\ cur'[t] = NoReq /\ pc[t] \in During
  PROVE  Placed'
<1>1. state[r] \in {"queued", "active"} /\ pc[r] # "queue" /\ r # NoReq
  BY Assumed, Members
<1>2. \A u \in Reqs \ {t} : cur[u] # r
  BY <1>1 DEF PlaceInv, Placed, HeldOnce
<1>3. /\ pc[t] \notin {"arrive", "refuse", "queue"}
      /\ pc'[t] \notin {"arrive", "refuse", "queue"}
  BY DEF Before, During, Idle
<1>4. pc'[r] # "queue" /\ pc'[r] \notin {"arrive", "refuse"}
  <2>1. pc[r] \notin {"arrive", "refuse"}
    BY <1>1 DEF PlaceInv, Placed, Own
  <2>. QED BY <1>1, <1>3, <2>1
<1>5. Hands'
  <2>1. ASSUME NEW u \in Reqs \ {t}, cur[u] # NoReq
        PROVE  pc'[cur[u]] # "queue" /\ state'[cur[u]] = state[cur[u]]
    BY <1>2, <1>3, <2>1, Members
  <2>2. \A u \in Reqs \ {t} : pc[u] \in Before \/ pc[u] \in During => cur[u] # NoReq
    BY StepSets DEF PlaceInv, TypeThreads
  <2>3. pc'[t] \notin Before
    BY StepSets
  <2>4. pc'[t] \in During => cur'[t] = r /\ state'[r] = "active"
    BY StepSets
  <2>. QED BY <2>1, <2>2, <2>3, <2>4 DEF PlaceInv, Placed, Hands
<1>6. HeldOnce'
  BY <1>1, <1>2 DEF PlaceInv, Placed, HeldOnce
<1>7. \A u \in Reqs : cur'[u] # NoReq => cur'[u] = cur[u]
  OBVIOUS
<1>8. QueueSound'
  <2>. SUFFICES ASSUME NEW h \in Groups, NEW k \in 1 .. Len(reqQ[h])
                PROVE  /\ state'[reqQ[h][k]] = "queued" /\ PriOf[reqQ[h][k]] = h
                       /\ pc'[reqQ[h][k]] # "queue"
                       /\ \A u \in Reqs : cur'[u] # reqQ[h][k]
    BY DEF QueueSound
  <2>1. /\ state[reqQ[h][k]] = "queued" /\ PriOf[reqQ[h][k]] = h
        /\ pc[reqQ[h][k]] # "queue" /\ \A u \in Reqs : cur[u] # reqQ[h][k]
    BY DEF PlaceInv, Placed, QueueSound
  <2>2. reqQ[h][k] \in Reqs /\ reqQ[h][k] # r
    BY <2>1, Members
  <2>. QED BY <1>3, <1>7, <2>1, <2>2, Assumed
<1>9. SubSound'
  <2>. SUFFICES ASSUME NEW m \in 1 .. used, NEW k \in 1 .. Len(node[m].sub)
                PROVE  /\ state'[node[m].sub[k]] = "active"
                       /\ UserOf[node[m].sub[k]] = node[m].key
                       /\ \A u \in Reqs : cur'[u] # node[m].sub[k]
    BY DEF SubSound
  <2>1. /\ state[node[m].sub[k]] = "active" /\ UserOf[node[m].sub[k]] = node[m].key
        /\ \A u \in Reqs : cur[u] # node[m].sub[k]
    BY DEF PlaceInv, Placed, SubSound
  <2>2. node[m].sub[k] \in Reqs /\ node[m].sub[k] # r
    BY <2>1, Members
  <2>. QED BY <1>7, <2>1, <2>2, Assumed
<1>10. QueueOnce' /\ SubOnce'
  BY DEF PlaceInv, Placed, QueueOnce, SubOnce
<1>11. Somewhere'
  <2>. SUFFICES ASSUME NEW x \in Reqs
                PROVE  /\ state'[x] = "queued" /\ pc'[x] # "queue" => IsHeld(x)' \/ InQueue(x)'
                       /\ state'[x] = "active" => IsHeld(x)' \/ InSub(x)'
    BY DEF Somewhere
  <2>1. CASE x = r
    BY <2>1 DEF IsHeld
  <2>2. CASE x # r
    <3>1. IsHeld(x) => IsHeld(x)'
      <4>. SUFFICES ASSUME NEW u \in Reqs, cur[u] = x PROVE IsHeld(x)'
        BY DEF IsHeld
      <4>1. u # t
        BY <2>2
      <4>. QED BY <4>1 DEF IsHeld
    <3>2. (InQueue(x) => InQueue(x)') /\ (InSub(x) => InSub(x)')
      BY DEF InQueue, InSub
    <3>3. pc'[x] # "queue" => pc[x] # "queue"
      BY <1>3
    <3>4. state'[x] = state[x]
      BY <2>2
    <3>. QED BY <3>1, <3>2, <3>3, <3>4 DEF PlaceInv, Placed, Somewhere
  <2>. QED BY <2>1, <2>2
<1>12. Own'
  BY <1>3, <1>4 DEF PlaceInv, Placed, Own
<1>. QED BY <1>5, <1>6, <1>8, <1>9, <1>10, <1>11, <1>12 DEF Placed

\* The request in the hands of a thread is put into a subqueue.
PutsDown(t) ==
  /\ pc' \in [Reqs -> Steps] /\ pc'[t] \in Idle /\ \A u \in Reqs \ {t} : pc'[u] = pc[u]
  /\ cur' \in [Reqs -> Reqs \cup {NoReq}]
  /\ cur'[t] = NoReq /\ \A u \in Reqs \ {t} : cur'[u] = cur[u]
  /\ UNCHANGED <<state, reqQ>>
Added(r, n, e) ==
  /\ n \in 1 .. used' /\ e \in 1 .. Len(node'[n].sub)
  /\ node'[n].sub[e] = r /\ node'[n].key = UserOf[r]
  /\ \A m \in 1 .. used :
       /\ m \in 1 .. used' /\ node'[m].key = node[m].key
       /\ \A k \in 1 .. Len(node[m].sub) :
            k \in 1 .. Len(node'[m].sub) /\ node'[m].sub[k] = node[m].sub[k]
  /\ \A m \in 1 .. used' : \A k \in 1 .. Len(node'[m].sub) :
       \/ m = n /\ k = e
       \/ m \in 1 .. used /\ k \in 1 .. Len(node[m].sub)

LEMMA SubAdded ==
  ASSUME PlaceInv, NEW t \in Reqs, NEW r \in Reqs, r = cur[t], pc[t] \in During,
         PutsDown(t), NEW n, NEW e, Added(r, n, e)
  PROVE  Placed'
<1>. USE DEF PutsDown, Added
<1>1. state[r] = "active" /\ r # NoReq
  BY Assumed DEF PlaceInv, Placed, Hands
<1>2. \A u \in Reqs : cur'[u] # r
  BY <1>1 DEF PlaceInv, Placed, HeldOnce
<1>3. /\ pc[t] \notin {"arrive", "refuse", "queue"}
      /\ pc'[t] \notin {"arrive", "refuse", "queue"}
  BY DEF During, Idle
<1>4. \A u \in Reqs : cur'[u] # NoReq => cur'[u] = cur[u]
  OBVIOUS
<1>5. Hands'
  <2>1. ASSUME NEW u \in Reqs \ {t}, cur[u] # NoReq PROVE pc'[cur[u]] # "queue"
    BY <1>3, <2>1, Members
  <2>2. \A u \in Reqs \ {t} : pc[u] \in Before \/ pc[u] \in During => cur[u] # NoReq
    BY StepSets DEF PlaceInv, TypeThreads
  <2>3. pc'[t] \notin Before /\ pc'[t] \notin During
    BY StepSets
  <2>. QED BY <2>1, <2>2, <2>3 DEF PlaceInv, Placed, Hands
<1>6. HeldOnce'
  BY DEF PlaceInv, Placed, HeldOnce
<1>7. QueueSound'
  <2>. SUFFICES ASSUME NEW h \in Groups, NEW k \in 1 .. Len(reqQ[h])
                PROVE  /\ state[reqQ[h][k]] = "queued" /\ PriOf[reqQ[h][k]] = h
                       /\ pc'[reqQ[h][k]] # "queue"
                       /\ \A u \in Reqs : cur'[u] # reqQ[h][k]
    BY DEF QueueSound
  <2>1. /\ state[reqQ[h][k]] = "queued" /\ PriOf[reqQ[h][k]] = h
        /\ pc[reqQ[h][k]] # "queue" /\ \A u \in Reqs : cur[u] # reqQ[h][k]
    BY DEF PlaceInv, Placed, QueueSound
  <2>2. reqQ[h][k] \in Reqs
    BY Members
  <2>. QED BY <1>3, <1>4, <2>1, <2>2, Assumed
<1>8. QueueOnce'
  BY DEF PlaceInv, Placed, QueueOnce
<1>9. \A m \in 1 .. used : \A k \in 1 .. Len(node[m].sub) : node[m].sub[k] # r
  BY DEF PlaceInv, Placed, SubSound
<1>10. SubSound'
  <2>. SUFFICES ASSUME NEW m \in 1 .. used', NEW k \in 1 .. Len(node'[m].sub)
                PROVE  /\ state[node'[m].sub[k]] = "active"
                       /\ UserOf[node'[m].sub[k]] = node'[m].key
                       /\ \A u \in Reqs : cur'[u] # node'[m].sub[k]
    BY DEF SubSound
  <2>1. CASE m = n /\ k = e
    BY <1>1, <1>2, <2>1
  <2>2. CASE m \in 1 .. used /\ k \in 1 .. Len(node[m].sub)
    <3>1. /\ state[node[m].sub[k]] = "active" /\ UserOf[node[m].sub[k]] = node[m].key
          /\ \A u \in Reqs : cur[u] # node[m].sub[k]
      BY <2>2 DEF PlaceInv, Placed, SubSound
    <3>2. node[m].sub[k] \in Reqs
      BY <2>2, Members
    <3>. QED BY <1>4, <2>2, <3>1, <3>2, Assumed
  <2>. QED BY <2>1, <2>2
<1>11. SubOnce'
  <2>. SUFFICES ASSUME NEW a \in 1 .. used', NEW b \in 1 .. used',
                       NEW k \in 1 .. Len(node'[a].sub), NEW l \in 1 .. Len(node'[b].sub),
                       node'[a].sub[k] = node'[b].sub[l]
                PROVE  a = b /\ k = l
    BY DEF SubOnce
  <2>1. \/ a = n /\ k = e /\ node'[a].sub[k] = r
        \/ a \in 1 .. used /\ k \in 1 .. Len(node[a].sub) /\ node'[a].sub[k] = node[a].sub[k]
    OBVIOUS
  <2>2. \/ b = n /\ l = e /\ node'[b].sub[l] = r
        \/ b \in 1 .. used /\ l \in 1 .. Len(node[b].sub) /\ node'[b].sub[l] = node[b].sub[l]
    OBVIOUS
  <2>. QED BY <1>9, <2>1, <2>2 DEF PlaceInv, Placed, SubOnce
<1>12. Somewhere'
  <2>. SUFFICES ASSUME NEW x \in Reqs
                PROVE  /\ state[x] = "queued" /\ pc'[x] # "queue" => IsHeld(x)' \/ InQueue(x)'
                       /\ state[x] = "active" => IsHeld(x)' \/ InSub(x)'
    BY DEF Somewhere
  <2>1. CASE x = r
    BY <1>1, <2>1 DEF InSub
  <2>2. CASE x # r
    <3>1. IsHeld(x) => IsHeld(x)'
      <4>. SUFFICES ASSUME NEW u \in Reqs, cur[u] = x PROVE IsHeld(x)'
        BY DEF IsHeld
      <4>1. u # t
        BY <2>2
      <4>. QED BY <4>1 DEF IsHeld
    <3>2. InQueue(x) => InQueue(x)'
      BY DEF InQueue
    <3>3. InSub(x) => InSub(x)'
      <4>. SUFFICES ASSUME NEW m \in 1 .. used, NEW k \in 1 .. Len(node[m].sub),
                           node[m].sub[k] = x
                    PROVE  InSub(x)'
        BY DEF InSub
      <4>1. m \in 1 .. used' /\ k \in 1 .. Len(node'[m].sub) /\ node'[m].sub[k] = x
        OBVIOUS
      <4>. QED BY <4>1 DEF InSub
    <3>4. pc'[x] # "queue" => pc[x] # "queue"
      BY <1>3
    <3>. QED BY <3>1, <3>2, <3>3, <3>4 DEF PlaceInv, Placed, Somewhere
  <2>. QED BY <2>1, <2>2
<1>13. Own'
  BY <1>3 DEF PlaceInv, Placed, Own
<1>. QED BY <1>5, <1>6, <1>7, <1>8, <1>10, <1>11, <1>12, <1>13 DEF Placed

LEMMA AddPlaced ==
  ASSUME PlaceInv, NEW t \in Reqs, NEW r \in Reqs, r = cur[t], pc[t] \in During,
         PutsDown(t), AddToSubqueue(r)
  PROVE  Placed' /\ Lists'
<1>1. used \in Nat /\ Lists
  BY DEF PlaceInv, Lists, TypeLists
<1>2. CASE Lookup(PriOf[r], UserOf[r]) # Null
  <2>1. PICK i \in 1 .. Len(Chain(PriOf[r])) :
          /\ node[Chain(PriOf[r])[i]].key = UserOf[r]
          /\ \A m \in 1 .. used :
               /\ node'[m].key = node[m].key /\ node'[m].next = node[m].next
               /\ node'[m].sub = IF m = Chain(PriOf[r])[i] THEN Append(node[m].sub, r)
                                                           ELSE node[m].sub
    BY <1>1, <1>2, AddKnown
  <2>2. used' = used /\ Lists'
    BY <1>1, <1>2, AddKnown
  <2>3. PICK n \in 1 .. used : n = Chain(PriOf[r])[i]
    <3>1. PriOf[r] \in Groups
      BY Assumed
    <3>. QED BY <1>1, <3>1, ChainFacts
  <2>4. PICK s \in Seq(Reqs) : s = node[n].sub
    BY Members
  <2>5. PICK e \in Nat : e = Len(s) + 1
    BY <2>4
  <2>6. /\ node'[n].sub = Append(s, r)
        /\ \A m \in 1 .. used : m # n => node'[m].sub = node[m].sub
        /\ node'[n].key = UserOf[r] /\ \A m \in 1 .. used : node'[m].key = node[m].key
    BY <2>1, <2>3, <2>4
  <2>7. /\ Len(node'[n].sub) = e /\ node'[n].sub[e] = r /\ e \in 1 .. e
        /\ \A k \in 1 .. Len(s) : node'[n].sub[k] = s[k] /\ k \in 1 .. e
        /\ \A k \in 1 .. e : k = e \/ k \in 1 .. Len(s)
    <3>1. /\ Len(Append(s, r)) = Len(s) + 1 /\ Append(s, r)[Len(s) + 1] = r
          /\ \A k \in 1 .. Len(s) : Append(s, r)[k] = s[k]
          /\ \A k \in 1 .. Len(s) + 1 : k = Len(s) + 1 \/ k \in 1 .. Len(s)
          /\ Len(s) \in Nat
      BY AppendFacts
    <3>2. e \in 1 .. e /\ \A k \in 1 .. Len(s) : k \in 1 .. e
      BY <2>5, <3>1
    <3>. QED BY <2>5, <2>6, <3>1, <3>2
  <2>8. \A m \in 1 .. used :
            /\ m \in 1 .. used' /\ node'[m].key = node[m].key
            /\ \A k \in 1 .. Len(node[m].sub) :
                 k \in 1 .. Len(node'[m].sub) /\ node'[m].sub[k] = node[m].sub[k]
    BY <2>2, <2>4, <2>6, <2>7
  <2>9. \A m \in 1 .. used' : \A k \in 1 .. Len(node'[m].sub) :
            \/ m = n /\ k = e
            \/ m \in 1 .. used /\ k \in 1 .. Len(node[m].sub)
    BY <2>2, <2>4, <2>6, <2>7
  <2>10. n \in 1 .. used' /\ e \in 1 .. Len(node'[n].sub)
    BY <2>2, <2>7
  <2>11. node'[n].sub[e] = r /\ node'[n].key = UserOf[r]
    BY <2>6, <2>7
  <2>12. Placed'
    <3>1. Added(r, n, e)
      BY <2>8, <2>9, <2>10, <2>11 DEF Added
    <3>. QED BY <3>1, SubAdded
  <2>. QED BY <2>2, <2>12
<1>3. CASE Lookup(PriOf[r], UserOf[r]) = Null
  <2>1. PICK n \in Nat : n = used + 1
    BY <1>1
  <2>2. /\ used' = n /\ node'[n] = [key |-> UserOf[r], sub |-> <<r>>, next |-> Null]
        /\ \A m \in 1 .. used : node'[m].key = node[m].key /\ node'[m].sub = node[m].sub
    BY <1>1, <1>3, <2>1, AddNewNode
  <2>3. Lists'
    BY <1>1, <1>3, AddNewChain
  <2>4. /\ n \in 1 .. n /\ \A m \in 1 .. used : m \in 1 .. n
        /\ \A m \in 1 .. n : m = n \/ m \in 1 .. used
    BY <1>1, <2>1
  <2>5. node'[n].key = UserOf[r] /\ node'[n].sub = <<r>>
    BY <2>2
  <2>6. /\ Len(node'[n].sub) = 1 /\ node'[n].sub[1] = r /\ 1 \in 1 .. 1
        /\ \A k \in 1 .. 1 : k = 1
    BY <2>5
  <2>7. \A m \in 1 .. used :
            /\ m \in 1 .. used' /\ node'[m].key = node[m].key
            /\ \A k \in 1 .. Len(node[m].sub) :
                 k \in 1 .. Len(node'[m].sub) /\ node'[m].sub[k] = node[m].sub[k]
    BY <2>2, <2>4
  <2>8. \A m \in 1 .. used' : \A k \in 1 .. Len(node'[m].sub) :
            \/ m = n /\ k = 1
            \/ m \in 1 .. used /\ k \in 1 .. Len(node[m].sub)
    BY <2>2, <2>4, <2>6
  <2>9. n \in 1 .. used' /\ 1 \in 1 .. Len(node'[n].sub)
    BY <2>2, <2>4, <2>6
  <2>10. Placed'
    <3>1. Added(r, n, 1)
      BY <2>5, <2>6, <2>7, <2>8, <2>9 DEF Added
    <3>. QED BY <3>1, SubAdded
  <2>. QED BY <2>3, <2>10
<1>. QED BY <1>2, <1>3

\* The first request of a subqueue is taken.
LEMMA RemovePlaced ==
  ASSUME PlaceInv, NEW t \in Reqs, NEW g \in Groups, pc[t] \in Idle,
         pc' \in [Reqs -> Steps], \A u \in Reqs \ {t} : pc'[u] = pc[u], pc'[t] \in During,
         UNCHANGED <<state, reqQ>>, RemoveFromSubqueue(t, g)
  PROVE  /\ Placed' /\ Lists'
         /\ cur' \in [Reqs -> Reqs \cup {NoReq}] /\ cur'[t] # NoReq
         /\ \A u \in Reqs \ {t} : cur'[u] = cur[u]
<1>1. used \in Nat /\ Lists
  BY DEF PlaceInv, Lists, TypeLists
<1>2. PICK i : /\ IsFirstFull(g, i)
               /\ MoveToBack(g, Chain(g)[i], Ahead(g, i))
               /\ cur' = [cur EXCEPT ![t] = Head(node[Chain(g)[i]].sub)]
               /\ used' = used
               /\ passed' = [passed EXCEPT ![g] = [u \in Users |->
                     IF u # node[Chain(g)[i]].key /\ u \in Waiting(g) THEN @[u] + 1 ELSE 0]]
  BY <1>1, RemoveFacts
<1>3. passed' \in [Groups -> [Users -> Nat]]
  <2>1. passed \in [Groups -> [Users -> Nat]]
    BY <1>1 DEF Lists, TypeLists
  <2>. QED BY <1>2, <2>1
<1>4. Lists'
  BY <1>1, <1>2, <1>3, MoveChain
<1>5. PICK n \in 1 .. used : n = Chain(g)[i] /\ node[n].sub # <<>>
  BY <1>1, <1>2, ChainFacts DEF IsFirstFull
<1>6. PICK s \in Seq(Reqs) : s = node[n].sub /\ s # <<>>
  BY <1>5, Members
<1>7. /\ \A m \in 1 .. used : node'[m].key = node[m].key
      /\ node'[n].sub = Tail(s)
      /\ \A m \in 1 .. used : m # n => node'[m].sub = node[m].sub
  <2>1. \A m \in 1 .. used :
          /\ node'[m].key = node[m].key
          /\ node'[m].sub = IF m = Chain(g)[i] THEN Tail(node[m].sub) ELSE node[m].sub
    BY <1>1, <1>2, <1>3, MoveNode
  <2>. QED BY <1>5, <1>6, <2>1
<1>8. PICK r \in Reqs : r = Head(s)
  BY <1>6, TailFacts
<1>9. /\ cur'[t] = r /\ \A u \in Reqs \ {t} : cur'[u] = cur[u]
      /\ cur' \in [Reqs -> Reqs \cup {NoReq}] /\ r # NoReq
  <2>1. cur' = [cur EXCEPT ![t] = r] /\ cur \in [Reqs -> Reqs \cup {NoReq}]
    BY <1>2, <1>5, <1>6, <1>8 DEF PlaceInv, TypeThreads
  <2>. QED BY <2>1, Assumed
<1>10. /\ r = s[1] /\ 1 \in 1 .. Len(s) /\ Len(s) \in Nat /\ Len(node'[n].sub) = Len(s) - 1
       /\ \A k \in 1 .. Len(s) - 1 : node'[n].sub[k] = s[k + 1] /\ k + 1 \in 1 .. Len(s)
       /\ \A k \in 1 .. Len(s) : k # 1 => k - 1 \in 1 .. Len(s) - 1
  BY <1>6, <1>7, <1>8, TailFacts
<1>11. state[r] = "active" /\ \A u \in Reqs : cur[u] # r
  BY <1>5, <1>6, <1>10 DEF PlaceInv, Placed, SubSound
<1>12. /\ pc[t] \notin {"arrive", "refuse", "queue"}
       /\ pc'[t] \notin {"arrive", "refuse", "queue"} /\ cur[t] = NoReq
  BY StepSets, Members DEF Idle, During
<1>13. \A m \in 1 .. used : \A k \in 1 .. Len(node'[m].sub) :
         \E l \in 1 .. Len(node[m].sub) :
            /\ node'[m].sub[k] = node[m].sub[l]
            /\ m # n => l = k
            /\ m = n => l = k + 1 /\ l # 1
  <2>. SUFFICES ASSUME NEW m \in 1 .. used, NEW k \in 1 .. Len(node'[m].sub)
                PROVE  \E l \in 1 .. Len(node[m].sub) : /\ node'[m].sub[k] = node[m].sub[l]
                                                        /\ m # n => l = k
                                                        /\ m = n => l = k + 1 /\ l # 1
    OBVIOUS
  <2>1. CASE m # n
    BY <1>7, <2>1
  <2>2. CASE m = n
    <3>1. k \in 1 .. Len(s) - 1 /\ node[m].sub = s /\ k + 1 # 1
      BY <1>6, <1>10, <2>2
    <3>2. k + 1 \in 1 .. Len(node[m].sub) /\ node'[m].sub[k] = node[m].sub[k + 1]
      BY <1>10, <2>2, <3>1
    <3>. QED BY <2>2, <3>1, <3>2
  <2>. QED BY <2>1, <2>2
<1>14. \A m \in 1 .. used : \A k \in 1 .. Len(node'[m].sub) : node'[m].sub[k] # r
  <2>. SUFFICES ASSUME NEW m \in 1 .. used, NEW k \in 1 .. Len(node'[m].sub)
                PROVE  node'[m].sub[k] # r
    OBVIOUS
  <2>1. PICK l \in 1 .. Len(node[m].sub) : node'[m].sub[k] = node[m].sub[l] /\ (m = n => l # 1)
    BY <1>13
  <2>2. r = node[n].sub[1] /\ 1 \in 1 .. Len(node[n].sub)
    BY <1>6, <1>10
  <2>3. \A a \in 1 .. Len(node[m].sub), b \in 1 .. Len(node[n].sub) :
          node[m].sub[a] = node[n].sub[b] => m = n /\ a = b
    BY DEF PlaceInv, Placed, SubOnce
  <2>. QED BY <2>1, <2>2, <2>3
<1>15. Hands'
  <2>1. ASSUME NEW u \in Reqs \ {t}, cur[u] # NoReq PROVE pc'[cur[u]] # "queue"
    BY <1>12, <2>1, Members
  <2>2. \A u \in Reqs \ {t} : pc[u] \in Before \/ pc[u] \in During => cur[u] # NoReq
    BY StepSets DEF PlaceInv, TypeThreads
  <2>3. pc'[t] \notin Before
    BY StepSets
  <2>. QED BY <1>9, <1>11, <2>1, <2>2, <2>3 DEF PlaceInv, Placed, Hands
<1>16. HeldOnce'
  BY <1>9, <1>11 DEF PlaceInv, Placed, HeldOnce
<1>17. QueueSound'
  <2>. SUFFICES ASSUME NEW h \in Groups, NEW k \in 1 .. Len(reqQ[h])
                PROVE  /\ state[reqQ[h][k]] = "queued" /\ PriOf[reqQ[h][k]] = h
                       /\ pc'[reqQ[h][k]] # "queue"
                       /\ \A u \in Reqs : cur'[u] # reqQ[h][k]
    BY DEF QueueSound
  <2>1. /\ state[reqQ[h][k]] = "queued" /\ PriOf[reqQ[h][k]] = h
        /\ pc[reqQ[h][k]] # "queue" /\ \A u \in Reqs : cur[u] # reqQ[h][k]
    BY DEF PlaceInv, Placed, QueueSound
  <2>2. reqQ[h][k] \in Reqs /\ reqQ[h][k] # r
    BY <1>11, <2>1, Members
  <2>. QED BY <1>9, <1>12, <2>1, <2>2
<1>18. QueueOnce'
  BY DEF PlaceInv, Placed, QueueOnce
<1>19. SubSound'
  <2>. SUFFICES ASSUME NEW m \in 1 .. used, NEW k \in 1 .. Len(node'[m].sub)
                PROVE  /\ state[node'[m].sub[k]] = "active"
                       /\ UserOf[node'[m].sub[k]] = node'[m].key
                       /\ \A u \in Reqs : cur'[u] # node'[m].sub[k]
    BY <1>2 DEF SubSound
  <2>1. PICK l \in 1 .. Len(node[m].sub) : node'[m].sub[k] = node[m].sub[l]
    BY <1>13
  <2>2. /\ state[node[m].sub[l]] = "active" /\ UserOf[node[m].sub[l]] = node[m].key
        /\ \A u \in Reqs : cur[u] # node[m].sub[l]
    BY DEF PlaceInv, Placed, SubSound
  <2>3. node'[m].sub[k] # r
    BY <1>14
  <2>. QED BY <1>7, <1>9, <2>1, <2>2, <2>3
<1>20. SubOnce'
  <2>. SUFFICES ASSUME NEW a \in 1 .. used, NEW b \in 1 .. used,
                       NEW k \in 1 .. Len(node'[a].sub), NEW l \in 1 .. Len(node'[b].sub),
                       node'[a].sub[k] = node'[b].sub[l]
                PROVE  a = b /\ k = l
    BY <1>2 DEF SubOnce
  <2>1. PICK x \in 1 .. Len(node[a].sub) : /\ node'[a].sub[k] = node[a].sub[x]
                                           /\ a # n => x = k
                                           /\ a = n => x = k + 1
    BY <1>13
  <2>2. PICK y \in 1 .. Len(node[b].sub) : /\ node'[b].sub[l] = node[b].sub[y]
                                           /\ b # n => y = l
                                           /\ b = n => y = l + 1
    BY <1>13
  <2>3. \A c \in 1 .. Len(node[a].sub), d \in 1 .. Len(node[b].sub) :
          node[a].sub[c] = node[b].sub[d] => a = b /\ c = d
    BY DEF PlaceInv, Placed, SubOnce
  <2>4. a = b /\ x = y
    BY <2>1, <2>2, <2>3
  <2>. QED BY <2>1, <2>2, <2>4
<1>21. Somewhere'
  <2>. SUFFICES ASSUME NEW x \in Reqs
                PROVE  /\ state[x] = "queued" /\ pc'[x] # "queue" => IsHeld(x)' \/ InQueue(x)'
                       /\ state[x] = "active" => IsHeld(x)' \/ InSub(x)'
    BY DEF Somewhere
  <2>1. CASE x = r
    BY <1>9, <2>1 DEF IsHeld
  <2>2. CASE x # r
    <3>1. IsHeld(x) => IsHeld(x)'
      <4>. SUFFICES ASSUME NEW u \in Reqs, cur[u] = x PROVE IsHeld(x)'
        BY DEF IsHeld
      <4>1. u # t
        BY <1>12, Assumed
      <4>. QED BY <1>9, <4>1 DEF IsHeld
    <3>2. InQueue(x) => InQueue(x)'
      BY DEF InQueue
    <3>3. InSub(x) => InSub(x)'
      <4>. SUFFICES ASSUME NEW m \in 1 .. used, NEW k \in 1 .. Len(node[m].sub),
                           node[m].sub[k] = x
                    PROVE  InSub(x)'
        BY DEF InSub
      <4>1. CASE m # n
        BY <1>2, <1>7, <4>1 DEF InSub
      <4>2. CASE m = n
        <5>1. k # 1 /\ k \in 1 .. Len(s) /\ s[k] = x
          BY <1>6, <1>10, <2>2, <4>2
        <5>2. k - 1 \in 1 .. Len(node'[n].sub) /\ node'[n].sub[k - 1] = s[(k - 1) + 1]
          BY <1>10, <5>1
        <5>3. (k - 1) + 1 = k
          BY <5>1
        <5>4. node'[n].sub[k - 1] = x
          BY <5>1, <5>2, <5>3
        <5>. QED BY <1>2, <5>2, <5>4 DEF InSub
      <4>. QED BY <4>1, <4>2
    <3>4. pc'[x] # "queue" => pc[x] # "queue"
      BY <1>12
    <3>. QED BY <3>1, <3>2, <3>3, <3>4 DEF PlaceInv, Placed, Somewhere
  <2>. QED BY <2>1, <2>2
<1>22. Own'
  BY <1>12 DEF PlaceInv, Placed, Own
<1>. QED BY <1>4, <1>9, <1>15, <1>16, <1>17, <1>18, <1>19, <1>20, <1>21, <1>22 DEF Placed

(***************************************************************************)
(* Every step keeps the lists and the places.                              *)
(***************************************************************************)
LEMMA SameLists ==
  ASSUME Lists, UNCHANGED lists
  PROVE  Lists' /\ \A g \in Groups : Chain(g)' = Chain(g)
<1>1. used' = used /\ hash' = hash /\ node' = node /\ passed' = passed
  BY DEF lists
<1>2. TypeLists'
  BY <1>1 DEF Lists, TypeLists
<1>. QED BY <1>1, <1>2, SameChains

LEMMA PlaceInit == Init => PlaceInv
<1>. SUFFICES ASSUME Init PROVE PlaceInv
  OBVIOUS
<1>1. TypeThreads
  <2>1. /\ pc = [t \in Reqs |-> "arrive"] /\ isRPC = [t \in Reqs |-> TRUE]
        /\ cur = [t \in Reqs |-> NoReq] /\ pri = [t \in Reqs |-> NumPriGroups]
        /\ found = [t \in Reqs |-> TRUE] /\ state = [r \in Reqs |-> "arrived"]
        /\ left = [r \in Reqs |-> Chunks] /\ reqQ = [g \in Groups |-> <<>>]
    BY DEF Init
  <2>2. "arrive" \in Steps /\ "arrive" \notin InHand /\ NumPriGroups \in Groups
        /\ Chunks \in 0 .. Chunks /\ <<>> \in Seq(Reqs)
    BY Assumed DEF Steps, InHand
  <2>. QED BY <2>1, <2>2 DEF TypeThreads
<1>2. TypeLists
  <2>1. /\ used = 0 /\ 1 .. 0 = {} /\ node = [n \in {} |-> Null]
        /\ hash = [g \in Groups |-> [first |-> 0, last |-> 0]]
        /\ passed = [g \in Groups |-> [u \in Users |-> 0]]
    BY DEF Init, Null
  <2>2. node \in [1 .. used -> [key : Users, sub : Seq(Reqs), next : 0 .. used]]
    BY <2>1
  <2>. QED BY <2>1, <2>2 DEF TypeLists
<1>3. \A g \in Groups : Chain(g) = <<>> /\ IsWalk(g, <<>>)
  <2>1. \A g \in Groups : IsWalk(g, <<>>)
    <3>1. Len(<<>>) = 0 /\ 1 .. 0 = {}
      OBVIOUS
    <3>2. \A g \in Groups : hash[g].first = Null
      BY DEF Init
    <3>. QED BY <3>1, <3>2 DEF IsWalk
  <2>2. Distinct(<<>>) /\ <<>> \in Seq(1 .. used)
    BY DEF Distinct
  <2>. QED BY <1>2, <2>1, <2>2, ChainIs
<1>4. \A g \in Groups : 1 .. Len(Chain(g)) = {}
  BY <1>3
<1>5. Lists
  <2>1. Chained
    <3>1. <<>> \in Seq(1 .. used)
      OBVIOUS
    <3>. QED BY <1>3, <3>1 DEF Chained
  <2>2. Apart /\ Keyed
    BY <1>4 DEF Apart, Keyed
  <2>3. Ended
    BY <1>4 DEF Ended, Init
  <2>. QED BY <1>2, <2>1, <2>2, <2>3 DEF Lists
<1>6. Placed
  <2>1. /\ \A t \in Reqs : pc[t] = "arrive" /\ cur[t] = NoReq /\ state[t] = "arrived"
        /\ \A g \in Groups : reqQ[g] = <<>>
        /\ 1 .. used = {} /\ 1 .. Len(<<>>) = {}
    BY DEF Init
  <2>2. Hands /\ HeldOnce /\ Own
    BY <2>1 DEF Hands, HeldOnce, Own, Before, During
  <2>3. QueueSound /\ QueueOnce
    BY <2>1 DEF QueueSound, QueueOnce
  <2>4. SubSound /\ SubOnce
    BY <2>1 DEF SubSound, SubOnce
  <2>5. Somewhere
    BY <2>1 DEF Somewhere
  <2>. QED BY <2>2, <2>3, <2>4, <2>5 DEF Placed
<1>. QED BY <1>1, <1>5, <1>6 DEF PlaceInv

LEMMA PlaceArrive ==
  ASSUME PlaceInv, NEW t \in Reqs, Arrive(t) \/ Refuse(t)
  PROVE  PlaceInv'
<1>1. TypeThreads' /\ Placed'
  BY ArrivePlaced, RefusePlaced
<1>2. UNCHANGED lists
  BY DEF Arrive, Refuse
<1>3. Lists'
  BY <1>2, SameLists DEF PlaceInv
<1>. QED BY <1>1, <1>3 DEF PlaceInv

\* The steps that move no request.
LEMMA PlaceGoes ==
  ASSUME PlaceInv, NEW t \in Reqs, pc' \in [Reqs -> Steps],
         pri' \in [Reqs -> Groups], found' \in [Reqs -> BOOLEAN], isRPC' \in [Reqs -> BOOLEAN],
         UNCHANGED <<cur, state, reqQ>>, UNCHANGED left, UNCHANGED lists,
         \A u \in Reqs \ {t} : pc'[u] = pc[u],
         \/ pc[t] \in Before /\ pc'[t] \in Before
         \/ pc[t] \in During /\ pc'[t] \in During
         \/ pc[t] \in Idle /\ pc'[t] \in Idle
  PROVE  PlaceInv'
<1>1. node' = node /\ used' = used
  BY DEF lists
<1>2. Placed' /\ (pc'[t] \in InHand <=> pc[t] \in InHand)
  BY <1>1, Goes
<1>3. TypeThreads'
  BY <1>2 DEF TypeThreads, PlaceInv
<1>4. Lists'
  BY SameLists DEF PlaceInv
<1>. QED BY <1>2, <1>3, <1>4 DEF PlaceInv

LEMMA NextGroupTypes ==
  ASSUME TypeThreads, NEW t \in Reqs, NEW step, NextGroup(t, step) \/ Rescan(t, step),
         step \in Steps
  PROVE  /\ pc' \in [Reqs -> Steps] /\ pri' \in [Reqs -> Groups]
         /\ \A u \in Reqs \ {t} : pc'[u] = pc[u]
         /\ pc'[t] \in {pc[t], step}
         /\ Rescan(t, step) => pc'[t] = step
<1>1. pri[t] \in 1 .. NumPriGroups /\ NumPriGroups \in Nat /\ NumPriGroups \in Groups
  BY Assumed DEF TypeThreads, Groups
<1>2. pri[t] > 1 => pri[t] - 1 \in Groups
  BY <1>1 DEF Groups
<1>3. \/ pri[t] > 1 /\ pri' = [pri EXCEPT ![t] = pri[t] - 1] /\ pc' = pc
      \/ pri' = [pri EXCEPT ![t] = NumPriGroups] /\ pc' = [pc EXCEPT ![t] = step]
  BY DEF NextGroup, Rescan, Goto
<1>4. pri' \in [Reqs -> Groups]
  BY <1>1, <1>2, <1>3 DEF TypeThreads
<1>5. pc' \in [Reqs -> Steps]
  BY <1>3 DEF TypeThreads
<1>6. Rescan(t, step) => pc' = [pc EXCEPT ![t] = step]
  BY DEF Rescan, Goto
<1>. QED BY <1>3, <1>4, <1>5, <1>6 DEF TypeThreads

LEMMA PlaceSteps ==
  ASSUME PlaceInv, NEW t \in Reqs,
         \/ HandOver(t) \/ IncActive(t) \/ IncUser(t) \/ DecActive(t) \/ Release(t)
  PROVE  PlaceInv'
<1>1. CASE HandOver(t)
  <2>1. /\ UNCHANGED <<cur, state, reqQ>> /\ UNCHANGED left /\ UNCHANGED lists
        /\ pc' = pc /\ pc[t] = "take" /\ pri' = pri
        /\ isRPC' = [isRPC EXCEPT ![t] = FALSE] /\ found' = [found EXCEPT ![t] = TRUE]
    BY <1>1 DEF HandOver
  <2>2. /\ pc' \in [Reqs -> Steps] /\ pri' \in [Reqs -> Groups]
        /\ found' \in [Reqs -> BOOLEAN] /\ isRPC' \in [Reqs -> BOOLEAN]
    BY <2>1 DEF PlaceInv, TypeThreads
  <2>3. pc[t] \in Idle /\ pc'[t] \in Idle
    BY <2>1 DEF Idle
  <2>. QED BY <2>1, <2>2, <2>3, PlaceGoes
<1>2. CASE ~HandOver(t)
  <2>1. /\ UNCHANGED <<cur, state, reqQ>> /\ UNCHANGED left /\ UNCHANGED lists
        /\ UNCHANGED <<pri, found, isRPC>>
        /\ \E s : /\ pc' = [pc EXCEPT ![t] = s]
                  /\ \/ pc[t] \in Before /\ s \in Before
                     \/ pc[t] \in During /\ s \in During
    <3>1. CASE IncActive(t)
      BY <3>1 DEF IncActive, Goto, thread, Before
    <3>2. CASE IncUser(t)
      BY <3>2 DEF IncUser, Goto, thread, Before
    <3>3. CASE DecActive(t)
      BY <3>3 DEF DecActive, Goto, thread, Before
    <3>4. CASE Release(t)
      BY <3>4 DEF Release, Goto, thread, During
    <3>. QED BY <1>2, <3>1, <3>2, <3>3, <3>4
  <2>2. PICK s : /\ pc' = [pc EXCEPT ![t] = s]
                 /\ \/ pc[t] \in Before /\ s \in Before
                    \/ pc[t] \in During /\ s \in During
    BY <2>1
  <2>3. s \in Steps /\ pc \in [Reqs -> Steps]
    BY <2>2 DEF PlaceInv, TypeThreads, Steps
  <2>4. /\ pc' \in [Reqs -> Steps] /\ pc'[t] = s
        /\ \A u \in Reqs \ {t} : pc'[u] = pc[u]
    BY <2>2, <2>3
  <2>5. /\ pri' \in [Reqs -> Groups]
        /\ found' \in [Reqs -> BOOLEAN] /\ isRPC' \in [Reqs -> BOOLEAN]
    BY <2>1 DEF PlaceInv, TypeThreads
  <2>. QED BY <2>1, <2>2, <2>4, <2>5, PlaceGoes
<1>. QED BY <1>1, <1>2

\* The steps that put a request into a queue or take it from there.
LEMMA PlaceQueues ==
  ASSUME PlaceInv, NEW t \in Reqs, Enqueue(t) \/ PutBack(t) \/ Take(t)
  PROVE  PlaceInv'
<1>1. UNCHANGED state /\ UNCHANGED left /\ UNCHANGED lists /\ node' = node /\ used' = used
  BY DEF Enqueue, PutBack, Take, lists
<1>2. Lists'
  BY <1>1, SameLists DEF PlaceInv
<1>3. pc \in [Reqs -> Steps] /\ cur \in [Reqs -> Reqs \cup {NoReq}]
  BY DEF PlaceInv, TypeThreads
<1>4. CASE Enqueue(t)
  <2>1. /\ pc[t] = "queue" /\ pc' = [pc EXCEPT ![t] = "take"] /\ UNCHANGED <<isRPC, cur, pri, found>>
        /\ reqQ' = [reqQ EXCEPT ![PriOf[t]] = Append(@, t)]
    BY <1>4 DEF Enqueue, Goto, thread
  <2>2. /\ pc' \in [Reqs -> Steps] /\ pc'[t] \in Idle /\ pc'[t] \notin InHand
        /\ \A u \in Reqs \ {t} : pc'[u] = pc[u]
    BY <1>3, <2>1 DEF Steps, Idle, InHand
  <2>3. cur[t] = NoReq
    BY <2>1, Members DEF InHand
  <2>4. Placed' /\ reqQ' \in [Groups -> Seq(Reqs)]
    BY <1>1, <1>3, <2>1, <2>2, <2>3, QueuePlaced
  <2>5. TypeThreads'
    BY <1>1, <2>1, <2>2, <2>3, <2>4 DEF PlaceInv, TypeThreads
  <2>. QED BY <1>2, <2>4, <2>5 DEF PlaceInv
<1>5. CASE PutBack(t)
  <2>1. /\ pc[t] = "putBack" /\ pc' = [pc EXCEPT ![t] = "active"] /\ UNCHANGED <<isRPC, pri>>
        /\ found' = [found EXCEPT ![t] = FALSE] /\ cur' = [cur EXCEPT ![t] = NoReq]
        /\ reqQ' = [reqQ EXCEPT ![PriOf[cur[t]]] = Append(@, cur[t])]
    BY <1>5 DEF PutBack, Goto, G
  <2>2. /\ pc' \in [Reqs -> Steps] /\ pc'[t] \in Idle /\ pc'[t] \notin InHand
        /\ \A u \in Reqs \ {t} : pc'[u] = pc[u]
        /\ pc[t] \in Before /\ pc[t] \in InHand
    BY <1>3, <2>1 DEF Steps, Idle, InHand, Before
  <2>3. /\ cur' \in [Reqs -> Reqs \cup {NoReq}] /\ cur'[t] = NoReq
        /\ \A u \in Reqs \ {t} : cur'[u] = cur[u]
    BY <1>3, <2>1
  <2>4. PICK r \in Reqs : r = cur[t]
    BY <2>2, Members
  <2>5. reqQ' = [reqQ EXCEPT ![PriOf[r]] = Append(@, r)]
    BY <2>1, <2>4
  <2>6. Placed' /\ reqQ' \in [Groups -> Seq(Reqs)]
    BY <1>1, <2>2, <2>3, <2>4, <2>5, QueuePlaced
  <2>7. found' \in [Reqs -> BOOLEAN]
    BY <2>1 DEF PlaceInv, TypeThreads
  <2>8. \A u \in Reqs : pc'[u] \in InHand <=> cur'[u] # NoReq
    BY <2>2, <2>3 DEF PlaceInv, TypeThreads
  <2>9. TypeThreads'
    BY <1>1, <2>1, <2>2, <2>3, <2>6, <2>7, <2>8 DEF PlaceInv, TypeThreads
  <2>. QED BY <1>2, <2>6, <2>9 DEF PlaceInv
<1>6. CASE Take(t)
  <2>1. PICK g \in Groups : g = pri[t]
    BY DEF PlaceInv, TypeThreads
  <2>2. pc[t] = "take" /\ isRPC' = isRPC /\ pc[t] \in Idle /\ pc[t] \notin InHand
    BY <1>6 DEF Take, Idle, InHand
  <2>3. CASE reqQ[g] # <<>>
    <3>1. /\ cur' = [cur EXCEPT ![t] = Head(reqQ[g])]
          /\ reqQ' = [reqQ EXCEPT ![g] = Tail(@)]
          /\ Rescan(t, "incActive") /\ found' = found
      BY <1>6, <2>1, <2>3 DEF Take
    <3>2. "incActive" \in Steps /\ "incActive" \in Before /\ "incActive" \in InHand
      BY DEF Steps, Before, InHand
    <3>3. /\ pc' \in [Reqs -> Steps] /\ pri' \in [Reqs -> Groups]
          /\ \A u \in Reqs \ {t} : pc'[u] = pc[u]
          /\ pc'[t] = "incActive"
      BY <3>1, <3>2, NextGroupTypes DEF PlaceInv
    <3>4. /\ Placed' /\ reqQ' \in [Groups -> Seq(Reqs)]
          /\ cur' \in [Reqs -> Reqs \cup {NoReq}] /\ cur'[t] # NoReq
          /\ \A u \in Reqs \ {t} : cur'[u] = cur[u]
      BY <1>1, <2>2, <2>3, <3>1, <3>2, <3>3, TakePlaced
    <3>5. \A u \in Reqs : pc'[u] \in InHand <=> cur'[u] # NoReq
      BY <3>2, <3>3, <3>4 DEF PlaceInv, TypeThreads
    <3>6. TypeThreads'
      BY <1>1, <2>2, <3>1, <3>3, <3>4, <3>5 DEF PlaceInv, TypeThreads
    <3>. QED BY <1>2, <3>4, <3>6 DEF PlaceInv
  <2>4. CASE reqQ[g] = <<>>
    <3>1. /\ NextGroup(t, "active") /\ UNCHANGED <<cur, reqQ>>
          /\ found' = [found EXCEPT ![t] = (g > 1) /\ @]
      BY <1>6, <2>1, <2>4 DEF Take
    <3>2. "active" \in Steps /\ "active" \in Idle
      BY DEF Steps, Idle
    <3>3. /\ pc' \in [Reqs -> Steps] /\ pri' \in [Reqs -> Groups]
          /\ \A u \in Reqs \ {t} : pc'[u] = pc[u]
          /\ pc'[t] \in {pc[t], "active"}
      BY <3>1, <3>2, NextGroupTypes DEF PlaceInv
    <3>4. found' \in [Reqs -> BOOLEAN]
      <4>1. ((g > 1) /\ found[t]) \in BOOLEAN
        OBVIOUS
      <4>. QED BY <3>1, <4>1 DEF PlaceInv, TypeThreads
    <3>5. isRPC' \in [Reqs -> BOOLEAN]
      BY <2>2 DEF PlaceInv, TypeThreads
    <3>. QED BY <1>1, <2>2, <3>1, <3>2, <3>3, <3>4, <3>5, PlaceGoes
  <2>. QED BY <2>3, <2>4
<1>. QED BY <1>4, <1>5, <1>6

\* The steps that change what a request is, or put it into a subqueue or take it.
LEMMA PlaceActive ==
  ASSUME PlaceInv, NEW t \in Reqs, DecReq(t) \/ Free(t) \/ Handle(t) \/ TakeActive(t)
  PROVE  PlaceInv'
<1>1. /\ pc \in [Reqs -> Steps] /\ cur \in [Reqs -> Reqs \cup {NoReq}]
      /\ state \in [Reqs -> {"arrived", "queued", "active", "freed"}]
  BY DEF PlaceInv, TypeThreads
<1>2. CASE DecReq(t)
  <2>1. /\ pc[t] = "decReq" /\ pc' = [pc EXCEPT ![t] = "handle"]
        /\ UNCHANGED <<isRPC, cur, pri, left, reqQ>> /\ UNCHANGED lists
        /\ found' = [found EXCEPT ![t] = TRUE]
        /\ state' = [state EXCEPT ![cur[t]] = "active"]
    BY <1>2 DEF DecReq, Goto
  <2>2. /\ pc' \in [Reqs -> Steps] /\ pc'[t] \in During /\ pc'[t] \in InHand
        /\ \A u \in Reqs \ {t} : pc'[u] = pc[u]
        /\ pc[t] \in Before /\ pc[t] \in InHand
    BY <1>1, <2>1 DEF Steps, During, InHand, Before
  <2>3. PICK r \in Reqs : r = cur[t]
    BY <2>2, Members
  <2>4. /\ state'[r] = "active" /\ \A u \in Reqs \ {r} : state'[u] = state[u]
        /\ state' \in [Reqs -> {"arrived", "queued", "active", "freed"}]
    BY <1>1, <2>1, <2>3
  <2>5. UNCHANGED <<reqQ, node, used>>
    BY <2>1 DEF lists
  <2>6. Placed'
    BY <1>1, <2>1, <2>2, <2>3, <2>4, <2>5, StatePlaced
  <2>7. Lists'
    BY <2>1, SameLists DEF PlaceInv
  <2>8. found' \in [Reqs -> BOOLEAN]
    BY <2>1 DEF PlaceInv, TypeThreads
  <2>9. TypeThreads'
    BY <2>1, <2>2, <2>4, <2>8 DEF PlaceInv, TypeThreads
  <2>. QED BY <2>6, <2>7, <2>9 DEF PlaceInv
<1>3. CASE Free(t)
  <2>1. /\ pc[t] \in {"freeFirst", "free"}
        /\ \E s \in {"take", "active"} : pc' = [pc EXCEPT ![t] = s]
        /\ UNCHANGED <<isRPC, found, pri, left, reqQ>> /\ UNCHANGED lists
        /\ cur' = [cur EXCEPT ![t] = NoReq]
        /\ state' = [state EXCEPT ![cur[t]] = "freed"]
    BY <1>3 DEF Free, Goto
  <2>2. /\ pc' \in [Reqs -> Steps] /\ pc'[t] \in Idle /\ pc'[t] \notin InHand
        /\ \A u \in Reqs \ {t} : pc'[u] = pc[u]
        /\ pc[t] \in During /\ pc[t] \in InHand
    BY <1>1, <2>1 DEF Steps, During, InHand, Idle
  <2>3. PICK r \in Reqs : r = cur[t]
    BY <2>2, Members
  <2>4. /\ state'[r] = "freed" /\ \A u \in Reqs \ {r} : state'[u] = state[u]
        /\ state' \in [Reqs -> {"arrived", "queued", "active", "freed"}]
        /\ cur'[t] = NoReq /\ \A u \in Reqs \ {t} : cur'[u] = cur[u]
        /\ cur' \in [Reqs -> Reqs \cup {NoReq}]
    BY <1>1, <2>1, <2>3
  <2>5. UNCHANGED <<reqQ, node, used>>
    BY <2>1 DEF lists
  <2>6. Placed'
    BY <1>1, <2>1, <2>2, <2>3, <2>4, <2>5, StatePlaced
  <2>7. Lists'
    BY <2>1, SameLists DEF PlaceInv
  <2>8. \A u \in Reqs : pc'[u] \in InHand <=> cur'[u] # NoReq
    BY <2>2, <2>4 DEF PlaceInv, TypeThreads
  <2>9. TypeThreads'
    BY <2>1, <2>2, <2>4, <2>8 DEF PlaceInv, TypeThreads
  <2>. QED BY <2>6, <2>7, <2>9 DEF PlaceInv
<1>4. CASE Handle(t)
  <2>1. /\ pc[t] \in {"handle", "handleActive"}
        /\ UNCHANGED <<isRPC, pri, found, state, reqQ>>
    BY <1>4 DEF Handle
  <2>2. pc[t] \in During /\ pc[t] \in InHand
    BY <2>1 DEF During, InHand
  <2>3. PICK r \in Reqs : r = cur[t]
    BY <2>2, Members
  <2>4. CASE /\ \E s \in {"releaseFirst", "release"} : pc' = [pc EXCEPT ![t] = s]
             /\ UNCHANGED <<cur, left, lists>>
    <3>1. /\ pc' \in [Reqs -> Steps] /\ pc'[t] \in During
          /\ \A u \in Reqs \ {t} : pc'[u] = pc[u]
      BY <1>1, <2>4 DEF Steps, During
    <3>2. /\ pri' \in [Reqs -> Groups]
          /\ found' \in [Reqs -> BOOLEAN] /\ isRPC' \in [Reqs -> BOOLEAN]
      BY <2>1 DEF PlaceInv, TypeThreads
    <3>. QED BY <2>1, <2>2, <2>4, <3>1, <3>2, PlaceGoes
  <2>5. CASE /\ \E s \in {"active", "take"} : pc' = [pc EXCEPT ![t] = s]
             /\ cur' = [cur EXCEPT ![t] = NoReq]
             /\ left[r] > 0 /\ left' = [left EXCEPT ![r] = @ - 1]
             /\ AddToSubqueue(r)
    <3>1. /\ pc' \in [Reqs -> Steps] /\ pc'[t] \in Idle /\ pc'[t] \notin InHand
          /\ \A u \in Reqs \ {t} : pc'[u] = pc[u]
      BY <1>1, <2>5 DEF Steps, Idle, InHand
    <3>2. /\ cur'[t] = NoReq /\ \A u \in Reqs \ {t} : cur'[u] = cur[u]
          /\ cur' \in [Reqs -> Reqs \cup {NoReq}]
      BY <1>1, <2>5
    <3>3. PutsDown(t)
      BY <2>1, <3>1, <3>2 DEF PutsDown
    <3>4. Placed' /\ Lists'
      BY <2>2, <2>3, <2>5, <3>3, AddPlaced
    <3>5. left' \in [Reqs -> 0 .. Chunks]
      <4>1. left \in [Reqs -> 0 .. Chunks] /\ Chunks \in Nat
        BY Assumed DEF PlaceInv, TypeThreads
      <4>2. left[r] - 1 \in 0 .. Chunks
        BY <2>5, <4>1
      <4>. QED BY <2>5, <4>1, <4>2
    <3>6. \A u \in Reqs : pc'[u] \in InHand <=> cur'[u] # NoReq
      BY <3>1, <3>2 DEF PlaceInv, TypeThreads
    <3>7. TypeThreads'
      BY <2>1, <3>1, <3>2, <3>5, <3>6 DEF PlaceInv, TypeThreads
    <3>. QED BY <3>4, <3>7 DEF PlaceInv
  <2>6. \/ /\ \E s \in {"releaseFirst", "release"} : pc' = [pc EXCEPT ![t] = s]
           /\ UNCHANGED <<cur, left, lists>>
        \/ /\ \E s \in {"active", "take"} : pc' = [pc EXCEPT ![t] = s]
           /\ cur' = [cur EXCEPT ![t] = NoReq]
           /\ left[r] > 0 /\ left' = [left EXCEPT ![r] = @ - 1]
           /\ AddToSubqueue(r)
    BY <1>4, <2>3 DEF Handle, Goto
  <2>. QED BY <2>4, <2>5, <2>6
<1>5. CASE TakeActive(t)
  <2>1. PICK g \in Groups : g = pri[t]
    BY DEF PlaceInv, TypeThreads
  <2>2. /\ pc[t] = "active" /\ pc[t] \in Idle
        /\ UNCHANGED <<isRPC, found, state, left, reqQ>>
    BY <1>5 DEF TakeActive, Idle
  <2>3. CASE RemoveFromSubqueue(t, g) /\ Rescan(t, "handleActive")
    <3>1. "handleActive" \in Steps /\ "handleActive" \in During /\ "handleActive" \in InHand
      BY DEF Steps, During, InHand
    <3>2. /\ pc' \in [Reqs -> Steps] /\ pri' \in [Reqs -> Groups]
          /\ \A u \in Reqs \ {t} : pc'[u] = pc[u]
          /\ pc'[t] = "handleActive"
      BY <2>3, <3>1, NextGroupTypes DEF PlaceInv
    <3>3. /\ Placed' /\ Lists'
          /\ cur' \in [Reqs -> Reqs \cup {NoReq}] /\ cur'[t] # NoReq
          /\ \A u \in Reqs \ {t} : cur'[u] = cur[u]
      BY <2>2, <2>3, <3>1, <3>2, RemovePlaced
    <3>4. \A u \in Reqs : pc'[u] \in InHand <=> cur'[u] # NoReq
      BY <3>1, <3>2, <3>3 DEF PlaceInv, TypeThreads
    <3>5. TypeThreads'
      BY <2>2, <3>2, <3>3, <3>4 DEF PlaceInv, TypeThreads
    <3>. QED BY <3>3, <3>5 DEF PlaceInv
  <2>4. CASE NextGroup(t, IF found[t] THEN "take" ELSE "done") /\ UNCHANGED <<cur, lists>>
    <3>1. PICK s \in {"take", "done"} : NextGroup(t, s)
      BY <2>4
    <3>2. s \in Steps /\ s \in Idle
      BY DEF Steps, Idle
    <3>3. /\ pc' \in [Reqs -> Steps] /\ pri' \in [Reqs -> Groups]
          /\ \A u \in Reqs \ {t} : pc'[u] = pc[u]
          /\ pc'[t] \in {pc[t], s}
      BY <3>1, <3>2, NextGroupTypes DEF PlaceInv
    <3>4. isRPC' \in [Reqs -> BOOLEAN] /\ found' \in [Reqs -> BOOLEAN]
      BY <2>2 DEF PlaceInv, TypeThreads
    <3>. QED BY <2>2, <2>4, <3>2, <3>3, <3>4, PlaceGoes
  <2>. QED BY <1>5, <2>1, <2>3, <2>4 DEF TakeActive
<1>. QED BY <1>2, <1>3, <1>4, <1>5

LEMMA PlaceNext == PlaceInv /\ [Next]_vars => PlaceInv'
<1>. SUFFICES ASSUME PlaceInv, [Next]_vars PROVE PlaceInv'
  OBVIOUS
<1>1. CASE UNCHANGED vars
  <2>1. UNCHANGED lists
    BY <1>1 DEF vars
  <2>2. Lists'
    BY <2>1, SameLists DEF PlaceInv
  <2>3. UNCHANGED <<pc, isRPC, cur, pri, found, state, left, reqQ, node, used>>
    BY <1>1 DEF vars, thread, lists
  <2>4. TypeThreads'
    BY <2>3 DEF PlaceInv, TypeThreads
  <2>5. Hands' /\ HeldOnce' /\ QueueSound' /\ QueueOnce'
    BY <2>3 DEF PlaceInv, Placed, Hands, HeldOnce, QueueSound, QueueOnce
  <2>6. SubSound' /\ SubOnce' /\ Somewhere' /\ Own'
    BY <2>3 DEF PlaceInv, Placed, SubSound, SubOnce, Somewhere, IsHeld, InQueue, InSub, Own
  <2>. QED BY <2>2, <2>4, <2>5, <2>6 DEF PlaceInv, Placed
<1>2. ASSUME NEW t \in Reqs, Arrive(t) \/ Thread(t) PROVE PlaceInv'
  BY <1>2, PlaceArrive, PlaceSteps, PlaceQueues, PlaceActive DEF Thread
<1>. QED BY <1>1, <1>2 DEF Next

\* The subqueues of a group stay a chain, and a request that waits or is active is in its
\* group's queue, in a subqueue of its user, or in the hand of one thread: whatever
\* QueueAdd, QueueRemove and QueueMoveToBack (resources.cpp) do to the pointers.
THEOREM PlacesKept == Spec => []PlaceInv
<1>. QED BY PlaceInit, PlaceNext, PTL DEF Spec

(***************************************************************************)
(* NeverTwice counts the places of a request.                              *)
(***************************************************************************)
LEMMA OneAtMost ==
  ASSUME NEW A, \A x, y \in A : x = y
  PROVE  Cardinality(A) = Ind(A # {})
<1>1. CASE A = {}
  BY <1>1, FS_EmptySet DEF Ind
<1>2. CASE A # {}
  <2>1. PICK x : A = {x}
    BY <1>2
  <2>. QED BY <1>2, <2>1, FS_Singleton DEF Ind
<1>. QED BY <1>1, <1>2

LEMMA PlacesCounted ==
  ASSUME PlaceInv, NEW r \in Reqs
  PROVE  /\ Cardinality(Holders(r)) = Ind(IsHeld(r))
         /\ Cardinality(Queued(r)) = Ind(InQueue(r))
         /\ Cardinality(InSubqueue(r)) = Ind(InSub(r))
<1>1. r # NoReq /\ IsFiniteSet(Reqs) /\ Cardinality(Reqs) \in Nat /\ PriOf[r] \in Groups
  BY Assumed, FS_CardinalityType
<1>2. Cardinality(Holders(r)) = Ind(IsHeld(r))
  <2>1. \A s, t \in Holders(r) : s = t
    BY <1>1 DEF Holders, PlaceInv, Placed, HeldOnce
  <2>2. Holders(r) # {} <=> IsHeld(r)
    BY <1>1, Members DEF Holders, IsHeld
  <2>3. Cardinality(Holders(r)) = Ind(Holders(r) # {})
    BY <2>1, OneAtMost
  <2>. QED BY <2>2, <2>3 DEF Ind
<1>3. Cardinality(Queued(r)) = Ind(InQueue(r))
  <2>1. ASSUME NEW p \in Queued(r)
        PROVE  /\ p \in Groups \X Nat /\ p[1] = PriOf[r]
               /\ p[2] \in 1 .. Len(reqQ[PriOf[r]]) /\ reqQ[PriOf[r]][p[2]] = r
    <3>1. /\ p \in Groups \X (1 .. Cardinality(Reqs))
          /\ p[2] <= Len(reqQ[p[1]]) /\ reqQ[p[1]][p[2]] = r
      BY DEF Queued
    <3>2. PICK g \in Groups, k \in 1 .. Cardinality(Reqs) : p = <<g, k>>
      BY <3>1
    <3>3. reqQ[g] \in Seq(Reqs) /\ Len(reqQ[g]) \in Nat
      BY DEF PlaceInv, TypeThreads
    <3>4. k \in 1 .. Len(reqQ[g]) /\ reqQ[g][k] = r
      BY <3>1, <3>2, <3>3
    <3>5. g = PriOf[r]
      BY <3>4 DEF PlaceInv, Placed, QueueSound
    <3>. QED BY <3>2, <3>4, <3>5
  <2>2. \A p, q \in Queued(r) : p = q
    <3>. SUFFICES ASSUME NEW p \in Queued(r), NEW q \in Queued(r) PROVE p = q
      OBVIOUS
    <3>1. p[2] = q[2]
      BY <1>1, <2>1 DEF PlaceInv, Placed, QueueOnce
    <3>2. p \in Groups \X Nat /\ q \in Groups \X Nat /\ p[1] = q[1]
      BY <2>1
    <3>. QED BY <3>1, <3>2
  <2>3. ASSUME NEW k \in 1 .. Len(reqQ[PriOf[r]]), reqQ[PriOf[r]][k] = r
        PROVE  <<PriOf[r], k>> \in Queued(r)
    <3>1. reqQ[PriOf[r]] \in Seq(Reqs)
      BY <1>1 DEF PlaceInv, TypeThreads
    <3>2. Distinct(reqQ[PriOf[r]])
      BY <1>1 DEF PlaceInv, Placed, QueueOnce, Distinct
    <3>3. Len(reqQ[PriOf[r]]) <= Cardinality(Reqs) /\ Len(reqQ[PriOf[r]]) \in Nat
      BY <1>1, <3>1, <3>2, DistinctLength
    <3>4. k \in 1 .. Cardinality(Reqs)
      BY <1>1, <3>3
    <3>. QED BY <1>1, <2>3, <3>3, <3>4 DEF Queued
  <2>4. Queued(r) # {} <=> InQueue(r)
    BY <2>1, <2>3 DEF InQueue
  <2>5. Cardinality(Queued(r)) = Ind(Queued(r) # {})
    BY <2>2, OneAtMost
  <2>. QED BY <2>4, <2>5 DEF Ind
<1>4. Cardinality(InSubqueue(r)) = Ind(InSub(r))
  <2>1. ASSUME NEW p \in InSubqueue(r)
        PROVE  /\ p \in (1 .. used) \X Nat /\ p[1] \in 1 .. used
               /\ p[2] \in 1 .. Len(node[p[1]].sub) /\ node[p[1]].sub[p[2]] = r
    <3>1. /\ p \in (1 .. used) \X (1 .. Cardinality(Reqs))
          /\ p[2] <= Len(node[p[1]].sub) /\ node[p[1]].sub[p[2]] = r
      BY DEF InSubqueue
    <3>2. PICK m \in 1 .. used, k \in 1 .. Cardinality(Reqs) : p = <<m, k>>
      BY <3>1
    <3>3. Len(node[m].sub) \in Nat
      <4>1. node[m].sub \in Seq(Reqs)
        BY Members
      <4>. QED BY <4>1
    <3>4. k \in 1 .. Len(node[m].sub) /\ node[m].sub[k] = r
      BY <3>1, <3>2, <3>3
    <3>. QED BY <3>2, <3>4
  <2>2. \A p, q \in InSubqueue(r) : p = q
    <3>. SUFFICES ASSUME NEW p \in InSubqueue(r), NEW q \in InSubqueue(r) PROVE p = q
      OBVIOUS
    <3>1. p[1] = q[1] /\ p[2] = q[2]
      <4>1. SubOnce
        BY DEF PlaceInv, Placed
      <4>2. \A k \in 1 .. Len(node[p[1]].sub), l \in 1 .. Len(node[q[1]].sub) :
               node[p[1]].sub[k] = node[q[1]].sub[l] => p[1] = q[1] /\ k = l
        BY <2>1, <4>1 DEF SubOnce
      <4>3. /\ p[2] \in 1 .. Len(node[p[1]].sub) /\ q[2] \in 1 .. Len(node[q[1]].sub)
            /\ node[p[1]].sub[p[2]] = node[q[1]].sub[q[2]]
        BY <2>1
      <4>. QED BY <4>2, <4>3
    <3>2. p \in (1 .. used) \X Nat /\ q \in (1 .. used) \X Nat
      BY <2>1
    <3>. QED BY <3>1, <3>2
  <2>3. ASSUME NEW m \in 1 .. used, NEW k \in 1 .. Len(node[m].sub), node[m].sub[k] = r
        PROVE  <<m, k>> \in InSubqueue(r)
    <3>1. PICK s \in Seq(Reqs) : s = node[m].sub
      BY Members
    <3>2. \A a, b \in 1 .. Len(s) : s[a] = s[b] => a = b
      BY <3>1 DEF PlaceInv, Placed, SubOnce
    <3>3. Len(s) <= Cardinality(Reqs) /\ Len(s) \in Nat
      BY <1>1, <3>2, DistinctLength DEF Distinct
    <3>4. k \in 1 .. Cardinality(Reqs) /\ k <= Len(node[m].sub)
      BY <1>1, <3>1, <3>3
    <3>. QED BY <2>3, <3>4 DEF InSubqueue
  <2>4. InSubqueue(r) # {} <=> InSub(r)
    BY <2>1, <2>3 DEF InSub
  <2>5. Cardinality(InSubqueue(r)) = Ind(InSubqueue(r) # {})
    BY <2>2, OneAtMost
  <2>. QED BY <2>4, <2>5 DEF Ind
<1>. QED BY <1>2, <1>3, <1>4

LEMMA PlacesOnce == PlaceInv => NeverTwice
<1>. SUFFICES ASSUME PlaceInv, NEW r \in Reqs
              PROVE  /\ Cardinality(Holders(r)) + Cardinality(Queued(r)) + Cardinality(InSubqueue(r))
                          = IF state[r] \in {"arrived", "freed"} \/ pc[r] = "queue" THEN 0 ELSE 1
                     /\ \A p \in InSubqueue(r) : node[p[1]].key = UserOf[r]
  BY DEF NeverTwice
<1>1. /\ state[r] \in {"arrived", "queued", "active", "freed"}
      /\ r # NoReq /\ PriOf[r] \in Groups
  BY Assumed DEF PlaceInv, TypeThreads
<1>2. IsHeld(r) => state[r] \in {"queued", "active"} /\ pc[r] # "queue" /\ ~InQueue(r) /\ ~InSub(r)
  <2>. SUFFICES ASSUME NEW t \in Reqs, cur[t] = r
                PROVE  state[r] \in {"queued", "active"} /\ pc[r] # "queue" /\ ~InQueue(r) /\ ~InSub(r)
    BY DEF IsHeld
  <2>1. state[r] \in {"queued", "active"} /\ pc[r] # "queue"
    BY <1>1, Members
  <2>2. ~InQueue(r)
    BY <1>1 DEF InQueue, PlaceInv, Placed, QueueSound
  <2>3. ~InSub(r)
    BY DEF InSub, PlaceInv, Placed, SubSound
  <2>. QED BY <2>1, <2>2, <2>3
<1>3. InQueue(r) => state[r] = "queued" /\ pc[r] # "queue"
  BY <1>1 DEF InQueue, PlaceInv, Placed, QueueSound
<1>4. InSub(r) => state[r] = "active"
  BY DEF InSub, PlaceInv, Placed, SubSound
<1>5. /\ state[r] = "queued" /\ pc[r] # "queue" => IsHeld(r) \/ InQueue(r)
      /\ state[r] = "active" => IsHeld(r) \/ InSub(r)
      /\ pc[r] = "queue" => state[r] = "queued"
  BY DEF PlaceInv, Placed, Somewhere, Own
<1>6. Ind(IsHeld(r)) + Ind(InQueue(r)) + Ind(InSub(r))
        = IF state[r] \in {"arrived", "freed"} \/ pc[r] = "queue" THEN 0 ELSE 1
  BY <1>1, <1>2, <1>3, <1>4, <1>5 DEF Ind
<1>7. \A p \in InSubqueue(r) : node[p[1]].key = UserOf[r]
  <2>. SUFFICES ASSUME NEW p \in InSubqueue(r) PROVE node[p[1]].key = UserOf[r]
    OBVIOUS
  <2>1. /\ p \in (1 .. used) \X (1 .. Cardinality(Reqs))
        /\ p[2] <= Len(node[p[1]].sub) /\ node[p[1]].sub[p[2]] = r
    BY DEF InSubqueue
  <2>2. PICK m \in 1 .. used, k \in 1 .. Cardinality(Reqs) : p = <<m, k>>
    BY <2>1
  <2>3. Len(node[m].sub) \in Nat
    <3>1. node[m].sub \in Seq(Reqs)
      BY Members
    <3>. QED BY <3>1
  <2>4. k \in 1 .. Len(node[m].sub) /\ node[m].sub[k] = r
    BY <2>1, <2>2, <2>3
  <2>5. UserOf[r] = node[m].key
    BY <2>4 DEF PlaceInv, Placed, SubSound
  <2>. QED BY <2>2, <2>5
<1>. QED BY <1>6, <1>7, PlacesCounted

(***************************************************************************)
(* The hand-overs of a request between threads, the queue and the          *)
(* subqueues, with the pointers of QueueMoveToBack as they are, never      *)
(* leave it in two places or in another user's subqueue, and one that      *)
(* waits or is active is always in one, linked or not.                     *)
(***************************************************************************)
THEOREM NeverInTwoPlaces == Spec => []NeverTwice
<1>. QED BY PlacesKept, PlacesOnce, PTL

(***************************************************************************)
(* The counters.  Each is the number of requests in a state, corrected by  *)
(* the threads that have counted one and not yet changed its state, or the *)
(* other way round.                                                        *)
(***************************************************************************)
InState(g, S) == {r \in Reqs : PriOf[r] = g /\ state[r] \in S}
AtStep(g, S)  == {t \in Reqs : pc[t] \in S /\ cur[t] # NoReq /\ PriOf[cur[t]] = g}
OfUser(g, u)  == {r \in InState(g, {"active"}) : UserOf[r] = u}
ForUser(g, u) == {t \in AtStep(g, {"decReq"}) : UserOf[cur[t]] = u}
Refused(g)    == {t \in Reqs : pc[t] = "refuse" /\ PriOf[t] = g}

InQueued(g)    == Cardinality(InState(g, {"queued"}))
InActive(g)    == Cardinality(InState(g, {"active"}))
Counting(g)    == Cardinality(AtStep(g, {"incUser", "decActive", "decReq"}))
Admitting(g)   == Cardinality(AtStep(g, {"incUser", "decReq"}))
Freeing(g)     == Cardinality(AtStep(g, {"freeFirst", "free"}))
Refusing(g)    == Cardinality(Refused(g))
Charged(g, u)  == Cardinality(OfUser(g, u))
Charging(g, u) == Cardinality(ForUser(g, u))

CountedAt(g) ==
  /\ reqs[g] = InQueued(g) + Refusing(g)
  /\ active[g] = InActive(g) + Counting(g) - Freeing(g)
  /\ InActive(g) + Admitting(g) <= ActiveBound + Freeing(g)
ChargedAt(g, u) == /\ user[g][u] = Charged(g, u) + Charging(g, u)
                   /\ user[g][u] <= MaxUserReqs

Counted == \A g \in Groups : CountedAt(g) /\ \A u \in Users : ChargedAt(g, u)

CountInv == TypeCounters /\ Counted

LEMMA NumbersAre ==
  ASSUME NEW g, NEW u
  PROVE  /\ InQueued(g) \in Nat /\ InActive(g) \in Nat /\ Counting(g) \in Nat
         /\ Admitting(g) \in Nat /\ Freeing(g) \in Nat /\ Refusing(g) \in Nat
         /\ Charged(g, u) \in Nat /\ Charging(g, u) \in Nat
         /\ Admitting(g) <= Counting(g)
<1>1. \A A \in SUBSET Reqs : IsFiniteSet(A) /\ Cardinality(A) \in Nat
  BY Assumed, FS_Subset, FS_CardinalityType
<1>2. InState(g, {"queued"}) \in SUBSET Reqs /\ InState(g, {"active"}) \in SUBSET Reqs
  BY DEF InState
<1>3. /\ AtStep(g, {"incUser", "decActive", "decReq"}) \in SUBSET Reqs
      /\ AtStep(g, {"incUser", "decReq"}) \in SUBSET Reqs
      /\ AtStep(g, {"freeFirst", "free"}) \in SUBSET Reqs
      /\ Refused(g) \in SUBSET Reqs
  BY DEF AtStep, Refused
<1>4. OfUser(g, u) \in SUBSET Reqs /\ ForUser(g, u) \in SUBSET Reqs
  BY DEF OfUser, ForUser, InState, AtStep
<1>5. Admitting(g) <= Counting(g)
  <2>1. AtStep(g, {"incUser", "decReq"}) \subseteq AtStep(g, {"incUser", "decActive", "decReq"})
    BY DEF AtStep
  <2>. QED BY <1>1, <1>3, <2>1, FS_Subset DEF Admitting, Counting
<1>. QED BY <1>1, <1>2, <1>3, <1>4, <1>5
         DEF InQueued, InActive, Counting, Admitting, Freeing, Refusing, Charged, Charging

LEMMA CountStep ==
  ASSUME NEW A \in SUBSET Reqs, NEW B \in SUBSET Reqs, NEW x \in Reqs,
         \A r \in Reqs \ {x} : r \in A <=> r \in B
  PROVE  Cardinality(B) = Cardinality(A) + Ind(x \in B) - Ind(x \in A)
BY CountIn, Assumed

\* What a step of one thread, which changes the state of one request, does to them.
OneMoves(t, x) ==
  /\ \A u \in Reqs \ {t} : pc'[u] = pc[u] /\ cur'[u] = cur[u]
  /\ \A r \in Reqs \ {x} : state'[r] = state[r]

LEMMA StatesMove ==
  ASSUME NEW t \in Reqs, NEW x \in Reqs, OneMoves(t, x), NEW g, NEW u
  PROVE  /\ InQueued(g)' = InQueued(g) + Ind(PriOf[x] = g /\ state'[x] = "queued")
                                       - Ind(PriOf[x] = g /\ state[x] = "queued")
         /\ InActive(g)' = InActive(g) + Ind(PriOf[x] = g /\ state'[x] = "active")
                                       - Ind(PriOf[x] = g /\ state[x] = "active")
         /\ Charged(g, u)' = Charged(g, u)
              + Ind(PriOf[x] = g /\ state'[x] = "active" /\ UserOf[x] = u)
              - Ind(PriOf[x] = g /\ state[x] = "active" /\ UserOf[x] = u)
<1>1. InQueued(g)' = InQueued(g) + Ind(PriOf[x] = g /\ state'[x] = "queued")
                                 - Ind(PriOf[x] = g /\ state[x] = "queued")
  <2>. DEFINE A == InState(g, {"queued"})  B == {r \in Reqs : PriOf[r] = g /\ state'[r] \in {"queued"}}
  <2>1. A \in SUBSET Reqs /\ B \in SUBSET Reqs /\ \A r \in Reqs \ {x} : r \in A <=> r \in B
    BY DEF InState, OneMoves
  <2>2. /\ x \in A <=> PriOf[x] = g /\ state[x] = "queued"
        /\ x \in B <=> PriOf[x] = g /\ state'[x] = "queued"
    BY DEF InState
  <2>3. InQueued(g)' = Cardinality(B) /\ InQueued(g) = Cardinality(A)
    BY DEF InQueued, InState
  <2>. HIDE DEF A, B
  <2>4. Cardinality(B) = Cardinality(A) + Ind(x \in B) - Ind(x \in A)
    BY <2>1, CountStep
  <2>. QED BY <2>2, <2>3, <2>4 DEF Ind
<1>2. InActive(g)' = InActive(g) + Ind(PriOf[x] = g /\ state'[x] = "active")
                                 - Ind(PriOf[x] = g /\ state[x] = "active")
  <2>. DEFINE A == InState(g, {"active"})  B == {r \in Reqs : PriOf[r] = g /\ state'[r] \in {"active"}}
  <2>1. A \in SUBSET Reqs /\ B \in SUBSET Reqs /\ \A r \in Reqs \ {x} : r \in A <=> r \in B
    BY DEF InState, OneMoves
  <2>2. /\ x \in A <=> PriOf[x] = g /\ state[x] = "active"
        /\ x \in B <=> PriOf[x] = g /\ state'[x] = "active"
    BY DEF InState
  <2>3. InActive(g)' = Cardinality(B) /\ InActive(g) = Cardinality(A)
    BY DEF InActive, InState
  <2>. HIDE DEF A, B
  <2>4. Cardinality(B) = Cardinality(A) + Ind(x \in B) - Ind(x \in A)
    BY <2>1, CountStep
  <2>. QED BY <2>2, <2>3, <2>4 DEF Ind
<1>3. Charged(g, u)' = Charged(g, u)
              + Ind(PriOf[x] = g /\ state'[x] = "active" /\ UserOf[x] = u)
              - Ind(PriOf[x] = g /\ state[x] = "active" /\ UserOf[x] = u)
  <2>. DEFINE A == OfUser(g, u)
              B == {r \in {y \in Reqs : PriOf[y] = g /\ state'[y] \in {"active"}} : UserOf[r] = u}
  <2>1. A \in SUBSET Reqs /\ B \in SUBSET Reqs /\ \A r \in Reqs \ {x} : r \in A <=> r \in B
    BY DEF OfUser, InState, OneMoves
  <2>2. /\ x \in A <=> PriOf[x] = g /\ state[x] = "active" /\ UserOf[x] = u
        /\ x \in B <=> PriOf[x] = g /\ state'[x] = "active" /\ UserOf[x] = u
    BY DEF OfUser, InState
  <2>3. Charged(g, u)' = Cardinality(B) /\ Charged(g, u) = Cardinality(A)
    BY DEF Charged, OfUser, InState
  <2>. HIDE DEF A, B
  <2>4. Cardinality(B) = Cardinality(A) + Ind(x \in B) - Ind(x \in A)
    BY <2>1, CountStep
  <2>. QED BY <2>2, <2>3, <2>4 DEF Ind
<1>. QED BY <1>1, <1>2, <1>3

\* Whether thread t is counted among those at the steps S for the group.
At(t, g, S) == pc[t] \in S /\ cur[t] # NoReq /\ PriOf[cur[t]] = g

LEMMA StepsMove ==
  ASSUME NEW t \in Reqs, NEW x \in Reqs, OneMoves(t, x), NEW g, NEW u
  PROVE  /\ Counting(g)' = Counting(g) + Ind(At(t, g, {"incUser", "decActive", "decReq"})')
                                       - Ind(At(t, g, {"incUser", "decActive", "decReq"}))
         /\ Admitting(g)' = Admitting(g) + Ind(At(t, g, {"incUser", "decReq"})')
                                         - Ind(At(t, g, {"incUser", "decReq"}))
         /\ Freeing(g)' = Freeing(g) + Ind(At(t, g, {"freeFirst", "free"})')
                                     - Ind(At(t, g, {"freeFirst", "free"}))
         /\ Charging(g, u)' = Charging(g, u)
              + Ind(At(t, g, {"decReq"})' /\ UserOf[cur'[t]] = u)
              - Ind(At(t, g, {"decReq"}) /\ UserOf[cur[t]] = u)
         /\ Refusing(g)' = Refusing(g) + Ind(pc'[t] = "refuse" /\ PriOf[t] = g)
                                       - Ind(pc[t] = "refuse" /\ PriOf[t] = g)
<1>1. ASSUME NEW S
      PROVE  Cardinality(AtStep(g, S))' = Cardinality(AtStep(g, S)) + Ind(At(t, g, S)') - Ind(At(t, g, S))
  <2>. DEFINE A == AtStep(g, S)
              B == {v \in Reqs : pc'[v] \in S /\ cur'[v] # NoReq /\ PriOf[cur'[v]] = g}
  <2>1. A \in SUBSET Reqs /\ B \in SUBSET Reqs /\ \A r \in Reqs \ {t} : r \in A <=> r \in B
    BY DEF AtStep, OneMoves
  <2>2. (t \in A <=> At(t, g, S)) /\ (t \in B <=> At(t, g, S)')
    BY DEF AtStep, At
  <2>3. Cardinality(AtStep(g, S))' = Cardinality(B) /\ Cardinality(AtStep(g, S)) = Cardinality(A)
    BY DEF AtStep
  <2>. HIDE DEF A, B
  <2>4. Cardinality(B) = Cardinality(A) + Ind(t \in B) - Ind(t \in A)
    BY <2>1, CountStep
  <2>. QED BY <2>2, <2>3, <2>4 DEF Ind
<1>2. Charging(g, u)' = Charging(g, u)
              + Ind(At(t, g, {"decReq"})' /\ UserOf[cur'[t]] = u)
              - Ind(At(t, g, {"decReq"}) /\ UserOf[cur[t]] = u)
  <2>. DEFINE A == ForUser(g, u)
              B == {w \in {v \in Reqs : pc'[v] \in {"decReq"} /\ cur'[v] # NoReq /\ PriOf[cur'[v]] = g} :
                      UserOf[cur'[w]] = u}
  <2>1. A \in SUBSET Reqs /\ B \in SUBSET Reqs /\ \A r \in Reqs \ {t} : r \in A <=> r \in B
    BY DEF ForUser, AtStep, OneMoves
  <2>2. /\ t \in A <=> At(t, g, {"decReq"}) /\ UserOf[cur[t]] = u
        /\ t \in B <=> At(t, g, {"decReq"})' /\ UserOf[cur'[t]] = u
    BY DEF ForUser, AtStep, At
  <2>3. Charging(g, u)' = Cardinality(B) /\ Charging(g, u) = Cardinality(A)
    BY DEF Charging, ForUser, AtStep
  <2>. HIDE DEF A, B
  <2>4. Cardinality(B) = Cardinality(A) + Ind(t \in B) - Ind(t \in A)
    BY <2>1, CountStep
  <2>. QED BY <2>2, <2>3, <2>4 DEF Ind
<1>3. Refusing(g)' = Refusing(g) + Ind(pc'[t] = "refuse" /\ PriOf[t] = g)
                                 - Ind(pc[t] = "refuse" /\ PriOf[t] = g)
  <2>. DEFINE A == Refused(g)  B == {v \in Reqs : pc'[v] = "refuse" /\ PriOf[v] = g}
  <2>1. A \in SUBSET Reqs /\ B \in SUBSET Reqs /\ \A r \in Reqs \ {t} : r \in A <=> r \in B
    BY DEF Refused, OneMoves
  <2>2. /\ t \in A <=> pc[t] = "refuse" /\ PriOf[t] = g
        /\ t \in B <=> pc'[t] = "refuse" /\ PriOf[t] = g
    BY DEF Refused
  <2>3. Refusing(g)' = Cardinality(B) /\ Refusing(g) = Cardinality(A)
    BY DEF Refusing, Refused
  <2>. HIDE DEF A, B
  <2>4. Cardinality(B) = Cardinality(A) + Ind(t \in B) - Ind(t \in A)
    BY <2>1, CountStep
  <2>. QED BY <2>2, <2>3, <2>4 DEF Ind
<1>. QED BY <1>1, <1>2, <1>3 DEF Counting, Admitting, Freeing

\* A step that concerns request x only.
Concerns(t, x) ==
  /\ OneMoves(t, x)
  /\ cur[t] \in {x, NoReq} /\ cur'[t] \in {x, NoReq}
  /\ pc[t] = "refuse" \/ pc'[t] = "refuse" => x = t

\* What it does to the counts of the group and the user.
Moved(t, x, g, u) ==
  /\ InQueued(g)' = InQueued(g) + Ind(state'[x] = "queued") - Ind(state[x] = "queued")
  /\ InActive(g)' = InActive(g) + Ind(state'[x] = "active") - Ind(state[x] = "active")
  /\ Counting(g)' = Counting(g) + Ind(pc'[t] \in {"incUser", "decActive", "decReq"})
                                - Ind(pc[t] \in {"incUser", "decActive", "decReq"})
  /\ Admitting(g)' = Admitting(g) + Ind(pc'[t] \in {"incUser", "decReq"})
                                  - Ind(pc[t] \in {"incUser", "decReq"})
  /\ Freeing(g)' = Freeing(g) + Ind(pc'[t] \in {"freeFirst", "free"})
                              - Ind(pc[t] \in {"freeFirst", "free"})
  /\ Refusing(g)' = Refusing(g) + Ind(pc'[t] = "refuse") - Ind(pc[t] = "refuse")
  /\ Charged(g, u)' = Charged(g, u) + Ind(state'[x] = "active" /\ UserOf[x] = u)
                                    - Ind(state[x] = "active" /\ UserOf[x] = u)
  /\ Charging(g, u)' = Charging(g, u) + Ind(pc'[t] = "decReq" /\ UserOf[x] = u)
                                      - Ind(pc[t] = "decReq" /\ UserOf[x] = u)

LEMMA CountsHere ==
  ASSUME TypeThreads, TypeThreads', NEW t \in Reqs, NEW x \in Reqs, Concerns(t, x),
         NEW g, g = PriOf[x], NEW u
  PROVE  Moved(t, x, g, u)
<1>1. OneMoves(t, x)
  BY DEF Concerns
<1>2. /\ pc[t] \in InHand <=> cur[t] = x
      /\ pc'[t] \in InHand <=> cur'[t] = x
  BY Assumed DEF Concerns, TypeThreads
<1>3. \A S : /\ S \subseteq InHand => (At(t, g, S) <=> pc[t] \in S)
             /\ S \subseteq InHand => (At(t, g, S)' <=> pc'[t] \in S)
  BY <1>2, Assumed DEF At
<1>4. /\ {"incUser", "decActive", "decReq"} \subseteq InHand /\ {"incUser", "decReq"} \subseteq InHand
      /\ {"freeFirst", "free"} \subseteq InHand /\ {"decReq"} \subseteq InHand
  BY DEF InHand
<1>5. /\ At(t, g, {"incUser", "decActive", "decReq"}) <=> pc[t] \in {"incUser", "decActive", "decReq"}
      /\ At(t, g, {"incUser", "decActive", "decReq"})' <=> pc'[t] \in {"incUser", "decActive", "decReq"}
      /\ At(t, g, {"incUser", "decReq"}) <=> pc[t] \in {"incUser", "decReq"}
      /\ At(t, g, {"incUser", "decReq"})' <=> pc'[t] \in {"incUser", "decReq"}
      /\ At(t, g, {"freeFirst", "free"}) <=> pc[t] \in {"freeFirst", "free"}
      /\ At(t, g, {"freeFirst", "free"})' <=> pc'[t] \in {"freeFirst", "free"}
  BY <1>3, <1>4
<1>6. /\ At(t, g, {"decReq"}) /\ UserOf[cur[t]] = u <=> pc[t] = "decReq" /\ UserOf[x] = u
      /\ At(t, g, {"decReq"})' /\ UserOf[cur'[t]] = u <=> pc'[t] = "decReq" /\ UserOf[x] = u
  BY <1>2, <1>3, <1>4
<1>7. /\ pc[t] = "refuse" /\ PriOf[t] = g <=> pc[t] = "refuse"
      /\ pc'[t] = "refuse" /\ PriOf[t] = g <=> pc'[t] = "refuse"
  BY DEF Concerns
<1>8. /\ InQueued(g)' = InQueued(g) + Ind(state'[x] = "queued") - Ind(state[x] = "queued")
      /\ InActive(g)' = InActive(g) + Ind(state'[x] = "active") - Ind(state[x] = "active")
      /\ Charged(g, u)' = Charged(g, u) + Ind(state'[x] = "active" /\ UserOf[x] = u)
                                        - Ind(state[x] = "active" /\ UserOf[x] = u)
  <2>1. InQueued(g)' = InQueued(g) + Ind(state'[x] = "queued") - Ind(state[x] = "queued")
    <3>1. InQueued(g)' = InQueued(g) + Ind(PriOf[x] = g /\ state'[x] = "queued")
                                     - Ind(PriOf[x] = g /\ state[x] = "queued")
      BY <1>1, StatesMove
    <3>. QED BY <3>1 DEF Ind
  <2>2. InActive(g)' = InActive(g) + Ind(state'[x] = "active") - Ind(state[x] = "active")
    <3>1. InActive(g)' = InActive(g) + Ind(PriOf[x] = g /\ state'[x] = "active")
                                     - Ind(PriOf[x] = g /\ state[x] = "active")
      BY <1>1, StatesMove
    <3>. QED BY <3>1 DEF Ind
  <2>3. Charged(g, u)' = Charged(g, u) + Ind(state'[x] = "active" /\ UserOf[x] = u)
                                       - Ind(state[x] = "active" /\ UserOf[x] = u)
    <3>1. Charged(g, u)' = Charged(g, u)
              + Ind(PriOf[x] = g /\ state'[x] = "active" /\ UserOf[x] = u)
              - Ind(PriOf[x] = g /\ state[x] = "active" /\ UserOf[x] = u)
      BY <1>1, StatesMove
    <3>. QED BY <3>1 DEF Ind
  <2>. QED BY <2>1, <2>2, <2>3
<1>9. /\ Counting(g)' = Counting(g) + Ind(pc'[t] \in {"incUser", "decActive", "decReq"})
                                       - Ind(pc[t] \in {"incUser", "decActive", "decReq"})
      /\ Admitting(g)' = Admitting(g) + Ind(pc'[t] \in {"incUser", "decReq"})
                                      - Ind(pc[t] \in {"incUser", "decReq"})
      /\ Freeing(g)' = Freeing(g) + Ind(pc'[t] \in {"freeFirst", "free"})
                                  - Ind(pc[t] \in {"freeFirst", "free"})
  BY <1>1, <1>5, StepsMove DEF Ind
<1>10. /\ Refusing(g)' = Refusing(g) + Ind(pc'[t] = "refuse") - Ind(pc[t] = "refuse")
       /\ Charging(g, u)' = Charging(g, u) + Ind(pc'[t] = "decReq" /\ UserOf[x] = u)
                                           - Ind(pc[t] = "decReq" /\ UserOf[x] = u)
  BY <1>1, <1>6, <1>7, StepsMove DEF Ind
<1>. QED BY <1>8, <1>9, <1>10 DEF Moved

LEMMA CountsElsewhere ==
  ASSUME NEW t \in Reqs, NEW x \in Reqs, Concerns(t, x),
         NEW g, g # PriOf[x], NEW u
  PROVE  /\ InQueued(g)' = InQueued(g) /\ InActive(g)' = InActive(g)
         /\ Counting(g)' = Counting(g) /\ Admitting(g)' = Admitting(g)
         /\ Freeing(g)' = Freeing(g) /\ Refusing(g)' = Refusing(g)
         /\ Charged(g, u)' = Charged(g, u) /\ Charging(g, u)' = Charging(g, u)
<1>1. OneMoves(t, x)
  BY DEF Concerns
<1>2. \A S : ~At(t, g, S) /\ ~At(t, g, S)'
  BY DEF At, Concerns
<1>3. ~(pc[t] = "refuse" /\ PriOf[t] = g) /\ ~(pc'[t] = "refuse" /\ PriOf[t] = g)
  BY DEF Concerns
<1>4. /\ InQueued(g) \in Nat /\ InActive(g) \in Nat /\ Counting(g) \in Nat
      /\ Admitting(g) \in Nat /\ Freeing(g) \in Nat /\ Refusing(g) \in Nat
      /\ Charged(g, u) \in Nat /\ Charging(g, u) \in Nat
  BY NumbersAre
<1>5. InQueued(g)' = InQueued(g) /\ InActive(g)' = InActive(g) /\ Charged(g, u)' = Charged(g, u)
  BY <1>1, <1>4, StatesMove DEF Ind
<1>6. /\ ~At(t, g, {"incUser", "decActive", "decReq"}) /\ ~At(t, g, {"incUser", "decActive", "decReq"})'
      /\ ~At(t, g, {"incUser", "decReq"}) /\ ~At(t, g, {"incUser", "decReq"})'
      /\ ~At(t, g, {"freeFirst", "free"}) /\ ~At(t, g, {"freeFirst", "free"})'
      /\ ~At(t, g, {"decReq"}) /\ ~At(t, g, {"decReq"})'
  BY <1>2
<1>7. /\ Counting(g)' = Counting(g) /\ Admitting(g)' = Admitting(g) /\ Freeing(g)' = Freeing(g)
      /\ Charging(g, u)' = Charging(g, u)
  BY <1>1, <1>4, <1>6, StepsMove DEF Ind
<1>8. Refusing(g)' = Refusing(g)
  BY <1>1, <1>3, <1>4, StepsMove DEF Ind
<1>. QED BY <1>5, <1>7, <1>8

\* What is left to show of a step: the counters of the group of its request.
LEMMA CountsKept ==
  ASSUME CountInv, TypeCounters', NEW t \in Reqs, NEW x \in Reqs, Concerns(t, x),
         NEW p \in Groups, p = PriOf[x],
         \A g \in Groups \ {p} : reqs'[g] = reqs[g] /\ active'[g] = active[g] /\ user'[g] = user[g],
         CountedAt(p)', \A u \in Users : ChargedAt(p, u)'
  PROVE  CountInv'
<1>1. ASSUME NEW g \in Groups, g # p, NEW u \in Users
      PROVE  CountedAt(g)' /\ ChargedAt(g, u)'
  <2>1. CountedAt(g) /\ ChargedAt(g, u)
    BY DEF CountInv, Counted
  <2>2. /\ InQueued(g)' = InQueued(g) /\ InActive(g)' = InActive(g)
        /\ Counting(g)' = Counting(g) /\ Admitting(g)' = Admitting(g)
        /\ Freeing(g)' = Freeing(g) /\ Refusing(g)' = Refusing(g)
        /\ Charged(g, u)' = Charged(g, u) /\ Charging(g, u)' = Charging(g, u)
    BY <1>1, CountsElsewhere
  <2>3. reqs'[g] = reqs[g] /\ active'[g] = active[g] /\ user'[g] = user[g]
    BY <1>1
  <2>4. CountedAt(g)'
    BY <2>1, <2>2, <2>3 DEF CountedAt
  <2>5. ChargedAt(g, u)'
    BY <2>1, <2>2, <2>3 DEF ChargedAt
  <2>. QED BY <2>4, <2>5
<1>2. UserOf[x] \in Users
  BY Assumed
<1>3. \A g \in Groups : CountedAt(g)' /\ \A u \in Users : ChargedAt(g, u)'
  BY <1>1, <1>2
<1>. QED BY <1>3 DEF CountInv, Counted

\* The steps that neither count anything nor change the state of a request.
Uncounted == {"arrive", "queue", "take", "active", "done", "incActive", "putBack", "handle",
              "handleActive", "releaseFirst", "release"}

LEMMA CountsUntouched ==
  ASSUME CountInv, TypeThreads, TypeThreads', NEW t \in Reqs, NEW x \in Reqs, Concerns(t, x),
         UNCHANGED state, UNCHANGED counters, pc[t] \in Uncounted, pc'[t] \in Uncounted
  PROVE  CountInv'
<1>1. PICK p \in Groups : p = PriOf[x]
  BY Assumed
<1>2. UNCHANGED <<reqs, active, user>> /\ state'[x] = state[x]
  BY DEF counters
<1>3. TypeCounters'
  BY <1>2 DEF CountInv, TypeCounters
<1>4. /\ pc[t] \notin {"incUser", "decActive", "decReq"} /\ pc'[t] \notin {"incUser", "decActive", "decReq"}
      /\ pc[t] \notin {"incUser", "decReq"} /\ pc'[t] \notin {"incUser", "decReq"}
      /\ pc[t] \notin {"freeFirst", "free"} /\ pc'[t] \notin {"freeFirst", "free"}
      /\ pc[t] # "refuse" /\ pc'[t] # "refuse" /\ pc[t] # "decReq" /\ pc'[t] # "decReq"
  BY DEF Uncounted
<1>5. ASSUME NEW u \in Users
      PROVE  CountedAt(p)' /\ ChargedAt(p, u)'
  <2>0. Moved(t, x, p, u)
    BY <1>1, CountsHere
  <2>1. CountedAt(p) /\ ChargedAt(p, u)
    BY DEF CountInv, Counted
  <2>2. /\ InQueued(p) \in Nat /\ InActive(p) \in Nat /\ Counting(p) \in Nat
        /\ Admitting(p) \in Nat /\ Freeing(p) \in Nat /\ Refusing(p) \in Nat
        /\ Charged(p, u) \in Nat /\ Charging(p, u) \in Nat
    BY NumbersAre
  <2>3. /\ InQueued(p)' = InQueued(p) /\ InActive(p)' = InActive(p)
        /\ Charged(p, u)' = Charged(p, u)
    BY <1>2, <2>0, <2>2 DEF Moved, Ind
  <2>4. /\ Counting(p)' = Counting(p) /\ Admitting(p)' = Admitting(p)
        /\ Freeing(p)' = Freeing(p) /\ Refusing(p)' = Refusing(p)
        /\ Charging(p, u)' = Charging(p, u)
    BY <1>4, <2>0, <2>2 DEF Moved, Ind
  <2>5. CountedAt(p)'
    BY <1>2, <2>1, <2>3, <2>4 DEF CountedAt
  <2>6. ChargedAt(p, u)'
    BY <1>2, <2>1, <2>3, <2>4 DEF ChargedAt
  <2>. QED BY <2>5, <2>6
<1>6. UserOf[x] \in Users
  BY Assumed
<1>7. CountedAt(p)' /\ \A u \in Users : ChargedAt(p, u)'
  BY <1>5, <1>6
<1>8. \A g \in Groups \ {p} : reqs'[g] = reqs[g] /\ active'[g] = active[g] /\ user'[g] = user[g]
  BY <1>2
<1>. QED BY <1>1, <1>3, <1>7, <1>8, CountsKept

\* RequestFile.
LEMMA CountArrive ==
  ASSUME PlaceInv, PlaceInv', CountInv, NEW t \in Reqs, Arrive(t) \/ Refuse(t)
  PROVE  CountInv'
<1>1. PICK p \in Groups : p = PriOf[t]
  BY Assumed
<1>2. TypeThreads /\ TypeThreads' /\ TypeCounters
  BY DEF PlaceInv, CountInv
<1>3. /\ UNCHANGED <<active, user>> /\ cur' = cur
      /\ \A g \in Groups \ {p} : reqs'[g] = reqs[g]
      /\ reqs' \in [Groups -> Int]
      /\ \A v \in Reqs \ {t} : pc'[v] = pc[v] /\ state'[v] = state[v]
      /\ \/ /\ pc[t] = "arrive" /\ pc'[t] \in {"refuse", "queue"} /\ reqs'[p] = reqs[p] + 1
            /\ state'[t] = IF pc'[t] = "refuse" THEN state[t] ELSE "queued"
         \/ /\ pc[t] = "refuse" /\ pc'[t] = "done" /\ reqs'[p] = reqs[p] - 1
            /\ state'[t] = "freed"
  <2>1. reqs[p] \in Int /\ reqs \in [Groups -> Int]
    BY <1>2 DEF TypeCounters
  <2>2. CASE Arrive(t)
    <3>1. /\ UNCHANGED <<active, user>> /\ cur' = cur /\ pc[t] = "arrive"
          /\ reqs' = [reqs EXCEPT ![p] = reqs[p] + 1]
          /\ \/ pc' = [pc EXCEPT ![t] = "refuse"] /\ state' = state
             \/ pc' = [pc EXCEPT ![t] = "queue"] /\ state' = [state EXCEPT ![t] = "queued"]
      BY <1>1, <2>2 DEF Arrive, Goto, thread
    <3>2. /\ pc \in [Reqs -> Steps] /\ DOMAIN state = Reqs
      BY <1>2 DEF TypeThreads
    <3>3. /\ \A v \in Reqs \ {t} : pc'[v] = pc[v] /\ state'[v] = state[v]
          /\ pc'[t] \in {"refuse", "queue"}
          /\ state'[t] = IF pc'[t] = "refuse" THEN state[t] ELSE "queued"
      BY <3>1, <3>2
    <3>4. reqs' \in [Groups -> Int] /\ reqs'[p] = reqs[p] + 1 /\ \A g \in Groups \ {p} : reqs'[g] = reqs[g]
      BY <2>1, <3>1
    <3>. QED BY <3>1, <3>3, <3>4
  <2>3. CASE Refuse(t)
    <3>1. /\ UNCHANGED <<active, user>> /\ cur' = cur /\ pc[t] = "refuse"
          /\ reqs' = [reqs EXCEPT ![p] = reqs[p] - 1]
          /\ pc' = [pc EXCEPT ![t] = "done"] /\ state' = [state EXCEPT ![t] = "freed"]
      BY <1>1, <2>3 DEF Refuse, Goto, thread
    <3>. QED BY <1>2, <2>1, <3>1 DEF TypeThreads
  <2>. QED BY <2>2, <2>3
<1>4. cur[t] = NoReq /\ state[t] = "arrived"
  <2>1. pc[t] \notin InHand
    BY <1>3 DEF InHand
  <2>. QED BY <1>3, <2>1 DEF PlaceInv, Placed, Own, TypeThreads
<1>5. Concerns(t, t)
  BY <1>3, <1>4 DEF Concerns, OneMoves
<1>6. TypeCounters'
  BY <1>2, <1>3 DEF TypeCounters
<1>7. ASSUME NEW u \in Users
      PROVE  CountedAt(p)' /\ ChargedAt(p, u)'
  <2>0. Moved(t, t, p, u)
    BY <1>1, <1>2, <1>5, CountsHere
  <2>1. CountedAt(p) /\ ChargedAt(p, u)
    BY DEF CountInv, Counted
  <2>2. /\ InQueued(p) \in Nat /\ InActive(p) \in Nat /\ Counting(p) \in Nat
        /\ Admitting(p) \in Nat /\ Freeing(p) \in Nat /\ Refusing(p) \in Nat
        /\ Charged(p, u) \in Nat /\ Charging(p, u) \in Nat
    BY NumbersAre
  <2>3. /\ InActive(p)' = InActive(p) /\ Counting(p)' = Counting(p)
        /\ Admitting(p)' = Admitting(p) /\ Freeing(p)' = Freeing(p)
        /\ Charged(p, u)' = Charged(p, u) /\ Charging(p, u)' = Charging(p, u)
    <3>1. /\ state[t] # "active" /\ state'[t] # "active"
          /\ {pc[t], pc'[t]} \cap {"incUser", "decActive", "decReq", "freeFirst", "free"} = {}
      BY <1>3, <1>4
    <3>2. /\ pc[t] \notin {"incUser", "decActive", "decReq"} /\ pc'[t] \notin {"incUser", "decActive", "decReq"}
          /\ pc[t] \notin {"incUser", "decReq"} /\ pc'[t] \notin {"incUser", "decReq"}
          /\ pc[t] \notin {"freeFirst", "free"} /\ pc'[t] \notin {"freeFirst", "free"}
          /\ pc[t] # "decReq" /\ pc'[t] # "decReq"
      BY <3>1
    <3>. QED BY <2>0, <2>2, <3>1, <3>2 DEF Moved, Ind
  <2>4. /\ InQueued(p)' = InQueued(p) + Ind(state'[t] = "queued") - Ind(state[t] = "queued")
        /\ Refusing(p)' = Refusing(p) + Ind(pc'[t] = "refuse") - Ind(pc[t] = "refuse")
    BY <2>0 DEF Moved
  <2>5. InQueued(p)' + Refusing(p)' = InQueued(p) + Refusing(p) + reqs'[p] - reqs[p]
    <3>1. reqs[p] \in Int
      BY <1>2 DEF TypeCounters
    <3>. QED BY <1>3, <1>4, <2>2, <2>4, <3>1 DEF Ind
  <2>6. InQueued(p)' \in Int /\ Refusing(p)' \in Int
    BY <2>2, <2>4 DEF Ind
  <2>7. reqs[p] \in Int /\ reqs'[p] \in Int
    BY <1>2, <1>3 DEF TypeCounters
  <2>8. reqs'[p] = InQueued(p)' + Refusing(p)'
    BY <2>1, <2>2, <2>5, <2>6, <2>7 DEF CountedAt
  <2>9. CountedAt(p)'
    BY <1>3, <2>1, <2>3, <2>8 DEF CountedAt
  <2>10. ChargedAt(p, u)'
    BY <1>3, <2>1, <2>3 DEF ChargedAt
  <2>. QED BY <2>9, <2>10
<1>8. UserOf[t] \in Users
  BY Assumed
<1>9. CountedAt(p)' /\ \A u \in Users : ChargedAt(p, u)'
  BY <1>7, <1>8
<1>10. \A g \in Groups \ {p} : reqs'[g] = reqs[g] /\ active'[g] = active[g] /\ user'[g] = user[g]
  BY <1>3
<1>. QED BY <1>1, <1>5, <1>6, <1>9, <1>10, CountsKept

\* ServiceRequests: the steps that count, and those that change what a request is.
LEMMA CountIncActive ==
  ASSUME PlaceInv, PlaceInv', CountInv, NEW t \in Reqs, IncActive(t)
  PROVE  CountInv'
<1>1. /\ TypeThreads /\ TypeThreads' /\ TypeCounters
      /\ t \in Reqs /\ pc[t] \in InHand
  BY DEF PlaceInv, CountInv, IncActive, InHand
<1>2. PICK x \in Reqs, p \in Groups : x = cur[t] /\ p = PriOf[x]
  BY <1>1, Members, Assumed
<1>3. /\ pc[t] = "incActive" /\ pc'[t] \in {"decActive", "incUser"} /\ cur' = cur
      /\ state' = state /\ state[x] = "queued" /\ UNCHANGED <<reqs, user>>
      /\ active' \in [Groups -> Int] /\ active'[p] = active[p] + 1
      /\ pc'[t] = "incUser" => ~(active[p] + 1 > ActiveBound)
      /\ \A v \in Reqs \ {t} : pc'[v] = pc[v]
      /\ \A g \in Groups \ {p} : active'[g] = active[g]
  <2>1. /\ pc[t] = "incActive" /\ cur' = cur /\ state' = state /\ UNCHANGED <<reqs, user>>
        /\ active' = [active EXCEPT ![p] = @ + 1]
        /\ pc' = [pc EXCEPT ![t] = IF active[p] + 1 > ActiveBound THEN "decActive" ELSE "incUser"]
    BY <1>2 DEF IncActive, Goto, G, thread
  <2>2. /\ pc \in [Reqs -> Steps] /\ cur \in [Reqs -> Reqs \cup {NoReq}]
        /\ state \in [Reqs -> {"arrived", "queued", "active", "freed"}]
        /\ reqs \in [Groups -> Int] /\ active \in [Groups -> Int]
        /\ user \in [Groups -> [Users -> Int]]
    BY <1>1 DEF TypeThreads, TypeCounters
  <2>3. state[x] = "queued"
    BY <1>2, <2>1 DEF PlaceInv, Placed, Hands, Before
  <2>. QED BY <1>2, <2>1, <2>2, <2>3
<1>4. Concerns(t, x) /\ p = PriOf[x]
  BY <1>2, <1>3 DEF Concerns, OneMoves
<1>5. ASSUME NEW u \in Users
      PROVE  CountedAt(p)' /\ ChargedAt(p, u)'
  <2>0. Moved(t, x, p, u)
    BY <1>1, <1>4, CountsHere
  <2>1. CountedAt(p) /\ ChargedAt(p, u)
    BY DEF CountInv, Counted
  <2>2. /\ InQueued(p) \in Nat /\ InActive(p) \in Nat /\ Counting(p) \in Nat
        /\ Admitting(p) \in Nat /\ Freeing(p) \in Nat /\ Refusing(p) \in Nat
        /\ Charged(p, u) \in Nat /\ Charging(p, u) \in Nat
        /\ Admitting(p) <= Counting(p)
        /\ ActiveBound \in Nat /\ MaxUserReqs \in Nat
        /\ reqs[p] \in Int /\ active[p] \in Int /\ user[p][u] \in Int
    BY <1>1, NumbersAre, Assumed DEF TypeCounters
  <2>3. /\ InQueued(p)' = InQueued(p)
        /\ InActive(p)' = InActive(p)
        /\ Counting(p)' = Counting(p) + 1
        /\ Admitting(p)' = Admitting(p) + (IF pc'[t] = "incUser" THEN 1 ELSE 0)
        /\ Freeing(p)' = Freeing(p)
        /\ Refusing(p)' = Refusing(p)
        /\ Charged(p, u)' = Charged(p, u)
        /\ Charging(p, u)' = Charging(p, u)
    BY <1>3, <2>0, <2>2 DEF Moved, Ind
  <2>4. CountedAt(p)'
    BY <1>3, <2>1, <2>2, <2>3 DEF CountedAt
  <2>5. ChargedAt(p, u)'
    BY <1>3, <2>1, <2>2, <2>3 DEF ChargedAt
  <2>. QED BY <2>4, <2>5
<1>6. UserOf[x] \in Users
  BY Assumed
<1>7. CountedAt(p)' /\ \A u \in Users : ChargedAt(p, u)'
  BY <1>5, <1>6
<1>8. TypeCounters'
  BY <1>1, <1>3 DEF TypeCounters
<1>. QED BY <1>3, <1>4, <1>7, <1>8, CountsKept

LEMMA CountIncUser ==
  ASSUME PlaceInv, PlaceInv', CountInv, NEW t \in Reqs, IncUser(t)
  PROVE  CountInv'
<1>1. /\ TypeThreads /\ TypeThreads' /\ TypeCounters
      /\ t \in Reqs /\ pc[t] \in InHand
  BY DEF PlaceInv, CountInv, IncUser, InHand
<1>2. PICK x \in Reqs, p \in Groups : x = cur[t] /\ p = PriOf[x]
  BY <1>1, Members, Assumed
<1>3. /\ pc[t] = "incUser" /\ pc'[t] \in {"decActive", "decReq"} /\ cur' = cur
      /\ state' = state /\ state[x] = "queued" /\ UNCHANGED <<reqs, active>>
      /\ user' \in [Groups -> [Users -> Int]]
      /\ pc'[t] = "decActive" => user' = user
      /\ pc'[t] = "decReq" => /\ ~(user[p][UserOf[x]] + 1 > MaxUserReqs)
                              /\ user'[p][UserOf[x]] = user[p][UserOf[x]] + 1
      /\ \A v \in Users \ {UserOf[x]} : user'[p][v] = user[p][v]
      /\ \A v \in Reqs \ {t} : pc'[v] = pc[v]
      /\ \A g \in Groups \ {p} : user'[g] = user[g]
  <2>1. /\ pc[t] = "incUser" /\ cur' = cur /\ state' = state /\ UNCHANGED <<reqs, active>>
        /\ \/ user' = user /\ pc' = [pc EXCEPT ![t] = "decActive"]
           \/ /\ ~(user[p][UserOf[x]] + 1 > MaxUserReqs)
              /\ user' = [user EXCEPT ![p][UserOf[x]] = @ + 1]
              /\ pc' = [pc EXCEPT ![t] = "decReq"]
    BY <1>2 DEF IncUser, Goto, G, U, thread
  <2>2. /\ pc \in [Reqs -> Steps] /\ cur \in [Reqs -> Reqs \cup {NoReq}]
        /\ state \in [Reqs -> {"arrived", "queued", "active", "freed"}]
        /\ reqs \in [Groups -> Int] /\ active \in [Groups -> Int]
        /\ user \in [Groups -> [Users -> Int]]
    BY <1>1 DEF TypeThreads, TypeCounters
  <2>3. state[x] = "queued"
    BY <1>2, <2>1 DEF PlaceInv, Placed, Hands, Before
  <2>4. UserOf[x] \in Users
    BY Assumed
  <2>5. CASE user' = user /\ pc' = [pc EXCEPT ![t] = "decActive"]
    BY <1>2, <2>1, <2>2, <2>3, <2>4, <2>5
  <2>6. CASE /\ ~(user[p][UserOf[x]] + 1 > MaxUserReqs)
             /\ user' = [user EXCEPT ![p][UserOf[x]] = @ + 1]
             /\ pc' = [pc EXCEPT ![t] = "decReq"]
    <3>1. /\ user' \in [Groups -> [Users -> Int]]
          /\ user'[p][UserOf[x]] = user[p][UserOf[x]] + 1
          /\ \A v \in Users \ {UserOf[x]} : user'[p][v] = user[p][v]
          /\ \A g \in Groups \ {p} : user'[g] = user[g]
      BY <2>2, <2>4, <2>6
    <3>2. pc'[t] = "decReq" /\ \A v \in Reqs \ {t} : pc'[v] = pc[v]
      BY <2>2, <2>6
    <3>. QED BY <2>1, <2>3, <2>6, <3>1, <3>2
  <2>. QED BY <2>1, <2>5, <2>6
<1>4. Concerns(t, x) /\ p = PriOf[x]
  BY <1>2, <1>3 DEF Concerns, OneMoves
<1>5. ASSUME NEW u \in Users
      PROVE  CountedAt(p)' /\ ChargedAt(p, u)'
  <2>0. Moved(t, x, p, u)
    BY <1>1, <1>4, CountsHere
  <2>1. CountedAt(p) /\ ChargedAt(p, u)
    BY DEF CountInv, Counted
  <2>2. /\ InQueued(p) \in Nat /\ InActive(p) \in Nat /\ Counting(p) \in Nat
        /\ Admitting(p) \in Nat /\ Freeing(p) \in Nat /\ Refusing(p) \in Nat
        /\ Charged(p, u) \in Nat /\ Charging(p, u) \in Nat
        /\ Admitting(p) <= Counting(p)
        /\ ActiveBound \in Nat /\ MaxUserReqs \in Nat
        /\ reqs[p] \in Int /\ active[p] \in Int /\ user[p][u] \in Int
    BY <1>1, NumbersAre, Assumed DEF TypeCounters
  <2>3. /\ InQueued(p)' = InQueued(p)
        /\ InActive(p)' = InActive(p)
        /\ Counting(p)' = Counting(p)
        /\ Admitting(p)' = Admitting(p) - (IF pc'[t] = "decReq" THEN 0 ELSE 1)
        /\ Freeing(p)' = Freeing(p)
        /\ Refusing(p)' = Refusing(p)
        /\ Charged(p, u)' = Charged(p, u)
        /\ Charging(p, u)' = Charging(p, u) + (IF pc'[t] = "decReq" /\ UserOf[x] = u THEN 1 ELSE 0)
    BY <1>3, <2>0, <2>2 DEF Moved, Ind
  <2>4. CountedAt(p)'
    BY <1>3, <2>1, <2>2, <2>3 DEF CountedAt
  <2>5. ChargedAt(p, u)'
    BY <1>3, <2>1, <2>2, <2>3 DEF ChargedAt
  <2>. QED BY <2>4, <2>5
<1>6. UserOf[x] \in Users
  BY Assumed
<1>7. CountedAt(p)' /\ \A u \in Users : ChargedAt(p, u)'
  BY <1>5, <1>6
<1>8. TypeCounters'
  BY <1>1, <1>3 DEF TypeCounters
<1>. QED BY <1>3, <1>4, <1>7, <1>8, CountsKept

LEMMA CountDecActive ==
  ASSUME PlaceInv, PlaceInv', CountInv, NEW t \in Reqs, DecActive(t)
  PROVE  CountInv'
<1>1. /\ TypeThreads /\ TypeThreads' /\ TypeCounters
      /\ t \in Reqs /\ pc[t] \in InHand
  BY DEF PlaceInv, CountInv, DecActive, InHand
<1>2. PICK x \in Reqs, p \in Groups : x = cur[t] /\ p = PriOf[x]
  BY <1>1, Members, Assumed
<1>3. /\ pc[t] = "decActive" /\ pc'[t] = "putBack" /\ cur' = cur
      /\ state' = state /\ state[x] = "queued" /\ UNCHANGED <<reqs, user>>
      /\ active' \in [Groups -> Int] /\ active'[p] = active[p] - 1
      /\ \A v \in Reqs \ {t} : pc'[v] = pc[v]
      /\ \A g \in Groups \ {p} : active'[g] = active[g]
  <2>1. /\ pc[t] = "decActive" /\ cur' = cur /\ state' = state /\ UNCHANGED <<reqs, user>>
        /\ active' = [active EXCEPT ![p] = @ - 1]
        /\ pc' = [pc EXCEPT ![t] = "putBack"]
    BY <1>2 DEF DecActive, Goto, G, thread
  <2>2. /\ pc \in [Reqs -> Steps] /\ cur \in [Reqs -> Reqs \cup {NoReq}]
        /\ state \in [Reqs -> {"arrived", "queued", "active", "freed"}]
        /\ reqs \in [Groups -> Int] /\ active \in [Groups -> Int]
        /\ user \in [Groups -> [Users -> Int]]
    BY <1>1 DEF TypeThreads, TypeCounters
  <2>3. state[x] = "queued"
    BY <1>2, <2>1 DEF PlaceInv, Placed, Hands, Before
  <2>. QED BY <1>2, <2>1, <2>2, <2>3
<1>4. Concerns(t, x) /\ p = PriOf[x]
  BY <1>2, <1>3 DEF Concerns, OneMoves
<1>5. ASSUME NEW u \in Users
      PROVE  CountedAt(p)' /\ ChargedAt(p, u)'
  <2>0. Moved(t, x, p, u)
    BY <1>1, <1>4, CountsHere
  <2>1. CountedAt(p) /\ ChargedAt(p, u)
    BY DEF CountInv, Counted
  <2>2. /\ InQueued(p) \in Nat /\ InActive(p) \in Nat /\ Counting(p) \in Nat
        /\ Admitting(p) \in Nat /\ Freeing(p) \in Nat /\ Refusing(p) \in Nat
        /\ Charged(p, u) \in Nat /\ Charging(p, u) \in Nat
        /\ Admitting(p) <= Counting(p)
        /\ ActiveBound \in Nat /\ MaxUserReqs \in Nat
        /\ reqs[p] \in Int /\ active[p] \in Int /\ user[p][u] \in Int
    BY <1>1, NumbersAre, Assumed DEF TypeCounters
  <2>3. /\ InQueued(p)' = InQueued(p)
        /\ InActive(p)' = InActive(p)
        /\ Counting(p)' = Counting(p) - 1
        /\ Admitting(p)' = Admitting(p)
        /\ Freeing(p)' = Freeing(p)
        /\ Refusing(p)' = Refusing(p)
        /\ Charged(p, u)' = Charged(p, u)
        /\ Charging(p, u)' = Charging(p, u)
    BY <1>3, <2>0, <2>2 DEF Moved, Ind
  <2>4. CountedAt(p)'
    BY <1>3, <2>1, <2>2, <2>3 DEF CountedAt
  <2>5. ChargedAt(p, u)'
    BY <1>3, <2>1, <2>2, <2>3 DEF ChargedAt
  <2>. QED BY <2>4, <2>5
<1>6. UserOf[x] \in Users
  BY Assumed
<1>7. CountedAt(p)' /\ \A u \in Users : ChargedAt(p, u)'
  BY <1>5, <1>6
<1>8. TypeCounters'
  BY <1>1, <1>3 DEF TypeCounters
<1>. QED BY <1>3, <1>4, <1>7, <1>8, CountsKept

LEMMA CountDecReq ==
  ASSUME PlaceInv, PlaceInv', CountInv, NEW t \in Reqs, DecReq(t)
  PROVE  CountInv'
<1>1. /\ TypeThreads /\ TypeThreads' /\ TypeCounters
      /\ t \in Reqs /\ pc[t] \in InHand
  BY DEF PlaceInv, CountInv, DecReq, InHand
<1>2. PICK x \in Reqs, p \in Groups : x = cur[t] /\ p = PriOf[x]
  BY <1>1, Members, Assumed
<1>3. /\ pc[t] = "decReq" /\ pc'[t] = "handle" /\ cur' = cur
      /\ state[x] = "queued" /\ state'[x] = "active" /\ UNCHANGED <<active, user>>
      /\ reqs' \in [Groups -> Int] /\ reqs'[p] = reqs[p] - 1
      /\ \A v \in Reqs \ {t} : pc'[v] = pc[v]
      /\ \A r \in Reqs \ {x} : state'[r] = state[r]
      /\ \A g \in Groups \ {p} : reqs'[g] = reqs[g]
  <2>1. /\ pc[t] = "decReq" /\ cur' = cur /\ UNCHANGED <<active, user>>
        /\ reqs' = [reqs EXCEPT ![p] = @ - 1]
        /\ state' = [state EXCEPT ![x] = "active"]
        /\ pc' = [pc EXCEPT ![t] = "handle"]
    BY <1>2 DEF DecReq, Goto, G
  <2>2. /\ pc \in [Reqs -> Steps] /\ cur \in [Reqs -> Reqs \cup {NoReq}]
        /\ state \in [Reqs -> {"arrived", "queued", "active", "freed"}]
        /\ reqs \in [Groups -> Int] /\ active \in [Groups -> Int]
        /\ user \in [Groups -> [Users -> Int]]
    BY <1>1 DEF TypeThreads, TypeCounters
  <2>3. state[x] = "queued"
    BY <1>2, <2>1 DEF PlaceInv, Placed, Hands, Before
  <2>. QED BY <1>2, <2>1, <2>2, <2>3
<1>4. Concerns(t, x) /\ p = PriOf[x]
  BY <1>2, <1>3 DEF Concerns, OneMoves
<1>5. ASSUME NEW u \in Users
      PROVE  CountedAt(p)' /\ ChargedAt(p, u)'
  <2>0. Moved(t, x, p, u)
    BY <1>1, <1>4, CountsHere
  <2>1. CountedAt(p) /\ ChargedAt(p, u)
    BY DEF CountInv, Counted
  <2>2. /\ InQueued(p) \in Nat /\ InActive(p) \in Nat /\ Counting(p) \in Nat
        /\ Admitting(p) \in Nat /\ Freeing(p) \in Nat /\ Refusing(p) \in Nat
        /\ Charged(p, u) \in Nat /\ Charging(p, u) \in Nat
        /\ Admitting(p) <= Counting(p)
        /\ ActiveBound \in Nat /\ MaxUserReqs \in Nat
        /\ reqs[p] \in Int /\ active[p] \in Int /\ user[p][u] \in Int
    BY <1>1, NumbersAre, Assumed DEF TypeCounters
  <2>3. /\ InQueued(p)' = InQueued(p) - 1
        /\ InActive(p)' = InActive(p) + 1
        /\ Counting(p)' = Counting(p) - 1
        /\ Admitting(p)' = Admitting(p) - 1
        /\ Freeing(p)' = Freeing(p)
        /\ Refusing(p)' = Refusing(p)
        /\ Charged(p, u)' = Charged(p, u) + (IF UserOf[x] = u THEN 1 ELSE 0)
        /\ Charging(p, u)' = Charging(p, u) - (IF UserOf[x] = u THEN 1 ELSE 0)
    BY <1>3, <2>0, <2>2 DEF Moved, Ind
  <2>4. CountedAt(p)'
    BY <1>3, <2>1, <2>2, <2>3 DEF CountedAt
  <2>5. ChargedAt(p, u)'
    BY <1>3, <2>1, <2>2, <2>3 DEF ChargedAt
  <2>. QED BY <2>4, <2>5
<1>6. UserOf[x] \in Users
  BY Assumed
<1>7. CountedAt(p)' /\ \A u \in Users : ChargedAt(p, u)'
  BY <1>5, <1>6
<1>8. TypeCounters'
  BY <1>1, <1>3 DEF TypeCounters
<1>. QED BY <1>3, <1>4, <1>7, <1>8, CountsKept

LEMMA CountRelease ==
  ASSUME PlaceInv, PlaceInv', CountInv, NEW t \in Reqs, Release(t)
  PROVE  CountInv'
<1>1. /\ TypeThreads /\ TypeThreads' /\ TypeCounters
      /\ t \in Reqs /\ pc[t] \in InHand
  BY DEF PlaceInv, CountInv, Release, InHand
<1>2. PICK x \in Reqs, p \in Groups : x = cur[t] /\ p = PriOf[x]
  BY <1>1, Members, Assumed
<1>3. /\ pc[t] \in {"releaseFirst", "release"} /\ pc'[t] \in {"freeFirst", "free"} /\ cur' = cur
      /\ state' = state /\ state[x] = "active" /\ UNCHANGED <<reqs, user>>
      /\ active' \in [Groups -> Int] /\ active'[p] = active[p] - 1
      /\ \A v \in Reqs \ {t} : pc'[v] = pc[v]
      /\ \A g \in Groups \ {p} : active'[g] = active[g]
  <2>1. /\ pc[t] \in {"releaseFirst", "release"} /\ cur' = cur /\ state' = state
        /\ UNCHANGED <<reqs, user>>
        /\ active' = [active EXCEPT ![p] = @ - 1]
        /\ pc' = [pc EXCEPT ![t] = IF pc[t] = "release" THEN "free" ELSE "freeFirst"]
    BY <1>2 DEF Release, Goto, G, thread
  <2>2. /\ pc \in [Reqs -> Steps] /\ cur \in [Reqs -> Reqs \cup {NoReq}]
        /\ state \in [Reqs -> {"arrived", "queued", "active", "freed"}]
        /\ reqs \in [Groups -> Int] /\ active \in [Groups -> Int]
        /\ user \in [Groups -> [Users -> Int]]
    BY <1>1 DEF TypeThreads, TypeCounters
  <2>3. state[x] = "active"
    BY <1>2, <2>1 DEF PlaceInv, Placed, Hands, During
  <2>. QED BY <1>2, <2>1, <2>2, <2>3
<1>4. Concerns(t, x) /\ p = PriOf[x]
  BY <1>2, <1>3 DEF Concerns, OneMoves
<1>5. ASSUME NEW u \in Users
      PROVE  CountedAt(p)' /\ ChargedAt(p, u)'
  <2>0. Moved(t, x, p, u)
    BY <1>1, <1>4, CountsHere
  <2>1. CountedAt(p) /\ ChargedAt(p, u)
    BY DEF CountInv, Counted
  <2>2. /\ InQueued(p) \in Nat /\ InActive(p) \in Nat /\ Counting(p) \in Nat
        /\ Admitting(p) \in Nat /\ Freeing(p) \in Nat /\ Refusing(p) \in Nat
        /\ Charged(p, u) \in Nat /\ Charging(p, u) \in Nat
        /\ Admitting(p) <= Counting(p)
        /\ ActiveBound \in Nat /\ MaxUserReqs \in Nat
        /\ reqs[p] \in Int /\ active[p] \in Int /\ user[p][u] \in Int
    BY <1>1, NumbersAre, Assumed DEF TypeCounters
  <2>3. /\ InQueued(p)' = InQueued(p)
        /\ InActive(p)' = InActive(p)
        /\ Counting(p)' = Counting(p)
        /\ Admitting(p)' = Admitting(p)
        /\ Freeing(p)' = Freeing(p) + 1
        /\ Refusing(p)' = Refusing(p)
        /\ Charged(p, u)' = Charged(p, u)
        /\ Charging(p, u)' = Charging(p, u)
    BY <1>3, <2>0, <2>2 DEF Moved, Ind
  <2>4. CountedAt(p)'
    BY <1>3, <2>1, <2>2, <2>3 DEF CountedAt
  <2>5. ChargedAt(p, u)'
    BY <1>3, <2>1, <2>2, <2>3 DEF ChargedAt
  <2>. QED BY <2>4, <2>5
<1>6. UserOf[x] \in Users
  BY Assumed
<1>7. CountedAt(p)' /\ \A u \in Users : ChargedAt(p, u)'
  BY <1>5, <1>6
<1>8. TypeCounters'
  BY <1>1, <1>3 DEF TypeCounters
<1>. QED BY <1>3, <1>4, <1>7, <1>8, CountsKept

LEMMA CountFree ==
  ASSUME PlaceInv, PlaceInv', CountInv, NEW t \in Reqs, Free(t)
  PROVE  CountInv'
<1>1. /\ TypeThreads /\ TypeThreads' /\ TypeCounters
      /\ t \in Reqs /\ pc[t] \in InHand
  BY DEF PlaceInv, CountInv, Free, InHand
<1>2. PICK x \in Reqs, p \in Groups : x = cur[t] /\ p = PriOf[x]
  BY <1>1, Members, Assumed
<1>3. /\ pc[t] \in {"freeFirst", "free"} /\ pc'[t] \in {"take", "active"} /\ cur'[t] = NoReq
      /\ state[x] = "active" /\ state'[x] = "freed" /\ UNCHANGED <<reqs, active>>
      /\ user' \in [Groups -> [Users -> Int]]
      /\ user'[p][UserOf[x]] = user[p][UserOf[x]] - 1
      /\ \A v \in Users \ {UserOf[x]} : user'[p][v] = user[p][v]
      /\ \A v \in Reqs \ {t} : pc'[v] = pc[v] /\ cur'[v] = cur[v]
      /\ \A r \in Reqs \ {x} : state'[r] = state[r]
      /\ \A g \in Groups \ {p} : user'[g] = user[g]
  <2>1. /\ pc[t] \in {"freeFirst", "free"} /\ UNCHANGED <<reqs, active>>
        /\ user' = [user EXCEPT ![p][UserOf[x]] = @ - 1]
        /\ state' = [state EXCEPT ![x] = "freed"]
        /\ cur' = [cur EXCEPT ![t] = NoReq]
        /\ pc' = [pc EXCEPT ![t] = IF pc[t] = "free" THEN "take" ELSE "active"]
    BY <1>2 DEF Free, Goto, G, U
  <2>2. /\ pc \in [Reqs -> Steps] /\ cur \in [Reqs -> Reqs \cup {NoReq}]
        /\ state \in [Reqs -> {"arrived", "queued", "active", "freed"}]
        /\ reqs \in [Groups -> Int] /\ active \in [Groups -> Int]
        /\ user \in [Groups -> [Users -> Int]]
    BY <1>1 DEF TypeThreads, TypeCounters
  <2>3. state[x] = "active"
    BY <1>2, <2>1 DEF PlaceInv, Placed, Hands, During
  <2>4. UserOf[x] \in Users
    BY Assumed
  <2>. QED BY <1>2, <2>1, <2>2, <2>3, <2>4
<1>4. Concerns(t, x) /\ p = PriOf[x]
  BY <1>2, <1>3 DEF Concerns, OneMoves
<1>5. ASSUME NEW u \in Users
      PROVE  CountedAt(p)' /\ ChargedAt(p, u)'
  <2>0. Moved(t, x, p, u)
    BY <1>1, <1>4, CountsHere
  <2>1. CountedAt(p) /\ ChargedAt(p, u)
    BY DEF CountInv, Counted
  <2>2. /\ InQueued(p) \in Nat /\ InActive(p) \in Nat /\ Counting(p) \in Nat
        /\ Admitting(p) \in Nat /\ Freeing(p) \in Nat /\ Refusing(p) \in Nat
        /\ Charged(p, u) \in Nat /\ Charging(p, u) \in Nat
        /\ Admitting(p) <= Counting(p)
        /\ ActiveBound \in Nat /\ MaxUserReqs \in Nat
        /\ reqs[p] \in Int /\ active[p] \in Int /\ user[p][u] \in Int
    BY <1>1, NumbersAre, Assumed DEF TypeCounters
  <2>3. /\ InQueued(p)' = InQueued(p)
        /\ InActive(p)' = InActive(p) - 1
        /\ Counting(p)' = Counting(p)
        /\ Admitting(p)' = Admitting(p)
        /\ Freeing(p)' = Freeing(p) - 1
        /\ Refusing(p)' = Refusing(p)
        /\ Charged(p, u)' = Charged(p, u) - (IF UserOf[x] = u THEN 1 ELSE 0)
        /\ Charging(p, u)' = Charging(p, u)
    BY <1>3, <2>0, <2>2 DEF Moved, Ind
  <2>4. CountedAt(p)'
    BY <1>3, <2>1, <2>2, <2>3 DEF CountedAt
  <2>5. ChargedAt(p, u)'
    BY <1>3, <2>1, <2>2, <2>3 DEF ChargedAt
  <2>. QED BY <2>4, <2>5
<1>6. UserOf[x] \in Users
  BY Assumed
<1>7. CountedAt(p)' /\ \A u \in Users : ChargedAt(p, u)'
  BY <1>5, <1>6
<1>8. TypeCounters'
  BY <1>1, <1>3 DEF TypeCounters
<1>. QED BY <1>3, <1>4, <1>7, <1>8, CountsKept

\* The steps of a thread that are not counted: nothing in hand before or after, or the
\* same request, or one that it takes or puts down.
LEMMA CountOthers ==
  ASSUME PlaceInv, PlaceInv', CountInv, NEW t \in Reqs,
         \/ Enqueue(t) \/ HandOver(t) \/ Take(t) \/ PutBack(t) \/ Handle(t) \/ TakeActive(t)
  PROVE  CountInv'
<1>1. /\ TypeThreads /\ TypeThreads' /\ UNCHANGED state /\ UNCHANGED counters
      /\ pc \in [Reqs -> Steps] /\ cur \in [Reqs -> Reqs \cup {NoReq}]
  BY DEF PlaceInv, TypeThreads, Enqueue, HandOver, Take, PutBack, Handle, TakeActive
<1>2. \A v \in Reqs : cur[v] \in Reqs \cup {NoReq} /\ cur'[v] \in Reqs \cup {NoReq}
  BY <1>1 DEF TypeThreads
<1>3. ASSUME NEW s \in Uncounted, pc[t] \in Uncounted,
             \/ pc' = [pc EXCEPT ![t] = s] \/ pc' = pc,
             \E c : cur' = [cur EXCEPT ![t] = c] \/ cur' = cur,
             cur[t] = NoReq \/ cur'[t] = NoReq \/ cur'[t] = cur[t]
      PROVE  CountInv'
  <2>1. /\ pc'[t] \in Uncounted
        /\ \A v \in Reqs \ {t} : pc'[v] = pc[v] /\ cur'[v] = cur[v]
    BY <1>1, <1>3
  <2>2. PICK x \in Reqs : cur[t] \in {x, NoReq} /\ cur'[t] \in {x, NoReq}
    BY <1>2, <1>3
  <2>3. pc[t] # "refuse" /\ pc'[t] # "refuse"
    BY <1>3, <2>1 DEF Uncounted
  <2>4. Concerns(t, x)
    BY <1>1, <2>1, <2>2, <2>3 DEF Concerns, OneMoves
  <2>. QED BY <1>1, <1>3, <2>1, <2>4, CountsUntouched
<1>4. CASE Enqueue(t)
  <2>1. pc[t] = "queue" /\ pc' = [pc EXCEPT ![t] = "take"] /\ cur' = cur
    BY <1>4 DEF Enqueue, Goto, thread
  <2>2. pc[t] \in Uncounted /\ "take" \in Uncounted
    BY <2>1 DEF Uncounted
  <2>. QED BY <1>3, <2>1, <2>2
<1>5. CASE HandOver(t)
  <2>1. pc[t] = "take" /\ pc' = pc /\ cur' = cur
    BY <1>5 DEF HandOver
  <2>2. pc[t] \in Uncounted /\ "take" \in Uncounted
    BY <2>1 DEF Uncounted
  <2>. QED BY <1>3, <2>1, <2>2
<1>6. CASE Take(t)
  <2>1. /\ pc[t] = "take"
        /\ \E s \in {"incActive", "active"} : pc' = [pc EXCEPT ![t] = s] \/ pc' = pc
        /\ \E c : cur' = [cur EXCEPT ![t] = c] \/ cur' = cur
    BY <1>6 DEF Take, NextGroup, Rescan, Goto
  <2>2. pc[t] \in Uncounted /\ "incActive" \in Uncounted /\ "active" \in Uncounted
    BY <2>1 DEF Uncounted
  <2>3. cur[t] = NoReq
    BY <2>1, Members DEF InHand
  <2>. QED BY <1>3, <2>1, <2>2, <2>3
<1>7. CASE PutBack(t)
  <2>1. pc[t] = "putBack" /\ pc' = [pc EXCEPT ![t] = "active"] /\ cur' = [cur EXCEPT ![t] = NoReq]
    BY <1>7 DEF PutBack, Goto
  <2>2. pc[t] \in Uncounted /\ "active" \in Uncounted
    BY <2>1 DEF Uncounted
  <2>3. cur'[t] = NoReq
    BY <1>1, <2>1
  <2>. QED BY <1>3, <2>1, <2>2, <2>3
<1>8. CASE Handle(t)
  <2>1. /\ pc[t] \in {"handle", "handleActive"}
        /\ \E s \in {"releaseFirst", "release", "active", "take"} : pc' = [pc EXCEPT ![t] = s]
        /\ cur' = cur \/ cur' = [cur EXCEPT ![t] = NoReq]
    BY <1>8 DEF Handle, Goto
  <2>2. pc[t] \in Uncounted /\ {"releaseFirst", "release", "active", "take"} \subseteq Uncounted
    BY <2>1 DEF Uncounted
  <2>3. cur'[t] = NoReq \/ cur'[t] = cur[t]
    BY <1>1, <2>1
  <2>. QED BY <1>3, <2>1, <2>2, <2>3
<1>9. CASE TakeActive(t)
  <2>1. /\ pc[t] = "active"
        /\ \E s \in {"handleActive", "take", "done"} : pc' = [pc EXCEPT ![t] = s] \/ pc' = pc
        /\ \E c : cur' = [cur EXCEPT ![t] = c] \/ cur' = cur
    <3>1. CASE RemoveFromSubqueue(t, pri[t]) /\ Rescan(t, "handleActive")
      <4>1. \E c : cur' = [cur EXCEPT ![t] = c]
        BY <3>1 DEF RemoveFromSubqueue
      <4>. QED BY <1>9, <3>1, <4>1 DEF TakeActive, Rescan, Goto
    <3>2. CASE NextGroup(t, IF found[t] THEN "take" ELSE "done") /\ cur' = cur
      BY <1>9, <3>2 DEF TakeActive, NextGroup, Goto
    <3>. QED BY <1>9, <3>1, <3>2 DEF TakeActive
  <2>2. pc[t] \in Uncounted /\ {"handleActive", "take", "done"} \subseteq Uncounted
    BY <2>1 DEF Uncounted
  <2>3. cur[t] = NoReq
    BY <2>1, Members DEF InHand
  <2>. QED BY <1>3, <2>1, <2>2, <2>3
<1>. QED BY <1>4, <1>5, <1>6, <1>7, <1>8, <1>9

LEMMA CountInit == Init => CountInv
<1>. SUFFICES ASSUME Init PROVE CountInv
  OBVIOUS
<1>1. \A t \in Reqs : pc[t] = "arrive" /\ cur[t] = NoReq /\ state[t] = "arrived"
  BY DEF Init
<1>2. /\ reqs = [g \in Groups |-> 0] /\ active = [g \in Groups |-> 0]
      /\ user = [g \in Groups |-> [u \in Users |-> 0]]
  BY DEF Init
<1>3. TypeCounters
  BY <1>2 DEF TypeCounters
<1>4. Cardinality({}) = 0
  BY FS_EmptySet
<1>5. ASSUME NEW g \in Groups
      PROVE  CountedAt(g) /\ \A u \in Users : ChargedAt(g, u)
  <2>1. InState(g, {"queued"}) = {} /\ InState(g, {"active"}) = {}
    BY <1>1 DEF InState
  <2>2. \A S : AtStep(g, S) = {}
    BY <1>1 DEF AtStep
  <2>3. Refused(g) = {}
    BY <1>1 DEF Refused
  <2>4. \A u : OfUser(g, u) = {} /\ ForUser(g, u) = {}
    BY <2>1, <2>2 DEF OfUser, ForUser
  <2>5. /\ InQueued(g) = 0 /\ InActive(g) = 0 /\ Counting(g) = 0 /\ Admitting(g) = 0
        /\ Freeing(g) = 0 /\ Refusing(g) = 0 /\ \A u : Charged(g, u) = 0 /\ Charging(g, u) = 0
    BY <1>4, <2>1, <2>2, <2>3, <2>4
       DEF InQueued, InActive, Counting, Admitting, Freeing, Refusing, Charged, Charging
  <2>6. ActiveBound \in Nat /\ MaxUserReqs \in Nat
    BY Assumed
  <2>. QED BY <1>2, <2>5, <2>6 DEF CountedAt, ChargedAt
<1>. QED BY <1>3, <1>5 DEF CountInv, Counted

LEMMA CountNext == PlaceInv /\ PlaceInv' /\ CountInv /\ [Next]_vars => CountInv'
<1>. SUFFICES ASSUME PlaceInv, PlaceInv', CountInv, [Next]_vars PROVE CountInv'
  OBVIOUS
<1>1. CASE UNCHANGED vars
  <2>1. UNCHANGED <<pc, cur, state, reqs, active, user>>
    BY <1>1 DEF vars, thread, counters
  <2>2. ASSUME NEW g, NEW u
        PROVE  /\ InState(g, {"queued"})' = InState(g, {"queued"})
               /\ InState(g, {"active"})' = InState(g, {"active"})
               /\ \A S : AtStep(g, S)' = AtStep(g, S)
               /\ Refused(g)' = Refused(g)
               /\ OfUser(g, u)' = OfUser(g, u) /\ ForUser(g, u)' = ForUser(g, u)
    BY <2>1 DEF InState, AtStep, Refused, OfUser, ForUser
  <2>3. ASSUME NEW g, NEW u
        PROVE  /\ InQueued(g)' = InQueued(g) /\ InActive(g)' = InActive(g)
               /\ Counting(g)' = Counting(g) /\ Admitting(g)' = Admitting(g)
               /\ Freeing(g)' = Freeing(g) /\ Refusing(g)' = Refusing(g)
               /\ Charged(g, u)' = Charged(g, u) /\ Charging(g, u)' = Charging(g, u)
    BY <2>2 DEF InQueued, InActive, Counting, Admitting, Freeing, Refusing, Charged, Charging
  <2>4. ASSUME NEW g \in Groups
        PROVE  CountedAt(g)' /\ \A u \in Users : ChargedAt(g, u)'
    <3>1. CountedAt(g) /\ \A u \in Users : ChargedAt(g, u)
      BY DEF CountInv, Counted
    <3>. QED BY <2>1, <2>3, <3>1 DEF CountedAt, ChargedAt
  <2>. QED BY <2>1, <2>4 DEF CountInv, TypeCounters, Counted
<1>2. ASSUME NEW t \in Reqs, Arrive(t) \/ Thread(t) PROVE CountInv'
  BY <1>2, CountArrive, CountIncActive, CountIncUser, CountDecActive, CountDecReq, CountRelease,
     CountFree, CountOthers DEF Thread
<1>. QED BY <1>1, <1>2 DEF Next

LEMMA CountsExact == PlaceInv /\ CountInv => CountersExact
<1>. SUFFICES ASSUME PlaceInv, CountInv, NEW g \in Groups
     PROVE  /\ reqs[g] = InQueued(g) + Refusing(g)
            /\ active[g] = InActive(g) + Counting(g) - Freeing(g)
            /\ \A u \in Users : user[g][u] = Charged(g, u) + Charging(g, u)
            /\ InActive(g) <= ActiveBound + Freeing(g)
            /\ \A u \in Users : Charged(g, u) <= MaxUserReqs
  BY DEF CountersExact, G, U, InQueued, InActive, Counting, Freeing, Refusing, Charged, Charging,
         InState, AtStep, OfUser, ForUser, Refused
<1>1. CountedAt(g) /\ \A u \in Users : ChargedAt(g, u)
  BY DEF CountInv, Counted
<1>2. ActiveBound \in Nat /\ MaxUserReqs \in Nat
  BY Assumed
<1>3. \A u : /\ InActive(g) \in Nat /\ Admitting(g) \in Nat /\ Freeing(g) \in Nat
             /\ Charged(g, u) \in Nat /\ Charging(g, u) \in Nat
  BY NumbersAre
<1>4. /\ reqs[g] = InQueued(g) + Refusing(g) /\ active[g] = InActive(g) + Counting(g) - Freeing(g)
      /\ InActive(g) <= ActiveBound + Freeing(g)
  BY <1>1, <1>2, <1>3 DEF CountedAt
<1>5. \A u \in Users : user[g][u] = Charged(g, u) + Charging(g, u) /\ Charged(g, u) <= MaxUserReqs
  BY <1>1, <1>2, <1>3 DEF ChargedAt
<1>. QED BY <1>4, <1>5

(***************************************************************************)
(* However the threads interleave their separate interlocked operations,   *)
(* each counter is the number of requests it stands for, corrected by the  *)
(* steps under way, and no more requests of a group or of a user are       *)
(* active than admitted: the check after the increment suffices.           *)
(***************************************************************************)
THEOREM CountersAreExact == Spec => []CountersExact
<1>. QED BY PlaceInit, PlaceNext, CountInit, CountNext, CountsExact, PTL DEF Spec

(***************************************************************************)
(* The users of a group take turns: the further back a waiting user is in  *)
(* the chain, the less often others can have been served since.            *)
(***************************************************************************)
IsFull(g, i)   == node[Chain(g)[i]].sub # <<>>
KeyAt(g, i)    == node[Chain(g)[i]].key
HasNone(g, u)  == \A i \in 1 .. Len(Chain(g)) : KeyAt(g, i) = u => ~IsFull(g, i)

TurnAt(g) ==
  /\ \A u \in Users : HasNone(g, u) => passed[g][u] = 0
  /\ \A i \in 1 .. Len(Chain(g)) :
       IsFull(g, i) => passed[g][KeyAt(g, i)] + i <= Cardinality(Users)
Turns == \A g \in Groups : TurnAt(g)

\* No chain is longer than there are users.
Short == \A g \in Groups : Len(Chain(g)) <= Cardinality(Users)

LEMMA ChainsShort == Lists => Short
<1>. SUFFICES ASSUME Lists, NEW g \in Groups PROVE Len(Chain(g)) <= Cardinality(Users)
  BY DEF Short
<1>1. /\ Len(Chain(g)) \in Nat
      /\ \A i \in 1 .. Len(Chain(g)) : Chain(g)[i] \in 1 .. used
  BY ChainFacts
<1>2. \A m \in 1 .. used : node[m].key \in Users
  BY DEF Lists, TypeLists
<1>3. PICK n \in Nat : n = Len(Chain(g))
  BY <1>1
<1>4. PICK k : k = [i \in 1 .. n |-> node[Chain(g)[i]].key]
  OBVIOUS
<1>5. k \in [1 .. n -> Users] /\ \A i \in 1 .. n : k[i] = node[Chain(g)[i]].key
  BY <1>1, <1>2, <1>3, <1>4
<1>6. k \in Seq(Users) /\ Len(k) = n
  BY <1>5, SeqDef, LenProperties
<1>7. Distinct(k)
  BY <1>3, <1>5, <1>6 DEF Distinct, Lists, Keyed
<1>8. Len(k) <= Cardinality(Users)
  BY <1>6, <1>7, Assumed, DistinctLength
<1>. QED BY <1>3, <1>6, <1>8

LEMMA ShortNext == Lists' => Short'
<1>. QED BY ChainsShort, PTL

LEMMA TurnNumbers ==
  ASSUME Lists, NEW g \in Groups
  PROVE  /\ Cardinality(Users) \in Nat /\ Len(Chain(g)) \in Nat
         /\ \A u \in Users : passed[g][u] \in Nat
         /\ \A i \in 1 .. Len(Chain(g)) : i \in Nat /\ KeyAt(g, i) \in Users
                                          /\ Chain(g)[i] \in 1 .. used
<1>1. Cardinality(Users) \in Nat
  BY Assumed, FS_CardinalityType
<1>2. /\ Len(Chain(g)) \in Nat
      /\ \A i \in 1 .. Len(Chain(g)) : Chain(g)[i] \in 1 .. used
  BY ChainFacts
<1>3. \A u \in Users : passed[g][u] \in Nat
  BY DEF Lists, TypeLists
<1>4. \A i \in 1 .. Len(Chain(g)) : i \in Nat /\ KeyAt(g, i) \in Users
  BY <1>2 DEF KeyAt, Lists, TypeLists
<1>. QED BY <1>1, <1>2, <1>3, <1>4

\* A chain whose nodes are as they were.
LEMMA TurnSame ==
  ASSUME NEW g, TurnAt(g), Chain(g)' = Chain(g), passed'[g] = passed[g],
         \A i \in 1 .. Len(Chain(g)) : /\ node'[Chain(g)[i]].key = node[Chain(g)[i]].key
                                       /\ node'[Chain(g)[i]].sub = node[Chain(g)[i]].sub
  PROVE  TurnAt(g)'
<1>1. \A i \in 1 .. Len(Chain(g)) : (IsFull(g, i)' <=> IsFull(g, i)) /\ KeyAt(g, i)' = KeyAt(g, i)
  BY DEF IsFull, KeyAt
<1>2. \A u : HasNone(g, u)' => HasNone(g, u)
  BY <1>1 DEF HasNone
<1>. QED BY <1>1, <1>2 DEF TurnAt

LEMMA TurnsKnown ==
  ASSUME Lists, Turns, NEW r \in Reqs, AddToSubqueue(r), Lookup(PriOf[r], UserOf[r]) # Null
  PROVE  Turns'
<1>1. PICK p \in Groups : p = PriOf[r]
  BY Assumed
<1>2. PICK i \in 1 .. Len(Chain(p)) :
        /\ node[Chain(p)[i]].key = UserOf[r]
        /\ \A m \in 1 .. used :
             /\ node'[m].key = node[m].key
             /\ node'[m].sub = IF m = Chain(p)[i] THEN Append(node[m].sub, r) ELSE node[m].sub
  BY <1>1, AddKnown
<1>3. (\A g \in Groups : Chain(g)' = Chain(g)) /\ passed' = passed
  BY AddKnown
<1>4. ASSUME NEW g \in Groups, g # p PROVE TurnAt(g)'
  <2>1. \A k \in 1 .. Len(Chain(g)) : Chain(g)[k] \in 1 .. used /\ Chain(g)[k] # Chain(p)[i]
    <3>1. \A k \in 1 .. Len(Chain(g)) : Chain(g)[k] \in 1 .. used
      BY ChainFacts
    <3>2. \A k \in 1 .. Len(Chain(g)) : Chain(g)[k] # Chain(p)[i]
      BY <1>4 DEF Lists, Apart
    <3>. QED BY <3>1, <3>2
  <2>2. TurnAt(g)
    BY DEF Turns
  <2>. QED BY <1>2, <1>3, <2>1, <2>2, TurnSame
<1>5. TurnAt(p)'
  <2>1. /\ Cardinality(Users) \in Nat /\ Len(Chain(p)) \in Nat
        /\ \A u \in Users : passed[p][u] \in Nat
        /\ \A k \in 1 .. Len(Chain(p)) : k \in Nat /\ KeyAt(p, k) \in Users
                                          /\ Chain(p)[k] \in 1 .. used
    BY TurnNumbers
  <2>2. \A k \in 1 .. Len(Chain(p)) : /\ KeyAt(p, k)' = KeyAt(p, k)
                                      /\ k # i => (IsFull(p, k)' <=> IsFull(p, k))
    <3>1. \A k \in 1 .. Len(Chain(p)) : k # i => Chain(p)[k] # Chain(p)[i]
      BY DEF Lists, Apart
    <3>. QED BY <1>2, <1>3, <2>1, <3>1 DEF IsFull, KeyAt
  <2>3. IsFull(p, i)'
    <3>1. PICK n \in 1 .. used : n = Chain(p)[i]
      BY <2>1
    <3>2. PICK s \in Seq(Reqs) : s = node[n].sub
      BY DEF Lists, TypeLists
    <3>3. Append(s, r) # <<>>
      BY AppendFacts
    <3>. QED BY <1>2, <1>3, <3>1, <3>2, <3>3 DEF IsFull
  <2>4. \A u : HasNone(p, u)' => HasNone(p, u)
    BY <1>3, <2>2, <2>3 DEF HasNone
  <2>5. i <= Cardinality(Users)
    <3>1. Len(Chain(p)) <= Cardinality(Users)
      BY ChainsShort DEF Short
    <3>. QED BY <2>1, <3>1
  <2>6. passed[p][KeyAt(p, i)] + i <= Cardinality(Users)
    <3>1. CASE IsFull(p, i)
      BY <3>1 DEF Turns, TurnAt
    <3>2. CASE ~IsFull(p, i)
      <4>1. HasNone(p, KeyAt(p, i))
        BY <3>2 DEF HasNone, KeyAt, Lists, Keyed
      <4>2. passed[p][KeyAt(p, i)] = 0
        BY <2>1, <4>1 DEF Turns, TurnAt
      <4>. QED BY <2>1, <2>5, <4>2
    <3>. QED BY <3>1, <3>2
  <2>7. TurnAt(p)
    BY DEF Turns
  <2>8. \A k \in 1 .. Len(Chain(p)) :
          IsFull(p, k)' => passed[p][KeyAt(p, k)'] + k <= Cardinality(Users)
    BY <2>2, <2>6, <2>7 DEF TurnAt
  <2>9. \A u \in Users : HasNone(p, u)' => passed[p][u] = 0
    BY <2>4, <2>7 DEF TurnAt
  <2>. QED BY <1>3, <2>8, <2>9 DEF TurnAt
<1>. QED BY <1>4, <1>5 DEF Turns

LEMMA TurnsNew ==
  ASSUME Lists, Turns, NEW r \in Reqs, AddToSubqueue(r), Lookup(PriOf[r], UserOf[r]) = Null
  PROVE  Turns'
<1>1. PICK p \in Groups : p = PriOf[r]
  BY Assumed
<1>2. PICK new \in Nat : new = used + 1
  BY DEF Lists, TypeLists
<1>3. /\ \A g \in Groups \ {p} : Chain(g)' = Chain(g)
      /\ Chain(p)' = IF Reaches(p) THEN Append(Chain(p), new) ELSE Chain(p)
      /\ Lists'
  BY <1>1, <1>2, AddNewChain
<1>4. /\ passed' = passed
      /\ node'[new] = [key |-> UserOf[r], sub |-> <<r>>, next |-> Null]
      /\ \A m \in 1 .. used : node'[m].key = node[m].key /\ node'[m].sub = node[m].sub
  BY <1>2, AddNewNode
<1>5. ASSUME NEW g \in Groups, Chain(g)' = Chain(g) PROVE TurnAt(g)'
  <2>1. \A k \in 1 .. Len(Chain(g)) : Chain(g)[k] \in 1 .. used
    BY ChainFacts
  <2>2. TurnAt(g)
    BY DEF Turns
  <2>. QED BY <1>4, <1>5, <2>1, <2>2, TurnSame
<1>6. CASE Reaches(p)
  <2>1. /\ Cardinality(Users) \in Nat /\ Len(Chain(p)) \in Nat
        /\ \A u \in Users : passed[p][u] \in Nat
        /\ \A k \in 1 .. Len(Chain(p)) : k \in Nat /\ KeyAt(p, k) \in Users
                                          /\ Chain(p)[k] \in 1 .. used
    BY TurnNumbers
  <2>2. PICK c \in Seq(1 .. used), l \in Nat : c = Chain(p) /\ l = Len(c)
    BY ChainFacts
  <2>3. Chain(p)' = Append(c, new)
    BY <1>3, <1>6, <2>2
  <2>4. /\ Len(Append(c, new)) = l + 1 /\ Append(c, new)[l + 1] = new
        /\ \A k \in 1 .. l : Append(c, new)[k] = c[k]
        /\ \A k \in 1 .. l + 1 : k = l + 1 \/ k \in 1 .. l
    <3>1. c \in Seq(Nat)
      <4>1. used \in Nat
        BY DEF Lists, TypeLists
      <4>. QED BY <4>1
    <3>. QED BY <2>2, <3>1, AppendFacts
  <2>5. /\ Len(Chain(p)') = l + 1 /\ Chain(p)'[l + 1] = new
        /\ \A k \in 1 .. l : Chain(p)'[k] = Chain(p)[k]
    BY <2>2, <2>3, <2>4
  <2>6. /\ KeyAt(p, l + 1)' = UserOf[r]
        /\ \A k \in 1 .. l : (IsFull(p, k)' <=> IsFull(p, k)) /\ KeyAt(p, k)' = KeyAt(p, k)
    <3>1. \A k \in 1 .. l : Chain(p)[k] \in 1 .. used
      BY <2>1, <2>2
    <3>. QED BY <1>4, <2>5, <3>1 DEF IsFull, KeyAt
  <2>7. \A u : HasNone(p, u)' => HasNone(p, u)
    <3>1. \A k \in 1 .. l : k \in 1 .. l + 1
      BY <2>2
    <3>. QED BY <2>2, <2>5, <2>6, <3>1 DEF HasNone
  <2>8. passed[p][UserOf[r]] = 0
    <3>1. HasNone(p, UserOf[r])
      BY <1>1, LookupFacts DEF HasNone, KeyAt
    <3>. QED BY <3>1, Assumed DEF Turns, TurnAt
  <2>9. l + 1 <= Cardinality(Users)
    <3>1. Len(Chain(p)') <= Cardinality(Users)
      BY <1>3, ShortNext DEF Short
    <3>. QED BY <2>5, <3>1
  <2>10. TurnAt(p)
    BY DEF Turns
  <2>11. \A k \in 1 .. l + 1 :
           IsFull(p, k)' => passed[p][KeyAt(p, k)'] + k <= Cardinality(Users)
    <3>1. \A k \in 1 .. l : IsFull(p, k)' => passed[p][KeyAt(p, k)'] + k <= Cardinality(Users)
      BY <2>2, <2>6, <2>10 DEF TurnAt
    <3>2. passed[p][KeyAt(p, l + 1)'] + (l + 1) <= Cardinality(Users)
      BY <2>1, <2>6, <2>8, <2>9
    <3>. QED BY <2>4, <3>1, <3>2
  <2>12. TurnAt(p)'
    BY <1>4, <2>5, <2>7, <2>10, <2>11 DEF TurnAt
  <2>. QED BY <1>3, <1>5, <2>12 DEF Turns
<1>7. CASE ~Reaches(p)
  BY <1>3, <1>5, <1>7 DEF Turns
<1>. QED BY <1>6, <1>7

LEMMA WaitingIs ==
  ASSUME Lists, NEW g \in Groups, NEW u
  PROVE  u \in Waiting(g) <=> \E i \in 1 .. Len(Chain(g)) : KeyAt(g, i) = u /\ IsFull(g, i)
BY DEF Waiting, Linked, KeyAt, IsFull

LEMMA TurnsMoved ==
  ASSUME Lists, Turns, NEW t \in Reqs, NEW p \in Groups, RemoveFromSubqueue(t, p)
  PROVE  Turns'
<1>1. PICK i : /\ IsFirstFull(p, i)
               /\ MoveToBack(p, Chain(p)[i], Ahead(p, i))
               /\ used' = used
               /\ passed' = [passed EXCEPT ![p] = [u \in Users |->
                     IF u # node[Chain(p)[i]].key /\ u \in Waiting(p) THEN @[u] + 1 ELSE 0]]
  BY RemoveFacts
<1>2. passed \in [Groups -> [Users -> Nat]] /\ used \in Nat
  BY DEF Lists, TypeLists
<1>3. /\ passed' \in [Groups -> [Users -> Nat]]
      /\ \A g \in Groups \ {p} : passed'[g] = passed[g]
      /\ \A u \in Users : passed'[p][u] = IF u # KeyAt(p, i) /\ u \in Waiting(p)
                                          THEN passed[p][u] + 1 ELSE 0
  BY <1>1, <1>2 DEF KeyAt
<1>4. /\ Lists' /\ \A h \in Groups \ {p} : Chain(h)' = Chain(h)
      /\ Chain(p)' = IF i # Len(Chain(p)) /\ Reaches(p)
                     THEN Append(Without(Chain(p), i), Chain(p)[i])
                     ELSE Without(Chain(p), i)
  BY <1>1, <1>3, MoveChain
<1>5. \A m \in 1 .. used :
        /\ node'[m].key = node[m].key
        /\ m # Chain(p)[i] => node'[m].sub = node[m].sub
  <2>1. \A m \in 1 .. used :
          /\ node'[m].key = node[m].key
          /\ node'[m].sub = IF m = Chain(p)[i] THEN Tail(node[m].sub) ELSE node[m].sub
    BY <1>1, <1>3, MoveNode
  <2>. QED BY <2>1
<1>6. i \in 1 .. Len(Chain(p))
  BY <1>1 DEF IsFirstFull
<1>7. ASSUME NEW g \in Groups, g # p PROVE TurnAt(g)'
  <2>1. \A k \in 1 .. Len(Chain(g)) : Chain(g)[k] \in 1 .. used /\ Chain(g)[k] # Chain(p)[i]
    BY <1>6, <1>7, ChainFacts DEF Lists, Apart
  <2>2. TurnAt(g)
    BY DEF Turns
  <2>. QED BY <1>3, <1>4, <1>5, <1>7, <2>1, <2>2, TurnSame
<1>8. /\ Cardinality(Users) \in Nat /\ Len(Chain(p)) \in Nat
      /\ \A u \in Users : passed[p][u] \in Nat
      /\ \A k \in 1 .. Len(Chain(p)) : k \in Nat /\ KeyAt(p, k) \in Users
                                        /\ Chain(p)[k] \in 1 .. used
  BY TurnNumbers
<1>9. PICK c \in Seq(1 .. used), l \in Nat : c = Chain(p) /\ l = Len(c)
  BY ChainFacts
<1>10. PICK w \in Seq(1 .. used) : w = Without(c, i)
  BY <1>6, <1>9, WithoutFacts DEF IsWithout
<1>11. PICK d \in Seq(1 .. used) : d = Chain(p)'
  <2>1. Chain(p)' \in Seq(1 .. used')
    BY <1>4 DEF Lists, Chained
  <2>. QED BY <1>1, <2>1
<1>12. /\ Len(w) = l - 1
       /\ \A k \in 1 .. l - 1 : /\ w[k] = c[Origin(i, k)] /\ Origin(i, k) \in 1 .. l
                                /\ Origin(i, k) # i
  <2>1. i \in 1 .. Len(c)
    BY <1>6, <1>9
  <2>2. IsWithout(1 .. used, c, i)
    BY <2>1, WithoutFacts
  <2>. QED BY <1>9, <1>10, <2>2 DEF IsWithout
<1>13. /\ Len(d) = l - 1 \/ Len(d) = l
       /\ \A k \in 1 .. l - 1 : k \in 1 .. Len(d) /\ d[k] = c[Origin(i, k)]
       /\ \A k \in 1 .. Len(d) : k \in 1 .. l - 1 \/ (k = l /\ d[k] = c[i])
  <2>1. l - 1 \in Nat
    BY <1>6, <1>9
  <2>2. CASE d = w
    BY <1>12, <2>1, <2>2
  <2>3. CASE d = Append(w, c[i])
    <3>1. c[i] \in 1 .. used
      <4>1. i \in 1 .. Len(c)
        BY <1>6, <1>9
      <4>. QED BY <4>1, ElementOfSeq
    <3>2. /\ Len(d) = Len(w) + 1 /\ d[Len(w) + 1] = c[i]
          /\ \A k \in 1 .. Len(w) : d[k] = w[k]
      BY <2>3, <3>1, AppendFacts
    <3>3. Len(d) = l /\ d[l] = c[i] /\ \A k \in 1 .. l - 1 : d[k] = w[k]
      BY <1>12, <2>1, <3>2
    <3>. QED BY <1>12, <2>1, <3>3
  <2>. QED BY <1>4, <1>9, <1>10, <1>11, <2>2, <2>3
<1>14. \A k \in 1 .. l - 1 :
         /\ KeyAt(p, k)' = KeyAt(p, Origin(i, k))
         /\ IsFull(p, k)' <=> IsFull(p, Origin(i, k))
  <2>1. \A k \in 1 .. l : k # i => c[k] # c[i]
    BY <1>6, <1>9, ChainFacts DEF Distinct
  <2>2. \A k \in 1 .. l : c[k] \in 1 .. used
    BY <1>8, <1>9
  <2>. SUFFICES ASSUME NEW k \in 1 .. l - 1
                PROVE  /\ KeyAt(p, k)' = KeyAt(p, Origin(i, k))
                       /\ IsFull(p, k)' <=> IsFull(p, Origin(i, k))
    OBVIOUS
  <2>3. PICK j \in 1 .. l : j = Origin(i, k) /\ j # i /\ d[k] = c[j]
    BY <1>12, <1>13
  <2>4. PICK m \in 1 .. used : m = c[j] /\ m # c[i]
    BY <2>1, <2>2, <2>3
  <2>5. node'[m].key = node[m].key /\ node'[m].sub = node[m].sub
    BY <1>5, <1>9, <2>4
  <2>6. KeyAt(p, j) = node[m].key /\ (IsFull(p, j) <=> node[m].sub # <<>>)
    BY <1>9, <2>4 DEF KeyAt, IsFull
  <2>7. KeyAt(p, k)' = node'[m].key /\ (IsFull(p, k)' <=> node'[m].sub # <<>>)
    BY <1>11, <2>3, <2>4 DEF KeyAt, IsFull
  <2>. QED BY <2>3, <2>5, <2>6, <2>7
<1>15. \A k \in 1 .. Len(d) : k = l => KeyAt(p, k)' = KeyAt(p, i)
  <2>1. ASSUME NEW k \in 1 .. Len(d), k = l PROVE d[k] = c[i]
    <3>1. l \notin 1 .. l - 1
      BY <1>9
    <3>. QED BY <1>13, <2>1, <3>1
  <2>2. PICK m \in 1 .. used : m = c[i]
    BY <1>6, <1>8, <1>9
  <2>3. node'[m].key = node[m].key /\ KeyAt(p, i) = node[m].key
    BY <1>5, <1>9, <2>2 DEF KeyAt
  <2>4. ASSUME NEW k \in 1 .. Len(d), k = l PROVE KeyAt(p, k)' = node'[m].key
    BY <1>11, <2>1, <2>2, <2>4 DEF KeyAt
  <2>. QED BY <2>3, <2>4
<1>16. \A j, k \in 1 .. l : KeyAt(p, j) = KeyAt(p, k) => j = k
  BY <1>9 DEF Lists, Keyed, KeyAt
<1>17. ASSUME NEW u \in Users, HasNone(p, u)' PROVE passed'[p][u] = 0
  <2>1. CASE u # KeyAt(p, i) /\ u \in Waiting(p)
    <3>1. PICK j \in 1 .. l : KeyAt(p, j) = u /\ IsFull(p, j)
      BY <1>9, <2>1, WaitingIs
    <3>2. j # i
      BY <2>1, <3>1
    <3>3. PICK k \in 1 .. l - 1 : Origin(i, k) = j
      <4>1. CASE j < i
        BY <1>6, <1>9, <4>1 DEF Origin
      <4>2. CASE ~(j < i)
        BY <1>6, <1>9, <3>2, <4>2 DEF Origin
      <4>. QED BY <4>1, <4>2
    <3>4. KeyAt(p, k)' = u /\ IsFull(p, k)' /\ k \in 1 .. Len(d)
      BY <1>13, <1>14, <3>1, <3>3
    <3>. QED BY <1>11, <1>17, <3>4 DEF HasNone
  <2>2. CASE ~(u # KeyAt(p, i) /\ u \in Waiting(p))
    BY <1>3, <2>2
  <2>. QED BY <2>1, <2>2
<1>18. ASSUME NEW k \in 1 .. Len(d), IsFull(p, k)'
       PROVE  passed'[p][KeyAt(p, k)'] + k <= Cardinality(Users)
  <2>1. CASE k \in 1 .. l - 1
    <3>1. PICK j \in 1 .. l : j = Origin(i, k) /\ j # i
      BY <1>12, <2>1
    <3>2. KeyAt(p, k)' = KeyAt(p, j) /\ IsFull(p, j)
      BY <1>14, <1>18, <2>1, <3>1
    <3>3. i <= j
      BY <1>1, <1>9, <3>2 DEF IsFirstFull, IsFull
    <3>4. j = k + 1
      BY <1>6, <1>9, <2>1, <3>1, <3>3 DEF Origin
    <3>5. KeyAt(p, j) # KeyAt(p, i) /\ KeyAt(p, j) \in Waiting(p) /\ KeyAt(p, j) \in Users
      BY <1>6, <1>8, <1>9, <1>16, <3>1, <3>2, WaitingIs
    <3>6. passed'[p][KeyAt(p, j)] = passed[p][KeyAt(p, j)] + 1
      BY <1>3, <3>5
    <3>7. passed[p][KeyAt(p, j)] + j <= Cardinality(Users)
      BY <1>9, <3>2 DEF Turns, TurnAt
    <3>8. passed[p][KeyAt(p, j)] \in Nat /\ k \in Nat
      BY <1>8, <2>1, <3>5
    <3>. QED BY <1>8, <3>2, <3>4, <3>6, <3>7, <3>8
  <2>2. CASE k = l
    <3>1. KeyAt(p, k)' = KeyAt(p, i) /\ KeyAt(p, i) \in Users
      BY <1>6, <1>8, <1>15, <2>2
    <3>2. passed'[p][KeyAt(p, i)] = 0
      BY <1>3, <3>1
    <3>3. l <= Cardinality(Users)
      BY <1>9, ChainsShort DEF Short
    <3>. QED BY <1>8, <1>9, <2>2, <3>1, <3>2, <3>3
  <2>. QED BY <1>13, <2>1, <2>2
<1>19. TurnAt(p)'
  BY <1>11, <1>17, <1>18 DEF TurnAt
<1>. QED BY <1>7, <1>19 DEF Turns

LEMMA TurnsInit == Init => Turns
<1>. SUFFICES ASSUME Init, NEW g \in Groups PROVE TurnAt(g)
  BY DEF Turns
<1>1. Lists
  BY PlaceInit DEF PlaceInv
<1>2. Len(Chain(g)) = 0
  <2>1. hash[g].first = Null
    BY DEF Init
  <2>. QED BY <1>1, <2>1, ChainFacts
<1>3. \A u \in Users : passed[g][u] = 0
  BY DEF Init
<1>4. 1 .. Len(Chain(g)) = {}
  BY <1>2
<1>. QED BY <1>3, <1>4 DEF TurnAt

LEMMA TurnsNext == PlaceInv /\ PlaceInv' /\ Turns /\ [Next]_vars => Turns'
<1>. SUFFICES ASSUME PlaceInv, PlaceInv', Turns, [Next]_vars PROVE Turns'
  OBVIOUS
<1>1. Lists
  BY DEF PlaceInv
<1>2. ASSUME UNCHANGED lists PROVE Turns'
  <2>1. (\A g \in Groups : Chain(g)' = Chain(g)) /\ passed' = passed /\ node' = node
    BY <1>1, <1>2, SameLists DEF lists
  <2>. QED BY <2>1, TurnSame DEF Turns
<1>3. ASSUME NEW r \in Reqs, AddToSubqueue(r) PROVE Turns'
  BY <1>1, <1>3, TurnsKnown, TurnsNew
<1>4. ASSUME NEW t \in Reqs, Handle(t), ~UNCHANGED lists PROVE Turns'
  <2>1. AddToSubqueue(cur[t]) /\ pc[t] \in InHand
    BY <1>4 DEF Handle, InHand
  <2>2. cur[t] \in Reqs
    BY <2>1, Members
  <2>. QED BY <1>3, <2>1, <2>2
<1>5. ASSUME NEW t \in Reqs, TakeActive(t), ~UNCHANGED lists PROVE Turns'
  <2>1. RemoveFromSubqueue(t, pri[t])
    BY <1>5 DEF TakeActive
  <2>2. pri[t] \in Groups
    BY DEF PlaceInv, TypeThreads
  <2>. QED BY <1>1, <2>1, <2>2, TurnsMoved
<1>6. ASSUME NEW t \in Reqs,
             \/ Arrive(t) \/ Refuse(t) \/ Enqueue(t) \/ HandOver(t) \/ Take(t) \/ IncActive(t)
             \/ IncUser(t) \/ DecActive(t) \/ PutBack(t) \/ DecReq(t) \/ Release(t) \/ Free(t)
      PROVE  UNCHANGED lists
  BY <1>6 DEF Arrive, Refuse, Enqueue, HandOver, Take, IncActive, IncUser, DecActive, PutBack,
              DecReq, Release, Free
<1>7. UNCHANGED vars => UNCHANGED lists
  BY DEF vars
<1>8. ASSUME NEW t \in Reqs, Arrive(t) \/ Thread(t) PROVE Turns'
  BY <1>2, <1>4, <1>5, <1>6, <1>8 DEF Thread
<1>. QED BY <1>2, <1>7, <1>8 DEF Next

LEMMA TurnsTaken == PlaceInv /\ Turns => TakeTurns
<1>. SUFFICES ASSUME PlaceInv, Turns, NEW g \in Groups, NEW u \in Waiting(g)
              PROVE  passed[g][u] < Cardinality(Users)
  BY DEF TakeTurns
<1>1. Lists
  BY DEF PlaceInv
<1>2. PICK i \in 1 .. Len(Chain(g)) : KeyAt(g, i) = u /\ IsFull(g, i)
  BY <1>1, WaitingIs
<1>3. passed[g][u] + i <= Cardinality(Users)
  BY <1>2 DEF Turns, TurnAt
<1>4. /\ Cardinality(Users) \in Nat /\ i \in Nat /\ i # 0 /\ u \in Users
      /\ passed[g][u] \in Nat
  <2>1. /\ Cardinality(Users) \in Nat /\ Len(Chain(g)) \in Nat
        /\ \A v \in Users : passed[g][v] \in Nat
        /\ \A k \in 1 .. Len(Chain(g)) : k \in Nat /\ KeyAt(g, k) \in Users
    BY <1>1, TurnNumbers
  <2>. QED BY <1>2, <2>1
<1>. QED BY <1>3, <1>4

(***************************************************************************)
(* Fairness between the users of a group: between two turns of a user who  *)
(* waits in a linked subqueue, each other user has at most one, whatever   *)
(* joins the list and whatever QueueMoveToBack drops from it.              *)
(***************************************************************************)
THEOREM TurnsAreTaken == Spec => []TakeTurns
<1>. QED BY PlaceInit, PlaceNext, TurnsInit, TurnsNext, TurnsTaken, PTL DEF Spec
=============================================================================
