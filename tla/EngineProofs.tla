--------------------------- MODULE EngineProofs -----------------------------
(***************************************************************************)
(* Proofs about the client and the engine, for every set of transactions,  *)
(* every starting block and every bound: a download returns exactly the    *)
(* stretch of the chain that was asked for, the engine only ever holds     *)
(* stored blocks, and unless it has refused an update every block is       *)
(* executed on the state of its parent.                                    *)
(***************************************************************************)
EXTENDS ExecutionProofs, FiniteSetTheorems, WellFoundedInduction

\* The prover of the steps that name no other; most of them need no arithmetic.
USE Zenon

\* Induction over the natural numbers, for a set.
LEMMA SetInduction ==
    ASSUME NEW S \in SUBSET Nat, 0 \in S, \A n \in S : n + 1 \in S
    PROVE  S = Nat
<1>. SUFFICES ASSUME Nat \ S # {} PROVE FALSE
  OBVIOUS
<1>. DEFINE R == OpToRel(<, Nat)
           T == Nat \ S
<1>1. IsWellFoundedOn(R, Nat)
  BY NatLessThanWellFounded
<1>2. T \subseteq Nat /\ T # {}
  OBVIOUS
<1>3. PICK x \in T : \A y \in T : ~(<<y, x>> \in R)
  <2>. HIDE DEF R, T
  <2>. QED
    BY <1>1, <1>2, WFMin
<1>4. x # 0 /\ x \in Nat
  OBVIOUS
<1>5. x - 1 \in Nat /\ x - 1 < x
  BY <1>4, SMT
<1>6. <<x - 1, x>> \in R
  BY <1>4, <1>5 DEF OpToRel
<1>7. x - 1 \in S
  BY <1>3, <1>5, <1>6
<1>8. (x - 1) + 1 \in S
  BY <1>7
<1>. QED
  BY <1>4, <1>8, SMT

Turn(f, i, start, direction) ==
    Found(IF i = 1 THEN StartOf(start)
          ELSE {Onward(header, direction) : header \in f[i - 1]})

\* A function that satisfies the equations of the loop is the one they define.
LEMMA TurnsAre ==
    ASSUME NEW start, NEW limit \in Nat, NEW direction, NEW f,
           f = [i \in 1..limit |-> Turn(f, i, start, direction)]
    PROVE  Turns(start, limit, direction) = f
<1>1. PICK g : g = Turns(start, limit, direction)
  OBVIOUS
<1>2. g = [i \in 1..limit |-> Turn(g, i, start, direction)]
  BY <1>1 DEF Turns, Turn
<1>. DEFINE S == {n \in Nat : n \in 1..limit => g[n] = f[n]}
<1>3. 0 \in S
  BY SMT
<1>4. ASSUME NEW n \in S PROVE n + 1 \in S
  <2>1. n \in Nat /\ n + 1 \in Nat
    BY SMT
  <2>2. ASSUME n + 1 \in 1..limit PROVE g[n + 1] = f[n + 1]
    <3>1. /\ g[n + 1] = Turn(g, n + 1, start, direction)
          /\ f[n + 1] = Turn(f, n + 1, start, direction)
      BY <1>2, <2>2
    <3>2. CASE n = 0
      <4>1. n + 1 = 1
        BY <3>2, SMT
      <4>. QED
        BY <3>1, <4>1 DEF Turn
    <3>3. CASE n # 0
      <4>1. n \in 1..limit /\ (n + 1) - 1 = n
        BY <2>1, <2>2, <3>3, SMT
      <4>2. g[n] = f[n]
        BY <4>1
      <4>3. Turn(g, n + 1, start, direction) = Turn(f, n + 1, start, direction)
        BY <4>1, <4>2 DEF Turn
      <4>. QED
        BY <3>1, <4>3
    <3>. QED
      BY <3>2, <3>3
  <2>. QED
    BY <2>1, <2>2
<1>5. S = Nat
  <2>. HIDE DEF S
  <2>1. S \in SUBSET Nat
    BY DEF S
  <2>. QED
    BY <1>3, <1>4, <2>1, SetInduction
<1>6. \A i \in 1..limit : g[i] = f[i]
  BY <1>5, SMT
<1>7. g = f
  BY <1>2, <1>6
<1>. QED
  BY <1>1, <1>7

-----------------------------------------------------------------------------
(* The index of the storage holds the inserted blocks and no others. *)

Indexed ==
    DOMAIN hashToNumber = {HashOf(headers[n]) : n \in StartNumber+1..bestBlock}

\* Nothing is indexed at first.
LEMMA IndexedInit == ExecInit => Indexed
<1>. SUFFICES ASSUME ExecInit PROVE Indexed
  OBVIOUS
<1>1. bestBlock = StartNumber /\ DOMAIN hashToNumber = {}
  BY DEF ExecInit, StorageInit
<1>2. StartNumber+1..bestBlock = {}
  BY <1>1, StartAssumption, SMT
<1>. QED
  BY <1>1, <1>2 DEF Indexed

\* A new block is indexed with its hash.
LEMMA IndexedInsert ==
    ASSUME StorageTypeOK, Linked, Indexed,
           NEW txs \in SUBSET Txs, NEW root \in SUBSET Txs,
           InsertNewBlock(HeaderTemplate(txs, root), txs)
    PROVE  Indexed'
<1>1. PICK header \in Headers :
         /\ bestBlock' = bestBlock + 1
         /\ headers' = Store(headers, bestBlock + 1, header)
         /\ hashToNumber' = Store(hashToNumber, HashOf(header), bestBlock + 1)
  BY InsertEffect
<1>2. PICK top \in Nat : top = bestBlock + 1
  BY SMT DEF StorageTypeOK
<1>3. DOMAIN hashToNumber' = DOMAIN hashToNumber \cup {HashOf(header)}
  BY <1>1 DEF Store
<1>4. /\ bestBlock \in Nat /\ StartNumber \in Nat /\ bestBlock >= StartNumber
      /\ DOMAIN headers = StartNumber..bestBlock
  BY StartAssumption DEF StorageTypeOK, Linked, StorageLinked
<1>5. /\ headers'[top] = header
      /\ \A n \in StartNumber+1..bestBlock : headers'[n] = headers[n]
  <2>1. /\ headers'[top] = header
        /\ \A n \in DOMAIN headers : n # top => headers'[n] = headers[n]
    BY <1>1, <1>2 DEF Store
  <2>2. \A n \in StartNumber+1..bestBlock : n \in DOMAIN headers /\ n # top
    BY <1>2, <1>4, SMT
  <2>. QED
    BY <2>1, <2>2
<1>6. StartNumber+1..top = (StartNumber+1..bestBlock) \cup {top}
  BY <1>2, <1>4, SMT
<1>7. {HashOf(headers'[n]) : n \in StartNumber+1..top} =
        {HashOf(headers[n]) : n \in StartNumber+1..bestBlock} \cup {HashOf(header)}
  <2>1. {HashOf(headers'[n]) : n \in (StartNumber+1..bestBlock) \cup {top}} =
          {HashOf(headers[n]) : n \in StartNumber+1..bestBlock} \cup {HashOf(header)}
    BY <1>5
  <2>. QED
    BY <1>6, <2>1
<1>. QED
  BY <1>1, <1>2, <1>3, <1>7 DEF Indexed

\* No step indexes anything else.
LEMMA IndexedNext ==
    ASSUME ExecTypes, Linked, Indexed, [ExecNext]_execVars
    PROVE  Indexed'
<1>1. CASE ExecuteOk
  BY <1>1, ExecuteEffect, IndexedInsert DEF ExecTypes
<1>2. CASE UNCHANGED storageInner
  BY <1>2 DEF storageInner, Indexed
<1>. QED
  BY <1>1, <1>2, StorageSteps

\* What each lookup finds: every inserted block by its hash and by its number, the
\* initial block by its number alone, and nothing else.
LEMMA Lookups ==
    ASSUME StorageTypeOK, Linked, Indexed
    PROVE  /\ \A n \in StartNumber+1..bestBlock :
                /\ HeaderByHash(HashOf(headers[n])) = {headers[n]}
                /\ HeaderByNumber(n) = {headers[n]}
                /\ BlockHash(n) = {HashOf(headers[n])}
                /\ headers[n].number = n
                /\ headers[n].parent = HashOf(headers[n - 1])
                /\ HashOf(headers[n]) \in DOMAIN bodies
                /\ bodies[HashOf(headers[n])] = headers[n].txs
           /\ HeaderByHash(HashOf(headers[StartNumber])) = {}
           /\ HeaderByNumber(bestBlock + 1) = {}
<1>1. /\ bestBlock \in Nat /\ StartNumber \in Nat /\ bestBlock >= StartNumber
      /\ DOMAIN headers = StartNumber..bestBlock
      /\ \A n \in StartNumber..bestBlock :
           Len(HashOf(headers[n])) = n - StartNumber + 1
      /\ \A n \in StartNumber+1..bestBlock :
           /\ headers[n].number = n
           /\ headers[n].parent = HashOf(headers[n-1])
           /\ HashOf(headers[n]) \in DOMAIN hashToNumber
           /\ hashToNumber[HashOf(headers[n])] = n
           /\ HashOf(headers[n]) \in DOMAIN bodies
           /\ bodies[HashOf(headers[n])] = headers[n].txs
  BY StartAssumption DEF StorageTypeOK, Linked, StorageLinked
<1>2. ASSUME NEW n \in StartNumber+1..bestBlock
      PROVE  /\ HeaderByHash(HashOf(headers[n])) = {headers[n]}
             /\ HeaderByNumber(n) = {headers[n]}
             /\ BlockHash(n) = {HashOf(headers[n])}
  <2>1. n \in DOMAIN headers
    BY <1>1, SMT
  <2>2. HeaderByNumber(n) = {headers[n]}
    BY <2>1 DEF HeaderByNumber
  <2>3. HeaderByHash(HashOf(headers[n])) = {headers[n]}
    BY <1>1, <2>2 DEF HeaderByHash
  <2>4. ASSUME NEW h \in BlockHash(n) PROVE h = HashOf(headers[n])
    <3>1. h \in DOMAIN hashToNumber /\ hashToNumber[h] = n
      BY <2>4 DEF BlockHash
    <3>2. PICK m \in StartNumber+1..bestBlock : h = HashOf(headers[m])
      BY <3>1 DEF Indexed
    <3>. QED
      BY <1>1, <3>1, <3>2
  <2>5. HashOf(headers[n]) \in BlockHash(n)
    BY <1>1 DEF BlockHash
  <2>. QED
    BY <2>2, <2>3, <2>4, <2>5
<1>3. HashOf(headers[StartNumber]) \notin DOMAIN hashToNumber
  <2>. SUFFICES ASSUME HashOf(headers[StartNumber]) \in DOMAIN hashToNumber PROVE FALSE
    OBVIOUS
  <2>1. PICK m \in StartNumber+1..bestBlock :
           HashOf(headers[StartNumber]) = HashOf(headers[m])
    BY SMT DEF Indexed
  <2>2. StartNumber \in StartNumber..bestBlock /\ m \in StartNumber..bestBlock
    BY <1>1, SMT
  <2>3. StartNumber - StartNumber + 1 = m - StartNumber + 1
    BY <1>1, <2>1, <2>2
  <2>. QED
    BY <1>1, <2>3, SMT
<1>4. bestBlock + 1 \notin DOMAIN headers
  BY <1>1, SMT
<1>. QED
  BY <1>1, <1>2, <1>3, <1>4 DEF HeaderByHash, HeaderByNumber

-----------------------------------------------------------------------------
(* The download is exact. *)

Place(n, i, direction) == IF direction = "Falling" THEN n + 1 - i ELSE n + i - 1
Reach(n, direction) ==
    IF direction = "Falling" THEN n - StartNumber ELSE bestBlock + 1 - n

\* The loop moves from each header to the next one in its direction, and finds
\* nothing once it is past the end of the chain.
LEMMA OnwardFinds ==
    ASSUME StorageTypeOK, Linked, Indexed,
           NEW n \in StartNumber+1..bestBlock, NEW direction \in Directions,
           NEW i \in Nat \ {0}, i <= Reach(n, direction)
    PROVE  /\ Place(n, i, direction) \in StartNumber+1..bestBlock
           /\ Found({Onward(headers[Place(n, i, direction)], direction)}) =
                IF i + 1 <= Reach(n, direction)
                THEN {headers[Place(n, i + 1, direction)]} ELSE {}
<1>1. bestBlock \in Nat /\ StartNumber \in Nat /\ bestBlock >= StartNumber
  BY StartAssumption DEF StorageTypeOK, Linked
<1>2. PICK m : m = Place(n, i, direction)
  OBVIOUS
<1>3. m \in StartNumber+1..bestBlock
  BY <1>1, <1>2, SMT DEF Place, Reach, Directions
<1>4. headers[m].number = m /\ headers[m].parent = HashOf(headers[m - 1])
  BY <1>3, Lookups
<1>5. CASE direction = "Falling"
  <2>1. Found({Onward(headers[m], direction)}) = HeaderByHash(HashOf(headers[m - 1]))
    BY <1>4, <1>5, SMT DEF Found, Onward, ByHash, HeaderByHashOrNumber
  <2>2. m - 1 = Place(n, i + 1, direction)
    BY <1>1, <1>2, <1>5, SMT DEF Place
  <2>3. CASE i + 1 <= Reach(n, direction)
    <3>1. m - 1 \in StartNumber+1..bestBlock
      BY <1>1, <1>2, <1>5, <2>3, SMT DEF Place, Reach
    <3>2. HeaderByHash(HashOf(headers[m - 1])) = {headers[m - 1]}
      BY <3>1, Lookups
    <3>. QED
      BY <1>2, <1>3, <2>1, <2>2, <2>3, <3>2
  <2>4. CASE ~(i + 1 <= Reach(n, direction))
    <3>1. m - 1 = StartNumber
      BY <1>1, <1>2, <1>5, <2>4, SMT DEF Place, Reach
    <3>. QED
      BY <1>2, <1>3, <2>1, <2>4, <3>1, Lookups
  <2>. QED
    BY <2>3, <2>4
<1>6. CASE direction # "Falling"
  <2>1. Found({Onward(headers[m], direction)}) = HeaderByNumber(m + 1)
    BY <1>4, <1>6, SMT DEF Found, Onward, ByNumber, HeaderByHashOrNumber
  <2>2. m + 1 = Place(n, i + 1, direction)
    BY <1>1, <1>2, <1>6, SMT DEF Place
  <2>3. CASE i + 1 <= Reach(n, direction)
    <3>1. m + 1 \in StartNumber+1..bestBlock
      BY <1>1, <1>2, <1>6, <2>3, SMT DEF Place, Reach
    <3>2. HeaderByNumber(m + 1) = {headers[m + 1]}
      BY <3>1, Lookups
    <3>. QED
      BY <1>2, <1>3, <2>1, <2>2, <2>3, <3>2
  <2>4. CASE ~(i + 1 <= Reach(n, direction))
    <3>1. m + 1 = bestBlock + 1
      BY <1>1, <1>2, <1>6, <2>4, SMT DEF Place, Reach
    <3>. QED
      BY <1>2, <1>3, <2>1, <2>4, <3>1, Lookups
  <2>. QED
    BY <2>3, <2>4
<1>. QED
  BY <1>5, <1>6

\* What each turn of the loop finds, from block n on.
Stretch(n, limit, direction) ==
    [i \in 1..limit |-> IF i <= Reach(n, direction)
                        THEN {headers[Place(n, i, direction)]} ELSE {}]

\* The loop finds the headers of the chain one after the other, and then nothing.
LEMMA TurnsAreStretch ==
    ASSUME StorageTypeOK, Linked, Indexed,
           NEW n \in StartNumber+1..bestBlock, NEW direction \in Directions,
           NEW limit \in Nat, NEW start, Found(StartOf(start)) = {headers[n]}
    PROVE  Turns(start, limit, direction) = Stretch(n, limit, direction)
<1>1. bestBlock \in Nat /\ StartNumber \in Nat /\ bestBlock >= StartNumber
  BY StartAssumption DEF StorageTypeOK, Linked
<1>2. Reach(n, direction) \in Nat \ {0}
  BY <1>1, SMT DEF Reach
<1>3. PICK f : f = Stretch(n, limit, direction)
  OBVIOUS
<1>4. /\ DOMAIN f = 1..limit
      /\ \A i \in 1..limit : f[i] = IF i <= Reach(n, direction)
                                    THEN {headers[Place(n, i, direction)]} ELSE {}
      /\ f = [i \in 1..limit |-> f[i]]
  BY <1>3 DEF Stretch
<1>5. ASSUME NEW i \in 1..limit PROVE f[i] = Turn(f, i, start, direction)
  <2>1. CASE i = 1
    <3>1. f[i] = {headers[Place(n, 1, direction)]}
      BY <1>2, <1>4, <2>1, SMT
    <3>2. Place(n, 1, direction) = n
      BY <1>1, SMT DEF Place
    <3>3. Turn(f, i, start, direction) = Found(StartOf(start))
      BY <2>1 DEF Turn
    <3>. QED
      BY <3>1, <3>2, <3>3
  <2>2. CASE i # 1
    <3>1. PICK j \in 1..limit : i = j + 1
      <4>1. i - 1 \in 1..limit /\ i = (i - 1) + 1
        BY <2>2, SMT
      <4>. QED
        BY <4>1
    <3>2. /\ j \in Nat \ {0} /\ i - 1 = j
          /\ Turn(f, i, start, direction) =
               Found({Onward(header, direction) : header \in f[j]})
      <4>1. j \in Nat \ {0} /\ i - 1 = j
        BY <3>1, SMT
      <4>. QED
        BY <2>2, <4>1 DEF Turn
    <3>3. CASE j <= Reach(n, direction)
      <4>1. f[j] = {headers[Place(n, j, direction)]}
        BY <1>4, <3>3
      <4>2. {Onward(header, direction) : header \in f[j]} =
              {Onward(headers[Place(n, j, direction)], direction)}
        BY <4>1
      <4>3. Found({Onward(headers[Place(n, j, direction)], direction)}) =
              IF j + 1 <= Reach(n, direction)
              THEN {headers[Place(n, j + 1, direction)]} ELSE {}
        BY <3>2, <3>3, OnwardFinds
      <4>. QED
        BY <1>4, <3>1, <3>2, <4>2, <4>3
    <3>4. CASE ~(j <= Reach(n, direction))
      <4>1. f[j] = {} /\ f[i] = {}
        BY <1>2, <1>4, <3>1, <3>4, SMT
      <4>2. {Onward(header, direction) : header \in f[j]} = {}
        BY <4>1
      <4>3. Found({}) = {}
        BY DEF Found
      <4>. QED
        BY <3>2, <4>1, <4>2, <4>3
    <3>. QED
      BY <3>3, <3>4
  <2>. QED
    BY <2>1, <2>2
<1>6. f = [i \in 1..limit |-> Turn(f, i, start, direction)]
  BY <1>4, <1>5
<1>. QED
  BY <1>3, <1>6, TurnsAre, SMT

\* fetch_headers returns the requested stretch of the chain.
LEMMA HeadersAreExact ==
    ASSUME StorageTypeOK, Linked, Indexed,
           NEW n \in StartNumber+1..bestBlock, NEW direction \in Directions,
           NEW limit \in Nat, NEW start, Found(StartOf(start)) = {headers[n]}
    PROVE  FetchHeaders(start, limit, direction) = Requested(n, limit, direction)
<1>1. bestBlock \in Nat /\ StartNumber \in Nat /\ bestBlock >= StartNumber
  BY StartAssumption DEF StorageTypeOK, Linked
<1>2. Reach(n, direction) \in Nat
  BY <1>1, SMT DEF Reach
<1>3. PICK k \in Nat : k = Smaller(limit, Reach(n, direction))
  BY <1>2 DEF Smaller
<1>. DEFINE f == Turns(start, limit, direction)
<1>4. FetchHeaders(start, limit, direction) =
        [i \in 1..Cardinality({j \in 1..limit : f[j] # {}}) |->
           CHOOSE header \in f[i] : TRUE]
  BY DEF FetchHeaders
<1>5. f = Stretch(n, limit, direction)
  BY TurnsAreStretch
<1>. HIDE DEF f
<1>6. \A i \in 1..limit : f[i] = IF i <= Reach(n, direction)
                                 THEN {headers[Place(n, i, direction)]} ELSE {}
  BY <1>5 DEF Stretch
<1>7. {j \in 1..limit : f[j] # {}} = 1..k
  <2>1. \A j \in 1..limit : f[j] # {} <=> j <= Reach(n, direction)
    BY <1>6
  <2>. QED
    BY <1>2, <1>3, <2>1, SMT DEF Smaller
<1>8. Cardinality(1..k) = k
  <2>1. 1 \in Int /\ k \in Int
    BY <1>3, SMT
  <2>2. Cardinality(1..k) = IF 1 > k THEN 0 ELSE k - 1 + 1
    BY <2>1, FS_Interval
  <2>. QED
    BY <1>3, <2>2, SMT
<1>9. FetchHeaders(start, limit, direction) = [i \in 1..k |-> CHOOSE header \in f[i] : TRUE]
  <2>1. Cardinality({j \in 1..limit : f[j] # {}}) = k
    BY <1>7, <1>8
  <2>. QED
    BY <1>4, <2>1
<1>10. ASSUME NEW i \in 1..k
       PROVE  (CHOOSE header \in f[i] : TRUE) = headers[Place(n, i, direction)]
  <2>1. i \in 1..limit /\ i <= Reach(n, direction)
    BY <1>2, <1>3, SMT DEF Smaller
  <2>2. f[i] = {headers[Place(n, i, direction)]}
    BY <1>6, <2>1
  <2>. QED
    BY <2>2
<1>11. Requested(n, limit, direction) = [i \in 1..k |-> headers[Place(n, i, direction)]]
  BY <1>3 DEF Requested, Reach, Place, Directions
<1>. QED
  BY <1>9, <1>10, <1>11, SMT

\* The requested headers, one by one.
LEMMA RequestedAre ==
    ASSUME StorageTypeOK, Linked, Indexed,
           NEW n \in StartNumber+1..bestBlock, NEW direction \in Directions,
           NEW limit \in Nat
    PROVE  \E k \in Nat :
             /\ k = Smaller(limit, Reach(n, direction))
             /\ Requested(n, limit, direction) \in Seq(Headers)
             /\ Len(Requested(n, limit, direction)) = k
             /\ \A i \in 1..k :
                  /\ Place(n, i, direction) \in StartNumber+1..bestBlock
                  /\ Requested(n, limit, direction)[i] = headers[Place(n, i, direction)]
<1>1. bestBlock \in Nat /\ StartNumber \in Nat /\ bestBlock >= StartNumber
  BY StartAssumption DEF StorageTypeOK, Linked
<1>2. Reach(n, direction) \in Nat
  BY <1>1, SMT DEF Reach
<1>3. PICK k \in Nat : k = Smaller(limit, Reach(n, direction))
  BY <1>2 DEF Smaller
<1>4. Requested(n, limit, direction) = [i \in 1..k |-> headers[Place(n, i, direction)]]
  BY <1>3 DEF Requested, Reach, Place, Directions
<1>5. ASSUME NEW i \in 1..k
      PROVE  /\ Place(n, i, direction) \in StartNumber+1..bestBlock
             /\ headers[Place(n, i, direction)] \in Headers
  <2>1. i \in Nat \ {0} /\ i <= Reach(n, direction)
    BY <1>2, <1>3, SMT DEF Smaller
  <2>2. Place(n, i, direction) \in StartNumber+1..bestBlock
    BY <2>1, OnwardFinds
  <2>3. DOMAIN headers = StartNumber..bestBlock /\ headers \in [DOMAIN headers -> Headers]
    BY DEF Linked, StorageLinked, StorageTypeOK
  <2>4. Place(n, i, direction) \in DOMAIN headers
    BY <1>1, <2>2, <2>3, SMT
  <2>. QED
    BY <2>2, <2>3, <2>4
<1>6. Requested(n, limit, direction) \in [1..k -> Headers]
  BY <1>4, <1>5
<1>7. /\ Requested(n, limit, direction) \in Seq(Headers)
      /\ Len(Requested(n, limit, direction)) = k
  BY <1>6, SMT
<1>. QED
  BY <1>3, <1>4, <1>5, <1>7

\* fetch_bodies returns a body for every hash when the storage has them all.
LEMMA BodiesAreExact ==
    ASSUME NEW k \in Nat, NEW hashes, hashes \in Seq(Hashes), Len(hashes) = k,
           \A j \in 1..k : hashes[j] \in DOMAIN bodies
    PROVE  FetchBodies(hashes) = [j \in 1..k |-> bodies[hashes[j]]]
<1>. DEFINE P(m) == /\ \A j \in 1..m : hashes[j] \in DOMAIN bodies
                    /\ m < Len(hashes) => hashes[m + 1] \notin DOMAIN bodies
<1>1. k \in 0..Len(hashes) /\ P(k)
  BY SMT
<1>2. PICK have : have = CHOOSE m \in 0..Len(hashes) : P(m)
  OBVIOUS
<1>3. have \in 0..Len(hashes) /\ P(have)
  BY <1>1, <1>2
<1>4. have = k
  <2>1. have \in Nat /\ have <= k
    BY <1>3, SMT
  <2>2. CASE have < k
    <3>1. have + 1 \in 1..k
      BY <2>1, <2>2, SMT
    <3>. QED
      BY <1>3, <2>2, <3>1
  <2>. QED
    BY <2>1, <2>2, SMT
<1>5. FetchBodies(hashes) = [j \in 1..have |-> bodies[hashes[j]]]
  BY <1>2 DEF FetchBodies
<1>. QED
  BY <1>4, <1>5

\* Whenever the engine reads, and for every limit, the client's answers are exact.
LEMMA ExactFetch ==
    ASSUME StorageTypeOK, Linked, Indexed,
           NEW n \in StartNumber+1..bestBlock, NEW direction \in Directions,
           NEW limit \in Nat, NEW wanted, wanted = Requested(n, limit, direction)
    PROVE  /\ FetchHeaders(ByHash(HashOf(headers[n])), limit, direction) = wanted
           /\ FetchHeaders(ByNumber(n), limit, direction) = wanted
           /\ FetchBodies([i \in DOMAIN wanted |-> HashOf(wanted[i])]) =
                [i \in DOMAIN wanted |-> wanted[i].txs]
<1>1. /\ HeaderByHash(HashOf(headers[n])) = {headers[n]}
      /\ BlockHash(n) = {HashOf(headers[n])}
  BY Lookups
<1>2. Found({ByHash(HashOf(headers[n]))}) = {headers[n]}
  BY <1>1, SMT DEF Found, ByHash, HeaderByHashOrNumber
<1>3. StartOf(ByHash(HashOf(headers[n]))) = {ByHash(HashOf(headers[n]))}
  BY DEF StartOf, ByHash
<1>4. StartOf(ByNumber(n)) = {ByHash(HashOf(headers[n]))}
  BY <1>1 DEF StartOf, ByNumber
<1>5. FetchHeaders(ByHash(HashOf(headers[n])), limit, direction) = wanted
  BY <1>2, <1>3, HeadersAreExact
<1>6. FetchHeaders(ByNumber(n), limit, direction) = wanted
  BY <1>2, <1>4, HeadersAreExact
<1>7. PICK k \in Nat :
        /\ wanted \in Seq(Headers) /\ Len(wanted) = k
        /\ \A i \in 1..k : /\ Place(n, i, direction) \in StartNumber+1..bestBlock
                           /\ wanted[i] = headers[Place(n, i, direction)]
  BY RequestedAre
<1>8. PICK hashes : hashes = [i \in 1..k |-> HashOf(wanted[i])]
  OBVIOUS
<1>9. DOMAIN wanted = 1..k
  BY <1>7, SMT
<1>10. ASSUME NEW i \in 1..k
       PROVE  /\ HashOf(wanted[i]) \in Hashes
              /\ HashOf(wanted[i]) \in DOMAIN bodies
              /\ bodies[HashOf(wanted[i])] = wanted[i].txs
  <2>1. wanted[i] \in Headers
    BY <1>7, SMT
  <2>2. /\ HashOf(wanted[i]) \in DOMAIN bodies
        /\ bodies[HashOf(wanted[i])] = wanted[i].txs
    BY <1>7, Lookups, SMT
  <2>. QED
    BY <2>1, <2>2, HashType
<1>11. /\ hashes \in Seq(Hashes) /\ Len(hashes) = k
       /\ \A j \in 1..k : hashes[j] \in DOMAIN bodies /\ bodies[hashes[j]] = wanted[j].txs
  <2>1. hashes \in [1..k -> Hashes]
    BY <1>8, <1>10
  <2>2. hashes \in Seq(Hashes) /\ Len(hashes) = k
    BY <2>1, SMT
  <2>. QED
    BY <1>8, <1>10, <2>2
<1>12. FetchBodies(hashes) = [j \in 1..k |-> bodies[hashes[j]]]
  BY <1>11, BodiesAreExact
<1>13. [j \in 1..k |-> bodies[hashes[j]]] = [j \in 1..k |-> wanted[j].txs]
  BY <1>11
<1>. QED
  BY <1>5, <1>6, <1>8, <1>9, <1>12, <1>13

\* What the client returns while it holds the read lock is the requested stretch of
\* the chain, for every limit (fetch_headers, fetch_bodies).
THEOREM DownloadsAreExact == ExecSpec => []FetchIsExact
<1>1. ASSUME ExecTypes, Linked, Indexed PROVE FetchIsExact
  <2>1. ASSUME NEW n \in StartNumber+1..bestBlock, NEW direction \in Directions,
               NEW limit \in 0..MaxBlocks+1
        PROVE  LET wanted == Requested(n, limit, direction)
               IN /\ FetchHeaders(ByHash(HashOf(headers[n])), limit, direction) = wanted
                  /\ FetchHeaders(ByNumber(n), limit, direction) = wanted
                  /\ FetchBodies([i \in DOMAIN wanted |-> HashOf(wanted[i])]) =
                       [i \in DOMAIN wanted |-> wanted[i].txs]
    <3>. DEFINE wanted == Requested(n, limit, direction)
    <3>1. wanted = Requested(n, limit, direction)
      OBVIOUS
    <3>. HIDE DEF wanted
    <3>2. /\ FetchHeaders(ByHash(HashOf(headers[n])), limit, direction) = wanted
          /\ FetchHeaders(ByNumber(n), limit, direction) = wanted
          /\ FetchBodies([i \in DOMAIN wanted |-> HashOf(wanted[i])]) =
               [i \in DOMAIN wanted |-> wanted[i].txs]
      <4>1. limit \in Nat
        BY MaxBlocksAssumption, SMT
      <4>2. StorageTypeOK
        BY <1>1 DEF ExecTypes
      <4>. QED
        BY <1>1, <3>1, <4>1, <4>2, ExactFetch, SMT
    <3>. QED
      BY <3>2 DEF wanted
  <2>. QED
    BY <2>1 DEF FetchIsExact
<1>. QED
  BY <1>1, ExecTypesInit, ExecTypesNext, LinkedInit, LinkedNext, IndexedInit,
     IndexedNext, PTL DEF ExecSpec

-----------------------------------------------------------------------------
(* The engine.  What it downloads is on the chain of the storage, so that a *)
(* download always brings the block asked for.                              *)

FetchedStored ==
    /\ fetched \in Seq(Headers)
    /\ \A i \in 1..Len(fetched) : \E m \in StartNumber+1..bestBlock :
         fetched[i] = headers[m]

EngineInv ==
    /\ errors \in 0..MaxErrors
    /\ imported \in SUBSET Hashes /\ badBlocks \in SUBSET Hashes
    /\ fcu = {} \/ reply = {}
    /\ fcu \subseteq {insert.head}
    /\ fcu # {} \/ reply # {} => insert.stage = "await"
    /\ insert.stage \in {"clear", "send", "await"} => bestHash \in DOMAIN hashToNumber
    /\ target \subseteq DOMAIN hashToNumber
    /\ FetchedStored
    /\ HashOf(headers[StartNumber]) \in imported
    /\ canonicalHead \in imported
    /\ "Valid" \in reply => insert.head \in imported

\* A non-empty set of natural numbers has a least element.
LEMMA LeastExists ==
    ASSUME NEW S \in SUBSET Nat, S # {}
    PROVE  \E x \in S : \A y \in S : x <= y
<1>. DEFINE R == OpToRel(<, Nat)
<1>1. IsWellFoundedOn(R, Nat)
  BY NatLessThanWellFounded
<1>2. PICK x \in S : \A y \in S : ~(<<y, x>> \in R)
  <2>. HIDE DEF R
  <2>. QED
    BY <1>1, WFMin
<1>3. ASSUME NEW y \in S PROVE x <= y
  <2>1. x \in Nat /\ y \in Nat
    OBVIOUS
  <2>2. y < x => <<y, x>> \in R
    BY <2>1 DEF OpToRel
  <2>3. ~(y < x)
    BY <1>2, <2>2
  <2>. QED
    BY <2>1, <2>3, SMT
<1>. QED
  BY <1>3

\* The missing headers are the first ones fetched, at least one of them.
LEMMA MissingIsPrefix ==
    ASSUME NEW k \in Nat \ {0}, NEW found \in Seq(Headers), Len(found) = k,
           found[k].parent \in imported
    PROVE  \E c \in 1..k : /\ Missing(found) \in Seq(Headers)
                           /\ Len(Missing(found)) = c
                           /\ \A i \in 1..c : Missing(found)[i] = found[i]
<1>. DEFINE linked == {i \in DOMAIN found : found[i].parent \in imported}
<1>1. DOMAIN found = 1..k
  BY SMT
<1>2. k \in linked /\ linked \in SUBSET Nat
  BY <1>1, SMT
<1>3. PICK c : c = CHOOSE i \in linked : \A j \in linked : i <= j
  OBVIOUS
<1>4. c \in linked
  <2>. HIDE DEF linked
  <2>1. \E i \in linked : \A j \in linked : i <= j
    BY <1>2, LeastExists
  <2>. QED
    BY <1>3, <2>1
<1>5. c \in 1..k
  BY <1>1, <1>4
<1>6. Missing(found) = SubSeq(found, 1, c)
  BY <1>2, <1>3 DEF Missing
<1>7. /\ SubSeq(found, 1, c) \in Seq(Headers)
      /\ Len(SubSeq(found, 1, c)) = c
      /\ \A i \in 1..c : SubSeq(found, 1, c)[i] = found[i]
  <2>1. c \in Nat /\ 1 <= c /\ c <= Len(found)
    BY <1>5, SMT
  <2>2. SubSeq(found, 1, c) = [i \in 1..c |-> found[i]]
    BY <2>1, SMT
  <2>3. \A i \in 1..c : found[i] \in Headers
    BY <2>1, SMT
  <2>4. SubSeq(found, 1, c) \in [1..c -> Headers]
    BY <2>2, <2>3
  <2>. QED
    BY <2>1, <2>2, <2>4, SMT
<1>. QED
  BY <1>5, <1>6, <1>7

GoodAt(n) ==
    /\ headers[n].root = StateAfter(HashOf(headers[n]))
    /\ Executable(headers[n].txs, StateAfter(headers[n].parent))

\* What a download for block n brings: the headers from it down to one whose
\* parent the engine has.
LEMMA DownloadBrings ==
    ASSUME StorageTypeOK, Linked, Indexed, HashOf(headers[StartNumber]) \in imported,
           NEW n \in StartNumber+1..bestBlock, NEW missing,
           missing = Missing(FetchHeaders(ByHash(HashOf(headers[n])), bestBlock + 1,
                                          "Falling"))
    PROVE  /\ missing \in Seq(Headers) /\ Len(missing) \in Nat \ {0}
           /\ missing[1] = headers[n]
           /\ \A i \in 1..Len(missing) : \E m \in StartNumber+1..bestBlock :
                missing[i] = headers[m]
<1>1. bestBlock \in Nat /\ StartNumber \in Nat /\ bestBlock >= StartNumber
  BY StartAssumption DEF StorageTypeOK, Linked
<1>2. PICK found : found = Requested(n, bestBlock + 1, "Falling")
  OBVIOUS
<1>3. bestBlock + 1 \in Nat /\ "Falling" \in Directions
  BY <1>1, SMT DEF Directions
<1>4. FetchHeaders(ByHash(HashOf(headers[n])), bestBlock + 1, "Falling") = found
  BY <1>2, <1>3, ExactFetch
<1>5. PICK k \in Nat :
        /\ k = Smaller(bestBlock + 1, Reach(n, "Falling"))
        /\ found \in Seq(Headers) /\ Len(found) = k
        /\ \A i \in 1..k : /\ Place(n, i, "Falling") \in StartNumber+1..bestBlock
                           /\ found[i] = headers[Place(n, i, "Falling")]
  BY <1>2, <1>3, RequestedAre
<1>6. k = n - StartNumber /\ k \in Nat \ {0}
  BY <1>1, <1>5, SMT DEF Smaller, Reach
<1>7. found[k].parent \in imported
  <2>1. Place(n, k, "Falling") = StartNumber + 1 /\ k \in 1..k
    BY <1>1, <1>6, SMT DEF Place
  <2>2. found[k] = headers[StartNumber + 1] /\ StartNumber + 1 \in StartNumber+1..bestBlock
    BY <1>5, <2>1
  <2>3. (StartNumber + 1) - 1 = StartNumber
    BY <1>1, SMT
  <2>4. headers[StartNumber + 1].parent = HashOf(headers[(StartNumber + 1) - 1])
    BY <2>2, Lookups
  <2>. QED
    BY <2>2, <2>3, <2>4
<1>8. PICK c \in 1..k : /\ missing \in Seq(Headers) /\ Len(missing) = c
                        /\ \A i \in 1..c : missing[i] = found[i]
  BY <1>4, <1>5, <1>6, <1>7, MissingIsPrefix
<1>9. c \in Nat \ {0}
  BY <1>6, SMT
<1>10. missing[1] = headers[n]
  <2>1. 1 \in 1..c /\ 1 \in 1..k /\ Place(n, 1, "Falling") = n
    BY <1>1, <1>6, <1>9, SMT DEF Place
  <2>. QED
    BY <1>5, <1>8, <2>1
<1>11. ASSUME NEW i \in 1..c
       PROVE  \E m \in StartNumber+1..bestBlock : missing[i] = headers[m]
  <2>1. i \in 1..k
    BY <1>6, SMT
  <2>. QED
    BY <1>5, <1>8, <2>1
<1>. QED
  BY <1>8, <1>9, <1>10, <1>11

\* For headers of stored blocks all bodies are found.
LEMMA BodiesOfStored ==
    ASSUME StorageTypeOK, Linked, Indexed, NEW c \in Nat,
           NEW missing \in Seq(Headers), Len(missing) = c,
           \A i \in 1..c : \E m \in StartNumber+1..bestBlock : missing[i] = headers[m]
    PROVE  /\ \A i \in 1..c : HashOf(missing[i]) \in Hashes
           /\ FetchBodies([i \in 1..c |-> HashOf(missing[i])]) =
                [i \in 1..c |-> missing[i].txs]
<1>1. PICK hashes : hashes = [i \in 1..c |-> HashOf(missing[i])]
  OBVIOUS
<1>2. ASSUME NEW i \in 1..c
      PROVE  /\ HashOf(missing[i]) \in Hashes
             /\ HashOf(missing[i]) \in DOMAIN bodies
             /\ bodies[HashOf(missing[i])] = missing[i].txs
  <2>1. missing[i] \in Headers
    BY SMT
  <2>2. PICK m \in StartNumber+1..bestBlock : missing[i] = headers[m]
    OBVIOUS
  <2>. QED
    BY <2>1, <2>2, HashType, Lookups
<1>3. /\ hashes \in Seq(Hashes) /\ Len(hashes) = c
      /\ \A j \in 1..c : hashes[j] \in DOMAIN bodies /\ bodies[hashes[j]] = missing[j].txs
  <2>1. hashes \in [1..c -> Hashes]
    BY <1>1, <1>2
  <2>2. hashes \in Seq(Hashes) /\ Len(hashes) = c
    BY <2>1, SMT
  <2>. QED
    BY <1>1, <1>2, <2>2
<1>4. FetchBodies(hashes) = [j \in 1..c |-> bodies[hashes[j]]]
  BY <1>3, BodiesAreExact
<1>5. [j \in 1..c |-> bodies[hashes[j]]] = [j \in 1..c |-> missing[j].txs]
  BY <1>3
<1>. QED
  BY <1>1, <1>2, <1>4, <1>5

\* The headers that arrive are those from the block asked for downwards.
LEMMA HeadersArrive ==
    ASSUME ExecTypes, Linked, Indexed, EngineInv, ReceiveHeaders
    PROVE  /\ fetched' \in Seq(Headers) /\ HashOf(fetched'[1]) \in target
           /\ \A i \in 1..Len(fetched') : \E m \in StartNumber+1..bestBlock :
                fetched'[i] = headers[m]
<1>1. PICK h \in target :
        fetched' = Missing(FetchHeaders(ByHash(h), bestBlock + 1, "Falling"))
  BY DEF ReceiveHeaders
<1>2. PICK n \in StartNumber+1..bestBlock : h = HashOf(headers[n])
  BY <1>1 DEF EngineInv, Indexed
<1>3. PICK missing :
        missing = Missing(FetchHeaders(ByHash(HashOf(headers[n])), bestBlock + 1,
                                       "Falling"))
  OBVIOUS
<1>4. StorageTypeOK /\ HashOf(headers[StartNumber]) \in imported
  BY DEF ExecTypes, EngineInv
<1>5. /\ missing \in Seq(Headers) /\ missing[1] = headers[n]
      /\ \A i \in 1..Len(missing) : \E m \in StartNumber+1..bestBlock :
           missing[i] = headers[m]
  BY <1>3, <1>4, DownloadBrings, SMT
<1>6. fetched' = missing
  BY <1>1, <1>2, <1>3
<1>. QED
  BY <1>1, <1>2, <1>5, <1>6

\* The bodies of headers that have been received always arrive, however many blocks
\* have been inserted since.  The engine rejects the blocks only if some stored
\* block has been executed on another state than its parent's.
LEMMA DownloadEffect ==
    ASSUME ExecTypes, Linked, Indexed, EngineInv, FinishDownload
    PROVE  \E h, S :
             /\ h = HashOf(fetched[1]) /\ S \in SUBSET Hashes /\ h \in S
             /\ target' = target \ {h}
             /\ \/ /\ imported' = imported \cup S
                   /\ latest' \in {latest} \cup (target \cap {h})
                   /\ UNCHANGED badBlocks
                \/ /\ badBlocks' = badBlocks \cup {h}
                   /\ UNCHANGED <<imported, latest>>
                   /\ \E n \in StartNumber+1..bestBlock : ~GoodAt(n)
<1>0. StorageTypeOK
  BY DEF ExecTypes
<1>1. PICK hashes, received :
        /\ hashes = [i \in DOMAIN fetched |-> HashOf(fetched[i])]
        /\ received = FetchBodies(hashes)
        /\ IF Len(received) < Len(fetched)
           THEN UNCHANGED <<target, imported, badBlocks, latest>>
           ELSE /\ target' = target \ {hashes[1]}
                /\ IF \A i \in DOMAIN fetched : GoodBlock(fetched[i], received[i])
                   THEN /\ imported' = imported \cup Range(hashes)
                        /\ latest' \in {latest} \cup (target \cap {hashes[1]})
                        /\ UNCHANGED badBlocks
                   ELSE /\ badBlocks' = badBlocks \cup {hashes[1]}
                        /\ UNCHANGED <<imported, latest>>
  BY DEF FinishDownload
<1>2. PICK missing \in Seq(Headers) :
        /\ missing = fetched /\ missing # <<>>
        /\ \A i \in 1..Len(missing) : \E m \in StartNumber+1..bestBlock :
             missing[i] = headers[m]
  BY DEF FinishDownload, EngineInv, FetchedStored
<1>3. PICK c \in Nat : c = Len(missing) /\ DOMAIN missing = 1..c /\ 1 \in 1..c
  BY <1>2, SMT
<1>4. /\ hashes = [i \in 1..c |-> HashOf(missing[i])]
      /\ \A i \in 1..c : HashOf(missing[i]) \in Hashes
      /\ received = [i \in 1..c |-> missing[i].txs]
  <2>1. hashes = [i \in 1..c |-> HashOf(missing[i])]
    BY <1>1, <1>2, <1>3
  <2>2. /\ \A i \in 1..c : HashOf(missing[i]) \in Hashes
        /\ FetchBodies([i \in 1..c |-> HashOf(missing[i])]) =
             [i \in 1..c |-> missing[i].txs]
    BY <1>0, <1>2, <1>3, BodiesOfStored
  <2>. QED
    BY <1>1, <2>1, <2>2
<1>5. ~(Len(received) < Len(fetched))
  <2>1. Len(received) = c
    BY <1>4, SMT
  <2>. QED
    BY <1>2, <1>3, <2>1, SMT
<1>6. PICK h : h = HashOf(fetched[1])
  OBVIOUS
<1>7. hashes[1] = h
  BY <1>2, <1>3, <1>4, <1>6
<1>8. PICK S \in SUBSET Hashes : S = Range(hashes) /\ h \in S
  <2>1. DOMAIN hashes = 1..c /\ \A i \in 1..c : hashes[i] \in Hashes
    BY <1>4
  <2>. QED
    BY <1>3, <1>7, <2>1 DEF Range
<1>9. ASSUME ~\A i \in DOMAIN fetched : GoodBlock(fetched[i], received[i])
      PROVE  \E m \in StartNumber+1..bestBlock : ~GoodAt(m)
  <2>1. PICK i \in 1..c : ~GoodBlock(missing[i], received[i])
    BY <1>2, <1>3, <1>9
  <2>2. PICK m \in StartNumber+1..bestBlock : missing[i] = headers[m]
    BY <1>2, <1>3
  <2>3. received[i] = headers[m].txs
    BY <1>4, <2>2
  <2>4. missing[i] \in Headers
    BY <1>2, <1>3, ElementOfSeq
  <2>5. StateAfter(HashOf(headers[m])) =
          StateAfter(headers[m].parent) \cup headers[m].txs
    BY <2>2, <2>4, StateAfterAppend DEF HashOf, Headers
  <2>6. ~GoodBlock(headers[m], headers[m].txs)
    BY <2>1, <2>2, <2>3
  <2>. QED
    BY <2>5, <2>6 DEF GoodBlock, ValidateBlock, GoodAt
<1>10. /\ target' = target \ {h}
       /\ \/ /\ imported' = imported \cup S
             /\ latest' \in {latest} \cup (target \cap {h})
             /\ UNCHANGED badBlocks
          \/ /\ badBlocks' = badBlocks \cup {h}
             /\ UNCHANGED <<imported, latest>>
             /\ ~\A i \in DOMAIN fetched : GoodBlock(fetched[i], received[i])
  BY <1>1, <1>5, <1>7, <1>8
<1>. QED
  BY <1>6, <1>8, <1>9, <1>10

\* Executing a block keeps every stored header and adds the new one, which can be
\* found by its hash.
LEMMA StoredGrows ==
    ASSUME ExecTypes, Linked, ExecuteOk
    PROVE  /\ DOMAIN hashToNumber \subseteq DOMAIN hashToNumber'
           /\ bestHash' \in DOMAIN hashToNumber'
           /\ bestBlock' = bestBlock + 1
           /\ \A n \in StartNumber..bestBlock : headers'[n] = headers[n]
           /\ headers'[bestBlock + 1].root = StateAfter(latest) \cup insert.txs
           /\ headers'[bestBlock + 1].txs = insert.txs
           /\ headers'[bestBlock + 1].parent = bestHash
           /\ HashOf(headers'[bestBlock + 1]) = bestHash'
<1>1. PICK txs \in SUBSET Txs : txs = insert.txs
  BY ExecuteEffect
<1>2. PICK root \in SUBSET Txs : root = StateAfter(latest) \cup insert.txs
  BY ExecuteEffect
<1>3. InsertNewBlock(HeaderTemplate(txs, root), txs)
  BY <1>1, <1>2, ExecuteEffect
<1>4. StorageTypeOK
  BY DEF ExecTypes
<1>5. PICK header \in Headers :
         /\ header.parent = bestHash /\ header.txs = txs /\ header.root = root
         /\ bestHash' = HashOf(header)
         /\ bestBlock' = bestBlock + 1
         /\ headers' = Store(headers, bestBlock + 1, header)
         /\ hashToNumber' = Store(hashToNumber, HashOf(header), bestBlock + 1)
  BY <1>3, <1>4, InsertEffect, SMT
<1>6. /\ bestBlock \in Nat /\ StartNumber \in Nat
      /\ DOMAIN headers = StartNumber..bestBlock
  BY <1>4, StartAssumption DEF StorageTypeOK, Linked, StorageLinked
<1>7. /\ headers'[bestBlock + 1] = header
      /\ \A n \in DOMAIN headers : n # bestBlock + 1 => headers'[n] = headers[n]
  BY <1>5 DEF Store
<1>8. \A n \in StartNumber..bestBlock : n \in DOMAIN headers /\ n # bestBlock + 1
  BY <1>6, SMT
<1>9. DOMAIN hashToNumber' = DOMAIN hashToNumber \cup {HashOf(header)}
  BY <1>5 DEF Store
<1>. QED
  BY <1>1, <1>2, <1>5, <1>7, <1>8, <1>9

\* The task's steps keep the engine's invariant.
LEMMA EngineInvTask ==
    ASSUME ExecTypes, Linked, HeadIsBest, EngineInv, TaskNext
    PROVE  EngineInv'
<1>1. CASE Poll \/ ReceiveBlock \/ NothingToInsert \/ AwaitReply
  BY <1>1 DEF Poll, ReceiveBlock, NothingToInsert, AwaitReply, storageVars, storageInner,
              engineVars, EngineInv, FetchedStored
<1>2. CASE StartInsert
  <2>1. /\ queued # <<>> /\ UNCHANGED <<storageVars, engineVars, canonicalHead>>
        /\ insert.stage = "none"
        /\ insert' = [NoInsert EXCEPT !.stage = "lock", !.txs = Head(queued),
                                      !.events = pipelineEvents]
    BY <1>2 DEF StartInsert, At
  <2>2. Head(queued) \in SUBSET Txs /\ pipelineEvents \in BOOLEAN
    BY <2>1, SMT DEF ExecTypes, TaskTypeOK
  <2>3. insert'.stage = "lock"
    BY <2>1, <2>2, StartInsertType
  <2>. QED
    BY <2>1, <2>3 DEF EngineInv, FetchedStored, storageVars, storageInner, engineVars
<1>3. CASE AcquireLock
  <2>1. /\ UNCHANGED insert \/ insert' = [insert EXCEPT !.stage = "execute"]
        /\ insert.stage = "lock"
        /\ UNCHANGED <<storageInner, engineVars, canonicalHead>>
    BY <1>3 DEF AcquireLock, At
  <2>2. insert'.stage \in {"lock", "execute"}
    BY <2>1, InsertStage DEF ExecTypes, Stages
  <2>. QED
    BY <2>1, <2>2 DEF EngineInv, FetchedStored, storageInner, engineVars
<1>4. CASE ExecuteOk
  <2>1. /\ insert.stage = "execute" /\ UNCHANGED <<engineVars, canonicalHead>>
        /\ insert' = [insert EXCEPT !.stage = "clear", !.head = bestHash']
    BY <1>4 DEF ExecuteOk, At
  <2>2. /\ DOMAIN hashToNumber \subseteq DOMAIN hashToNumber'
        /\ bestHash' \in DOMAIN hashToNumber'
        /\ bestBlock' = bestBlock + 1
        /\ \A n \in StartNumber..bestBlock : headers'[n] = headers[n]
    BY <1>4, StoredGrows
  <2>3. headers'[StartNumber] = headers[StartNumber]
    BY <2>2, StartAssumption, SMT DEF Linked, ExecTypes, StorageTypeOK
  <2>4. FetchedStored'
    <3>1. \A m \in StartNumber+1..bestBlock :
             m \in StartNumber+1..bestBlock' /\ m \in StartNumber..bestBlock
      BY <2>2, StartAssumption, SMT DEF ExecTypes, StorageTypeOK
    <3>2. FetchedStored /\ fetched' = fetched
      BY <2>1 DEF EngineInv, engineVars
    <3>. QED
      BY <2>2, <3>1, <3>2 DEF FetchedStored
  <2>. QED
    BY <2>1, <2>2, <2>3, <2>4 DEF EngineInv, engineVars
<1>5. CASE ExecuteErr
  BY <1>5, NoInsertType DEF ExecuteErr, At, Ready, EngineInv, FetchedStored,
                            storageInner, engineVars
<1>6. CASE SendForkchoice
  <2>1. /\ insert.stage = "send" /\ insert' = [insert EXCEPT !.stage = "await"]
        /\ fcu' \in {{insert.head}, {}} /\ reply' = {}
        /\ UNCHANGED <<storageVars, target, fetched, imported, badBlocks, errors,
                       canonicalHead>>
    BY <1>6 DEF SendForkchoice, At
  <2>2. insert'.stage = "await" /\ insert'.head = insert.head
    BY <2>1, InsertStage DEF ExecTypes, Stages
  <2>. QED
    BY <2>1, <2>2 DEF EngineInv, FetchedStored, storageVars, storageInner
<1>7. CASE HandleReply
  <2>1. PICK r \in reply : OnReply(r)
    BY <1>7 DEF HandleReply
  <2>2. /\ insert.stage = "await" /\ reply' = {}
        /\ UNCHANGED <<storageVars, fcu, target, fetched, imported, badBlocks, errors>>
    BY <1>7 DEF HandleReply, At
  <2>3. fcu' = {}
    BY <2>1, <2>2 DEF EngineInv
  <2>4. \/ canonicalHead' = canonicalHead
        \/ r = "Valid" /\ canonicalHead' = insert.head
    BY <2>1 DEF OnReply
  <2>5. canonicalHead' \in imported'
    BY <2>1, <2>2, <2>4 DEF EngineInv
  <2>6. insert'.stage \in {"none", "send"}
    <3>1. insert' = NoInsert \/ insert' = [insert EXCEPT !.stage = "send"]
      BY <2>1 DEF OnReply, Ready
    <3>. QED
      BY <3>1, NoInsertType, InsertStage DEF ExecTypes, Stages
  <2>. QED
    BY <2>2, <2>3, <2>5, <2>6 DEF EngineInv, FetchedStored, storageVars, storageInner
<1>8. CASE ClearPool
  <2>1. /\ insert.stage = "clear" /\ insert' = [insert EXCEPT !.stage = "send"]
        /\ UNCHANGED <<storageInner, engineVars, canonicalHead>>
    BY <1>8 DEF ClearPool, At
  <2>2. insert'.stage = "send" /\ insert'.head = insert.head
    BY <2>1, InsertStage DEF ExecTypes, Stages
  <2>. QED
    BY <2>1, <2>2 DEF EngineInv, FetchedStored, storageInner, engineVars
<1>. QED
  BY <1>1, <1>2, <1>3, <1>4, <1>5, <1>6, <1>7, <1>8 DEF TaskNext

\* The engine's own steps keep its invariant.
LEMMA EngineInvEngine ==
    ASSUME ExecTypes, Linked, Indexed, HeadIsBest, EngineInv, EngineNext \/ EngineEnds,
           UNCHANGED taskVars
    PROVE  EngineInv'
<1>1. CASE ForkchoiceUpdated
  <2>1. PICK h \in fcu :
         \/ /\ reply' = {Answer(h)}
            /\ target' = IF Answer(h) = "Syncing" THEN {h} ELSE target
            /\ UNCHANGED errors
         \/ /\ errors < MaxErrors
            /\ reply' = {"Err"}
            /\ errors' = errors + 1
            /\ UNCHANGED target
    BY <1>1 DEF ForkchoiceUpdated
  <2>2. fcu' = {} /\ UNCHANGED <<storageVars, fetched, imported, badBlocks, taskVars>>
    BY <1>1 DEF ForkchoiceUpdated
  <2>3. h = insert.head /\ insert.stage = "await" /\ h = bestHash
        /\ h \in DOMAIN hashToNumber
    BY <2>1 DEF EngineInv, HeadIsBest
  <2>4. target' \subseteq DOMAIN hashToNumber
    BY <2>1, <2>3 DEF EngineInv
  <2>5. errors' \in 0..MaxErrors
    BY <2>1, MaxErrorsAssumption, SMT DEF EngineInv
  <2>6. "Valid" \in reply' => h \in imported
    BY <2>1, SMT DEF Answer
  <2>. QED
    BY <2>2, <2>3, <2>4, <2>5, <2>6
       DEF EngineInv, FetchedStored, storageVars, storageInner, taskVars
<1>2. CASE StartDownload
  BY <1>2 DEF StartDownload, EngineInv, FetchedStored, storageInner, engineVars,
              taskVars
<1>3. CASE ReceiveHeaders
  <2>1. UNCHANGED <<storageInner, fcu, reply, target, imported, badBlocks, errors,
                    taskVars>>
    BY <1>3 DEF ReceiveHeaders
  <2>2. FetchedStored'
    BY <1>3, <2>1, HeadersArrive DEF FetchedStored, storageInner
  <2>. QED
    BY <2>1, <2>2 DEF EngineInv, storageInner, taskVars
<1>4. CASE FinishDownload
  <2>1. PICK h, S :
             /\ S \in SUBSET Hashes /\ h \in S /\ target' = target \ {h}
             /\ \/ imported' = imported \cup S /\ UNCHANGED badBlocks
                \/ badBlocks' = badBlocks \cup {h} /\ UNCHANGED imported
    BY <1>4, DownloadEffect
  <2>2. UNCHANGED <<storageInner, fcu, reply, errors, taskVars>> /\ fetched' = <<>>
    BY <1>4 DEF FinishDownload
  <2>3. FetchedStored'
    <3>1. <<>> \in Seq(Headers) /\ 1..Len(<<>>) = {}
      BY SMT
    <3>. QED
      BY <2>2, <3>1 DEF FetchedStored
  <2>. QED
    BY <2>1, <2>2, <2>3 DEF EngineInv, storageInner, taskVars
<1>5. CASE EngineEnds
  BY <1>5 DEF EngineEnds, EngineInv, FetchedStored, storageInner, taskVars
<1>. QED
  BY <1>1, <1>2, <1>3, <1>4, <1>5 DEF EngineNext, Downloads

\* Every step keeps the engine's invariant.
LEMMA EngineInvNext ==
    ASSUME ExecTypes, Linked, Indexed, HeadIsBest, EngineInv, [ExecNext]_execVars
    PROVE  EngineInv'
<1>1. ASSUME TaskNext PROVE EngineInv'
  BY <1>1, EngineInvTask
<1>2. ASSUME EngineNext \/ EngineEnds, UNCHANGED taskVars PROVE EngineInv'
  BY <1>2, EngineInvEngine
<1>3. ASSUME NEW t, Submit(t) PROVE EngineInv'
  BY <1>3 DEF Submit, EngineInv, FetchedStored, storageVars, storageInner, engineVars,
              taskVars
<1>4. ASSUME NEW txs, Relay(txs) PROVE EngineInv'
  BY <1>4 DEF Relay, EngineInv, FetchedStored, storageVars, storageInner, engineVars,
              taskVars
<1>5. ASSUME ConsumerEnds PROVE EngineInv'
  BY <1>5 DEF ConsumerEnds, EngineInv, FetchedStored, storageVars, storageInner, engineVars,
              taskVars
<1>6. ASSUME UNCHANGED execVars PROVE EngineInv'
  BY <1>6 DEF execVars, EngineInv, FetchedStored, storageVars, storageInner, engineVars,
              taskVars
<1>. QED
  BY ExecCases, <1>1, <1>2, <1>3, <1>4, <1>5, <1>6

\* The engine has executed the initial block and nothing else.
LEMMA EngineInvInit == ExecInit => EngineInv
<1>. SUFFICES ASSUME ExecInit PROVE EngineInv
  OBVIOUS
<1>1. /\ fcu = {} /\ reply = {} /\ target = {} /\ badBlocks = {} /\ errors = 0
      /\ imported = {HashOf(StartHeader)} /\ canonicalHead = HashOf(StartHeader)
      /\ insert = NoInsert /\ fetched = <<>>
  BY DEF ExecInit, EngineInit, TaskInit
<1>2. headers[StartNumber] = StartHeader
  BY DEF ExecInit, StorageInit
<1>3. FetchedStored
  <2>1. <<>> \in Seq(Headers) /\ 1..Len(<<>>) = {}
    BY SMT
  <2>. QED
    BY <1>1, <2>1 DEF FetchedStored
<1>. QED
  BY <1>1, <1>2, <1>3, NoInsertType, StartHeaderType, MaxErrorsAssumption, SMT
     DEF EngineInv

\* All variables of the execution layer keep their types, those of the engine
\* included: its downloads return headers of stored blocks only.
THEOREM ExecTypesComplete == ExecSpec => []ExecTypeOK
<1>1. ExecTypes /\ EngineInv => ExecTypeOK
  BY DEF ExecTypes, TaskSideTypes, EngineInv, FetchedStored, ExecTypeOK, EngineTypeOK
<1>. QED
  BY <1>1, ExecTypesInit, ExecTypesNext, LinkedInit, LinkedNext, IndexedInit,
     IndexedNext, HeadInit, HeadNext, EngineInvInit, EngineInvNext, PTL DEF ExecSpec

-----------------------------------------------------------------------------
(* Blocks are executed on their parent.  The task executes on the engine's  *)
(* latest block and not on the best stored one: as long as no update has    *)
(* been refused the two agree when it does, because a VALID answer has made *)
(* the block before it the latest, and no download is left that could move  *)
(* it again; and until the next VALID answer the best block is at most one  *)
(* block ahead.                                                             *)

Faultless ==
    errors = 0 =>
        /\ badBlocks = {}
        /\ reply \subseteq {"Valid", "Syncing"}
        /\ \A h \in target : h = bestHash /\ h \notin imported
        /\ fetched # <<>> => HashOf(fetched[1]) \in target
        /\ "Valid" \in reply => latest = bestHash
        /\ insert.stage \in {"none", "lock", "execute"} =>
             canonicalHead = bestHash /\ latest = bestHash
        /\ insert.stage \in {"clear", "send", "await"} =>
             /\ bestHash = Append(canonicalHead, insert.txs)
             /\ latest \in {canonicalHead, bestHash}

\* The property in terms of GoodAt.
LEMMA OnParentDef ==
    /\ ExecutedOnParent <=>
         (errors = 0 => \A n \in StartNumber+1..bestBlock : GoodAt(n))
    /\ ExecutedOnParent' <=>
         (errors' = 0 => \A n \in StartNumber+1..bestBlock' : GoodAt(n)')
BY DEF ExecutedOnParent, GoodAt

\* The new block is executed on the best one, which is the latest.
LEMMA OnParentExecute ==
    ASSUME ExecTypes, Linked, Faultless, ExecutedOnParent, ExecuteOk
    PROVE  ExecutedOnParent'
<1>. SUFFICES ASSUME errors' = 0, NEW n \in StartNumber+1..bestBlock' PROVE GoodAt(n)'
  BY OnParentDef
<1>1. /\ insert.stage = "execute" /\ errors = 0
      /\ Executable(insert.txs, StateAfter(latest))
  BY DEF ExecuteOk, At, BuildAndExecute, engineVars
<1>2. latest = bestHash
  BY <1>1 DEF Faultless
<1>3. /\ bestBlock' = bestBlock + 1
      /\ \A m \in StartNumber..bestBlock : headers'[m] = headers[m]
      /\ headers'[bestBlock + 1].root = StateAfter(latest) \cup insert.txs
      /\ headers'[bestBlock + 1].txs = insert.txs
      /\ headers'[bestBlock + 1].parent = bestHash
      /\ HashOf(headers'[bestBlock + 1]) = bestHash'
  BY StoredGrows
<1>4. bestBlock \in Nat /\ StartNumber \in Nat
  BY StartAssumption DEF ExecTypes, StorageTypeOK
<1>5. CASE n = bestBlock + 1
  <2>1. StateAfter(bestHash') = StateAfter(bestHash) \cup insert.txs
    BY ExecuteEffect, StateAfterAppend
  <2>. QED
    BY <1>1, <1>2, <1>3, <1>5, <2>1 DEF GoodAt
<1>6. CASE n # bestBlock + 1
  <2>1. n \in StartNumber+1..bestBlock /\ n \in StartNumber..bestBlock
    BY <1>3, <1>4, <1>6, SMT
  <2>2. GoodAt(n)
    BY <1>1, <2>1, OnParentDef
  <2>. QED
    BY <1>3, <2>1, <2>2 DEF GoodAt
<1>. QED
  BY <1>5, <1>6

\* The task's steps keep the engine free of faults.
LEMMA FaultlessTask ==
    ASSUME ExecTypes, Linked, HeadIsBest, EngineInv, Faultless, TaskNext
    PROVE  Faultless'
<1>1. CASE Poll \/ ReceiveBlock \/ NothingToInsert \/ AwaitReply
  <2>1. UNCHANGED <<engineVars, storageInner, insert, canonicalHead>>
    BY <1>1 DEF Poll, ReceiveBlock, NothingToInsert, AwaitReply, storageVars
  <2>. QED
    BY <2>1 DEF engineVars, storageInner, Faultless
<1>2. CASE StartInsert
  <2>1. /\ queued # <<>> /\ UNCHANGED <<storageVars, engineVars, canonicalHead>>
        /\ insert.stage = "none"
        /\ insert' = [NoInsert EXCEPT !.stage = "lock", !.txs = Head(queued),
                                      !.events = pipelineEvents]
    BY <1>2 DEF StartInsert, At
  <2>2. Head(queued) \in SUBSET Txs /\ pipelineEvents \in BOOLEAN
    BY <2>1, SMT DEF ExecTypes, TaskTypeOK
  <2>3. insert'.stage = "lock"
    BY <2>1, <2>2, StartInsertType
  <2>. QED
    BY <2>1, <2>3 DEF Faultless, storageVars, storageInner, engineVars
<1>3. CASE AcquireLock
  <2>1. /\ UNCHANGED insert \/ insert' = [insert EXCEPT !.stage = "execute"]
        /\ insert.stage = "lock"
        /\ UNCHANGED <<storageInner, engineVars, canonicalHead>>
    BY <1>3 DEF AcquireLock, At
  <2>2. insert'.stage \in {"lock", "execute"}
    BY <2>1, InsertStage DEF ExecTypes, Stages
  <2>. QED
    BY <2>1, <2>2 DEF Faultless, storageInner, engineVars
<1>4. CASE ExecuteOk
  <2>1. /\ insert.stage = "execute" /\ UNCHANGED <<engineVars, canonicalHead>>
        /\ insert' = [insert EXCEPT !.stage = "clear", !.head = bestHash']
    BY <1>4 DEF ExecuteOk, At
  <2>2. insert'.stage = "clear" /\ insert'.txs = insert.txs
    BY <2>1 DEF ExecTypes, TaskTypeOK
  <2>3. reply = {}
    BY <2>1 DEF EngineInv
  <2>4. errors = 0 => /\ target = {} /\ fetched = <<>>
                      /\ latest = bestHash /\ canonicalHead = bestHash
    BY <2>1 DEF EngineInv, Faultless
  <2>5. bestHash' = Append(bestHash, insert.txs)
    BY <1>4, ExecuteEffect
  <2>. QED
    BY <2>1, <2>2, <2>3, <2>4, <2>5 DEF Faultless, engineVars
<1>5. CASE ExecuteErr
  BY <1>5, NoInsertType DEF ExecuteErr, At, Ready, Faultless, storageInner, engineVars
<1>6. CASE SendForkchoice
  <2>1. /\ insert' = [insert EXCEPT !.stage = "await"] /\ reply' = {}
        /\ insert.stage = "send"
        /\ UNCHANGED <<storageVars, target, fetched, imported, badBlocks, latest,
                       errors, canonicalHead>>
    BY <1>6 DEF SendForkchoice, At
  <2>2. insert'.stage = "await" /\ insert'.txs = insert.txs
    BY <2>1, InsertStage DEF ExecTypes, Stages
  <2>. QED
    BY <2>1, <2>2 DEF Faultless, storageVars, storageInner
<1>7. CASE HandleReply
  <2>1. PICK r \in reply : OnReply(r)
    BY <1>7 DEF HandleReply
  <2>2. /\ insert.stage = "await" /\ reply' = {}
        /\ UNCHANGED <<storageVars, target, fetched, imported, badBlocks, latest,
                       errors>>
    BY <1>7 DEF HandleReply, At
  <2>3. CASE r = "Valid"
    <3>1. /\ canonicalHead' = insert.head /\ insert.head = bestHash
          /\ insert' = NoInsert
      BY <2>1, <2>2, <2>3 DEF OnReply, Ready, HeadIsBest
    <3>2. errors = 0 => latest = bestHash
      BY <2>1, <2>3 DEF Faultless
    <3>. QED
      BY <2>2, <3>1, <3>2, NoInsertType DEF Faultless, storageVars, storageInner
  <2>4. CASE r = "Syncing"
    <3>1. insert' = [insert EXCEPT !.stage = "send"] /\ UNCHANGED canonicalHead
      BY <2>1, <2>4 DEF OnReply
    <3>2. insert'.stage = "send" /\ insert'.txs = insert.txs
      BY <3>1, InsertStage DEF ExecTypes, Stages
    <3>. QED
      BY <2>2, <3>1, <3>2 DEF Faultless, storageVars, storageInner
  <2>5. CASE r \notin {"Valid", "Syncing"}
    BY <2>1, <2>2, <2>5 DEF Faultless
  <2>. QED
    BY <2>3, <2>4, <2>5
<1>8. CASE ClearPool
  <2>1. /\ insert.stage = "clear" /\ insert' = [insert EXCEPT !.stage = "send"]
        /\ UNCHANGED <<storageInner, engineVars, canonicalHead>>
    BY <1>8 DEF ClearPool, At
  <2>2. insert'.stage = "send" /\ insert'.txs = insert.txs
    BY <2>1, InsertStage DEF ExecTypes, Stages
  <2>. QED
    BY <2>1, <2>2 DEF Faultless, storageInner, engineVars
<1>. QED
  BY <1>1, <1>2, <1>3, <1>4, <1>5, <1>6, <1>7, <1>8 DEF TaskNext

\* The engine refuses no block that has been executed on its parent, and its latest
\* block only moves to the best one.
LEMMA FaultlessEngine ==
    ASSUME ExecTypes, Linked, Indexed, HeadIsBest, EngineInv, Faultless,
           ExecutedOnParent, EngineNext \/ EngineEnds, UNCHANGED taskVars
    PROVE  Faultless'
<1>1. CASE ForkchoiceUpdated
  <2>1. PICK h \in fcu :
         \/ /\ reply' = {Answer(h)}
            /\ latest' = IF Answer(h) = "Valid" THEN h ELSE latest
            /\ target' = IF Answer(h) = "Syncing" THEN {h} ELSE target
            /\ UNCHANGED errors
         \/ /\ reply' = {"Err"}
            /\ errors' = errors + 1
    BY <1>1 DEF ForkchoiceUpdated
  <2>2. UNCHANGED <<storageVars, fetched, imported, badBlocks, taskVars>>
    BY <1>1 DEF ForkchoiceUpdated
  <2>3. h = insert.head /\ insert.stage = "await" /\ h = bestHash
    BY <2>1 DEF EngineInv, HeadIsBest
  <2>4. errors' = errors + 1 => errors' # 0
    BY SMT DEF EngineInv
  <2>5. CASE /\ reply' = {Answer(h)}
             /\ latest' = IF Answer(h) = "Valid" THEN h ELSE latest
             /\ target' = IF Answer(h) = "Syncing" THEN {h} ELSE target
             /\ UNCHANGED errors
    <3>. SUFFICES ASSUME errors = 0 PROVE Faultless'
      BY <2>5 DEF Faultless
    <3>1. \/ Answer(h) = "Valid" /\ h \in imported
          \/ Answer(h) = "Syncing" /\ h \notin imported
      BY DEF Answer, Faultless
    <3>2. badBlocks' = {} /\ bestHash' = bestHash /\ imported' = imported
          /\ insert'.stage = "await" /\ insert'.txs = insert.txs
          /\ canonicalHead' = canonicalHead /\ fetched' = fetched
      BY <2>2, <2>3 DEF Faultless, storageVars, storageInner, taskVars
    <3>3. CASE Answer(h) = "Valid" /\ h \in imported
      <4>1. target' = target /\ latest' = h /\ reply' = {"Valid"}
        BY <2>5, <3>3
      <4>. QED
        BY <2>3, <3>2, <4>1 DEF Faultless
    <3>4. CASE Answer(h) = "Syncing" /\ h \notin imported
      <4>1. target' = {h} /\ reply' = {"Syncing"} /\ latest' = latest
        BY <2>5, <3>4
      <4>. QED
        BY <2>3, <3>2, <3>4, <4>1 DEF Faultless
    <3>. QED
      BY <3>1, <3>3, <3>4
  <2>. QED
    BY <2>1, <2>4, <2>5 DEF Faultless
<1>2. CASE StartDownload
  BY <1>2 DEF StartDownload, Faultless, storageInner, engineVars, taskVars
<1>3. CASE ReceiveHeaders
  <2>1. UNCHANGED <<storageInner, reply, target, imported, badBlocks, latest, errors,
                    taskVars>>
    BY <1>3 DEF ReceiveHeaders
  <2>2. HashOf(fetched'[1]) \in target
    BY <1>3, HeadersArrive
  <2>. QED
    BY <2>1, <2>2 DEF Faultless, storageInner, taskVars
<1>4. CASE FinishDownload
  <2>1. PICK h, S :
             /\ h = HashOf(fetched[1]) /\ target' = target \ {h}
             /\ \/ /\ latest' \in {latest} \cup (target \cap {h})
                   /\ UNCHANGED badBlocks
                \/ \E n \in StartNumber+1..bestBlock : ~GoodAt(n)
    BY <1>4, DownloadEffect
  <2>2. /\ UNCHANGED <<storageInner, fcu, reply, errors, taskVars>>
        /\ fetched # <<>> /\ fetched' = <<>>
    BY <1>4 DEF FinishDownload
  <2>. SUFFICES ASSUME errors = 0 PROVE Faultless'
    BY <2>2 DEF Faultless
  <2>3. \A n \in StartNumber+1..bestBlock : GoodAt(n)
    BY OnParentDef
  <2>4. h \in target
    BY <2>1, <2>2 DEF Faultless
  <2>5. h = bestHash /\ target' = {}
    BY <2>1, <2>4 DEF Faultless
  <2>6. UNCHANGED badBlocks /\ latest' \in {latest, bestHash}
    BY <2>1, <2>3, <2>5
  <2>. QED
    BY <2>2, <2>5, <2>6 DEF Faultless, storageInner, taskVars
<1>5. CASE EngineEnds
  BY <1>5 DEF EngineEnds, Faultless, storageInner, taskVars
<1>. QED
  BY <1>1, <1>2, <1>3, <1>4, <1>5 DEF EngineNext, Downloads

\* Which steps change what the two properties speak of.
LEMMA FaultlessNext ==
    ASSUME ExecTypes, Linked, Indexed, HeadIsBest, EngineInv, Faultless,
           ExecutedOnParent, [ExecNext]_execVars
    PROVE  Faultless' /\ ExecutedOnParent'
<1>1. Faultless'
  <2>1. ASSUME TaskNext PROVE Faultless'
    BY <2>1, FaultlessTask
  <2>2. ASSUME EngineNext \/ EngineEnds, UNCHANGED taskVars PROVE Faultless'
    BY <2>2, FaultlessEngine
  <2>3. ASSUME NEW t, Submit(t) PROVE Faultless'
    BY <2>3 DEF Submit, Faultless, storageVars, storageInner, engineVars, taskVars
  <2>4. ASSUME NEW txs, Relay(txs) PROVE Faultless'
    BY <2>4 DEF Relay, Faultless, storageVars, storageInner, engineVars, taskVars
  <2>5. ASSUME ConsumerEnds PROVE Faultless'
    BY <2>5 DEF ConsumerEnds, Faultless, storageVars, storageInner, engineVars, taskVars
  <2>6. ASSUME UNCHANGED execVars PROVE Faultless'
    BY <2>6 DEF execVars, Faultless, storageVars, storageInner, engineVars, taskVars
  <2>. QED
    BY ExecCases, <2>1, <2>2, <2>3, <2>4, <2>5, <2>6
<1>2. ExecutedOnParent'
  <2>1. CASE ExecuteOk
    BY <2>1, OnParentExecute
  <2>2. CASE UNCHANGED storageInner
    <3>1. errors' = 0 => errors = 0
      <4>1. errors' = errors \/ errors' = errors + 1
        <5>1. ASSUME TaskNext PROVE errors' = errors
          BY <5>1 DEF TaskNext, Poll, ReceiveBlock, NothingToInsert, StartInsert,
             AcquireLock, ExecuteOk, ClearPool, ExecuteErr, SendForkchoice, AwaitReply,
             HandleReply, engineVars
        <5>2. ASSUME EngineNext \/ EngineEnds PROVE errors' = errors \/ errors' = errors + 1
          BY <5>2 DEF EngineNext, Downloads, ForkchoiceUpdated, StartDownload,
             ReceiveHeaders, FinishDownload, EngineEnds, engineVars
        <5>3. ASSUME NEW t, Submit(t) PROVE errors' = errors
          BY <5>3 DEF Submit, engineVars
        <5>4. ASSUME NEW txs, Relay(txs) PROVE errors' = errors
          BY <5>4 DEF Relay, engineVars
        <5>5. ASSUME ConsumerEnds PROVE errors' = errors
          BY <5>5 DEF ConsumerEnds, engineVars
        <5>6. ASSUME UNCHANGED execVars PROVE errors' = errors
          BY <5>6 DEF execVars, engineVars
        <5>. QED
          BY ExecCases, <5>1, <5>2, <5>3, <5>4, <5>5, <5>6
      <4>. QED
        BY <4>1, SMT DEF EngineInv
    <3>. QED
      BY <2>2, <3>1, OnParentDef DEF GoodAt, storageInner
  <2>. QED
    BY <2>1, <2>2, StorageSteps
<1>. QED
  BY <1>1, <1>2

\* At first there is no block to execute and no update to refuse.
LEMMA FaultlessInit == ExecInit => Faultless /\ ExecutedOnParent
<1>. SUFFICES ASSUME ExecInit PROVE Faultless /\ ExecutedOnParent
  OBVIOUS
<1>1. /\ badBlocks = {} /\ reply = {} /\ target = {} /\ fetched = <<>>
      /\ insert.stage = "none"
      /\ canonicalHead = HashOf(StartHeader) /\ latest = HashOf(StartHeader)
      /\ bestHash = HashOf(StartHeader) /\ bestBlock = StartNumber
  BY NoInsertType DEF ExecInit, EngineInit, TaskInit, StorageInit
<1>2. StartNumber+1..bestBlock = {}
  BY <1>1, StartAssumption, SMT
<1>. QED
  BY <1>1, <1>2, OnParentDef DEF Faultless

ExecInv ==
    /\ ExecTypes /\ Linked /\ Indexed /\ HeadIsBest
    /\ NothingLost /\ EngineInv /\ Faultless /\ ExecutedOnParent

\* The invariant of the execution layer, from its parts.
LEMMA ExecInvInit == ExecInit => ExecInv
<1>1. ExecInit => NothingLost
  BY DEF ExecInit, NothingLost
<1>. QED
  BY <1>1, ExecTypesInit, LinkedInit, IndexedInit, HeadInit, EngineInvInit, FaultlessInit
     DEF ExecInv

\* Every step keeps it.
LEMMA ExecInvNext ==
    ASSUME ExecInv, [ExecNext]_execVars
    PROVE  ExecInv'
BY ExecTypesNext, LinkedNext, IndexedNext, HeadNext, NothingLostNext, EngineInvNext,
   FaultlessNext
   DEF ExecInv

\* Unless the engine has refused an update, every block is executed on the state of
\* its parent, although build_and_execute takes the provider's latest state.
THEOREM BlocksRunOnParent == ExecSpec => []ExecutedOnParent
<1>1. ExecInv => ExecutedOnParent
  BY DEF ExecInv
<1>. QED
  BY <1>1, ExecInvInit, ExecInvNext, PTL DEF ExecSpec

\* The canonical head is a stored block that the engine has executed, and between two
\* inserts the best one unless an update has been refused.
THEOREM CanonicalStays == ExecSpec => []CanonicalIsStored
<1>1. ExecInv => CanonicalIsStored
  BY DEF ExecInv, EngineInv, HeadIsBest, Faultless, CanonicalIsStored
<1>. QED
  BY <1>1, ExecInvInit, ExecInvNext, PTL DEF ExecSpec

\* What has left the pool is in the chain, or in the block being inserted.
LEMMA NotLost ==
    ASSUME ExecInv
    PROVE  NoTransactionLost
<1>1. submitted \subseteq pool \cup StateAfter(bestHash)
  BY DEF ExecInv, NothingLost
<1>2. ASSUME errors = 0
      PROVE  submitted \subseteq pool \cup StateAfter(canonicalHead) \cup insert.txs
  <2>1. insert.stage \in Stages /\ insert.txs \in SUBSET Txs /\ canonicalHead \in Hashes
    BY DEF ExecInv, ExecTypes, TaskTypeOK
  <2>2. canonicalHead = bestHash \/ bestHash = Append(canonicalHead, insert.txs)
    BY <1>2, <2>1 DEF ExecInv, Faultless, Stages
  <2>3. StateAfter(Append(canonicalHead, insert.txs)) =
          StateAfter(canonicalHead) \cup insert.txs
    BY <2>1, StateAfterAppend
  <2>. QED
    BY <1>1, <2>2, <2>3
<1>. QED
  BY <1>1, <1>2 DEF NoTransactionLost

\* A transaction leaves the pool (remove_transactions) only after a block with it has
\* been stored, and unless the engine has refused an update that block is canonical or
\* the one whose update the task is waiting for.
THEOREM NoTransactionIsLost == ExecSpec => []NoTransactionLost
<1>1. ExecInv => NoTransactionLost
  BY NotLost
<1>. QED
  BY <1>1, ExecInvInit, ExecInvNext, PTL DEF ExecSpec
=============================================================================
