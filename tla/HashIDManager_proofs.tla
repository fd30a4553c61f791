------------------------ MODULE HashIDManager_proofs ------------------------
(***************************************************************************)
(* For every MAX_HASH_SIZE and every number of connections: the ring has   *)
(* the size that Init gave it, and the latest new hashes, as many as the   *)
(* ring has cells, survive every reset of the memory.  A filter that is    *)
(* initialised at most once stays within a round and the ring, and drops   *)
(* nothing it has not seen.                                                *)
(*                                                                         *)
(* RecentRemembered is not inductive: a reset keeps what the ring holds.   *)
(* RingHolds says where in the ring the latest hashes are; AtMostOnce      *)
(* counts what the memory holds.                                           *)
(***************************************************************************)
EXTENDS HashIDManager, DataLemmas, TLAPS

Values == Hashes \cup {0, Torn}

\* The cell of the i-th new hash, counted back from the latest.
SlotOf(i) == (backUpIndex - (Len(fresh) - i)) % backupArrCapacity

\* The latest new hashes are in their cells.
RingHolds == \A i \in Window : backupArr[SlotOf(i) + 1] = fresh[i]

\* The inductive invariant.
Remembering == TypeOK /\ RingHolds /\ RecentRemembered

-----------------------------------------------------------------------------
(* Init of the code.                                                       *)

\* A cell that is cleared, in part or not at all, holds a value.
LEMMA ClearedType ==
    ASSUME NEW cell \in Values, NEW bytes \in Int
    PROVE  Cleared(cell, bytes) \in Values
BY DEF Cleared, Values

\* The ring gets the size that Init is given.
LEMMA InitBackUpType ==
    ASSUME TypeOK, NEW size \in Sizes, InitBackUp(size)
    PROVE  /\ backupArr' \in Seq(Values)
           /\ Len(backupArr') = size
<1>1. size \in Nat /\ backupArr \in Seq(Values)
  BY HashAssumption DEF TypeOK, Values
<1> DEFINE cell(i) == Cleared(Resized(size)[i], size - 8 * (i - 1))
<1>2. ASSUME NEW i \in 1 .. size
      PROVE  cell(i) \in Values
  <2>1. Resized(size)[i] = IF i <= Len(backupArr) THEN backupArr[i] ELSE 0
    BY DEF Resized
  <2>2. Resized(size)[i] \in Values
    BY <1>1, <2>1 DEF Values
  <2>3. size - 8 * (i - 1) \in Int
    BY <1>1
  <2> QED BY <2>2, <2>3, ClearedType
<1>3. backupArr' = [i \in 1 .. size |-> cell(i)]
  BY DEF InitBackUp
<1> HIDE DEF cell
<1>4. backupArr' \in [1 .. size -> Values]
  BY <1>2, <1>3
<1> QED BY <1>1, <1>4

\* After it no hash is new.
LEMMA InitBackUpKeeps ==
    ASSUME Remembering, NEW size \in Sizes, InitBackUp(size)
    PROVE  Remembering'
<1>1. TypeOK'
  <2>1. backupArr' \in Seq(Values) /\ Len(backupArr') = size
    BY InitBackUpType DEF Remembering
  <2>2. fresh' \in Seq(Hashes)
    <3>1. << >> \in Seq(Hashes)
      OBVIOUS
    <3> QED BY <3>1 DEF InitBackUp
  <2>3. inits' \in 0 .. MaxInits
    BY HashAssumption DEF InitBackUp, Remembering, TypeOK
  <2> QED BY <2>1, <2>2, <2>3 DEF InitBackUp, Remembering, TypeOK, Values
<1>2. Window' = {}
  BY DEF InitBackUp, Window
<1> QED BY <1>1, <1>2 DEF Remembering, RingHolds, RecentRemembered

-----------------------------------------------------------------------------
(* UpdateHash of a new hash.                                               *)

\* A new hash is written to the next cell.
LEMMA AcceptFacts ==
    ASSUME TypeOK, NEW hash \in Hashes, AcceptHash(hash)
    PROVE  /\ backupArrCapacity \in Nat \ {0} /\ backupArrCapacity' = backupArrCapacity
           /\ backUpIndex' = NextIndex /\ backUpIndex' \in 0 .. backupArrCapacity - 1
           /\ backupArr' \in Seq(Values) /\ Len(backupArr') = backupArrCapacity
           /\ backupArr'[backUpIndex' + 1] = hash
           /\ \A k \in 0 .. backupArrCapacity - 1 :
                 k # backUpIndex' => backupArr'[k + 1] = backupArr[k + 1]
           /\ fresh' \in Seq(Hashes) /\ Len(fresh') = Len(fresh) + 1
           /\ fresh'[Len(fresh) + 1] = hash
           /\ \A i \in 1 .. Len(fresh) : fresh'[i] = fresh[i]
<1> DEFINE cap == backupArrCapacity
           next == NextIndex
<1>1. cap \in Nat \ {0}
  BY HashAssumption DEF AcceptHash, TypeOK
<1>2. backUpIndex + 1 \in Int
  BY DEF TypeOK
<1>3. next \in 0 .. cap - 1
  BY <1>1, <1>2, DivMod DEF NextIndex
<1>4. /\ backUpIndex' = next /\ cap' = cap
      /\ backupArr' = [backupArr EXCEPT ![next + 1] = hash]
      /\ fresh' = Append(fresh, hash)
  BY DEF AcceptHash
<1>5. backupArr \in Seq(Values) /\ Len(backupArr) = cap /\ fresh \in Seq(Hashes)
  BY DEF TypeOK, Values
<1>6. hash \in Values
  BY DEF Values
<1> HIDE DEF next
<1>7. /\ backupArr' \in Seq(Values) /\ Len(backupArr') = cap
      /\ backupArr'[next + 1] = hash
      /\ \A k \in 0 .. cap - 1 : k # next => backupArr'[k + 1] = backupArr[k + 1]
  BY <1>1, <1>3, <1>4, <1>5, <1>6
<1>8. /\ fresh' \in Seq(Hashes) /\ Len(fresh') = Len(fresh) + 1
      /\ fresh'[Len(fresh) + 1] = hash
      /\ \A i \in 1 .. Len(fresh) : fresh'[i] = fresh[i]
  BY <1>4, <1>5
<1> QED BY <1>1, <1>3, <1>4, <1>7, <1>8 DEF next

\* Its types.
LEMMA AcceptType ==
    ASSUME TypeOK, NEW hash \in Hashes, AcceptHash(hash)
    PROVE  TypeOK'
<1>1. /\ backupArr' \in Seq(Values) /\ Len(backupArr') = backupArrCapacity'
      /\ backUpIndex' \in Nat /\ fresh' \in Seq(Hashes)
  BY AcceptFacts
<1>2. Cells(backupArr') \subseteq Values
  BY <1>1 DEF Cells
<1>3. hashMemory' \subseteq Values
  BY <1>2 DEF AcceptHash, Recycled, TypeOK, Values
<1>4. counter' \in 0 .. MaxHashSize - 1
  BY HashAssumption DEF AcceptHash, RoundOver, TypeOK
<1>5. /\ backupArrCapacity' \in {0} \cup Sizes /\ undefined' \in BOOLEAN
      /\ inits' \in 0 .. MaxInits /\ seen' \subseteq Hashes
  BY DEF AcceptHash, TypeOK
<1>6. verdict' \in [hash : Hashes, isNew : BOOLEAN, known : BOOLEAN]
  BY DEF AcceptHash
<1> QED BY <1>1, <1>3, <1>4, <1>5, <1>6 DEF TypeOK, Values

\* The hashes in the window keep their cells, and the cell that is written
\* is that of a hash that leaves it.
LEMMA AcceptRing ==
    ASSUME TypeOK, RingHolds, NEW hash \in Hashes, AcceptHash(hash)
    PROVE  RingHolds'
<1>0. PICK cap, n, b, next : /\ cap = backupArrCapacity /\ n = Len(fresh)
                             /\ b = backUpIndex /\ next = NextIndex
  OBVIOUS
<1>1. /\ cap \in Nat \ {0} /\ backupArrCapacity' = cap
      /\ backUpIndex' = next /\ next \in 0 .. cap - 1
      /\ backupArr'[next + 1] = hash
      /\ \A k \in 0 .. cap - 1 : k # next => backupArr'[k + 1] = backupArr[k + 1]
      /\ Len(fresh') = n + 1 /\ fresh'[n + 1] = hash
      /\ \A i \in 1 .. n : fresh'[i] = fresh[i]
  BY <1>0, AcceptFacts
<1>2. n \in Nat /\ b \in Nat /\ next = (b + 1) % cap
  BY <1>0 DEF TypeOK, NextIndex
<1>3. \A j \in Window' : j \in 1 .. n + 1 /\ j > n + 1 - cap
  BY <1>1, <1>2 DEF Window
<1> SUFFICES ASSUME NEW i \in Window'
             PROVE  backupArr'[SlotOf(i)' + 1] = fresh'[i]
  BY DEF RingHolds
<1> DEFINE new == next - (n + 1 - i)
           old == b - (n - i)
<1>4. i \in 1 .. n + 1 /\ i > n + 1 - cap /\ new \in Int /\ old \in Int
  BY <1>1, <1>2, <1>3
<1>5. SlotOf(i)' = (new % cap)
  <2>1. SlotOf(i)' = (backUpIndex' - (Len(fresh') - i)) % backupArrCapacity'
    BY DEF SlotOf
  <2>2. backUpIndex' - (Len(fresh') - i) = new
    BY <1>1, <1>2, <1>4
  <2> HIDE DEF new
  <2> QED BY <1>1, <2>1, <2>2
<1>6. CASE i = n + 1
  <2>1. new = next
    BY <1>1, <1>2, <1>6
  <2>2. next % cap = next
    BY <1>1
  <2> QED BY <1>1, <1>5, <1>6, <2>1, <2>2
<1>7. CASE i # n + 1
  <2>1. i \in 1 .. n /\ i \in Window /\ fresh'[i] = fresh[i]
    <3>1. i \in 1 .. n /\ i > n - cap
      BY <1>1, <1>2, <1>4, <1>7
    <3>2. Window = {j \in 1 .. n : j > n - cap}
      BY <1>0 DEF Window
    <3> QED BY <1>1, <3>1, <3>2
  <2>2. new % cap = old % cap
    <3> DEFINE a == b + 1
    <3>1. a \in Int /\ next = (a % cap)
      BY <1>2
    <3> HIDE DEF a
    <3>2. PICK d \in Int, r \in 0 .. cap - 1 : a % cap = r /\ a = cap * d + r
      BY <1>1, <3>1, DivMod
    <3>3. b + 1 = cap * d + next
      BY <3>1, <3>2 DEF a
    <3>4. old = new + cap * d
      <4> DEFINE m == cap * d
      <4>1. m \in Int
        BY <1>1, <3>2
      <4>2. next \in Int /\ b + 1 = m + next
        BY <1>1, <3>3
      <4> HIDE DEF m
      <4>3. old = new + m
        BY <1>2, <1>4, <4>1, <4>2
      <4> QED BY <4>3 DEF m
    <3> HIDE DEF new, old
    <3> QED BY <1>1, <1>4, <3>4, ModShift
  <2>3. backupArr[(old % cap) + 1] = fresh[i]
    BY <1>0, <2>1 DEF RingHolds, SlotOf
  <2>4. new % cap # next
    <3>1. new # next /\ new - next < cap /\ next - new < cap /\ next \in Int
      BY <1>1, <1>2, <1>4, <2>1
    <3> HIDE DEF new
    <3>2. (new % cap) # (next % cap)
      BY <1>1, <1>4, <3>1, ModDistinct
    <3>3. next % cap = next
      BY <1>1
    <3> QED BY <3>2, <3>3
  <2>5. new % cap \in 0 .. cap - 1
    BY <1>1, <1>4
  <2> QED BY <1>1, <1>5, <2>1, <2>2, <2>3, <2>4, <2>5
<1> QED BY <1>6, <1>7

\* They are in the memory: it has only grown, or it is what the ring holds.
LEMMA AcceptRemembers ==
    ASSUME TypeOK, RingHolds, RecentRemembered, NEW hash \in Hashes, AcceptHash(hash)
    PROVE  RecentRemembered'
<1>1. RingHolds' /\ TypeOK'
  BY AcceptRing, AcceptType
<1> SUFFICES ASSUME NEW i \in Window'
             PROVE  fresh'[i] \in hashMemory'
  BY DEF RecentRemembered
<1>2. /\ Len(fresh) \in Nat /\ Len(fresh') = Len(fresh) + 1
      /\ backupArrCapacity \in Nat \ {0} /\ backupArrCapacity' = backupArrCapacity
      /\ backUpIndex' \in Int /\ fresh'[Len(fresh) + 1] = hash
      /\ \A j \in 1 .. Len(fresh) : fresh'[j] = fresh[j]
  BY AcceptFacts DEF TypeOK
<1>3. CASE RoundOver
  <2>1. hashMemory' = Cells(backupArr')
    BY <1>3 DEF AcceptHash, Recycled
  <2>2. backupArr'[SlotOf(i)' + 1] = fresh'[i]
    BY <1>1 DEF RingHolds
  <2>3. i \in Int
    BY <1>2 DEF Window
  <2>4. SlotOf(i)' \in 0 .. backupArrCapacity - 1
    BY <1>2, <2>3 DEF SlotOf
  <2>5. SlotOf(i)' + 1 \in DOMAIN backupArr'
    BY <1>1, <1>2, <2>4 DEF TypeOK
  <2> QED BY <2>1, <2>2, <2>5 DEF Cells
<1>4. CASE ~RoundOver
  <2>1. hashMemory' = hashMemory \cup {hash}
    BY <1>4 DEF AcceptHash
  <2>2. i = Len(fresh) + 1 \/ i \in Window
    BY <1>2 DEF Window
  <2>3. i \in Window => fresh'[i] = fresh[i]
    BY <1>2 DEF Window
  <2> QED BY <1>2, <2>1, <2>2, <2>3 DEF RecentRemembered
<1> QED BY <1>3, <1>4

-----------------------------------------------------------------------------
(* A filter that is initialised at most once.                              *)

\* What the memory holds beyond the messages counted since its last reset
\* comes from the ring, and nothing in it was never passed.
AtMostOnce ==
    inits <= 1 =>
        /\ inits = 0 => /\ hashMemory = {} /\ counter = 0
                        /\ backupArrCapacity = 0 /\ verdict = NoVerdict
        /\ counter <= Len(fresh)
        /\ \A i \in 1 .. Len(fresh) : fresh[i] \in seen
        /\ IsFiniteSet(hashMemory)
        /\ Cardinality(hashMemory) <= counter + backupArrCapacity
        /\ backupArrCapacity <= MaxHashSize => hashMemory \subseteq seen
        /\ NewAccepted

\* A ring has no more hashes than cells.
LEMMA CellsCount ==
    ASSUME NEW ring \in Seq(Values)
    PROVE  /\ IsFiniteSet(Cells(ring))
           /\ Cardinality(Cells(ring)) <= Len(ring)
<1> DEFINE cells == Cells(ring)
           n == Len(ring)
<1>1. n \in Nat /\ DOMAIN ring = 1 .. n
  OBVIOUS
<1>2. [i \in 1 .. n |-> ring[i]] \in Surjection(1 .. n, cells)
  BY <1>1 DEF Surjection, Cells
<1>3. ExistsSurjection(1 .. n, cells)
  BY <1>2 DEF ExistsSurjection
<1>4. IsFiniteSet(cells)
  BY <1>1, <1>3, FS_NatSurjection
<1>5. Cardinality(cells) <= n
  BY <1>1, <1>3, FS_SurjCardinalityBound
<1> QED BY <1>4, <1>5

\* SlotOf, with the state it reads as arguments.
Slot(b, n, cap, i) == (b - (n - i)) % cap

\* Once there are as many new hashes as cells, each cell has been written.
LEMMA RingCovered ==
    \A cap \in Nat \ {0}, b \in Nat, n \in Nat : \A k \in 0 .. cap - 1 :
        n >= cap => \E i \in 1 .. n : i > n - cap /\ Slot(b, n, cap, i) = k
<1> SUFFICES ASSUME NEW cap \in Nat \ {0}, NEW b \in Nat, NEW n \in Nat,
                    NEW k \in 0 .. cap - 1, n >= cap
             PROVE  \E i \in 1 .. n : i > n - cap /\ Slot(b, n, cap, i) = k
  OBVIOUS
<1> DEFINE a == b - k
<1>1. a \in Int
  OBVIOUS
<1> HIDE DEF a
<1>2. PICK d \in Int, r \in 0 .. cap - 1 : a % cap = r /\ a = cap * d + r
  BY <1>1, DivMod
<1> DEFINE i == n - r
           x == b - (n - i)
<1>3. i \in 1 .. n /\ i > n - cap /\ x \in Int
  BY <1>2
<1>4. x = k + cap * d
  <2> DEFINE m == cap * d
  <2>1. m \in Int /\ b - k = m + r
    BY <1>2 DEF a
  <2> HIDE DEF m
  <2>2. x = k + m
    BY <1>2, <2>1
  <2> QED BY <2>2 DEF m
<1>5. x % cap = k % cap
  <2>1. k \in Int /\ d \in Int
    BY <1>2
  <2> HIDE DEF x
  <2> QED BY <1>3, <1>4, <2>1, ModShift
<1>6. k % cap = k
  OBVIOUS
<1> QED BY <1>3, <1>5, <1>6 DEF Slot

\* So by the end of a round that has at least as many messages as the ring
\* has cells, what the reset copies from the ring has all been passed.
LEMMA AcceptCells ==
    ASSUME Remembering, AtMostOnce, NEW hash \in Hashes, AcceptHash(hash), RoundOver,
           inits <= 1, backupArrCapacity <= MaxHashSize
    PROVE  Cells(backupArr') \subseteq seen'
<1>1. TypeOK' /\ RingHolds'
  BY AcceptType, AcceptRing DEF Remembering
<1>2. /\ backupArrCapacity \in Nat \ {0} /\ backupArrCapacity' = backupArrCapacity
      /\ backUpIndex' \in Nat /\ Len(fresh) \in Nat
      /\ Len(fresh') = Len(fresh) + 1 /\ fresh'[Len(fresh) + 1] = hash
      /\ \A i \in 1 .. Len(fresh) : fresh'[i] = fresh[i]
      /\ Len(backupArr') = backupArrCapacity /\ backupArr' \in Seq(Values)
  BY AcceptFacts DEF Remembering, TypeOK
<1>3. backupArrCapacity <= Len(fresh')
  BY <1>2, HashAssumption DEF AtMostOnce, RoundOver, Remembering, TypeOK
<1>4. \A i \in 1 .. Len(fresh') : fresh'[i] \in seen'
  BY <1>2 DEF AtMostOnce, AcceptHash
<1> SUFFICES ASSUME NEW j \in 1 .. backupArrCapacity
             PROVE  backupArr'[j] \in seen'
  BY <1>2 DEF Cells
<1>5. PICK cap, b, n, k : /\ cap = backupArrCapacity /\ b = backUpIndex'
                          /\ n = Len(fresh') /\ k = j - 1
  OBVIOUS
<1>6. /\ cap \in Nat \ {0} /\ b \in Nat /\ n \in Nat /\ n >= cap
      /\ k \in 0 .. cap - 1 /\ k + 1 = j
  BY <1>2, <1>3, <1>5
<1>7. PICK i \in 1 .. n : i > n - cap /\ Slot(b, n, cap, i) = k
  BY <1>6, RingCovered
<1>8. i \in Window' /\ SlotOf(i)' = k
  BY <1>2, <1>5, <1>7 DEF Window, Slot, SlotOf
<1>9. backupArr'[k + 1] = fresh'[i]
  BY <1>1, <1>8 DEF RingHolds
<1> QED BY <1>4, <1>5, <1>6, <1>7, <1>9

\* A new hash counts, or empties the memory but for the ring.
LEMMA AcceptOnce ==
    ASSUME Remembering, AtMostOnce, NEW hash \in Hashes, AcceptHash(hash)
    PROVE  AtMostOnce'
<1> SUFFICES ASSUME inits' <= 1 PROVE AtMostOnce'
  BY DEF AtMostOnce
<1>1. /\ inits' = inits /\ inits <= 1 /\ inits # 0
      /\ seen' = seen \cup {hash}
      /\ verdict' = [hash |-> hash, isNew |-> TRUE, known |-> hash \in seen]
  BY HashAssumption DEF AcceptHash, AtMostOnce, Remembering, TypeOK
<1>2. /\ backupArrCapacity \in Nat \ {0} /\ backupArrCapacity' = backupArrCapacity
      /\ Len(fresh) \in Nat /\ counter \in Nat
      /\ Len(fresh') = Len(fresh) + 1 /\ fresh'[Len(fresh) + 1] = hash
      /\ \A i \in 1 .. Len(fresh) : fresh'[i] = fresh[i]
      /\ Len(backupArr') = backupArrCapacity /\ backupArr' \in Seq(Values)
  BY AcceptFacts DEF Remembering, TypeOK
<1>3. \A i \in 1 .. Len(fresh') : fresh'[i] \in seen'
  BY <1>1, <1>2 DEF AtMostOnce
<1>4. NewAccepted'
  BY <1>1 DEF NewAccepted
<1>5. IsFiniteSet(hashMemory) /\ Cardinality(hashMemory) <= counter + backupArrCapacity
      /\ counter <= Len(fresh)
  BY <1>1 DEF AtMostOnce
<1>6. CASE RoundOver
  <2>1. hashMemory' = Cells(backupArr') /\ counter' = 0
    BY <1>6 DEF AcceptHash, Recycled
  <2>2. IsFiniteSet(hashMemory') /\ Cardinality(hashMemory') <= counter' + backupArrCapacity'
    <3>1. IsFiniteSet(hashMemory') /\ Cardinality(hashMemory') <= Len(backupArr')
      BY <1>2, <2>1, CellsCount
    <3> QED BY <1>2, <2>1, <3>1
  <2>3. backupArrCapacity' <= MaxHashSize => hashMemory' \subseteq seen'
    BY <1>1, <1>2, <1>6, <2>1, AcceptCells
  <2> QED BY <1>1, <1>2, <1>3, <1>4, <2>1, <2>2, <2>3 DEF AtMostOnce
<1>7. CASE ~RoundOver
  <2>1. hashMemory' = hashMemory \cup {hash} /\ counter' = counter + 1
    BY <1>7 DEF AcceptHash
  <2>2. /\ IsFiniteSet(hashMemory')
        /\ Cardinality(hashMemory') <= counter' + backupArrCapacity'
    <3>1. Cardinality(hashMemory) \in Nat
      BY <1>5, FS_CardinalityType
    <3>2. /\ IsFiniteSet(hashMemory')
          /\ Cardinality(hashMemory') = IF hash \in hashMemory THEN Cardinality(hashMemory)
                                                             ELSE Cardinality(hashMemory) + 1
      BY <1>5, <2>1, FS_AddElement
    <3> QED BY <1>2, <1>5, <2>1, <3>1, <3>2
  <2>3. backupArrCapacity' <= MaxHashSize => hashMemory' \subseteq seen'
    BY <1>1, <1>2, <2>1 DEF AtMostOnce
  <2>4. counter' <= Len(fresh')
    BY <1>2, <1>5, <2>1
  <2> QED BY <1>1, <1>3, <1>4, <2>2, <2>3, <2>4 DEF AtMostOnce
<1> QED BY <1>6, <1>7

\* The first call of Init finds nothing in the memory.
LEMMA InitBackUpOnce ==
    ASSUME Remembering, AtMostOnce, NEW size \in Sizes, InitBackUp(size)
    PROVE  AtMostOnce'
<1> SUFFICES ASSUME inits' <= 1 PROVE AtMostOnce'
  BY DEF AtMostOnce
<1>1. inits = 0 /\ inits' = 1 /\ size \in Nat
  BY HashAssumption DEF InitBackUp, Remembering, TypeOK
<1>2. /\ hashMemory' = {} /\ counter' = 0 /\ verdict' = NoVerdict
      /\ backupArrCapacity' = size /\ fresh' = << >>
  BY <1>1 DEF AtMostOnce, InitBackUp
<1>3. IsFiniteSet({}) /\ Cardinality({}) = 0
  BY FS_EmptySet
<1>4. Len(<< >>) = 0
  OBVIOUS
<1>5. NewAccepted'
  BY <1>2 DEF NewAccepted
<1>6. IsFiniteSet(hashMemory') /\ Cardinality(hashMemory') <= counter' + backupArrCapacity'
  BY <1>1, <1>2, <1>3
<1> QED BY <1>1, <1>2, <1>4, <1>5, <1>6 DEF AtMostOnce

\* A duplicate was passed before.
LEMMA RejectOnce ==
    ASSUME Remembering, AtMostOnce, NEW hash \in Hashes, RejectHash(hash)
    PROVE  AtMostOnce'
<1> SUFFICES ASSUME inits' <= 1 PROVE AtMostOnce'
  BY DEF AtMostOnce
<1>1. /\ inits' = inits /\ inits <= 1 /\ fresh' = fresh /\ counter' = counter
      /\ backupArrCapacity' = backupArrCapacity /\ hashMemory' = hashMemory
      /\ seen' = seen \cup {hash} /\ hash \in hashMemory
      /\ verdict' = [hash |-> hash, isNew |-> FALSE, known |-> hash \in seen]
  BY DEF RejectHash, memoryVars
<1>2. inits # 0
  BY <1>1 DEF AtMostOnce
<1>3. backupArrCapacity <= MaxHashSize => hash \in seen
  BY <1>1 DEF AtMostOnce
<1>4. NewAccepted'
  BY <1>1, <1>3 DEF NewAccepted
<1> QED BY <1>1, <1>2, <1>4 DEF AtMostOnce

-----------------------------------------------------------------------------
(* The theorems.                                                           *)

\* Before the first call nothing is new.
LEMMA InitRemembering == Init => Remembering
<1> SUFFICES ASSUME Init PROVE Remembering
  OBVIOUS
<1>1. /\ << >> \in Seq(Values) /\ << >> \in Seq(Hashes)
      /\ Len(<< >>) = 0
  OBVIOUS
<1>2. TypeOK
  <2>1. /\ hashMemory = {} /\ backupArr = << >> /\ backUpIndex = 0 /\ counter = 0
        /\ backupArrCapacity = 0 /\ undefined = FALSE /\ inits = 0 /\ fresh = << >>
        /\ seen = {} /\ verdict = NoVerdict
    BY DEF Init
  <2>2. 0 \in 0 .. MaxHashSize - 1 /\ 0 \in 0 .. MaxInits
    BY HashAssumption
  <2> QED BY <1>1, <2>1, <2>2 DEF TypeOK, Values
<1>3. Window = {}
  BY <1>1 DEF Init, Window
<1> QED BY <1>2, <1>3 DEF Remembering, RingHolds, RecentRemembered

\* A call of Init empties the window; of UpdateHash, only a new hash moves it.
LEMMA NextRemembering == Remembering /\ [Next]_vars => Remembering'
<1> SUFFICES ASSUME Remembering, [Next]_vars PROVE Remembering'
  OBVIOUS
<1>1. ASSUME NEW size \in Sizes, InitBackUp(size)
      PROVE  Remembering'
  BY <1>1, InitBackUpKeeps
<1>2. ASSUME NEW hash \in Hashes, AcceptHash(hash)
      PROVE  Remembering'
  BY <1>2, AcceptType, AcceptRing, AcceptRemembers DEF Remembering
<1>3. ASSUME memoryVars' = memoryVars, fresh' = fresh,
             backupArrCapacity' = backupArrCapacity, TypeOK'
      PROVE  Remembering'
  BY <1>3 DEF Remembering, memoryVars, RingHolds, RecentRemembered, Window, SlotOf
<1>4. ASSUME NEW hash \in Hashes, RejectHash(hash)
      PROVE  Remembering'
  <2>1. TypeOK'
    BY <1>4 DEF RejectHash, memoryVars, Remembering, TypeOK
  <2> QED BY <1>3, <1>4, <2>1 DEF RejectHash
<1>5. ASSUME NEW hash \in Hashes, DivideByZero(hash)
      PROVE  Remembering'
  <2>1. TypeOK'
    BY <1>5 DEF DivideByZero, memoryVars, Remembering, TypeOK
  <2> QED BY <1>3, <1>5, <2>1 DEF DivideByZero
<1>6. CASE UNCHANGED vars
  <2>1. TypeOK'
    BY <1>6 DEF vars, memoryVars, Remembering, TypeOK
  <2> QED BY <1>3, <1>6, <2>1 DEF vars
<1> QED BY <1>1, <1>2, <1>4, <1>5, <1>6 DEF Next, UpdateHash

\* The ring keeps its size and its index its range, the counter stays below
\* MAX_HASH_SIZE.
THEOREM HashTypes == Spec => []TypeOK
<1>1. Remembering => TypeOK
  BY DEF Remembering
<1> QED BY <1>1, InitRemembering, NextRemembering, PTL DEF Spec

\* "Recent messages from backup array are preserved", whatever the sizes.
THEOREM RecentCorrect == Spec => []RecentRemembered
<1>1. Remembering => RecentRemembered
  BY DEF Remembering
<1> QED BY <1>1, InitRemembering, NextRemembering, PTL DEF Spec

\* Nothing is in the memory before the first call.
LEMMA InitOnce == Init => AtMostOnce
<1> SUFFICES ASSUME Init PROVE AtMostOnce
  OBVIOUS
<1>1. Len(<< >>) = 0 /\ IsFiniteSet({}) /\ Cardinality({}) = 0
  BY FS_EmptySet
<1>2. NewAccepted
  BY DEF Init, NewAccepted
<1> QED BY <1>1, <1>2 DEF AtMostOnce, Init

\* Every step keeps what is said of a filter initialised at most once.
LEMMA NextOnce == Remembering /\ AtMostOnce /\ [Next]_vars => AtMostOnce'
<1> SUFFICES ASSUME Remembering, AtMostOnce, [Next]_vars PROVE AtMostOnce'
  OBVIOUS
<1>1. CASE UNCHANGED vars
  BY <1>1 DEF vars, memoryVars, AtMostOnce, NewAccepted
<1>2. ASSUME NEW hash \in Hashes, DivideByZero(hash) PROVE AtMostOnce'
  BY <1>2 DEF DivideByZero, memoryVars, AtMostOnce, NewAccepted
<1> QED BY <1>1, <1>2, InitBackUpOnce, AcceptOnce, RejectOnce DEF Next, UpdateHash

\* Initialised at most once, the set never grows beyond a round of messages
\* and the ring, however long the filter runs.
THEOREM MemoryCorrect == Spec => []MemoryBounded
<1>1. Remembering /\ AtMostOnce => MemoryBounded
  <2> SUFFICES ASSUME Remembering, AtMostOnce, inits <= 1
               PROVE  Cardinality(hashMemory) < MaxHashSize + backupArrCapacity
    BY DEF MemoryBounded
  <2>1. /\ Cardinality(hashMemory) <= counter + backupArrCapacity
        /\ Cardinality(hashMemory) \in Nat
    BY FS_CardinalityType DEF AtMostOnce
  <2> QED BY <2>1, HashAssumption DEF Remembering, TypeOK
<1> QED BY <1>1, InitRemembering, NextRemembering, InitOnce, NextOnce, PTL DEF Spec

\* Initialised once, with no more connections than a round has messages, the
\* filter never drops a message it has not seen.
THEOREM NewCorrect == Spec => []NewAccepted
<1>1. Remembering /\ AtMostOnce => NewAccepted
  BY HashAssumption DEF AtMostOnce, NewAccepted, Remembering, TypeOK
<1> QED BY <1>1, InitRemembering, NextRemembering, InitOnce, NextOnce, PTL DEF Spec
=============================================================================
