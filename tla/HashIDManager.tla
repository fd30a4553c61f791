--------------------------- MODULE HashIDManager ---------------------------
(***************************************************************************)
(* HashIDManager of md_provider/provider/hash_manager.{h,cpp}: the filter  *)
(* that rejects the hash of a message it has seen before.  Its set of      *)
(* hashes is reset after MAX_HASH_SIZE new messages; a ring buffer carries *)
(* the latest hashes over the reset.                                       *)
(*                                                                         *)
(* A hash is a member of Hashes; 0 is also what an empty cell of the ring  *)
(* holds.  Init of the code is InitBackUp here.                            *)
(***************************************************************************)
EXTENDS Integers, Sequences, FiniteSets

CONSTANTS
    Hashes,        \* the hashes of the messages
    Torn,          \* what clearing some bytes of a hash leaves: no message's
    MaxHashSize,   \* MAX_HASH_SIZE
    Sizes,         \* numbers of connections passed to Init
    MaxInits,      \* bound: calls of Init
    MaxNew         \* bound: new messages after the latest call of Init

ASSUME HashAssumption ==
    /\ Torn \notin Hashes \cup {0}
    /\ MaxHashSize \in Nat \ {0}
    /\ Sizes \subseteq Nat
    /\ MaxInits \in Nat /\ MaxNew \in Nat

VARIABLES
    hashMemory, backupArr, backUpIndex, counter, backupArrCapacity,
    undefined,   \* a division by zero has been executed
    inits,       \* calls of Init so far
    fresh,       \* history: the new hashes since the latest call of Init
    seen,        \* history: every hash ever passed to UpdateHash
    verdict      \* the latest call of UpdateHash: hash, result, and whether
                 \* the hash had been passed before

memoryVars == <<hashMemory, backupArr, backUpIndex, counter>>
vars == <<memoryVars, backupArrCapacity, undefined, inits, fresh, seen, verdict>>

NoVerdict == <<>>

\* The default member initialisers.
Init ==
    /\ hashMemory = {}
    /\ backupArr = <<>>
    /\ backUpIndex = 0
    /\ counter = 0
    /\ backupArrCapacity = 0
    /\ undefined = FALSE
    /\ inits = 0
    /\ fresh = <<>>
    /\ seen = {}
    /\ verdict = NoVerdict

\* resize(size): a new cell holds 0.  Cell i of the code is backupArr[i + 1].
Resized(size) ==
    [i \in 1 .. size |-> IF i <= Len(backupArr) THEN backupArr[i] ELSE 0]

\* memset(data, 0, size) clears size bytes, and a cell has eight of them.
Cleared(cell, bytes) ==
    CASE bytes <= 0 -> cell
      [] bytes >= 8 -> 0
      [] OTHER      -> IF cell = 0 THEN 0 ELSE Torn

InitBackUp(size) ==
    /\ inits < MaxInits
    /\ inits' = inits + 1
    /\ backupArrCapacity' = size
    /\ backupArr' = [i \in 1 .. size |-> Cleared(Resized(size)[i], size - 8 * (i - 1))]
    /\ fresh' = <<>>
    /\ UNCHANGED <<hashMemory, backUpIndex, counter, undefined, seen, verdict>>

\* Mutant: the index stays where it is.
SameIndex == backUpIndex % backupArrCapacity

NextIndex == (backUpIndex + 1) % backupArrCapacity

\* Mutant of the test that ends a round: one message late.
RoundOverLate == counter >= MaxHashSize

\* ++counter has reached MAX_HASH_SIZE.
RoundOver == counter + 1 >= MaxHashSize

Cells(ring) == {ring[i] : i \in DOMAIN ring}

\* Mutants: the memory is only emptied; it is not emptied before the insert.
Emptied(ring) == {}
KeptToo(ring) == hashMemory \cup Cells(ring)

\* The memory after a reset.
Recycled(ring) == Cells(ring)

\* UpdateHash with a hash that is in the memory: a duplicate.
RejectHash(hash) ==
    /\ hash \in hashMemory
    /\ verdict' = [hash |-> hash, isNew |-> FALSE, known |-> hash \in seen]
    /\ seen' = seen \cup {hash}
    /\ UNCHANGED <<memoryVars, backupArrCapacity, undefined, inits, fresh>>

\* UpdateHash with a hash that is not: UpdateBackUp, then CheckBackUp.
AcceptHash(hash) ==
    /\ hash \notin hashMemory
    /\ backupArrCapacity > 0
    /\ Len(fresh) < MaxNew
    /\ backUpIndex' = NextIndex
    /\ backupArr' = [backupArr EXCEPT ![NextIndex + 1] = hash]
    /\ IF RoundOver
       THEN hashMemory' = Recycled(backupArr') /\ counter' = 0
       ELSE hashMemory' = hashMemory \cup {hash} /\ counter' = counter + 1
    /\ fresh' = Append(fresh, hash)
    /\ verdict' = [hash |-> hash, isNew |-> TRUE, known |-> hash \in seen]
    /\ seen' = seen \cup {hash}
    /\ UNCHANGED <<backupArrCapacity, undefined, inits>>

\* The same with a ring of no cells: % 0.
DivideByZero(hash) ==
    /\ hash \notin hashMemory
    /\ backupArrCapacity = 0
    /\ undefined' = TRUE
    /\ UNCHANGED <<memoryVars, backupArrCapacity, inits, fresh, seen, verdict>>

UpdateHash(hash) == RejectHash(hash) \/ AcceptHash(hash) \/ DivideByZero(hash)

Next ==
    /\ ~undefined
    /\ \/ \E size \in Sizes : InitBackUp(size)
       \/ \E hash \in Hashes : UpdateHash(hash)

Spec == Init /\ [][Next]_vars

-----------------------------------------------------------------------------
(* Properties.                                                             *)

\* Every variable keeps its type; in particular the ring has the size that
\* Init gave it, whatever it was before.
TypeOK ==
    /\ hashMemory \subseteq Hashes \cup {0, Torn}
    /\ backupArr \in Seq(Hashes \cup {0, Torn})
    /\ Len(backupArr) = backupArrCapacity
    /\ backUpIndex \in Nat
    /\ counter \in 0 .. MaxHashSize - 1
    /\ backupArrCapacity \in {0} \cup Sizes
    /\ undefined \in BOOLEAN
    /\ inits \in 0 .. MaxInits
    /\ fresh \in Seq(Hashes)
    /\ seen \subseteq Hashes
    /\ verdict = NoVerdict \/ verdict \in [hash : Hashes, isNew : BOOLEAN, known : BOOLEAN]

\* Positions of the latest new hashes, as many as there are connections.
Window == {i \in 1 .. Len(fresh) : i > Len(fresh) - backupArrCapacity}

\* The latest new hashes, one per connection, are in the memory across every
\* reset, so that a duplicate of one of them is rejected.
RecentRemembered == \A i \in Window : fresh[i] \in hashMemory

\* Initialised at most once, the memory stays below MAX_HASH_SIZE hashes and
\* those of the ring, however many resets there have been.
MemoryBounded ==
    inits <= 1 => Cardinality(hashMemory) < MaxHashSize + backupArrCapacity

\* Initialised once, with no more connections than a round has messages, the
\* filter accepts a hash that was never passed before: the empty cells of the
\* ring never count as a message.
NewAccepted ==
    inits = 1 /\ backupArrCapacity <= MaxHashSize /\ verdict # NoVerdict
        => verdict.known \/ verdict.isNew
=============================================================================
