------------------------------ MODULE AdapterProofs ----------------------------
(***************************************************************************)
(* The adapters' invariants, for any chains that hold what chains hold, any *)
(* transactions and any number of them, lists and role lists of any length  *)
(* and any clock.  Each adapter has an inductive invariant of its own.      *)
(***************************************************************************)
EXTENDS Adapters, Extremes

--------------------------------------------------------------------------------
(* Arithmetic of scores and windows.                                       *)

\* The smaller and the larger of two numbers.
LEMMA TwoOf ==
    ASSUME NEW a \in Int, NEW b \in Int
    PROVE  /\ MinOf(a, b) \in {a, b} /\ MinOf(a, b) <= a /\ MinOf(a, b) <= b
           /\ MaxOf(a, b) \in {a, b} /\ MaxOf(a, b) >= a /\ MaxOf(a, b) >= b
BY DEF MinOf, MaxOf

\* A clamped number is a score; one that is not above 0 is 0.
LEMMA ClampRange ==
    ASSUME NEW n \in Int
    PROVE  /\ Clamp(n) \in 0 .. 100
           /\ n <= 0 => Clamp(n) = 0
BY DEF Clamp, MinOf, MaxOf

\* Clamping keeps the order.
LEMMA ClampGrows ==
    ASSUME NEW m \in Int, NEW n \in Int, m <= n
    PROVE  Clamp(m) <= Clamp(n)
BY DEF Clamp, MinOf, MaxOf

\* Math.round of a quotient is a whole number, and of a negative one it is not above 0.
LEMMA Rounded ==
    ASSUME NEW a \in Int, NEW b \in Int, b > 0
    PROVE  /\ RoundDiv(a, b) \in Int
           /\ a < 0 => RoundDiv(a, b) <= 0
<1> DEFINE n == 2 * a + b
           d == 2 * b
           q == n \div d
<1>1. n \in Int /\ d \in Int /\ d > 0
  OBVIOUS
<1>2. RoundDiv(a, b) = q
  BY DEF RoundDiv
<1>3. a < 0 => n < d
  OBVIOUS
<1> HIDE DEF n, d
<1>4. q \in Int /\ d * q <= n
  BY <1>1, Quotient
<1> HIDE DEF q
<1>5. ASSUME n < d
      PROVE  q <= 0
  <2> SUFFICES ASSUME q >= 1
               PROVE  FALSE
    BY <1>4
  <2>1. d * q >= d
    BY <1>1, <1>4
  <2> QED
    BY <1>1, <1>4, <1>5, <2>1
<1> QED
  BY <1>2, <1>3, <1>4, <1>5

\* Rounding keeps the order.
LEMMA RoundedGrows ==
    ASSUME NEW a \in Int, NEW c \in Int, NEW b \in Int, b > 0, a <= c
    PROVE  RoundDiv(a, b) <= RoundDiv(c, b)
<1> DEFINE n == 2 * a + b
           m == 2 * c + b
           d == 2 * b
           q == n \div d
           r == m \div d
<1>1. n \in Int /\ m \in Int /\ d \in Int /\ d > 0 /\ n <= m
  OBVIOUS
<1>2. RoundDiv(a, b) = q /\ RoundDiv(c, b) = r
  BY DEF RoundDiv
<1> HIDE DEF n, m, d
<1>3. q \in Int /\ d * q <= n
  BY <1>1, Quotient
<1>4. r \in Int /\ m < d * r + d
  BY <1>1, Quotient
<1> HIDE DEF q, r
<1>5. q <= r
  <2> SUFFICES ASSUME q >= r + 1
               PROVE  FALSE
    BY <1>3, <1>4
  <2>1. d * q >= d * r + d
    BY <1>1, <1>3, <1>4
  <2> QED
    BY <1>1, <1>3, <1>4, <2>1
<1> QED
  BY <1>2, <1>5

\* A window that is not empty.
Window(w) == w.fresh \in Int /\ w.dead \in Int /\ w.dead > w.fresh

\* A freshness is a score.
LEMMA FreshnessRange ==
    ASSUME NEW age \in Int, NEW w, Window(w)
    PROVE  /\ Freshness(age, w) \in 0 .. 100
           /\ age > w.dead => Freshness(age, w) = 0
<1> DEFINE a == 100 * (w.dead - age)
           b == w.dead - w.fresh
<1>1. a \in Int /\ b \in Int /\ b > 0 /\ (age > w.dead => a < 0)
  BY DEF Window
<1> HIDE DEF a, b
<1>2. RoundDiv(a, b) \in Int /\ (a < 0 => RoundDiv(a, b) <= 0)
  BY <1>1, Rounded
<1>3. Freshness(age, w) = Clamp(RoundDiv(a, b))
  BY DEF Freshness, a, b
<1> QED
  BY <1>1, <1>2, <1>3, ClampRange

\* An older price is not fresher.
LEMMA FreshnessFades ==
    ASSUME NEW young \in Int, NEW old \in Int, young <= old, NEW w, Window(w)
    PROVE  Freshness(old, w) <= Freshness(young, w)
<1> DEFINE a == 100 * (w.dead - old)
           c == 100 * (w.dead - young)
           b == w.dead - w.fresh
<1>1. a \in Int /\ c \in Int /\ b \in Int /\ b > 0 /\ a <= c
  BY DEF Window
<1>3. Freshness(old, w) = Clamp(RoundDiv(a, b)) /\ Freshness(young, w) = Clamp(RoundDiv(c, b))
  BY DEF Freshness
<1> HIDE DEF a, b, c
<1>2. RoundDiv(a, b) \in Int /\ RoundDiv(c, b) \in Int /\ RoundDiv(a, b) <= RoundDiv(c, b)
  BY <1>1, Rounded, RoundedGrows
<1> QED
  BY <1>2, <1>3, ClampGrows

\* The window that is not empty, and where it ends.
LEMMA WindowEnds ==
    ASSUME NEW resolution \in Nat, NEW limit \in Nat
    PROVE  LET w == FreshnessWindow(resolution, limit)
           IN  /\ Window(w)
               /\ \/ w.dead <= limit
                  \/ limit = 0
                  \/ resolution >= MinOf(limit, StaleCeiling)
BY StaleCeilingAssumption DEF FreshnessWindow, Window, MinOf, MaxOf

\* The worst of some scores is a score, and none is below it.
LEMMA WorstOf ==
    ASSUME NEW scores \in SUBSET (0 .. 100)
    PROVE  /\ WorstScore(scores) \in 0 .. 100
           /\ \A s \in scores : WorstScore(scores) <= s
<1>1. CASE scores = {}
  BY <1>1 DEF WorstScore
<1>2. CASE scores # {}
  <2>1. scores \in SUBSET Nat
    OBVIOUS
  <2>2. Min(scores) \in scores /\ \A x \in scores : Min(scores) <= x
    BY <1>2, <2>1, LeastOf
  <2> QED
    BY <1>2, <2>2 DEF WorstScore
<1> QED
  BY <1>1, <1>2

\* Two scores of which one is over a set that holds a 0.
LEMMA WorstOfBoth ==
    ASSUME NEW left \in SUBSET (0 .. 100), NEW right \in SUBSET (0 .. 100)
    PROVE  /\ MinOf(WorstScore(left), WorstScore(right)) \in 0 .. 100
           /\ \A s \in left \cup right : MinOf(WorstScore(left), WorstScore(right)) <= s
<1> DEFINE l == WorstScore(left)
           r == WorstScore(right)
<1>1. l \in 0 .. 100 /\ r \in 0 .. 100 /\ (\A s \in left : l <= s) /\ \A s \in right : r <= s
  BY WorstOf
<1> HIDE DEF l, r
<1>2. MinOf(l, r) \in 0 .. 100 /\ MinOf(l, r) <= l /\ MinOf(l, r) <= r
  BY <1>1 DEF MinOf
<1>3. \A s \in left \cup right : MinOf(l, r) <= s
  <2> SUFFICES ASSUME NEW s \in left \cup right
               PROVE  MinOf(l, r) <= s
    OBVIOUS
  <2>1. s \in 0 .. 100
    OBVIOUS
  <2> QED
    BY <1>1, <1>2, <2>1
<1> QED
  BY <1>2, <1>3 DEF l, r

--------------------------------------------------------------------------------
(* A list taken item by item into a map: its first so many items are known. *)

\* The keys of the map are the first so many items of the list.
Prefix(list, known) ==
    /\ IsFiniteSet(DOMAIN known)
    /\ Cardinality(DOMAIN known) <= Len(list)
    /\ DOMAIN known = {list[j] : j \in 1 .. Cardinality(DOMAIN known)}

\* Nothing has been taken yet.
LEMMA PrefixNone ==
    ASSUME NEW T, NEW list \in Seq(T), NEW known, DOMAIN known = {}
    PROVE  Prefix(list, known) /\ Cardinality(DOMAIN known) = 0
<1>1. IsFiniteSet({}) /\ Cardinality({}) = 0
  BY FS_EmptySet
<1>2. 1 .. 0 = {} /\ Len(list) \in Nat
  OBVIOUS
<1> QED
  BY <1>1, <1>2 DEF Prefix

\* The next item has been taken in.
Grows(T, list, known, grown) ==
    LET n == Cardinality(DOMAIN known)
    IN  /\ list[n + 1] \in T
        /\ DOMAIN grown = DOMAIN known \cup {list[n + 1]}
        /\ Prefix(list, grown)
        /\ Cardinality(DOMAIN grown) \in {n, n + 1}
        /\ n + 1 = Len(list) => DOMAIN grown = Members(list)

\* The next item is taken.
LEMMA PrefixGrows ==
    ASSUME NEW T, NEW list \in Seq(T), NEW known, NEW value, Prefix(list, known),
           Cardinality(DOMAIN known) < Len(list)
    PROVE  Grows(T, list, known, Mapped(known, list[Cardinality(DOMAIN known) + 1], value))
<1> DEFINE n == Cardinality(DOMAIN known)
           D == DOMAIN known \cup {list[n + 1]}
           grown == Mapped(known, list[n + 1], value)
<1>1. n \in Nat /\ Len(list) \in Nat /\ n + 1 \in 1 .. Len(list) /\ DOMAIN list = 1 .. Len(list)
  BY FS_CardinalityType DEF Prefix
<1>2. list[n + 1] \in T
  BY <1>1
<1>3. DOMAIN grown = D
  BY DEF Mapped
<1>4. IsFiniteSet(D) /\ Cardinality(D) = IF list[n + 1] \in DOMAIN known THEN n ELSE n + 1
  BY FS_AddElement DEF Prefix
<1>5. D = {list[j] : j \in 1 .. n + 1}
  BY <1>1 DEF Prefix
<1>6. CASE list[n + 1] \in DOMAIN known
  <2>1. D = DOMAIN known
    BY <1>6
  <2>2. Prefix(list, grown)
    BY <1>3, <1>4, <2>1 DEF Prefix
  <2>3. Cardinality(DOMAIN grown) \in {n, n + 1}
    BY <1>3, <1>4
  <2> HIDE DEF n, grown
  <2>4. n + 1 = Len(list) => DOMAIN grown = Members(list)
    BY <1>1, <1>3, <1>5 DEF Members
  <2> QED
    BY <1>2, <1>3, <2>2, <2>3, <2>4 DEF n, grown, Grows
<1>7. CASE list[n + 1] \notin DOMAIN known
  <2>1. Cardinality(D) = n + 1
    BY <1>4, <1>7
  <2> HIDE DEF D, n, grown
  <2>2. Prefix(list, grown)
    BY <1>1, <1>3, <1>4, <1>5, <2>1 DEF Prefix
  <2>3. Cardinality(DOMAIN grown) \in {n, n + 1}
    BY <1>3, <2>1
  <2>4. n + 1 = Len(list) => DOMAIN grown = Members(list)
    BY <1>1, <1>3, <1>5 DEF Members
  <2> QED
    BY <1>2, <1>3, <2>2, <2>3, <2>4 DEF n, grown, D, Grows
<1> QED
  BY <1>6, <1>7

\* Every item has been taken.
LEMMA PrefixWhole ==
    ASSUME NEW T, NEW list \in Seq(T), NEW known, Prefix(list, known),
           Cardinality(DOMAIN known) = Len(list)
    PROVE  DOMAIN known = Members(list)
<1>1. DOMAIN list = 1 .. Len(list)
  OBVIOUS
<1> QED
  BY <1>1 DEF Prefix, Members

--------------------------------------------------------------------------------
(* A list of keys short enough is asked for whole, in one call.            *)

\* Removing duplicates loses no key.
LEMMA DedupeKeeps ==
    ASSUME NEW T, NEW keys \in Seq(T)
    PROVE  /\ DedupeKeys(keys) \in Seq(T)
           /\ Members(DedupeKeys(keys)) = Members(keys)
           /\ Len(DedupeKeys(keys)) <= Len(keys)
           /\ keys # <<>> => Len(DedupeKeys(keys)) > 0
<1> DEFINE kept == {i \in DOMAIN keys : \A j \in 1 .. (i - 1) : keys[j] # keys[i]}
           D == Filtered(keys, kept)
<1>1. kept \in SUBSET DOMAIN keys /\ DOMAIN keys = 1 .. Len(keys) /\ Len(keys) \in Nat
  OBVIOUS
<1>2. DedupeKeys(keys) = D
  BY DEF DedupeKeys
<1>3. \A i \in DOMAIN keys : \E k \in kept : keys[k] = keys[i]
  <2> SUFFICES ASSUME NEW i \in DOMAIN keys
               PROVE  \E k \in kept : keys[k] = keys[i]
    OBVIOUS
  <2> DEFINE same == {k \in DOMAIN keys : keys[k] = keys[i]}
             m == Min(same)
  <2>1. same \in SUBSET Nat /\ same # {}
    BY <1>1
  <2> HIDE DEF same
  <2>2. m \in same /\ \A x \in same : m <= x
    BY <2>1, LeastOf
  <2> HIDE DEF m
  <2>3. m \in DOMAIN keys /\ keys[m] = keys[i]
    BY <2>2 DEF same
  <2>4. \A j \in 1 .. (m - 1) : keys[j] # keys[m]
    <3> SUFFICES ASSUME NEW j \in 1 .. (m - 1), keys[j] = keys[m]
                 PROVE  FALSE
      OBVIOUS
    <3>1. j \in DOMAIN keys /\ j < m
      BY <1>1, <2>3
    <3>2. j \in same
      BY <2>3, <3>1 DEF same
    <3> QED
      BY <1>1, <2>2, <2>3, <3>1, <3>2
  <2> QED
    BY <2>3, <2>4
<1> HIDE DEF kept
<1>4. /\ D \in Seq({keys[i] : i \in kept})
      /\ Members(D) = {keys[i] : i \in kept}
      /\ Len(D) = Cardinality(kept)
  BY <1>1, FilteredKeeps
<1> HIDE DEF D
<1>5. Members(D) = Members(keys)
  BY <1>1, <1>3, <1>4 DEF Members
<1>6. D \in Seq(T)
  <2>1. \A k \in DOMAIN D : D[k] \in T
    BY <1>5 DEF Members
  <2>2. DOMAIN D = 1 .. Len(D) /\ Len(D) \in Nat /\ D = [k \in 1 .. Len(D) |-> D[k]]
    BY <1>4
  <2> QED
    BY <2>1, <2>2
<1>7. Cardinality(kept) <= Len(keys)
  <2>0. 1 \in Int /\ Len(keys) \in Int
    BY <1>1
  <2>2. /\ IsFiniteSet(1 .. Len(keys))
        /\ Cardinality(1 .. Len(keys)) = IF 1 > Len(keys) THEN 0 ELSE Len(keys) - 1 + 1
    BY <2>0, FS_Interval
  <2>1. IsFiniteSet(DOMAIN keys) /\ Cardinality(DOMAIN keys) = Len(keys)
    BY <1>1, <2>2
  <2> QED
    BY <1>1, <2>1, FS_Subset
<1>8. keys # <<>> => Len(D) > 0
  <2> SUFFICES ASSUME keys # <<>>, Len(D) = 0
               PROVE  FALSE
    BY <1>6
  <2>1. Members(D) = {}
    BY <1>6 DEF Members
  <2>2. 1 \in DOMAIN keys
    BY <1>1
  <2> QED
    BY <1>5, <2>1, <2>2 DEF Members
<1> QED
  BY <1>2, <1>4, <1>5, <1>6, <1>7, <1>8

\* Keys that fit in one call are one chunk.
LEMMA OneChunk ==
    ASSUME NEW T, NEW keys \in Seq(T), NEW size \in Nat, 0 < Len(keys), Len(keys) <= size
    PROVE  Len(ChunkKeys(keys, size)) = 1 /\ ChunkKeys(keys, size)[1] = keys
<1> DEFINE n == Len(keys) + size - 1
           q == n \div size
<1>1. n \in Int /\ size > 0 /\ Len(keys) \in Nat
  OBVIOUS
<1>2. q \in Int /\ size * q <= n /\ n < size * q + size
  BY <1>1, Quotient
<1>3. q = 1
  <2>1. n >= size /\ n < 2 * size
    OBVIOUS
  <2> HIDE DEF n, q
  <2>2. ~(q >= 2)
    <3> SUFFICES ASSUME q >= 2
                 PROVE  FALSE
      OBVIOUS
    <3>1. size * q >= 2 * size
      BY <1>1, <1>2
    <3> QED
      BY <1>1, <1>2, <2>1, <3>1
  <2>3. ~(q <= 0)
    <3> SUFFICES ASSUME q <= 0
                 PROVE  FALSE
      OBVIOUS
    <3>1. size * q <= 0
      BY <1>1, <1>2
    <3> QED
      BY <1>1, <1>2, <2>1, <3>1
  <2> QED
    BY <1>2, <2>2, <2>3
<1>4. ChunkKeys(keys, size) =
          [i \in 1 .. 1 |-> SubSeq(keys, (i - 1) * size + 1, MinOf(i * size, Len(keys)))]
  BY <1>3 DEF ChunkKeys
<1>5. MinOf(1 * size, Len(keys)) = Len(keys) /\ (1 - 1) * size + 1 = 1
  BY <1>1 DEF MinOf
<1>6. SubSeq(keys, 1, Len(keys)) = keys
  OBVIOUS
<1>7. ChunkKeys(keys, size) = <<keys>>
  <2>1. 1 .. 1 = {1}
    OBVIOUS
  <2>2. ChunkKeys(keys, size) = [i \in {1} |-> keys]
    BY <1>4, <1>5, <1>6, <2>1
  <2> QED
    BY <2>2
<1> QED
  BY <1>7

--------------------------------------------------------------------------------
(* Blend.                                                                  *)

\* Where a fetch may stand.
BlendPcs == {"instance", "list", "decimals", "grading", "entries", "base", "price", "admin",
             "ops", "finish", "done"}

\* The published row is what was computed from what was read.
BlendRowTrue ==
    /\ row.status = "ok"
    /\ row.factors["oracleSafety"][1] = B!OracleSafety
    /\ row.state = B!OperationalState(got.status)
    /\ row.stale = B!Stale
    /\ row.fetchedAt = now

\* The chain holds what it should.
BlendChain == DOMAIN chain = BlendParts /\ \A part \in BlendParts : BlendHolds(part, chain[part])

\* The types of what has been read.
BlendTyped ==
    /\ DOMAIN got = DOMAIN B!Blank
    /\ now \in Nat
    /\ got.list \in Seq(Assets)
    /\ got.maxAge \in Nat
    /\ \A i \in DOMAIN got.resolutions : got.resolutions[i] \in Nat
    /\ pc \in BlendPcs
    /\ pc \notin {"instance", "list", "done"} => got.list # <<>>

\* No row yet, a failed one, or a true one; only a failed fetch met a failed endpoint.
BlendOutcome ==
    \/ pc # "done" /\ row = Unpublished /\ got.transport = FALSE
    \/ pc = "done" /\ row = FailedRow
    \/ pc = "done" /\ BlendRowTrue /\ got.transport = FALSE

\* A transaction leaves a chain that holds what it should.
LEMMA BlendChainKept ==
    ASSUME BlendChain, NEW i \in DOMAIN BlendEdits, chain' = B!Edited(chain, BlendEdits[i])
    PROVE  BlendChain'
<1> DEFINE e == BlendEdits[i]
<1>1. e.part \in BlendParts /\ "key" \notin DOMAIN e /\ BlendHolds(e.part, e.to)
  BY ChainsAssumption DEF Sound
<1>2. chain' = [chain EXCEPT ![e.part] = e.to]
  BY <1>1 DEF B!Edited
<1> HIDE DEF e
<1>3. DOMAIN chain' = BlendParts
  BY <1>2 DEF BlendChain
<1>4. ASSUME NEW part \in BlendParts
      PROVE  BlendHolds(part, chain'[part])
  <2>1. chain'[part] = IF part = e.part THEN e.to ELSE chain[part]
    BY <1>1, <1>2 DEF BlendChain
  <2> QED
    BY <1>1, <2>1 DEF BlendChain
<1> QED
  BY <1>3, <1>4 DEF BlendChain

\* A fetch begins well.
LEMMA BlendTypedInit == B!Init /\ protocol = "blend" => BlendTyped /\ BlendChain /\ BlendOutcome
<1> SUFFICES ASSUME B!Init
             PROVE  BlendTyped /\ BlendChain /\ BlendOutcome
  OBVIOUS
<1>1. BlendTyped
  BY ReadPathAssumption DEF B!Init, B!Blank, BlendTyped, BlendPcs
<1>2. BlendChain
  BY ChainsAssumption DEF B!Init, Sound, BlendChain
<1>3. BlendOutcome
  BY DEF B!Init, B!Blank, B!Unpublished, Unpublished, BlendOutcome
<1> QED
  BY <1>1, <1>2, <1>3

\* Every read keeps the types.
LEMMA BlendTypedStep == BlendTyped /\ BlendChain /\ B!Next => BlendTyped'
<1> SUFFICES ASSUME BlendTyped, BlendChain, B!Next
             PROVE  BlendTyped'
  OBVIOUS
<1> USE DEF BlendTyped, BlendPcs, B!Learn
<1>1. CASE B!ReadInstance
  BY <1>1 DEF B!ReadInstance, B!Blank
<1>2. CASE B!ReadReserveList
  <2>1. chain["list"] \in Seq(Assets)
    BY DEF BlendChain, BlendParts, BlendHolds
  <2> QED
    BY <1>2, <2>1 DEF B!ReadReserveList, B!Throw, B!Blank
<1>3. CASE B!ReadDecimals
  BY <1>3 DEF B!ReadDecimals
<1>4. CASE B!ReadGrading
  <2>1. chain.maxAge \in Nat /\ \A i \in DOMAIN chain.resolutions : chain.resolutions[i] \in Nat
    BY DEF BlendChain, BlendParts, BlendHolds
  <2> QED
    BY <1>4, <2>1 DEF B!ReadGrading, B!Throw, B!Blank
<1>5. CASE B!ReadEntries
  BY <1>5 DEF B!ReadEntries, B!ReadChunk, B!Blank
<1>6. CASE B!ReadOracleConfig
  BY <1>6 DEF B!ReadOracleConfig, B!Throw, B!Blank
<1>7. CASE B!ReadPrice
  BY <1>7 DEF B!ReadPrice, B!Throw, B!Blank
<1>8. CASE B!ReadAdmin \/ B!ReadOps
  BY <1>8 DEF B!ReadAdmin, B!ReadOps, B!Blank
<1>9. CASE B!ReadFails
  BY <1>9 DEF B!ReadFails, B!ThrowFor, B!Blank
<1>10. CASE B!Finish
  BY <1>10 DEF B!Finish, B!Publish
<1>11. CASE B!Tick
  BY <1>11 DEF B!Tick
<1>12. CASE B!TransactionLands
  BY <1>12 DEF B!TransactionLands, B!ChainMoves
<1>13. CASE B!Finished
  BY <1>13 DEF B!Finished, B!readVars
<1> QED
  BY <1>1, <1>2, <1>3, <1>4, <1>5, <1>6, <1>7, <1>8, <1>9, <1>10, <1>11, <1>12, <1>13 DEF B!Next

\* The scores are of what was read and of the time, and of nothing else.
LEMMA BlendScoresKept ==
    ASSUME got' = got, now' = now
    PROVE  B!OracleSafety' = B!OracleSafety /\ B!Stale' = B!Stale
<1>1. B!Graded' = B!Graded
  BY DEF B!Graded, B!Listed
<1>2. ASSUME NEW a
      PROVE  /\ B!PriceFreshness(a, now)' = B!PriceFreshness(a, now)
             /\ B!Bounded(a)' = B!Bounded(a)
             /\ B!Age(a, now)' = B!Age(a, now)
  BY DEF B!PriceFreshness, B!Bounded, B!Age, B!Resolution, B!FeedOf
<1>3. B!Stale' = B!Stale
  BY <1>1, <1>2 DEF B!Stale, B!FetchedAt, B!Age
<1>4. B!OracleSafety' = B!OracleSafety
  BY <1>1, <1>2 DEF B!OracleSafety, B!FetchedAt, B!PriceFreshness, B!Bounded,
                   B!Resolution, B!FeedOf, B!Age
<1> QED
  BY <1>3, <1>4

\* A row is published once, and stays.
LEMMA BlendOutcomeStep == BlendTyped /\ BlendOutcome /\ B!Next => BlendOutcome'
<1> SUFFICES ASSUME BlendTyped, BlendOutcome, B!Next
             PROVE  BlendOutcome'
  OBVIOUS
<1>0. DOMAIN got = DOMAIN B!Blank
  BY DEF BlendTyped
<1> USE DEF B!Learn, B!Throw, B!FailedRow, FailedRow, Unpublished
<1>1. CASE B!ReadInstance
  BY <1>0, <1>1 DEF BlendOutcome, B!ReadInstance, B!Blank
<1>2. CASE B!ReadReserveList
  BY <1>0, <1>2 DEF BlendOutcome, B!ReadReserveList, B!Blank
<1>3. CASE B!ReadDecimals
  BY <1>3 DEF BlendOutcome, B!ReadDecimals
<1>4. CASE B!ReadGrading
  BY <1>0, <1>4 DEF BlendOutcome, B!ReadGrading, B!Blank
<1>5. CASE B!ReadEntries
  BY <1>0, <1>5 DEF BlendOutcome, B!ReadEntries, B!ReadChunk, B!Blank
<1>6. CASE B!ReadOracleConfig
  BY <1>0, <1>6 DEF BlendOutcome, B!ReadOracleConfig, B!Blank
<1>7. CASE B!ReadPrice
  BY <1>0, <1>7 DEF BlendOutcome, B!ReadPrice, B!Blank
<1>8. CASE B!ReadAdmin \/ B!ReadOps
  BY <1>0, <1>8 DEF BlendOutcome, B!ReadAdmin, B!ReadOps, B!Blank
<1>9. CASE B!ReadFails
  BY <1>9 DEF BlendOutcome, B!ReadFails, B!ThrowFor
<1>10. CASE B!Finish
  <2>1. /\ pc = "finish" /\ pc' = "done" /\ got' = got /\ now' = now
        /\ row'.status = "ok"
        /\ row'.factors["oracleSafety"] = <<B!OracleSafety>>
        /\ row'.state = B!OperationalState(got.status)
        /\ row'.stale = B!Stale
        /\ row'.fetchedAt = now
    BY <1>10 DEF B!Finish, B!Publish, B!RiskFactors, B!FetchedAt
  <2>2. B!OracleSafety' = B!OracleSafety /\ B!Stale' = B!Stale
    BY <2>1, BlendScoresKept
  <2>3. B!OperationalState(got.status)' = B!OperationalState(got.status)
    BY <2>1 DEF B!OperationalState
  <2>4. BlendRowTrue'
    BY <2>1, <2>2, <2>3 DEF BlendRowTrue
  <2> QED
    BY <2>1, <2>4 DEF BlendOutcome
<1>11. CASE B!Tick
  BY <1>11 DEF B!Tick, BlendOutcome, BlendRowTrue
<1>12. CASE B!TransactionLands
  BY <1>12 DEF B!TransactionLands, B!ChainMoves, BlendOutcome, BlendRowTrue
<1>13. CASE UNCHANGED readVars
  <2>1. got' = got /\ now' = now /\ pc' = pc /\ row' = row
    BY <1>13 DEF readVars
  <2>2. BlendRowTrue => BlendRowTrue'
    BY <2>1, BlendScoresKept DEF BlendRowTrue, B!OperationalState
  <2> QED
    BY <2>1, <2>2 DEF BlendOutcome
<1> QED
  BY <1>1, <1>2, <1>3, <1>4, <1>5, <1>6, <1>7, <1>8, <1>9, <1>10, <1>11, <1>12, <1>13
  DEF B!Next, B!Finished, B!readVars, readVars

\* Only a transaction changes the chain.
LEMMA BlendChainStep == BlendChain /\ B!Next => BlendChain'
<1> SUFFICES ASSUME BlendChain, B!Next
             PROVE  BlendChain'
  OBVIOUS
<1>1. CASE chain' = chain
  BY <1>1 DEF BlendChain
<1>2. CASE B!TransactionLands
  BY <1>2, BlendChainKept DEF B!TransactionLands, B!ChainMoves
<1> QED
  BY <1>1, <1>2 DEF B!Next, B!Learn, B!Throw, B!ThrowFor, B!Publish, B!ReadInstance,
     B!ReadReserveList, B!ReadDecimals, B!ReadGrading, B!ReadEntries, B!ReadChunk,
     B!ReadOracleConfig, B!ReadPrice, B!ReadAdmin, B!ReadOps, B!ReadFails, B!Finish, B!Tick,
     B!Finished, B!readVars

\* Before a price is read, and once all of them have been.
BeforePrices == {"instance", "list", "decimals", "grading", "entries", "base"}

BlendWhole == pc \in {"admin", "ops", "finish"} \/ row.status = "ok"

\* The prices are those of the first reserves, each read at a time that has passed.
BlendPrices ==
    /\ Prefix(got.list, got.price)
    /\ DOMAIN got.readAt = DOMAIN got.price
    /\ \A a \in DOMAIN got.price : got.price[a] = <<>> \/ got.price[a][1].at \in Nat
    /\ \A a \in DOMAIN got.price : got.readAt[a] \in Nat /\ got.readAt[a] <= now
    /\ pc \in BeforePrices => DOMAIN got.price = {}
    /\ pc = "price" => Cardinality(DOMAIN got.price) < Len(got.list)
    /\ BlendWhole => DOMAIN got.price = Members(got.list)

\* The adapter's own copy of Cardinality is Cardinality.
LEMMA BlendCounts == \A S : B!Cardinality(S) = Cardinality(S)
BY Zenon DEF B!Cardinality, Cardinality

\* No price has been read.
LEMMA BlendPricesInit == B!Init => BlendPrices
<1> SUFFICES ASSUME B!Init
             PROVE  BlendPrices
  OBVIOUS
<1>1. /\ DOMAIN got.price = {} /\ DOMAIN got.readAt = {}
      /\ got.list = <<>> /\ pc = "instance" /\ row.status = "none"
  BY DEF B!Init, B!Blank, B!Unpublished
<1>2. <<>> \in Seq(Assets)
  OBVIOUS
<1>3. Prefix(got.list, got.price)
  BY <1>1, <1>2, PrefixNone
<1> QED
  BY <1>1, <1>3 DEF BlendPrices, BlendWhole

\* Prices are read one after another, in the order of the list.
LEMMA BlendPricesStep ==
    BlendTyped /\ BlendChain /\ BlendOutcome /\ BlendPrices /\ B!Next => BlendPrices'
<1> SUFFICES ASSUME BlendTyped, BlendChain, BlendOutcome, BlendPrices, B!Next
             PROVE  BlendPrices'
  OBVIOUS
<1>0. DOMAIN got = DOMAIN B!Blank /\ got.list \in Seq(Assets) /\ now \in Nat
      /\ (pc \notin {"instance", "list", "done"} => got.list # <<>>)
  BY DEF BlendTyped
<1>a. ASSUME got'.list = got.list, got'.price = got.price, got'.readAt = got.readAt,
             row'.status = "ok" => BlendWhole,
             now' \in Nat, now <= now',
             pc' \in BeforePrices => pc \in BeforePrices,
             pc' = "price" => pc = "price" \/ (pc \in BeforePrices /\ got.list # <<>>),
             pc' \in {"admin", "ops", "finish"} => BlendWhole
      PROVE  BlendPrices'
  <2>1. Prefix(got.list, got.price)'
    BY <1>a DEF BlendPrices, Prefix
  <2>2. BlendWhole' => DOMAIN got'.price = Members(got'.list)
    BY <1>a DEF BlendPrices, BlendWhole
  <2>3. pc' = "price" => Cardinality(DOMAIN got.price)' < Len(got.list)'
    <3>1. DOMAIN got.price = {} => Cardinality(DOMAIN got.price) = 0
      BY FS_EmptySet
    <3>2. got.list # <<>> => Len(got.list) > 0
      BY <1>0
    <3> QED
      BY <1>a, <3>1, <3>2 DEF BlendPrices
  <2>4. \A a \in DOMAIN got'.price : got'.readAt[a] \in Nat /\ got'.readAt[a] <= now'
    BY <1>0, <1>a DEF BlendPrices
  <2> QED
    BY <1>a, <2>1, <2>2, <2>3, <2>4 DEF BlendPrices
<1> USE DEF B!Learn, B!Throw, B!FailedRow
<1>b. row.status = "ok" => BlendWhole
  BY DEF BlendWhole
<1>c. pc # "done" => row.status = "none"
  BY DEF BlendOutcome, Unpublished, FailedRow
<1>1. CASE B!ReadInstance
  BY <1>0, <1>1, <1>a, <1>b DEF B!ReadInstance, B!Blank, BeforePrices
<1>2. CASE B!ReadReserveList
  <2>1. CASE UNCHANGED got
    BY <1>0, <1>2, <1>a, <1>b, <2>1 DEF B!ReadReserveList, BeforePrices
  <2>2. CASE got' = [got EXCEPT !.list = chain.list] /\ pc' = "decimals" /\ UNCHANGED row
    <3>1. got'.list \in Seq(Assets)
      BY <1>0, <2>2 DEF BlendChain, BlendHolds, BlendParts, B!Blank
    <3>2. DOMAIN got'.price = {} /\ DOMAIN got'.readAt = {} /\ pc = "list"
      BY <1>0, <1>2, <2>2 DEF B!ReadReserveList, BlendPrices, BeforePrices, B!Blank
    <3>3. Prefix(got.list, got.price)'
      BY <3>1, <3>2, PrefixNone
    <3>4. row'.status = "none"
      BY <1>c, <2>2, <3>2
    <3> QED
      BY <2>2, <3>2, <3>3, <3>4 DEF BlendPrices, BlendWhole
  <2> QED
    BY <1>2, <2>1, <2>2 DEF B!ReadReserveList
<1>3. CASE B!ReadDecimals
  BY <1>0, <1>3, <1>a, <1>b DEF B!ReadDecimals, BeforePrices
<1>4. CASE B!ReadGrading
  <2>1. got'.list = got.list /\ got'.price = got.price /\ got'.readAt = got.readAt
    BY <1>0, <1>4 DEF B!ReadGrading, B!Blank
  <2>2. pc = "grading" /\ pc' \in {"grading", "entries", "done"} /\ now' = now
    BY <1>4 DEF B!ReadGrading
  <2>3. row'.status \in {row.status, "failed"}
    BY <1>4 DEF B!ReadGrading
  <2> QED
    BY <1>0, <1>a, <1>b, <2>1, <2>2, <2>3 DEF BeforePrices
<1>5. CASE B!ReadEntries
  BY <1>0, <1>5, <1>a, <1>b DEF B!ReadEntries, B!ReadChunk, B!Blank, BeforePrices
<1>6. CASE B!ReadOracleConfig
  BY <1>0, <1>6, <1>a, <1>b DEF B!ReadOracleConfig, B!Blank, BeforePrices
<1>7. CASE B!ReadPrice
  <2> DEFINE n == Cardinality(DOMAIN got.price)
             asset == got.list[n + 1]
  <2>0. pc = "price" /\ n < Len(got.list) /\ Prefix(got.list, got.price)
    BY <1>7 DEF B!ReadPrice, BlendPrices
  <2>1. CASE B!Throw
    BY <1>0, <1>a, <1>b, <2>0, <2>1 DEF BeforePrices
  <2>2. CASE /\ got' = [got EXCEPT !.price = B!Mapped(@, asset, chain.price[asset]),
                                   !.readAt = B!Mapped(@, asset, now)]
             /\ pc' = IF n + 1 < Len(got.list) THEN "price"
                      ELSE IF B!IsAccount(got.admin) THEN "admin" ELSE "finish"
             /\ UNCHANGED <<chain, now, changes, seen, row>>
    <3> DEFINE grown == Mapped(got.price, asset, chain.price[asset])
               timed == Mapped(got.readAt, asset, now)
    <3>1. got'.price = grown /\ got'.readAt = timed /\ got'.list = got.list
      BY <1>0, <2>2 DEF B!Mapped, Mapped, B!Blank
    <3>2. /\ asset \in Assets
          /\ DOMAIN grown = DOMAIN got.price \cup {asset}
          /\ Prefix(got.list, grown)
          /\ Cardinality(DOMAIN grown) \in {n, n + 1}
          /\ n + 1 = Len(got.list) => DOMAIN grown = Members(got.list)
      <4>1. Grows(Assets, got.list, got.price, grown)
        BY <1>0, <2>0, PrefixGrows
      <4> HIDE DEF grown
      <4> QED
        BY <4>1 DEF Grows
    <3>3. n \in Nat /\ Len(got.list) \in Nat
      BY <1>0, <2>0, FS_CardinalityType DEF Prefix
    <3>4. chain.price[asset] = <<>> \/ chain.price[asset][1].at \in Nat
      BY <3>2 DEF BlendChain, BlendParts, BlendHolds, PricesHeld
    <3>5. DOMAIN timed = DOMAIN grown
      BY <3>2 DEF Mapped, BlendPrices
    <3>6. \A a \in DOMAIN grown : grown[a] = <<>> \/ grown[a][1].at \in Nat
      BY <3>2, <3>4 DEF BlendPrices, Mapped
    <3>7. \A a \in DOMAIN grown : timed[a] \in Nat /\ timed[a] <= now
      BY <1>0, <3>2 DEF BlendPrices, Mapped
    <3>8. row'.status = "none"
      BY <1>c, <2>0, <2>2
    <3> HIDE DEF grown, timed, n
    <3>9. Prefix(got.list, got.price)'
      BY <3>1, <3>2 DEF Prefix
    <3>10. pc' = "price" => Cardinality(DOMAIN grown) < Len(got.list)
      BY <2>2, <3>2, <3>3
    <3>11. pc' # "price" => n + 1 = Len(got.list)
      BY <2>0, <2>2, <3>3
    <3>12. now' = now /\ pc' \in {"price", "admin", "finish"}
      BY <2>2
    <3> QED
      BY <3>1, <3>2, <3>5, <3>6, <3>7, <3>8, <3>9, <3>10, <3>11, <3>12
      DEF BlendPrices, BlendWhole, BeforePrices
  <2> QED
    BY <1>7, <2>1, <2>2, BlendCounts DEF B!ReadPrice, B!LastPrice
<1>8. CASE B!ReadAdmin \/ B!ReadOps
  BY <1>0, <1>8, <1>a, <1>b DEF B!ReadAdmin, B!ReadOps, B!Blank, BeforePrices, BlendWhole
<1>9. CASE B!ReadFails
  BY <1>0, <1>9, <1>a, <1>b DEF B!ReadFails, B!ThrowFor, B!Blank, BeforePrices
<1>10. CASE B!Finish
  BY <1>0, <1>10, <1>a DEF B!Finish, B!Publish, BeforePrices, BlendWhole
<1>11. CASE B!Tick
  BY <1>0, <1>11, <1>a, <1>b DEF B!Tick, BlendWhole
<1>12. CASE B!TransactionLands
  BY <1>0, <1>12, <1>a, <1>b DEF B!TransactionLands, B!ChainMoves, BlendWhole
<1>13. CASE B!Finished
  BY <1>0, <1>13, <1>a, <1>b DEF B!Finished, B!readVars, BlendWhole
<1> QED
  BY <1>1, <1>2, <1>3, <1>4, <1>5, <1>6, <1>7, <1>8, <1>9, <1>10, <1>11, <1>12, <1>13 DEF B!Next

\* The adapter's own copy of the rulebook is the rulebook.
LEMMA BlendArithmetic ==
    /\ \A age, w : B!Freshness(age, w) = Freshness(age, w)
    /\ \A r, m : B!FreshnessWindow(r, m) = FreshnessWindow(r, m)
    /\ \A s : B!WorstScore(s) = WorstScore(s)
    /\ \A x, y : B!MinOf(x, y) = MinOf(x, y) /\ B!MaxOf(x, y) = MaxOf(x, y)
    /\ \A s : B!ToSet(s) = Members(s)
BY DEF B!Freshness, Freshness, B!FreshnessWindow, FreshnessWindow, B!WorstScore, WorstScore,
   B!MinOf, MinOf, B!MaxOf, MaxOf, B!Clamp, Clamp, B!RoundDiv, RoundDiv, B!Min, Min, B!ToSet,
   Members

\* How fresh a graded price is: a score, and no higher the later it is looked at.
LEMMA BlendFreshness ==
    ASSUME BlendTyped, BlendPrices, NEW a \in DOMAIN got.price
    PROVE  /\ B!Resolution(a) \in Nat
           /\ \A at \in Nat :
                 /\ B!PriceFreshness(a, at) \in 0 .. 100
                 /\ got.price[a] # <<>> => B!Age(a, at) \in Nat
           /\ \A first \in Nat, last \in Nat : first <= last =>
                 B!PriceFreshness(a, last) <= B!PriceFreshness(a, first)
           /\ \A at \in Nat : got.price[a] # <<>> /\ B!Age(a, at) > got.maxAge =>
                 \/ B!PriceFreshness(a, at) = 0
                 \/ B!Resolution(a) >= MinOf(got.maxAge, StaleCeiling)
<1> DEFINE w == FreshnessWindow(B!Resolution(a), got.maxAge)
           taken == got.price[a][1].at
<1>1. B!Resolution(a) \in Nat
  BY DEF BlendTyped, B!Resolution
<1>2. CASE got.price[a] = <<>>
  <2>1. \A at \in Nat : B!PriceFreshness(a, at) = 0
    BY <1>2 DEF B!PriceFreshness
  <2> QED
    BY <1>1, <1>2, <2>1
<1>3. CASE got.price[a] # <<>>
  <2>1. taken \in Nat /\ got.maxAge \in Nat
    BY <1>3 DEF BlendPrices, BlendTyped
  <2>2. Window(w) /\ (\/ w.dead <= got.maxAge \/ got.maxAge = 0
                      \/ B!Resolution(a) >= MinOf(got.maxAge, StaleCeiling))
    BY <1>1, <2>1, WindowEnds
  <2>3. w.dead \in Int
    BY <2>2 DEF Window
  <2> HIDE DEF w
  <2>4. \A at \in Nat : /\ B!PriceFreshness(a, at) = Freshness(B!Age(a, at), w)
                        /\ B!Age(a, at) = MaxOf(0, at - taken)
    BY <1>3, BlendArithmetic DEF B!PriceFreshness, B!Age, w
  <2> HIDE DEF taken
  <2>5. \A at \in Nat : MaxOf(0, at - taken) \in Nat
    BY <2>1 DEF MaxOf
  <2>6. \A at \in Nat : /\ B!Age(a, at) \in Nat
                        /\ B!PriceFreshness(a, at) \in 0 .. 100
    BY <2>2, <2>4, <2>5, FreshnessRange
  <2>7. ASSUME NEW first \in Nat, NEW last \in Nat, first <= last
        PROVE  B!PriceFreshness(a, last) <= B!PriceFreshness(a, first)
    <3>1. MaxOf(0, first - taken) <= MaxOf(0, last - taken)
      BY <2>1, <2>7 DEF MaxOf
    <3> QED
      BY <2>2, <2>4, <2>5, <3>1, FreshnessFades
  <2>8. ASSUME NEW at \in Nat, B!Age(a, at) > got.maxAge
        PROVE  \/ B!PriceFreshness(a, at) = 0
               \/ B!Resolution(a) >= MinOf(got.maxAge, StaleCeiling)
    <3>1. CASE w.dead <= got.maxAge
      <4>1. B!Age(a, at) > w.dead
        BY <2>1, <2>3, <2>6, <2>8, <3>1
      <4> QED
        BY <2>2, <2>4, <2>6, <4>1, FreshnessRange
    <3>2. CASE got.maxAge = 0
      BY <1>1, <3>2, StaleCeilingAssumption DEF MinOf
    <3> QED
      BY <2>2, <3>1, <3>2
  <2> QED
    BY <1>1, <2>6, <2>7, <2>8
<1> QED
  BY <1>2, <1>3

\* The oracle's factor is a score, and no better than any price that counts.
LEMMA BlendWorst ==
    ASSUME BlendTyped, BlendPrices, DOMAIN got.price = Members(got.list)
    PROVE  /\ B!OracleSafety \in 0 .. 100
           /\ \A a \in B!Graded : /\ a \in DOMAIN got.price
                                  /\ B!OracleSafety <= B!PriceFreshness(a, now)
<1> DEFINE left == {B!PriceFreshness(a, now) : a \in B!Graded}
           right == {IF B!Bounded(a) THEN 100 ELSE 0 : a \in B!Graded}
<1>1. \A a \in B!Graded : a \in DOMAIN got.price
  BY BlendArithmetic DEF B!Graded, B!Listed
<1>2. left \in SUBSET (0 .. 100)
  <2>1. \A a \in B!Graded : B!PriceFreshness(a, now) \in 0 .. 100
    BY <1>1, BlendFreshness DEF BlendTyped
  <2> QED
    BY <2>1
<1>3. right \in SUBSET (0 .. 100)
  OBVIOUS
<1>4. B!OracleSafety = MinOf(WorstScore(left), WorstScore(right))
  BY BlendArithmetic DEF B!OracleSafety, B!FetchedAt
<1>5. \A a \in B!Graded : B!PriceFreshness(a, now) \in left \cup right
  OBVIOUS
<1> HIDE DEF left, right
<1>6. /\ B!OracleSafety \in 0 .. 100
      /\ \A s \in left \cup right : B!OracleSafety <= s
  BY <1>2, <1>3, <1>4, WorstOfBoth
<1> QED
  BY <1>1, <1>5, <1>6

\* What the properties say of a Blend row follows from what it was made of.
LEMMA BlendRowSays ==
    ASSUME BlendTyped, BlendOutcome, BlendPrices, Published
    PROVE  /\ ~got.transport
           /\ (\E a \in B!Graded : got.price[a] = <<>>) => Factor("oracleSafety") = 0
           /\ \A a \in B!Graded : Factor("oracleSafety") <= B!PriceFreshness(a, got.readAt[a])
           /\ \A a \in B!Graded :
                 /\ got.price[a] = <<>> => a \in row.stale
                 /\ a \in row.stale => \/ B!PriceFreshness(a, row.fetchedAt) = 0
                                       \/ B!Resolution(a) >= MinOf(got.maxAge, StaleCeiling)
<1>1. BlendRowTrue /\ got.transport = FALSE
  BY DEF BlendOutcome, Published, FailedRow, Unpublished
<1>2. DOMAIN got.price = Members(got.list)
  BY DEF BlendPrices, BlendWhole, Published
<1>3. Factor("oracleSafety") = B!OracleSafety /\ row.stale = B!Stale /\ row.fetchedAt = now
  BY <1>1 DEF BlendRowTrue, Factor
<1>4. /\ B!OracleSafety \in 0 .. 100
      /\ \A a \in B!Graded : a \in DOMAIN got.price /\ B!OracleSafety <= B!PriceFreshness(a, now)
  BY <1>2, BlendWorst
<1>5. now \in Nat
  BY DEF BlendTyped
<1>6. ASSUME NEW a \in B!Graded, got.price[a] = <<>>
      PROVE  Factor("oracleSafety") = 0
  <2>1. B!PriceFreshness(a, now) = 0
    BY <1>6 DEF B!PriceFreshness
  <2>2. B!OracleSafety <= 0
    BY <1>4, <2>1
  <2> QED
    BY <1>3, <1>4, <2>2
<1>7. ASSUME NEW a \in B!Graded
      PROVE  Factor("oracleSafety") <= B!PriceFreshness(a, got.readAt[a])
  <2>1. a \in DOMAIN got.price /\ got.readAt[a] \in Nat /\ got.readAt[a] <= now
    BY <1>4 DEF BlendPrices
  <2>2. /\ B!PriceFreshness(a, now) <= B!PriceFreshness(a, got.readAt[a])
        /\ B!PriceFreshness(a, now) \in 0 .. 100
        /\ B!PriceFreshness(a, got.readAt[a]) \in 0 .. 100
    BY <1>5, <2>1, BlendFreshness
  <2>3. B!OracleSafety <= B!PriceFreshness(a, now)
    BY <1>4
  <2> QED
    BY <1>3, <1>4, <2>2, <2>3
<1>8. ASSUME NEW a \in B!Graded
      PROVE  /\ got.price[a] = <<>> => a \in row.stale
             /\ a \in row.stale => \/ B!PriceFreshness(a, row.fetchedAt) = 0
                                   \/ B!Resolution(a) >= MinOf(got.maxAge, StaleCeiling)
  <2>1. a \in B!Stale <=> got.price[a] = <<>> \/ B!Age(a, now) > got.maxAge
    BY DEF B!Stale, B!StaleReserves, B!FetchedAt
  <2>2. got.price[a] = <<>> => B!PriceFreshness(a, now) = 0
    BY DEF B!PriceFreshness
  <2>3. a \in DOMAIN got.price
    BY <1>4
  <2>4. got.price[a] # <<>> /\ B!Age(a, now) > got.maxAge =>
           \/ B!PriceFreshness(a, now) = 0
           \/ B!Resolution(a) >= MinOf(got.maxAge, StaleCeiling)
    BY <1>5, <2>3, BlendFreshness
  <2> QED
    BY <1>3, <2>1, <2>2, <2>4
<1> QED
  BY <1>1, <1>6, <1>7, <1>8

\* The two entries of a reserve are of one revision, when both are there.
OneLedger(a) ==
    B!Missing(a) \/ got.entries[<<"config", a>>][1].rev = got.entries[<<"data", a>>][1].rev

\* Once the entries have been read in one call, each reserve is of one ledger.
BlendHeld ==
    /\ pc \in {"instance", "list", "decimals", "grading"} => got.entries = <<>> /\ got.chunk = 1
    /\ Len(B!Keys) <= KeysPerCall =>
          /\ pc = "entries" => got.entries = <<>> /\ got.chunk = 1
          /\ pc \in {"base", "price"} \/ BlendWhole => \A a \in Members(got.list) : OneLedger(a)
    /\ \A a \in DOMAIN got.price : ~B!Missing(a)

\* The adapter's own copies of the splitting of keys.
LEMMA BlendSplits ==
    /\ \A keys : B!DedupeKeys(keys) = DedupeKeys(keys)
    /\ \A keys, size : B!ChunkKeys(keys, size) = ChunkKeys(keys, size)
<1>1. \A keys, kept : B!Filtered(keys, kept) = Filtered(keys, kept)
  BY Zenon DEF B!Filtered, Filtered, B!Cardinality, Cardinality
<1>2. \A keys : B!DedupeKeys(keys) = DedupeKeys(keys)
  BY <1>1 DEF B!DedupeKeys, DedupeKeys
<1>3. \A keys, size : B!ChunkKeys(keys, size) = ChunkKeys(keys, size)
  BY DEF B!ChunkKeys, ChunkKeys, B!MinOf, MinOf
<1> QED
  BY <1>2, <1>3

\* Every reserve is asked for twice.
LEMMA BlendKeys ==
    ASSUME got.list \in Seq(Assets)
    PROVE  /\ B!Keys \in Seq({B!Keys[i] : i \in DOMAIN B!Keys})
           /\ Len(B!Keys) > 0 /\ B!Keys # <<>>
           /\ \A a \in Members(got.list) :
                 <<"config", a>> \in Members(B!Keys) /\ <<"data", a>> \in Members(B!Keys)
<1> DEFINE n == Len(got.list)
<1>1. n \in Nat /\ DOMAIN got.list = 1 .. n
  OBVIOUS
<1>2. B!Keys = [i \in 1 .. (2 * n + 1) |->
                   IF i = 1 THEN <<"instance">>
                   ELSE <<IF i % 2 = 0 THEN "config" ELSE "data", got.list[i \div 2]>>]
  BY DEF B!Keys
<1> HIDE DEF n
<1>3. DOMAIN B!Keys = 1 .. (2 * n + 1) /\ 2 * n + 1 \in Nat
  BY <1>1, <1>2
<1>4. B!Keys \in Seq({B!Keys[i] : i \in DOMAIN B!Keys}) /\ Len(B!Keys) = 2 * n + 1
  <2> DEFINE m == 2 * n + 1
             T == {B!Keys[i] : i \in DOMAIN B!Keys}
  <2>1. B!Keys = [i \in 1 .. m |-> B!Keys[i]]
    BY <1>2
  <2>2. \A i \in 1 .. m : B!Keys[i] \in T
    BY <1>3
  <2> HIDE DEF T, m
  <2>3. m \in Nat
    BY <1>3 DEF m
  <2>4. B!Keys \in Seq(T) /\ Len(B!Keys) = m
    BY <2>1, <2>2, <2>3
  <2> QED
    BY <2>4 DEF T, m
<1>5. ASSUME NEW a \in Members(got.list)
      PROVE  <<"config", a>> \in Members(B!Keys) /\ <<"data", a>> \in Members(B!Keys)
  <2>1. PICK j \in 1 .. n : a = got.list[j]
    BY <1>1 DEF Members
  <2>2. 2 * j \in 1 .. (2 * n + 1) /\ 2 * j + 1 \in 1 .. (2 * n + 1)
    BY <1>1
  <2>3. /\ 2 * j # 1 /\ (2 * j) % 2 = 0 /\ (2 * j) \div 2 = j
        /\ 2 * j + 1 # 1 /\ (2 * j + 1) % 2 # 0 /\ (2 * j + 1) \div 2 = j
    BY Z3
  <2>4. B!Keys[2 * j] = <<"config", a>> /\ B!Keys[2 * j + 1] = <<"data", a>>
    BY <1>2, <2>1, <2>2, <2>3
  <2> QED
    BY <1>3, <2>2, <2>4 DEF Members
<1> QED
  BY <1>1, <1>4, <1>5

\* No entry has been read.
LEMMA BlendHeldInit == B!Init => BlendHeld
<1> SUFFICES ASSUME B!Init
             PROVE  BlendHeld
  OBVIOUS
<1>1. /\ DOMAIN got.price = {} /\ got.entries = <<>> /\ got.chunk = 1
      /\ got.list = <<>> /\ pc = "instance" /\ row.status = "none"
  BY DEF B!Init, B!Blank, B!Unpublished
<1> QED
  BY <1>1 DEF BlendHeld, BlendWhole

\* The entries come in one answer, and a missing one stops the prices.
LEMMA BlendHeldStep ==
    BlendTyped /\ BlendChain /\ BlendOutcome /\ BlendPrices /\ BlendHeld /\ B!Next => BlendHeld'
<1> SUFFICES ASSUME BlendTyped, BlendChain, BlendOutcome, BlendPrices, BlendHeld, B!Next
             PROVE  BlendHeld'
  OBVIOUS
<1>0. DOMAIN got = DOMAIN B!Blank /\ got.list \in Seq(Assets)
  BY DEF BlendTyped
<1>a. ASSUME got'.list = got.list, got'.entries = got.entries, got'.chunk = got.chunk,
             \A a \in DOMAIN got'.price : a \in DOMAIN got.price \/ ~B!Missing(a),
             row'.status = "ok" => BlendWhole \/ pc \in {"base", "price"},
             pc' \in {"instance", "list", "decimals", "grading", "entries"} =>
                 pc \in {"instance", "list", "decimals", "grading"} \/ pc' = pc,
             pc' \in {"instance", "list", "decimals", "grading"} =>
                 pc \in {"instance", "list", "decimals", "grading"},
             pc' \in {"base", "price", "admin", "ops", "finish"} =>
                 BlendWhole \/ pc \in {"base", "price"}
      PROVE  BlendHeld'
  <2>1. B!Keys' = B!Keys
    BY <1>a DEF B!Keys
  <2>2. \A a : B!Missing(a)' = B!Missing(a) /\ OneLedger(a)' = OneLedger(a)
    BY <1>a DEF OneLedger, B!Missing
  <2>3. BlendWhole' => BlendWhole \/ pc \in {"base", "price"}
    BY <1>a DEF BlendWhole
  <2> QED
    BY <1>a, <2>1, <2>2, <2>3 DEF BlendHeld
<1>b. row.status = "ok" => BlendWhole
  BY DEF BlendWhole
<1>c. pc # "done" => row.status = "none"
  BY DEF BlendOutcome, Unpublished, FailedRow
<1> USE DEF B!Learn, B!Throw, B!FailedRow
<1>1. CASE B!ReadInstance
  BY <1>0, <1>1, <1>a, <1>b DEF B!ReadInstance, B!Blank
<1>2. CASE B!ReadReserveList
  <2>1. CASE UNCHANGED got
    BY <1>0, <1>2, <1>a, <1>b, <2>1 DEF B!ReadReserveList
  <2>2. CASE got' = [got EXCEPT !.list = chain.list] /\ pc' = "decimals" /\ UNCHANGED row
    <3>1. DOMAIN got'.price = {} /\ pc = "list"
      BY <1>0, <1>2, <2>2 DEF B!ReadReserveList, BlendPrices, BeforePrices, B!Blank
    <3>2. got'.entries = <<>> /\ got'.chunk = 1
      BY <1>0, <2>2, <3>1 DEF BlendHeld, B!Blank
    <3>3. row'.status = "none"
      BY <1>c, <2>2, <3>1
    <3> QED
      BY <2>2, <3>1, <3>2, <3>3 DEF BlendHeld, BlendWhole
  <2> QED
    BY <1>2, <2>1, <2>2 DEF B!ReadReserveList
<1>3. CASE B!ReadDecimals
  BY <1>0, <1>3, <1>a, <1>b DEF B!ReadDecimals
<1>4. CASE B!ReadGrading
  <2>1. /\ got'.list = got.list /\ got'.price = got.price
        /\ got'.entries = got.entries /\ got'.chunk = got.chunk
    BY <1>0, <1>4 DEF B!ReadGrading, B!Blank
  <2>2. pc = "grading" /\ pc' \in {"grading", "entries", "done"}
    BY <1>4 DEF B!ReadGrading
  <2>3. row'.status \in {row.status, "failed"}
    BY <1>4 DEF B!ReadGrading
  <2> QED
    BY <1>a, <1>b, <2>1, <2>2, <2>3
<1>5. CASE B!ReadEntries
  <2> DEFINE chunks == B!ChunkKeys(B!DedupeKeys(B!Keys), KeysPerCall)
             chunk  == chunks[got.chunk]
             held   == [k \in B!ToSet(B!Keys) |-> B!Entry(k)]
             known  == [k \in DOMAIN got.entries \cup B!ToSet(chunk) |->
                           IF k \in B!ToSet(chunk) THEN held[k] ELSE got.entries[k]]
  <2>1. /\ pc = "entries"
        /\ got' = [got EXCEPT !.entries = known, !.chunk = @ + 1]
        /\ pc' = IF got.chunk = Len(chunks) THEN "base" ELSE pc
        /\ UNCHANGED <<chain, now, changes, seen, row>>
    BY <1>5 DEF B!ReadEntries, B!ReadChunk
  <2> HIDE DEF chunks, chunk, held, known
  <2>2. /\ got'.list = got.list /\ got'.price = got.price
        /\ got'.entries = known
    BY <1>0, <2>1 DEF B!Blank
  <2>3. DOMAIN got.price = {}
    BY <2>1 DEF BlendPrices, BeforePrices
  <2>4. B!Keys' = B!Keys
    BY <2>2 DEF B!Keys
  <2>5. row'.status = "none"
    BY <1>c, <2>1
  <2>6. ASSUME Len(B!Keys) <= KeysPerCall
        PROVE  pc' = "base" /\ \A a \in Members(got.list) : OneLedger(a)'
    <3> DEFINE T == {B!Keys[i] : i \in DOMAIN B!Keys}
               D == DedupeKeys(B!Keys)
    <3>1. B!Keys \in Seq(T) /\ Len(B!Keys) > 0 /\ B!Keys # <<>>
      BY <1>0, BlendKeys
    <3> HIDE DEF T
    <3>2. /\ D \in Seq(T) /\ Members(D) = Members(B!Keys)
          /\ Len(D) <= Len(B!Keys) /\ Len(D) > 0
      BY <3>1, DedupeKeeps
    <3>3. Len(D) <= KeysPerCall
      BY <2>6, <3>1, <3>2, ReadPathAssumption
    <3>4. Len(chunks) = 1 /\ chunks[1] = D
      <4>1. chunks = ChunkKeys(D, KeysPerCall)
        BY BlendSplits DEF chunks, D
      <4> HIDE DEF D
      <4> QED
        BY <3>2, <3>3, <4>1, OneChunk, ReadPathAssumption
    <3>5. got.entries = <<>> /\ got.chunk = 1
      BY <2>1, <2>6 DEF BlendHeld
    <3> HIDE DEF D
    <3>6. B!ToSet(chunk) = Members(B!Keys) /\ B!ToSet(B!Keys) = Members(B!Keys)
      BY <3>2, <3>4, <3>5, BlendArithmetic DEF chunk
    <3>7. \A k \in Members(B!Keys) : known[k] = B!Entry(k)
      BY <3>6 DEF known, held
    <3>8. pc' = "base"
      BY <2>1, <3>4, <3>5
    <3>9. ASSUME NEW a \in Members(got.list)
          PROVE  OneLedger(a)'
      <4>1. /\ known[<<"config", a>>] = chain.book[a].config
            /\ known[<<"data", a>>] = chain.book[a].data
        BY <1>0, <3>7, BlendKeys DEF B!Entry
      <4>2. a \in Assets
        BY <1>0 DEF Members
      <4>3. \/ chain.book[a].config = <<>> \/ chain.book[a].data = <<>>
            \/ chain.book[a].config[1].rev = chain.book[a].data[1].rev
        BY <4>2 DEF BlendChain, BlendParts, BlendHolds
      <4> QED
        BY <2>2, <4>1, <4>3 DEF OneLedger, B!Missing
    <3> QED
      BY <3>8, <3>9
  <2>7. pc' \in {"entries", "base"}
    BY <2>1
  <2> QED
    BY <2>2, <2>3, <2>4, <2>5, <2>6, <2>7 DEF BlendHeld, BlendWhole
<1>6. CASE B!ReadOracleConfig
  BY <1>0, <1>6, <1>a, <1>b DEF B!ReadOracleConfig, B!Blank
<1>7. CASE B!ReadPrice
  <2> DEFINE asset == got.list[B!Cardinality(DOMAIN got.price) + 1]
             next == IF B!Cardinality(DOMAIN got.price) + 1 < Len(got.list) THEN "price"
                     ELSE IF B!IsAccount(got.admin) THEN "admin" ELSE "finish"
  <2>0. pc = "price" /\ next \in {"price", "admin", "finish"}
    BY <1>7 DEF B!ReadPrice
  <2> HIDE DEF next
  <2>1. CASE B!Throw
    BY <1>0, <1>a, <1>b, <2>0, <2>1
  <2>2. CASE /\ ~B!Missing(asset)
             /\ got' = [got EXCEPT !.price = B!Mapped(@, asset, chain.price[asset]),
                                   !.readAt = B!Mapped(@, asset, now)]
             /\ pc' = next
             /\ row' = row
    <3> HIDE DEF asset
    <3>1. /\ got'.list = got.list /\ got'.entries = got.entries /\ got'.chunk = got.chunk
          /\ DOMAIN got'.price = DOMAIN got.price \cup {asset}
      BY <1>0, <2>2 DEF B!Mapped, B!Blank
    <3> QED
      BY <1>a, <1>b, <2>0, <2>2, <3>1
  <2> QED
    BY <1>7, <2>1, <2>2 DEF B!ReadPrice, B!LastPrice, next
<1>8. CASE B!ReadAdmin \/ B!ReadOps
  BY <1>0, <1>8, <1>a, <1>b DEF B!ReadAdmin, B!ReadOps, B!Blank, BlendWhole
<1>9. CASE B!ReadFails
  BY <1>0, <1>9, <1>a, <1>b DEF B!ReadFails, B!ThrowFor, B!Blank
<1>10. CASE B!Finish
  BY <1>0, <1>10, <1>a DEF B!Finish, B!Publish, BlendWhole
<1>11. CASE B!Tick
  BY <1>0, <1>11, <1>a, <1>b DEF B!Tick, BlendWhole
<1>12. CASE B!TransactionLands
  BY <1>0, <1>12, <1>a, <1>b DEF B!TransactionLands, B!ChainMoves, BlendWhole
<1>13. CASE B!Finished
  BY <1>0, <1>13, <1>a, <1>b DEF B!Finished, B!readVars, BlendWhole
<1> QED
  BY <1>1, <1>2, <1>3, <1>4, <1>5, <1>6, <1>7, <1>8, <1>9, <1>10, <1>11, <1>12, <1>13 DEF B!Next

\* The status that was read is one the pool had.
BlendSeen ==
    /\ B!TrueState(chain) \in seen
    /\ pc # "instance" /\ row.status # "failed" => B!OperationalState(got.status) \in seen

\* The status is read once, as it is.
LEMMA BlendSeenStep == BlendTyped /\ BlendOutcome /\ BlendSeen /\ B!Next => BlendSeen'
<1> SUFFICES ASSUME BlendTyped, BlendOutcome, BlendSeen, B!Next
             PROVE  BlendSeen'
  OBVIOUS
<1>0. DOMAIN got = DOMAIN B!Blank
  BY DEF BlendTyped
<1>c. pc # "done" => row.status = "none"
  BY DEF BlendOutcome, Unpublished, FailedRow
<1>1. CASE B!ReadInstance
  BY <1>0, <1>1 DEF B!ReadInstance, B!Learn, B!Blank, BlendSeen, B!TrueState
<1>2. CASE /\ got'.status = got.status /\ chain' = chain /\ seen' = seen
           /\ pc # "instance" /\ row'.status \in {row.status, "failed"}
  BY <1>2 DEF BlendSeen
<1>3. CASE got'.status = got.status /\ row' = row /\ pc' = pc /\ chain' = chain /\ seen' = seen
  BY <1>3 DEF BlendSeen
<1>4. CASE B!TransactionLands
  BY <1>4 DEF B!TransactionLands, B!ChainMoves, BlendSeen
<1>5. CASE B!ReadFails
  BY <1>5 DEF B!ReadFails, B!ThrowFor, B!FailedRow, BlendSeen
<1>6. CASE B!ReadGrading
  <2>1. got'.status = got.status
    BY <1>0, <1>6 DEF B!ReadGrading, B!Learn, B!Throw, B!Blank
  <2>2. pc = "grading" /\ row'.status \in {row.status, "failed"}
        /\ chain' = chain /\ seen' = seen
    BY <1>6 DEF B!ReadGrading, B!Learn, B!Throw, B!FailedRow
  <2> QED
    BY <1>2, <2>1, <2>2
<1>7. CASE B!ReadReserveList
  BY <1>0, <1>2, <1>7 DEF B!ReadReserveList, B!Learn, B!Throw, B!FailedRow, B!Blank
<1>8. CASE B!ReadDecimals
  BY <1>0, <1>2, <1>8 DEF B!ReadDecimals, B!Learn, B!Throw, B!FailedRow, B!Blank
<1>9. CASE B!ReadEntries
  BY <1>0, <1>2, <1>9 DEF B!ReadEntries, B!ReadChunk, B!Learn, B!Throw, B!FailedRow, B!Blank
<1>10. CASE B!ReadOracleConfig
  BY <1>0, <1>2, <1>10 DEF B!ReadOracleConfig, B!Learn, B!Throw, B!FailedRow, B!Blank
<1>11. CASE B!ReadPrice
  <2>1. got'.status = got.status
    BY <1>0, <1>11 DEF B!ReadPrice, B!Learn, B!Throw, B!Blank
  <2>2. pc = "price" /\ row'.status \in {row.status, "failed"} /\ chain' = chain /\ seen' = seen
    BY <1>11 DEF B!ReadPrice, B!Learn, B!Throw, B!FailedRow
  <2> QED
    BY <1>2, <2>1, <2>2
<1>12. CASE B!ReadAdmin
  BY <1>0, <1>2, <1>12 DEF B!ReadAdmin, B!Learn, B!Throw, B!FailedRow, B!Blank
<1>13. CASE B!ReadOps
  BY <1>0, <1>2, <1>13 DEF B!ReadOps, B!Learn, B!Throw, B!FailedRow, B!Blank
<1>14. CASE B!Finish
  <2>1. got' = got /\ chain' = chain /\ seen' = seen /\ pc = "finish"
    BY <1>14 DEF B!Finish, B!Publish
  <2> QED
    BY <1>c, <2>1 DEF BlendSeen
<1>15. CASE B!Tick
  BY <1>3, <1>15 DEF B!Tick
<1>16. CASE B!Finished
  BY <1>3, <1>16 DEF B!Finished, B!readVars
<1> QED
  BY <1>1, <1>4, <1>5, <1>6, <1>14, <1>15, <1>16, <1>7, <1>8, <1>9, <1>10, <1>11, <1>12, <1>13
  DEF B!Next

--------------------------------------------------------------------------------
(* Kinetic.                                                                *)

\* Where a fetch may stand.
KineticPcs == {"instance", "paused", "list", "reserve", "supply", "debt", "prices", "price",
               "oracle", "oraclePaused", "oracleInstance", "assetConfig", "baseline", "admin",
               "ops", "finish", "done"}

\* The published row is what was computed from what was read.
KineticRowTrue ==
    /\ row.status = "ok"
    /\ row.factors["oracleSafety"][1] = K!OracleSafety
    /\ row.state = K!OperationalState(got.paused, got.list, got.flags)
    /\ row.stale = K!Stale

\* The chain holds what it should.
KineticChain ==
    DOMAIN chain = KineticParts /\ \A part \in KineticParts : KineticHolds(part, chain[part])

\* The types of what has been read.
KineticTyped ==
    /\ DOMAIN got = DOMAIN K!Blank
    /\ now \in Nat
    /\ got.list \in Seq(Assets)
    /\ got.fetchedAt \in Nat /\ got.threshold \in Nat /\ got.ttl \in Nat
    /\ pc \in KineticPcs
    /\ pc \notin {"instance", "paused", "list", "done"} => got.list # <<>>

\* No row yet, a failed one, or a true one.
KineticOutcome ==
    \/ pc # "done" /\ row = Unpublished
    \/ pc = "done" /\ row = FailedRow
    \/ pc = "done" /\ KineticRowTrue

\* A transaction leaves a chain that holds what it should.
LEMMA KineticChainKept ==
    ASSUME KineticChain, NEW i \in DOMAIN KineticEdits,
           chain' = K!Edited(chain, KineticEdits[i])
    PROVE  KineticChain'
<1> DEFINE e == KineticEdits[i]
<1>1. /\ e.part \in KineticParts
      /\ e.part = "flags" <=> "key" \in DOMAIN e
      /\ e.part # "flags" => KineticHolds(e.part, e.to)
  BY ChainsAssumption DEF Sound
<1> HIDE DEF e
<1>2. CASE e.part # "flags"
  <2>1. chain' = [chain EXCEPT ![e.part] = e.to]
    BY <1>1, <1>2 DEF K!Edited, e
  <2>2. DOMAIN chain' = KineticParts
    BY <2>1 DEF KineticChain
  <2>3. ASSUME NEW part \in KineticParts
        PROVE  KineticHolds(part, chain'[part])
    <3>1. chain'[part] = IF part = e.part THEN e.to ELSE chain[part]
      BY <1>1, <2>1 DEF KineticChain
    <3> QED
      BY <1>1, <1>2, <3>1 DEF KineticChain
  <2> QED
    BY <2>2, <2>3 DEF KineticChain
<1>3. CASE e.part = "flags"
  <2>1. chain' = [chain EXCEPT !["flags"][e.key] = e.to]
    BY <1>1, <1>3 DEF K!Edited, e
  <2>2. DOMAIN chain' = KineticParts
    BY <2>1 DEF KineticChain
  <2>3. Assets \subseteq DOMAIN chain["flags"] /\ "flags" \in DOMAIN chain
    BY DEF KineticChain, KineticParts, KineticHolds
  <2>4. DOMAIN chain'["flags"] = DOMAIN chain["flags"]
    BY <2>1, <2>3
  <2>5. \A part \in KineticParts : part # "flags" => chain'[part] = chain[part]
    BY <2>1 DEF KineticChain
  <2>6. ASSUME NEW part \in KineticParts
        PROVE  KineticHolds(part, chain'[part])
    <3>1. CASE part = "flags"
      BY <2>3, <2>4, <3>1 DEF KineticHolds
    <3>2. CASE part # "flags"
      BY <2>5, <3>2 DEF KineticChain
    <3> QED
      BY <3>1, <3>2
  <2> QED
    BY <2>2, <2>6 DEF KineticChain
<1> QED
  BY <1>2, <1>3

\* A fetch begins well.
LEMMA KineticTypedInit == K!Init => KineticTyped /\ KineticChain /\ KineticOutcome
<1> SUFFICES ASSUME K!Init
             PROVE  KineticTyped /\ KineticChain /\ KineticOutcome
  OBVIOUS
<1>1. KineticTyped
  BY ReadPathAssumption DEF K!Init, K!Blank, KineticTyped, KineticPcs
<1>2. KineticChain
  BY ChainsAssumption DEF K!Init, Sound, KineticChain
<1>3. KineticOutcome
  BY DEF K!Init, K!Unpublished, Unpublished, KineticOutcome
<1> QED
  BY <1>1, <1>2, <1>3

\* Every read keeps the types.
LEMMA KineticTypedStep == KineticTyped /\ KineticChain /\ K!Next => KineticTyped'
<1> SUFFICES ASSUME KineticTyped, KineticChain, K!Next
             PROVE  KineticTyped'
  OBVIOUS
<1> USE DEF KineticTyped, KineticPcs, K!Learn
<1>1. CASE K!ReadInstance
  BY <1>1 DEF K!ReadInstance, K!Throw, K!Blank
<1>2. CASE K!ReadPaused
  BY <1>2 DEF K!ReadPaused, K!Blank
<1>3. CASE K!ReadReservesList
  <2>1. chain["list"] \in Seq(Assets)
    BY DEF KineticChain, KineticParts, KineticHolds
  <2> QED
    BY <1>3, <2>1 DEF K!ReadReservesList, K!Throw, K!Blank
<1>4. CASE K!ReadReserve
  BY <1>4 DEF K!ReadReserve, K!Blank
<1>5. CASE K!ReadSupply
  BY <1>5 DEF K!ReadSupply, K!Blank
<1>6. CASE K!ReadDebt
  BY <1>6 DEF K!ReadDebt, K!Blank
<1>7. CASE K!ReadPriceBatch
  BY <1>7 DEF K!ReadPriceBatch, K!Blank
<1>8. CASE K!PriceBatchFails
  BY <1>8 DEF K!PriceBatchFails, K!Blank
<1>9. CASE K!ReadPrice
  BY <1>9 DEF K!ReadPrice, K!TakePrice, K!Blank
<1>10. CASE K!PriceFails
  BY <1>10 DEF K!PriceFails, K!TakePrice, K!Blank
<1>11. CASE K!ReadOracleConfig
  <2>1. chain["threshold"] \in Nat
    BY DEF KineticChain, KineticParts, KineticHolds
  <2> QED
    BY <1>11, <2>1 DEF K!ReadOracleConfig, K!Blank
<1>12. CASE K!ReadOraclePaused
  BY <1>12 DEF K!ReadOraclePaused
<1>13. CASE K!ReadOracleInstance
  <2>1. chain["ttl"] \in Nat
    BY DEF KineticChain, KineticParts, KineticHolds
  <2> QED
    BY <1>13, <2>1 DEF K!ReadOracleInstance, K!Blank

<1>14. CASE K!ReadAssetConfig
  BY <1>14 DEF K!ReadAssetConfig, K!AfterConfig, K!Blank
<1>15. CASE K!AssetConfigFails
  BY <1>15 DEF K!AssetConfigFails, K!AfterConfig, K!Blank
<1>16. CASE K!ReadBaseline
  BY <1>16 DEF K!ReadBaseline, K!TakeBaseline, K!AfterConfig, K!Blank
<1>17. CASE K!BaselineFails
  BY <1>17 DEF K!BaselineFails, K!TakeBaseline, K!AfterConfig, K!Blank
<1>18. CASE K!ReadAdmin \/ K!ReadOps
  BY <1>18 DEF K!ReadAdmin, K!ReadOps, K!Blank
<1>19. CASE K!ReadFails
  BY <1>19 DEF K!ReadFails, K!ThrowFor, K!Blank
<1>20. CASE K!Finish
  BY <1>20 DEF K!Finish, K!Publish
<1>21. CASE K!Tick
  BY <1>21 DEF K!Tick
<1>22. CASE K!TransactionLands
  BY <1>22 DEF K!TransactionLands, K!ChainMoves
<1>23. CASE K!Finished
  BY <1>23 DEF K!Finished, K!readVars
<1> QED
  BY <1>1, <1>2, <1>3, <1>4, <1>5, <1>6, <1>7, <1>8, <1>9, <1>10, <1>11, <1>12, <1>13, <1>14,
     <1>15, <1>16, <1>17, <1>18, <1>19, <1>20, <1>21, <1>22, <1>23 DEF K!Next

\* Only a transaction changes the chain.
LEMMA KineticChainStep == KineticChain /\ K!Next => KineticChain'
<1> SUFFICES ASSUME KineticChain, K!Next
             PROVE  KineticChain'
  OBVIOUS
<1>1. CASE chain' = chain
  BY <1>1 DEF KineticChain
<1>2. CASE K!TransactionLands
  BY <1>2, KineticChainKept DEF K!TransactionLands, K!ChainMoves
<1> QED
  BY <1>1, <1>2 DEF K!Next, K!Learn, K!Throw, K!ThrowFor, K!Publish, K!ReadInstance,
     K!ReadPaused, K!ReadReservesList, K!ReadReserve, K!ReadSupply, K!ReadDebt,
     K!ReadPriceBatch, K!PriceBatchFails, K!ReadPrice, K!PriceFails, K!TakePrice,
     K!ReadOracleConfig, K!ReadOraclePaused, K!ReadOracleInstance, K!ReadAssetConfig,
     K!AssetConfigFails, K!ReadBaseline, K!BaselineFails, K!TakeBaseline, K!ReadAdmin,
     K!ReadOps, K!ReadFails, K!Finish, K!Tick, K!Finished, K!readVars

\* The scores are of what was read, and of nothing else.
LEMMA KineticScoresKept ==
    ASSUME got' = got
    PROVE  /\ K!OracleSafety' = K!OracleSafety /\ K!Stale' = K!Stale
           /\ K!OperationalState(got.paused, got.list, got.flags)' =
                  K!OperationalState(got.paused, got.list, got.flags)
<1>1. K!Listed' = K!Listed
  BY DEF K!Listed
<1>2. ASSUME NEW a
      PROVE  /\ K!PriceFreshness(a)' = K!PriceFreshness(a)
             /\ K!Armed(a)' = K!Armed(a)
             /\ K!Age(a)' = K!Age(a)
  BY DEF K!PriceFreshness, K!Armed, K!Age, K!DeclaredAge
<1>3. K!Stale' = K!Stale
  BY <1>1, <1>2 DEF K!Stale, K!Age
<1>4. K!OracleSafety' = K!OracleSafety
  BY <1>1, <1>2 DEF K!OracleSafety, K!PriceFreshness, K!Armed, K!DeclaredAge, K!Age
<1>5. K!OperationalState(got.paused, got.list, got.flags)' =
          K!OperationalState(got.paused, got.list, got.flags)
  OBVIOUS
<1> QED
  BY <1>3, <1>4, <1>5

\* A row is published once, and stays.
LEMMA KineticOutcomeStep == KineticOutcome /\ K!Next => KineticOutcome'
<1> SUFFICES ASSUME KineticOutcome, K!Next
             PROVE  KineticOutcome'
  OBVIOUS
<1>1. CASE pc # "done" /\ pc' # "done" /\ row' = row
  BY <1>1 DEF KineticOutcome
<1>2. CASE pc' = "done" /\ row' = FailedRow
  BY <1>2 DEF KineticOutcome
<1>3. CASE UNCHANGED <<row, pc, got>>
  BY <1>3, KineticScoresKept DEF KineticOutcome, KineticRowTrue
<1>4. CASE K!Finish
  <2>1. /\ pc' = "done" /\ got' = got
        /\ row'.status = "ok"
        /\ row'.factors["oracleSafety"] = <<K!OracleSafety>>
        /\ row'.state = K!OperationalState(got.paused, got.list, got.flags)
        /\ row'.stale = K!Stale
    BY <1>4 DEF K!Finish, K!Publish, K!RiskFactors
  <2>2. KineticRowTrue'
    BY <2>1, KineticScoresKept DEF KineticRowTrue
  <2> QED
    BY <2>1, <2>2 DEF KineticOutcome
<1> USE DEF K!Learn, K!Throw, K!FailedRow, FailedRow
<1>5. CASE K!ReadInstance \/ K!ReadPaused \/ K!ReadReservesList
  BY <1>1, <1>2, <1>5 DEF K!ReadInstance, K!ReadPaused, K!ReadReservesList
<1>6. CASE K!ReadReserve \/ K!ReadSupply \/ K!ReadDebt
  BY <1>1, <1>6 DEF K!ReadReserve, K!ReadSupply, K!ReadDebt
<1>7. CASE K!ReadPriceBatch \/ K!PriceBatchFails \/ K!ReadPrice \/ K!PriceFails
  BY <1>1, <1>7 DEF K!ReadPriceBatch, K!PriceBatchFails, K!ReadPrice, K!PriceFails, K!TakePrice
<1>8. CASE K!ReadOracleConfig \/ K!ReadOraclePaused \/ K!ReadOracleInstance
  BY <1>1, <1>8 DEF K!ReadOracleConfig, K!ReadOraclePaused, K!ReadOracleInstance
<1>9. CASE K!ReadAssetConfig \/ K!AssetConfigFails
  BY <1>1, <1>9 DEF K!ReadAssetConfig, K!AssetConfigFails, K!AfterConfig
<1>10. CASE K!ReadBaseline \/ K!BaselineFails
  BY <1>1, <1>10 DEF K!ReadBaseline, K!BaselineFails, K!TakeBaseline, K!AfterConfig
<1>11. CASE K!ReadAdmin \/ K!ReadOps
  BY <1>1, <1>11 DEF K!ReadAdmin, K!ReadOps
<1>12. CASE K!ReadFails
  BY <1>2, <1>12 DEF K!ReadFails, K!ThrowFor
<1>13. CASE K!Tick \/ K!TransactionLands \/ K!Finished
  BY <1>3, <1>13 DEF K!Tick, K!TransactionLands, K!ChainMoves, K!Finished, K!readVars
<1> QED
  BY <1>4, <1>5, <1>6, <1>7, <1>8, <1>9, <1>10, <1>11, <1>12, <1>13 DEF K!Next

\* Before and past the prices, before and past the configurations.
BeforePrice == {"instance", "paused", "list", "reserve", "supply", "debt", "prices"}
BeforeConfig == BeforePrice \cup {"price", "oracle", "oraclePaused", "oracleInstance"}
PastConfig == {"admin", "ops", "finish"}
PastPrice == {"oracle", "oraclePaused", "oracleInstance", "assetConfig", "baseline"} \cup PastConfig

\* The prices are those of the first assets, and in the end of all of them.
KineticPrices ==
    /\ \A a \in DOMAIN got.price : got.price[a] = <<>> \/ got.price[a][1].at \in Nat
    /\ pc \in BeforePrice => DOMAIN got.price = {}
    /\ pc = "price" =>
          Prefix(got.list, got.price) /\ Cardinality(DOMAIN got.price) < Len(got.list)
    /\ pc \in PastPrice \/ row.status = "ok" => DOMAIN got.price = Members(got.list)

\* So are the oracle's configurations.
KineticConfigs ==
    /\ \A a \in DOMAIN got.config :
          \/ got.config[a] = <<>> \/ got.config[a][1].maxAge = <<>>
          \/ got.config[a][1].maxAge[1] \in Nat
    /\ pc = "baseline" => got.maxAge = <<>> \/ got.maxAge[1] \in Nat
    /\ pc \in BeforeConfig => DOMAIN got.config = {}
    /\ pc \in {"assetConfig", "baseline"} =>
          Prefix(got.list, got.config) /\ Cardinality(DOMAIN got.config) < Len(got.list)
    /\ pc \in PastConfig \/ row.status = "ok" => DOMAIN got.config = Members(got.list)

\* The adapter's own copies of what counts and maps.
LEMMA KineticCounts ==
    /\ \A S : K!Cardinality(S) = Cardinality(S)
    /\ \A s : K!ToSet(s) = Members(s)
    /\ \A map, key, value : K!Mapped(map, key, value) = Mapped(map, key, value)
<1>1. \A S : K!Cardinality(S) = Cardinality(S)
  BY Zenon DEF K!Cardinality, Cardinality
<1>2. \A s : K!ToSet(s) = Members(s)
  BY DEF K!ToSet, Members
<1>3. \A map, key, value : K!Mapped(map, key, value) = Mapped(map, key, value)
  BY DEF K!Mapped, Mapped
<1> QED
  BY <1>1, <1>2, <1>3

\* Neither has been read.
LEMMA KineticKnownInit == K!Init => KineticPrices /\ KineticConfigs
<1> SUFFICES ASSUME K!Init
             PROVE  KineticPrices /\ KineticConfigs
  OBVIOUS
<1>1. /\ DOMAIN got.price = {} /\ DOMAIN got.config = {}
      /\ pc = "instance" /\ row.status = "none"
  BY DEF K!Init, K!Blank, K!Unpublished
<1> QED
  BY <1>1 DEF KineticPrices, KineticConfigs, BeforePrice, BeforeConfig, PastPrice, PastConfig

\* An item taken in: either the list is through or there are more to come.
LEMMA KineticTakes ==
    ASSUME got.list \in Seq(Assets), NEW known, NEW value, Prefix(got.list, known),
           Cardinality(DOMAIN known) < Len(got.list)
    PROVE  LET grown == K!Mapped(known, K!Pending(known), value)
           IN  /\ K!Pending(known) \in Assets
               /\ grown = Mapped(known, K!Pending(known), value)
               /\ DOMAIN grown = DOMAIN known \cup {K!Pending(known)}
               /\ K!AllKnown(grown) => DOMAIN grown = Members(got.list)
               /\ ~K!AllKnown(grown) => /\ Prefix(got.list, grown)
                                        /\ Cardinality(DOMAIN grown) < Len(got.list)
<1> DEFINE item == got.list[Cardinality(DOMAIN known) + 1]
           grown == Mapped(known, item, value)
<1>1. K!Pending(known) = item /\ K!Mapped(known, K!Pending(known), value) = grown
  BY KineticCounts DEF K!Pending
<1>2. K!AllKnown(grown) <=> Cardinality(DOMAIN grown) = Len(got.list)
  BY KineticCounts DEF K!AllKnown
<1>3. Grows(Assets, got.list, known, grown)
  BY PrefixGrows
<1> HIDE DEF grown
<1>4. /\ item \in Assets
      /\ DOMAIN grown = DOMAIN known \cup {item}
      /\ Prefix(got.list, grown)
  BY <1>3 DEF Grows
<1>5. Cardinality(DOMAIN grown) = Len(got.list) => DOMAIN grown = Members(got.list)
  BY <1>4, PrefixWhole
<1>6. Cardinality(DOMAIN grown) \in Nat /\ Len(got.list) \in Nat
      /\ Cardinality(DOMAIN grown) <= Len(got.list)
  BY <1>4, FS_CardinalityType DEF Prefix
<1>7. Cardinality(DOMAIN grown) # Len(got.list) => Cardinality(DOMAIN grown) < Len(got.list)
  BY <1>6
<1> QED
  BY <1>1, <1>2, <1>4, <1>5, <1>7 DEF grown

\* Prices come all at once, or one after another when that fails.
LEMMA KineticPricesStep ==
    KineticTyped /\ KineticChain /\ KineticOutcome /\ KineticPrices /\ K!Next => KineticPrices'
<1> SUFFICES ASSUME KineticTyped, KineticChain, KineticOutcome, KineticPrices, K!Next
             PROVE  KineticPrices'
  OBVIOUS
<1>0. DOMAIN got = DOMAIN K!Blank /\ got.list \in Seq(Assets)
      /\ (pc \notin {"instance", "paused", "list", "done"} => got.list # <<>>)
  BY DEF KineticTyped
<1>c. pc # "done" => row.status = "none"
  BY DEF KineticOutcome, Unpublished, FailedRow
<1>a. ASSUME got'.list = got.list, got'.price = got.price,
             row'.status = "ok" => row.status = "ok" \/ pc \in PastPrice,
             pc' \in BeforePrice => pc \in BeforePrice,
             pc' = "price" => pc = "price",
             pc' \in PastPrice => pc \in PastPrice
      PROVE  KineticPrices'
  BY <1>a DEF KineticPrices, Prefix
<1> USE DEF K!Learn, K!Throw, K!FailedRow
<1>1. CASE K!ReadInstance \/ K!ReadPaused
  BY <1>0, <1>1, <1>a DEF K!ReadInstance, K!ReadPaused, K!Blank, BeforePrice, PastPrice, PastConfig
<1>2. CASE K!ReadReservesList
  <2>1. /\ pc = "list" /\ DOMAIN got'.price = {} /\ pc' \in {"reserve", "done"}
        /\ row'.status \in {"none", "failed"}
    BY <1>0, <1>2, <1>c DEF K!ReadReservesList, K!Blank, KineticPrices, BeforePrice
  <2> QED
    BY <2>1 DEF KineticPrices, PastPrice, PastConfig
<1>3. CASE K!ReadReserve \/ K!ReadSupply
  BY <1>0, <1>3, <1>a DEF K!ReadReserve, K!ReadSupply, K!Blank, BeforePrice, PastPrice, PastConfig
<1>4. CASE K!ReadDebt
  BY <1>0, <1>4, <1>a DEF K!ReadDebt, K!Blank, BeforePrice, PastPrice, PastConfig
<1>5. CASE K!ReadPriceBatch
  <2>1. /\ pc = "prices" /\ pc' = "oracle" /\ got'.list = got.list /\ row' = row
        /\ got'.price = [a \in Members(got.list) |-> chain.price[a]]
    BY <1>0, <1>5, KineticCounts DEF K!ReadPriceBatch, K!Blank
  <2>2. \A a \in Members(got.list) : chain.price[a] = <<>> \/ chain.price[a][1].at \in Nat
    <3>1. \A a \in Members(got.list) : a \in Assets
      BY <1>0 DEF Members
    <3> QED
      BY <3>1 DEF KineticChain, KineticParts, KineticHolds, PricesHeld
  <2> QED
    BY <2>1, <2>2 DEF KineticPrices, BeforePrice, PastPrice
<1>6. CASE K!PriceBatchFails
  <2>1. /\ pc = "prices" /\ pc' = "price" /\ got'.list = got.list /\ row' = row
        /\ got'.price = got.price /\ DOMAIN got.price = {}
    BY <1>0, <1>6 DEF K!PriceBatchFails, K!Blank, KineticPrices, BeforePrice
  <2>2. Prefix(got.list, got.price) /\ Cardinality(DOMAIN got.price) = 0
    BY <1>0, <2>1, PrefixNone
  <2>3. Len(got.list) > 0
    BY <1>0, <2>1
  <2>4. Prefix(got.list, got.price)'
    BY <2>1, <2>2 DEF Prefix
  <2>5. row.status = "none"
    BY <1>c, <2>1
  <2> QED
    BY <2>1, <2>2, <2>3, <2>4, <2>5 DEF KineticPrices, BeforePrice, PastPrice, PastConfig
<1>7. ASSUME NEW price, NEW kind, K!TakePrice(price, kind), pc = "price",
             K!Pending(got.price) \in Assets => price = <<>> \/ price[1].at \in Nat
      PROVE  KineticPrices'
  <2> DEFINE grown == K!Mapped(got.price, K!Pending(got.price), price)
  <2>1. /\ got'.price = grown /\ got'.list = got.list /\ row' = row
        /\ pc' = IF K!AllKnown(grown) THEN "oracle" ELSE "price"
    BY <1>0, <1>7 DEF K!TakePrice, K!Blank
  <2>2. /\ K!Pending(got.price) \in Assets
        /\ grown = Mapped(got.price, K!Pending(got.price), price)
        /\ DOMAIN grown = DOMAIN got.price \cup {K!Pending(got.price)}
        /\ K!AllKnown(grown) => DOMAIN grown = Members(got.list)
        /\ ~K!AllKnown(grown) => /\ Prefix(got.list, grown)
                                 /\ Cardinality(DOMAIN grown) < Len(got.list)
    BY <1>0, <1>7, KineticTakes DEF KineticPrices
  <2>3. \A a \in DOMAIN grown : grown[a] = <<>> \/ grown[a][1].at \in Nat
    BY <1>7, <2>2 DEF KineticPrices, Mapped
  <2> HIDE DEF grown
  <2>4. row'.status = "none"
    BY <1>7, <1>c, <2>1
  <2>5. ~K!AllKnown(grown) => Prefix(got.list, got.price)'
    BY <2>1, <2>2 DEF Prefix
  <2>6. \A a \in DOMAIN got'.price : got'.price[a] = <<>> \/ got'.price[a][1].at \in Nat
    BY <2>1, <2>3
  <2>7. CASE K!AllKnown(grown)
    <3>1. pc' = "oracle" /\ DOMAIN got'.price = Members(got'.list)
      BY <2>1, <2>2, <2>7
    <3> QED
      BY <2>6, <3>1 DEF KineticPrices, BeforePrice
  <2>8. CASE ~K!AllKnown(grown)
    <3>1. pc' = "price" /\ Cardinality(DOMAIN got.price)' < Len(got.list)'
      BY <2>1, <2>2, <2>8
    <3> QED
      BY <2>4, <2>5, <2>6, <2>8, <3>1 DEF KineticPrices, BeforePrice, PastPrice, PastConfig
  <2> QED
    BY <2>7, <2>8
<1>8. CASE K!ReadPrice
  <2>1. K!Pending(got.price) \in Assets =>
            chain.price[K!Pending(got.price)] = <<>>
            \/ chain.price[K!Pending(got.price)][1].at \in Nat
    BY DEF KineticChain, KineticParts, KineticHolds, PricesHeld
  <2> QED
    BY <1>7, <1>8, <2>1 DEF K!ReadPrice
<1>9. CASE K!PriceFails
  BY <1>7, <1>9 DEF K!PriceFails
<1>10. CASE K!ReadOracleConfig \/ K!ReadOraclePaused \/ K!ReadOracleInstance
  BY <1>0, <1>10, <1>a DEF K!ReadOracleConfig, K!ReadOraclePaused, K!ReadOracleInstance, K!Blank,
     BeforePrice, PastPrice
<1>11. CASE K!ReadAssetConfig
  BY <1>0, <1>11, <1>a DEF K!ReadAssetConfig, K!AfterConfig, K!Blank, BeforePrice, PastPrice,
     PastConfig
<1>12. CASE K!AssetConfigFails
  BY <1>0, <1>12, <1>a DEF K!AssetConfigFails, K!AfterConfig, K!Blank, BeforePrice, PastPrice,
     PastConfig
<1>13. CASE K!ReadBaseline \/ K!BaselineFails
  BY <1>0, <1>13, <1>a DEF K!ReadBaseline, K!BaselineFails, K!TakeBaseline, K!AfterConfig, K!Blank,
     BeforePrice, PastPrice, PastConfig
<1>14. CASE K!ReadAdmin \/ K!ReadOps
  BY <1>0, <1>14, <1>a DEF K!ReadAdmin, K!ReadOps, K!Blank, BeforePrice, PastPrice, PastConfig
<1>15. CASE K!ReadFails
  BY <1>0, <1>15, <1>a DEF K!ReadFails, K!ThrowFor, K!Blank, BeforePrice, PastPrice, PastConfig
<1>16. CASE K!Finish
  BY <1>0, <1>16, <1>a DEF K!Finish, K!Publish, BeforePrice, PastPrice, PastConfig
<1>17. CASE K!Tick \/ K!TransactionLands \/ K!Finished
  BY <1>17, <1>a DEF K!Tick, K!TransactionLands, K!ChainMoves, K!Finished, K!readVars
<1> QED
  BY <1>1, <1>2, <1>3, <1>4, <1>5, <1>6, <1>8, <1>9, <1>10, <1>11, <1>12, <1>13, <1>14, <1>15,
     <1>16, <1>17 DEF K!Next

\* A configuration comes with its baseline, or without one.
LEMMA KineticConfigsStep ==
    KineticTyped /\ KineticChain /\ KineticOutcome /\ KineticConfigs /\ K!Next
    => KineticConfigs'
<1> SUFFICES ASSUME KineticTyped, KineticChain, KineticOutcome, KineticConfigs, K!Next
             PROVE  KineticConfigs'
  OBVIOUS
<1>0. DOMAIN got = DOMAIN K!Blank /\ got.list \in Seq(Assets)
      /\ (pc \notin {"instance", "paused", "list", "done"} => got.list # <<>>)
  BY DEF KineticTyped
<1>c. pc # "done" => row.status = "none"
  BY DEF KineticOutcome, Unpublished, FailedRow
<1>a. ASSUME got'.list = got.list, got'.config = got.config, got'.maxAge = got.maxAge,
             row'.status = "ok" => row.status = "ok" \/ pc \in PastConfig,
             pc' \in BeforeConfig => pc \in BeforeConfig,
             pc' \in {"assetConfig", "baseline"} => pc' = pc,
             pc' \in PastConfig => pc \in PastConfig
      PROVE  KineticConfigs'
  BY <1>a DEF KineticConfigs, Prefix
<1> USE DEF K!Learn, K!Throw, K!FailedRow
<1> USE DEF BeforeConfig, BeforePrice, PastConfig
<1>1. CASE K!ReadInstance \/ K!ReadPaused
  BY <1>0, <1>1, <1>a DEF K!ReadInstance, K!ReadPaused, K!Blank
<1>2. CASE K!ReadReservesList
  <2>1. /\ pc = "list" /\ DOMAIN got'.config = {} /\ pc' \in {"reserve", "done"}
        /\ row'.status \in {"none", "failed"}
    BY <1>0, <1>2, <1>c DEF K!ReadReservesList, K!Blank, KineticConfigs
  <2> QED
    BY <2>1 DEF KineticConfigs
<1>3. CASE K!ReadReserve \/ K!ReadSupply
  BY <1>0, <1>3, <1>a DEF K!ReadReserve, K!ReadSupply, K!Blank
<1>4. CASE K!ReadDebt
  BY <1>0, <1>4, <1>a DEF K!ReadDebt, K!Blank
<1>5. CASE K!ReadPriceBatch
  BY <1>0, <1>5, <1>a DEF K!ReadPriceBatch, K!Blank
<1>6. CASE K!PriceBatchFails
  BY <1>0, <1>6, <1>a DEF K!PriceBatchFails, K!Blank
<1>7. CASE K!ReadPrice
  BY <1>0, <1>7, <1>a DEF K!ReadPrice, K!TakePrice, K!Blank
<1>8. CASE K!PriceFails
  BY <1>0, <1>8, <1>a DEF K!PriceFails, K!TakePrice, K!Blank
<1>9. CASE K!ReadOracleConfig \/ K!ReadOraclePaused
  BY <1>0, <1>9, <1>a DEF K!ReadOracleConfig, K!ReadOraclePaused, K!Blank
<1>10. CASE K!ReadOracleInstance
  <2>1. /\ pc = "oracleInstance" /\ pc' = "assetConfig" /\ got'.list = got.list /\ row' = row
        /\ got'.config = got.config /\ DOMAIN got.config = {}
    BY <1>0, <1>10 DEF K!ReadOracleInstance, K!Blank, KineticConfigs
  <2>2. Prefix(got.list, got.config) /\ Cardinality(DOMAIN got.config) = 0
    BY <1>0, <2>1, PrefixNone
  <2>3. Len(got.list) > 0
    BY <1>0, <2>1
  <2>4. Prefix(got.list, got.config)'
    BY <2>1, <2>2 DEF Prefix
  <2>5. row.status = "none"
    BY <1>c, <2>1
  <2> QED
    BY <2>1, <2>2, <2>3, <2>4, <2>5 DEF KineticConfigs
<1>11. ASSUME NEW config, pc \in {"assetConfig", "baseline"},
              got'.config = K!Mapped(got.config, K!Pending(got.config), config),
              got'.list = got.list, row' = row,
              pc' = K!AfterConfig(K!Mapped(got.config, K!Pending(got.config), config)),
              config = <<>> \/ config[1].maxAge = <<>> \/ config[1].maxAge[1] \in Nat
       PROVE  KineticConfigs'
  <2> DEFINE grown == K!Mapped(got.config, K!Pending(got.config), config)
  <2>1. got'.config = grown /\ got'.list = got.list /\ row' = row /\ pc' = K!AfterConfig(grown)
    BY <1>11
  <2>2. /\ K!Pending(got.config) \in Assets
        /\ grown = Mapped(got.config, K!Pending(got.config), config)
        /\ DOMAIN grown = DOMAIN got.config \cup {K!Pending(got.config)}
        /\ K!AllKnown(grown) => DOMAIN grown = Members(got.list)
        /\ ~K!AllKnown(grown) => /\ Prefix(got.list, grown)
                                 /\ Cardinality(DOMAIN grown) < Len(got.list)
    BY <1>0, <1>11, KineticTakes DEF KineticConfigs
  <2>3. \A a \in DOMAIN grown : \/ grown[a] = <<>> \/ grown[a][1].maxAge = <<>>
                                \/ grown[a][1].maxAge[1] \in Nat
    BY <1>11, <2>2 DEF KineticConfigs, Mapped
  <2> HIDE DEF grown
  <2>4. row'.status = "none"
    BY <1>11, <1>c, <2>1
  <2>5. ~K!AllKnown(grown) => Prefix(got.list, got.config)'
    BY <2>1, <2>2 DEF Prefix
  <2>6. \A a \in DOMAIN got'.config : \/ got'.config[a] = <<>> \/ got'.config[a][1].maxAge = <<>>
                                      \/ got'.config[a][1].maxAge[1] \in Nat
    BY <2>1, <2>3
  <2>7. CASE K!AllKnown(grown)
    <3>1. pc' \in {"admin", "finish"} /\ DOMAIN got'.config = Members(got'.list)
      BY <2>1, <2>2, <2>7 DEF K!AfterConfig
    <3> QED
      BY <2>6, <3>1 DEF KineticConfigs
  <2>8. CASE ~K!AllKnown(grown)
    <3>1. pc' = "assetConfig" /\ Cardinality(DOMAIN got.config)' < Len(got.list)'
      BY <2>1, <2>2, <2>8 DEF K!AfterConfig
    <3> QED
      BY <2>4, <2>5, <2>6, <2>8, <3>1 DEF KineticConfigs
  <2> QED
    BY <2>7, <2>8
<1>12. CASE K!ReadAssetConfig
  <2> DEFINE a == K!Pending(got.config)
  <2>1. pc = "assetConfig" /\ row' = row
    BY <1>12 DEF K!ReadAssetConfig
  <2>2. CASE chain.config[a] = <<>>
    <3>1. /\ got'.config = K!Mapped(got.config, a, <<>>) /\ got'.list = got.list
          /\ pc' = K!AfterConfig(K!Mapped(got.config, a, <<>>))
      BY <1>0, <1>12, <2>2 DEF K!ReadAssetConfig, K!Blank
    <3> QED
      BY <1>11, <2>1, <3>1
  <2>3. CASE chain.config[a] # <<>>
    <3>1. /\ got'.config = got.config /\ got'.list = got.list /\ pc' = "baseline"
          /\ got'.maxAge = chain.config[a][1].maxAge
      BY <1>0, <1>12, <2>3 DEF K!ReadAssetConfig, K!Blank
    <3>2. Prefix(got.list, got.config) /\ Cardinality(DOMAIN got.config) < Len(got.list)
      BY <2>1 DEF KineticConfigs
    <3>3. a \in Assets
      BY <1>0, <3>2, KineticTakes
    <3>4. got'.maxAge = <<>> \/ got'.maxAge[1] \in Nat
      BY <2>3, <3>1, <3>3 DEF KineticChain, KineticParts, KineticHolds
    <3>5. Prefix(got.list, got.config)'
      BY <3>1, <3>2 DEF Prefix
    <3>6. row.status = "none"
      BY <1>c, <2>1
    <3> HIDE DEF a
    <3> QED
      BY <2>1, <3>1, <3>2, <3>4, <3>5, <3>6 DEF KineticConfigs
  <2> QED
    BY <2>2, <2>3
<1>13. CASE K!AssetConfigFails
  <2>1. /\ pc = "assetConfig" /\ row' = row /\ got'.list = got.list
        /\ got'.config = K!Mapped(got.config, K!Pending(got.config), <<>>)
        /\ pc' = K!AfterConfig(K!Mapped(got.config, K!Pending(got.config), <<>>))
    BY <1>0, <1>13 DEF K!AssetConfigFails, K!Blank
  <2> QED
    BY <1>11, <2>1
<1>14. CASE K!ReadBaseline \/ K!BaselineFails
  <2>1. PICK baseline, kind : K!TakeBaseline(baseline, kind)
    BY <1>14 DEF K!ReadBaseline, K!BaselineFails
  <2>2. pc = "baseline"
    BY <1>14 DEF K!ReadBaseline, K!BaselineFails
  <2> DEFINE config == <<[maxAge |-> got.maxAge, baseline |-> baseline]>>
  <2>3. /\ row' = row /\ got'.list = got.list
        /\ got'.config = K!Mapped(got.config, K!Pending(got.config), config)
        /\ pc' = K!AfterConfig(K!Mapped(got.config, K!Pending(got.config), config))
    BY <1>0, <2>1 DEF K!TakeBaseline, K!Blank
  <2>4. config[1].maxAge = <<>> \/ config[1].maxAge[1] \in Nat
    BY <2>2 DEF KineticConfigs
  <2> HIDE DEF config
  <2> QED
    BY <1>11, <2>2, <2>3, <2>4
<1>15. CASE K!ReadAdmin \/ K!ReadOps
  BY <1>0, <1>15, <1>a DEF K!ReadAdmin, K!ReadOps, K!Blank
<1>16. CASE K!ReadFails
  BY <1>0, <1>16, <1>a DEF K!ReadFails, K!ThrowFor, K!Blank
<1>17. CASE K!Finish
  BY <1>0, <1>17, <1>a DEF K!Finish, K!Publish
<1>18. CASE K!Tick \/ K!TransactionLands \/ K!Finished
  BY <1>18, <1>a DEF K!Tick, K!TransactionLands, K!ChainMoves, K!Finished, K!readVars
<1> QED
  BY <1>1, <1>2, <1>3, <1>4, <1>5, <1>6, <1>7, <1>8, <1>9, <1>10, <1>12, <1>13, <1>14, <1>15,
     <1>16, <1>17, <1>18 DEF K!Next

\* The adapter's own copy of the rulebook is the rulebook.
LEMMA KineticArithmetic ==
    /\ \A age, w : K!Freshness(age, w) = Freshness(age, w)
    /\ \A r, m : K!FreshnessWindow(r, m) = FreshnessWindow(r, m)
    /\ \A s : K!WorstScore(s) = WorstScore(s)
    /\ \A x, y : K!MinOf(x, y) = MinOf(x, y) /\ K!MaxOf(x, y) = MaxOf(x, y)
BY DEF K!Freshness, Freshness, K!FreshnessWindow, FreshnessWindow, K!WorstScore, WorstScore,
   K!MinOf, MinOf, K!MaxOf, MaxOf, K!Clamp, Clamp, K!RoundDiv, RoundDiv, K!Min, Min

\* How fresh a listed price is, and what its limit is at most.
LEMMA KineticFreshness ==
    ASSUME KineticTyped, KineticPrices, KineticConfigs,
           NEW a \in DOMAIN got.price, a \in DOMAIN got.config
    PROVE  /\ K!DeclaredAge(a) \in Nat
           /\ K!PriceFreshness(a) \in 0 .. 100
           /\ got.price[a] # <<>> /\ K!Age(a) > got.threshold =>
                 \/ K!PriceFreshness(a) = 0
                 \/ got.ttl >= MinOf(K!DeclaredAge(a), StaleCeiling)
<1> DEFINE limit == K!DeclaredAge(a)
           w == FreshnessWindow(got.ttl, limit)
           taken == got.price[a][1].at
<1>1. limit \in Nat /\ limit <= got.threshold /\ got.threshold \in Nat /\ got.ttl \in Nat
  BY DEF KineticTyped, KineticConfigs, K!DeclaredAge, K!MinOf
<1>2. CASE got.price[a] = <<>>
  BY <1>1, <1>2 DEF K!PriceFreshness
<1>3. CASE got.price[a] # <<>>
  <2>1. taken \in Nat /\ got.fetchedAt \in Nat
    BY <1>3 DEF KineticPrices, KineticTyped
  <2> HIDE DEF limit
  <2>2. Window(w) /\ (w.dead <= limit \/ limit = 0 \/ got.ttl >= MinOf(limit, StaleCeiling))
    BY <1>1, WindowEnds
  <2>3. w.dead \in Int
    BY <2>2 DEF Window
  <2>4. /\ K!PriceFreshness(a) = Freshness(K!Age(a), w)
        /\ K!Age(a) = MaxOf(0, got.fetchedAt - taken)
    BY <1>3, KineticArithmetic DEF K!PriceFreshness, K!Age, limit
  <2> HIDE DEF w, taken
  <2>5. K!Age(a) \in Nat
    BY <2>1, <2>4 DEF MaxOf
  <2>6. K!PriceFreshness(a) \in 0 .. 100 /\ (K!Age(a) > w.dead => K!PriceFreshness(a) = 0)
    BY <2>2, <2>4, <2>5, FreshnessRange
  <2>7. K!Age(a) > got.threshold =>
           K!PriceFreshness(a) = 0 \/ got.ttl >= MinOf(limit, StaleCeiling)
    <3>1. CASE w.dead <= limit
      BY <1>1, <2>3, <2>5, <2>6, <3>1
    <3>2. CASE limit = 0
      BY <1>1, <3>2, StaleCeilingAssumption DEF MinOf
    <3> QED
      BY <2>2, <3>1, <3>2
  <2> QED
    BY <1>1, <2>6, <2>7 DEF limit
<1> QED
  BY <1>2, <1>3

\* What the properties say of a Kinetic row follows from what it was made of.
LEMMA KineticRowSays ==
    ASSUME KineticTyped, KineticOutcome, KineticPrices, KineticConfigs, Published
    PROVE  /\ (\E a \in K!Listed : got.price[a] = <<>> \/ got.config[a] = <<>>)
                  => Factor("oracleSafety") = 0
           /\ \A a \in K!Listed :
                 /\ got.price[a] = <<>> => a \in row.stale
                 /\ a \in row.stale => \/ K!PriceFreshness(a) = 0
                                       \/ got.ttl >= MinOf(K!DeclaredAge(a), StaleCeiling)
<1>1. KineticRowTrue
  BY DEF KineticOutcome, Published, FailedRow, Unpublished
<1>2. Factor("oracleSafety") = K!OracleSafety /\ row.stale = K!Stale
  BY <1>1 DEF KineticRowTrue, Factor
<1>3. \A a \in K!Listed : a \in DOMAIN got.price /\ a \in DOMAIN got.config
  BY KineticCounts DEF K!Listed, KineticPrices, KineticConfigs, Published
<1> DEFINE left == {K!PriceFreshness(a) : a \in K!Listed}
           right == {IF K!Armed(a) THEN 100 ELSE 0 : a \in K!Listed}
<1>4. left \in SUBSET (0 .. 100)
  <2>1. \A a \in K!Listed : K!PriceFreshness(a) \in 0 .. 100
    BY <1>3, KineticFreshness
  <2> QED
    BY <2>1
<1>5. right \in SUBSET (0 .. 100)
  OBVIOUS
<1>6. K!OracleSafety = MinOf(WorstScore(left), WorstScore(right))
  BY KineticArithmetic DEF K!OracleSafety
<1>7. ASSUME NEW a \in K!Listed, got.price[a] = <<>> \/ got.config[a] = <<>>
      PROVE  0 \in left \cup right
  <2>1. got.price[a] = <<>> => K!PriceFreshness(a) = 0
    BY DEF K!PriceFreshness
  <2>2. got.config[a] = <<>> => ~K!Armed(a)
    BY DEF K!Armed
  <2> QED
    BY <1>7, <2>1, <2>2
<1> HIDE DEF left, right
<1>8. /\ K!OracleSafety \in 0 .. 100
      /\ \A s \in left \cup right : K!OracleSafety <= s
  BY <1>4, <1>5, <1>6, WorstOfBoth
<1>9. ASSUME NEW a \in K!Listed, got.price[a] = <<>> \/ got.config[a] = <<>>
      PROVE  Factor("oracleSafety") = 0
  <2>1. K!OracleSafety <= 0
    BY <1>7, <1>8, <1>9
  <2> QED
    BY <1>2, <1>8, <2>1
<1>10. ASSUME NEW a \in K!Listed
       PROVE  /\ got.price[a] = <<>> => a \in row.stale
              /\ a \in row.stale => \/ K!PriceFreshness(a) = 0
                                    \/ got.ttl >= MinOf(K!DeclaredAge(a), StaleCeiling)
  <2>1. a \in K!Stale <=> got.price[a] = <<>> \/ K!Age(a) > got.threshold
    BY DEF K!Stale, K!StaleReserves
  <2>2. got.price[a] = <<>> => K!PriceFreshness(a) = 0
    BY DEF K!PriceFreshness
  <2>3. got.price[a] # <<>> /\ K!Age(a) > got.threshold =>
           K!PriceFreshness(a) = 0 \/ got.ttl >= MinOf(K!DeclaredAge(a), StaleCeiling)
    BY <1>3, KineticFreshness
  <2> QED
    BY <1>2, <2>1, <2>2, <2>3
<1> QED
  BY <1>9, <1>10

\* Of the parts of a market, one outranks the others and blocks what any of them does.
KineticLevels == {{}, {"borrow"}, {"supply", "borrow"}, K!LendingOperations}

\* What a reserve may block is one of four, each level blocking what those below it block.
LEMMA KineticNested ==
    /\ \A flags : K!ReserveBlocked(flags) \in KineticLevels
    /\ \A b \in KineticLevels :
          /\ K!Rank(K!LendingLevel(b, FALSE)) \in 0 .. 3
          /\ \A c \in KineticLevels :
                K!Rank(K!LendingLevel(b, FALSE)) <= K!Rank(K!LendingLevel(c, FALSE))
                    => b \subseteq c
<1>1. \A flags : K!ReserveBlocked(flags) \in KineticLevels
  BY DEF K!ReserveBlocked, KineticLevels
<1>2. /\ K!Rank(K!LendingLevel({}, FALSE)) = 0
      /\ K!Rank(K!LendingLevel({"borrow"}, FALSE)) = 1
      /\ K!Rank(K!LendingLevel({"supply", "borrow"}, FALSE)) = 2
      /\ K!Rank(K!LendingLevel(K!LendingOperations, FALSE)) = 3
  BY DEF K!Rank, K!LendingLevel, K!LendingOperations
<1>3. /\ {} \subseteq {"borrow"} /\ {"borrow"} \subseteq {"supply", "borrow"}
      /\ {"supply", "borrow"} \subseteq K!LendingOperations
  BY DEF K!LendingOperations
<1> DEFINE r(b) == K!Rank(K!LendingLevel(b, FALSE))
           N == {}
           B1 == {"borrow"}
           B2 == {"supply", "borrow"}
           All == K!LendingOperations
<1>4. r(N) = 0 /\ r(B1) = 1 /\ r(B2) = 2 /\ r(All) = 3
  BY <1>2
<1>5. N \subseteq B1 /\ B1 \subseteq B2 /\ B2 \subseteq All
  BY <1>3
<1>6. KineticLevels = {N, B1, B2, All}
  BY DEF KineticLevels
<1> HIDE DEF r, N, B1, B2, All
<1>7. N \subseteq B2 /\ N \subseteq All /\ B1 \subseteq All
  BY <1>5
<1>8. \A b \in KineticLevels : r(b) \in 0 .. 3
  BY <1>4, <1>6
<1>9. \A b, c \in KineticLevels : r(b) <= r(c) => b \subseteq c
  <2> SUFFICES ASSUME NEW b \in KineticLevels, NEW c \in KineticLevels, r(b) <= r(c)
               PROVE  b \subseteq c
    OBVIOUS
  <2>1. CASE b = N
    BY <1>5, <1>6, <1>7, <2>1
  <2>2. CASE b = B1
    <3>1. c # N
      BY <1>4, <2>2
    <3> QED
      BY <1>5, <1>6, <1>7, <2>2, <3>1
  <2>3. CASE b = B2
    <3>1. c # N /\ c # B1
      BY <1>4, <2>3
    <3> QED
      BY <1>5, <1>6, <2>3, <3>1
  <2>4. CASE b = All
    <3>1. c # N /\ c # B1 /\ c # B2
      BY <1>4, <2>4
    <3> QED
      BY <1>6, <2>4, <3>1
  <2> QED
    BY <1>6, <2>1, <2>2, <2>3, <2>4
<1> QED
  BY <1>1, <1>8, <1>9 DEF r

\* A sequence put behind one item.
LEMMA Prepended ==
    ASSUME NEW T, NEW x \in T, NEW s \in Seq(T)
    PROVE  /\ <<x>> \o s \in Seq(T)
           /\ Len(<<x>> \o s) = Len(s) + 1
           /\ (<<x>> \o s)[1] = x
           /\ \A i \in 1 .. Len(s) : (<<x>> \o s)[i + 1] = s[i]
<1>1. <<x>> \in Seq(T) /\ Len(<<x>>) = 1
  OBVIOUS
<1> QED
  BY <1>1

\* A function on the first numbers is a sequence.
LEMMA ListedUp ==
    ASSUME NEW T, NEW n \in Nat, NEW f \in [1 .. n -> T]
    PROVE  f \in Seq(T) /\ Len(f) = n
OBVIOUS

\* The first of the states no other outranks exists, when there are any.
LEMMA OneIsMostRestrictive ==
    ASSUME NEW T, NEW states \in Seq(T), states # <<>>,
           \A i \in DOMAIN states : K!Rank(states[i].level) \in 0 .. 4
    PROVE  \E i \in DOMAIN states :
              /\ K!MostRestrictive(states) = states[i]
              /\ \A j \in DOMAIN states : K!Rank(states[j].level) <= K!Rank(states[i].level)
<1> DEFINE ranks == {K!Rank(states[i].level) : i \in DOMAIN states}
           most == Max(ranks)
           tops == {i \in DOMAIN states : K!Rank(states[i].level) = most}
           first == Min(tops)
<1>1. DOMAIN states = 1 .. Len(states) /\ Len(states) \in Nat /\ 1 \in DOMAIN states
  OBVIOUS
<1>2. ranks \in SUBSET Int /\ ranks # {} /\ \A x \in ranks : x <= 4
  BY <1>1
<1>3. most \in ranks /\ \A x \in ranks : x <= most
  <2> HIDE DEF ranks
  <2>1. 4 \in Int
    OBVIOUS
  <2> QED
    BY <1>2, <2>1, GreatestOf
<1> HIDE DEF most
<1>4. tops \in SUBSET Nat /\ tops # {}
  BY <1>1, <1>3
<1>5. first \in tops /\ \A i \in tops : first <= i
  <2> HIDE DEF tops
  <2> QED
    BY <1>4, LeastOf
<1> HIDE DEF first
<1>6. \A j \in DOMAIN states :
         /\ K!Rank(states[j].level) <= K!Rank(states[first].level)
         /\ j < first => K!Rank(states[j].level) < K!Rank(states[first].level)
  <2> SUFFICES ASSUME NEW j \in DOMAIN states
               PROVE  /\ K!Rank(states[j].level) <= K!Rank(states[first].level)
                      /\ j < first =>
                            K!Rank(states[j].level) < K!Rank(states[first].level)
    OBVIOUS
  <2>1. K!Rank(states[first].level) = most /\ K!Rank(states[j].level) <= most
    BY <1>3, <1>5
  <2>2. j < first => K!Rank(states[j].level) # most
    BY <1>1, <1>5
  <2>3. K!Rank(states[j].level) \in Int /\ most \in Int
    BY <1>2, <1>3
  <2> QED
    BY <2>1, <2>2, <2>3
<1>7. first \in DOMAIN states
  BY <1>5
<1>8. \E i \in DOMAIN states : \A j \in DOMAIN states :
         /\ K!Rank(states[j].level) <= K!Rank(states[i].level)
         /\ j < i => K!Rank(states[j].level) < K!Rank(states[i].level)
  BY <1>6, <1>7
<1> QED
  BY <1>8 DEF K!MostRestrictive

\* What the router and the listed reserves block between them.
KineticUnion(paused, list, flags) ==
    K!LendingState((IF paused THEN K!LendingOperations ELSE {}) \cup
                   UNION {K!ReserveBlocked(flags[a]) : a \in Members(list)}, FALSE)

\* The most restrictive part blocks whatever any part does.
LEMMA KineticStateIsUnion ==
    ASSUME NEW paused, NEW list \in Seq(Assets), NEW flags
    PROVE  K!OperationalState(paused, list, flags) = KineticUnion(paused, list, flags)
<1> DEFINE router == IF paused THEN K!LendingOperations ELSE {}
           blocked(i) == IF i = 1 THEN router ELSE K!ReserveBlocked(flags[list[i - 1]])
           n == Len(list) + 1
           states == <<K!LendingState(router, FALSE)>> \o
                     [i \in DOMAIN list |-> K!LendingState(K!ReserveBlocked(flags[list[i]]), FALSE)]
           all == router \cup UNION {K!ReserveBlocked(flags[a]) : a \in Members(list)}
<1>0. n \in Nat /\ n > 0 /\ DOMAIN list = 1 .. (n - 1) /\ n - 1 \in Nat
  OBVIOUS
<1>1. \A i \in 1 .. n : blocked(i) \in KineticLevels
  BY KineticNested DEF KineticLevels
<1> DEFINE T == {K!LendingState(b, FALSE) : b \in KineticLevels}
<1>2. states \in Seq(T) /\ Len(states) = n /\ states # <<>>
      /\ \A i \in 1 .. n : states[i] = K!LendingState(blocked(i), FALSE)
  <2> DEFINE rest == [i \in 1 .. (n - 1) |->
                         K!LendingState(K!ReserveBlocked(flags[list[i]]), FALSE)]
             head == K!LendingState(router, FALSE)
  <2>1. rest \in Seq(T) /\ Len(rest) = n - 1
    <3>1. \A i \in 1 .. (n - 1) : rest[i] \in T
      BY KineticNested
    <3>2. rest \in [1 .. (n - 1) -> T]
      BY <3>1
    <3> HIDE DEF rest, T, n
    <3> QED
      BY <1>0, <3>2, ListedUp
  <2>2. head \in T
    BY DEF KineticLevels
  <2>5. states = <<head>> \o rest
    BY <1>0
  <2>9. \A i \in 1 .. (n - 1) :
            rest[i] = K!LendingState(K!ReserveBlocked(flags[list[i]]), FALSE)
    OBVIOUS
  <2>a. blocked(1) = router
    OBVIOUS
  <2>b. \A i \in 1 .. n : i # 1 => blocked(i) = K!ReserveBlocked(flags[list[i - 1]])
    OBVIOUS
  <2>c. head = K!LendingState(router, FALSE)
    OBVIOUS
  <2> HIDE DEF rest, head, T, router, blocked
  <2>3. /\ <<head>> \o rest \in Seq(T) /\ Len(<<head>> \o rest) = n - 1 + 1
        /\ (<<head>> \o rest)[1] = head
        /\ \A i \in 1 .. (n - 1) : (<<head>> \o rest)[i + 1] = rest[i]
    BY <1>0, <2>1, <2>2, Prepended
  <2> HIDE DEF states, n
  <2>6. ASSUME NEW i \in 1 .. n
        PROVE  states[i] = K!LendingState(blocked(i), FALSE)
    <3>1. CASE i = 1
      BY <2>3, <2>5, <2>a, <2>c, <3>1
    <3>2. CASE i # 1
      <4>1. i - 1 \in 1 .. (n - 1) /\ (i - 1) + 1 = i
        BY <1>0, <3>2
      <4>2. states[(i - 1) + 1] = rest[i - 1]
        BY <2>3, <2>5, <4>1
      <4> QED
        BY <2>9, <2>b, <3>2, <4>1, <4>2
    <3> QED
      BY <3>1, <3>2
  <2>7. Len(states) = n /\ states \in Seq(T)
    BY <1>0, <2>3, <2>5
  <2>8. states # <<>>
    BY <1>0, <2>7
  <2> QED
    BY <2>6, <2>7, <2>8
<1>3. K!OperationalState(paused, list, flags) = K!MostRestrictive(states)
  BY DEF K!OperationalState
<1>a. all = UNION {blocked(i) : i \in 1 .. n}
  <2>1. router = blocked(1) /\ 1 \in 1 .. n
    BY <1>0
  <2>2. \A a \in Members(list) : \E i \in 1 .. n : blocked(i) = K!ReserveBlocked(flags[a])
    <3> SUFFICES ASSUME NEW a \in Members(list)
                 PROVE  \E i \in 1 .. n : blocked(i) = K!ReserveBlocked(flags[a])
      OBVIOUS
    <3>1. PICK j \in 1 .. (n - 1) : a = list[j]
      BY <1>0 DEF Members
    <3>2. j + 1 \in 1 .. n /\ j + 1 # 1 /\ (j + 1) - 1 = j
      BY <1>0
    <3>3. blocked(j + 1) = K!ReserveBlocked(flags[a])
      BY <3>1, <3>2
    <3> QED
      BY <3>2, <3>3
  <2>3. \A i \in 1 .. n : blocked(i) = router \/
            \E a \in Members(list) : blocked(i) = K!ReserveBlocked(flags[a])
    <3> SUFFICES ASSUME NEW i \in 1 .. n, i # 1
                 PROVE  \E a \in Members(list) : blocked(i) = K!ReserveBlocked(flags[a])
      OBVIOUS
    <3>1. i - 1 \in DOMAIN list
      BY <1>0
    <3> QED
      BY <3>1 DEF Members
  <2> HIDE DEF blocked, router, n
  <2> QED
    BY <2>1, <2>2, <2>3
<1> HIDE DEF blocked, n, states, router
<1>b. \A i \in 1 .. n : states[i].level = K!LendingLevel(blocked(i), FALSE)
  <2>1. \A b : K!LendingState(b, FALSE).level = K!LendingLevel(b, FALSE)
    BY DEF K!LendingState
  <2> QED
    BY <1>2, <2>1, Zenon
<1>4. DOMAIN states = 1 .. n
  BY <1>2
<1>5. \A i \in DOMAIN states : K!Rank(states[i].level) \in 0 .. 3
  BY <1>1, <1>4, <1>b, KineticNested
<1>6. \A i \in DOMAIN states : K!Rank(states[i].level) \in 0 .. 4
  BY <1>5
<1> HIDE DEF T
<1>7. PICK i \in DOMAIN states :
         /\ K!MostRestrictive(states) = states[i]
         /\ \A j \in DOMAIN states : K!Rank(states[j].level) <= K!Rank(states[i].level)
  BY <1>2, <1>6, OneIsMostRestrictive
<1>8. \A j \in 1 .. n : blocked(j) \subseteq blocked(i)
  BY <1>1, <1>4, <1>7, <1>b, KineticNested
<1>9. all = blocked(i)
  BY <1>4, <1>7, <1>8, <1>a
<1>10. states[i] = K!LendingState(all, FALSE)
  BY <1>2, <1>4, <1>9
<1> QED
  BY <1>3, <1>7, <1>10 DEF router, KineticUnion

\* Whose flags are known: in each round a reserve is added, then its debt is read.
KineticRounds ==
    /\ pc \in {"instance", "paused", "list"} =>
          DOMAIN got.flags = {} /\ DOMAIN got.borrowed = {}
    /\ pc \in {"reserve", "supply", "debt"} =>
          /\ Prefix(got.list, got.borrowed)
          /\ Cardinality(DOMAIN got.borrowed) < Len(got.list)
          /\ DOMAIN got.flags = DOMAIN got.borrowed \cup
                 (IF pc = "reserve" THEN {} ELSE {K!Pending(got.borrowed)})
    /\ pc \in PastPrice \cup {"prices", "price"} \/ row.status = "ok" =>
          DOMAIN got.flags = Members(got.list)

\* No reserve has been read.
LEMMA KineticRoundsInit == K!Init => KineticRounds
BY DEF K!Init, K!Blank, K!Unpublished, KineticRounds, PastPrice, PastConfig

\* A round goes from the flags to the supply and to the debt.
LEMMA KineticRoundsStep ==
    KineticTyped /\ KineticTyped' /\ KineticOutcome /\ KineticRounds /\ K!Next => KineticRounds'
<1> SUFFICES ASSUME KineticTyped, KineticTyped', KineticOutcome, KineticRounds, K!Next
             PROVE  KineticRounds'
  OBVIOUS
<1>0. DOMAIN got = DOMAIN K!Blank /\ got.list \in Seq(Assets)
      /\ (pc \notin {"instance", "paused", "list", "done"} => got.list # <<>>)
  BY DEF KineticTyped
<1>c. pc # "done" => row.status = "none"
  BY DEF KineticOutcome, Unpublished, FailedRow
<1> DEFINE Late == PastPrice \cup {"prices", "price"}
<1>a. ASSUME got'.list = got.list, got'.flags = got.flags, got'.borrowed = got.borrowed,
             row'.status = "ok" => row.status = "ok" \/ pc \in Late,
             pc' \in {"instance", "paused", "list"} => pc \in {"instance", "paused", "list"},
             pc' \in {"reserve", "supply", "debt"} =>
                 /\ pc \in {"reserve", "supply", "debt"}
                 /\ pc' = "reserve" <=> pc = "reserve",
             pc' \in Late => pc \in Late
      PROVE  KineticRounds'
  <2>1. K!Pending(got.borrowed)' = K!Pending(got.borrowed)
    BY <1>a DEF K!Pending
  <2>2. Prefix(got.list, got.borrowed) => Prefix(got.list, got.borrowed)'
    BY <1>a DEF Prefix
  <2> QED
    BY <1>a, <2>1, <2>2 DEF KineticRounds
<1> USE DEF K!Learn, K!Throw, K!FailedRow
<1> USE DEF PastPrice, PastConfig
<1>1. CASE K!ReadInstance \/ K!ReadPaused
  BY <1>0, <1>1, <1>a DEF K!ReadInstance, K!ReadPaused, K!Blank
<1>2. CASE K!ReadReservesList
  <2>1. CASE K!Throw
    BY <1>a, <2>1
  <2>2. CASE got' = [got EXCEPT !.list = chain.list] /\ pc' = "reserve" /\ row' = row
    <3>1. /\ pc = "list" /\ DOMAIN got'.flags = {} /\ DOMAIN got'.borrowed = {}
      BY <1>0, <1>2, <2>2 DEF K!ReadReservesList, K!Blank, KineticRounds
    <3>2. got'.list \in Seq(Assets) /\ got'.list # <<>>
      BY <2>2 DEF KineticTyped
    <3>3. Prefix(got.list, got.borrowed)' /\ Cardinality(DOMAIN got.borrowed)' = 0
      BY <3>1, <3>2, PrefixNone
    <3>4. Len(got'.list) > 0
      BY <3>2
    <3>5. row'.status = "none"
      BY <1>c, <2>2, <3>1
    <3> QED
      BY <2>2, <3>1, <3>3, <3>4, <3>5 DEF KineticRounds
  <2> QED
    BY <1>2, <2>1, <2>2 DEF K!ReadReservesList
<1>3. CASE K!ReadReserve
  <2> DEFINE a == K!Pending(got.flags)
  <2>1. /\ pc = "reserve" /\ pc' = "supply" /\ row' = row
        /\ got'.list = got.list /\ got'.borrowed = got.borrowed
        /\ got'.flags = K!Mapped(got.flags, a, K!ReserveFlags(a))
    BY <1>0, <1>3 DEF K!ReadReserve, K!Blank
  <2>2. DOMAIN got.flags = DOMAIN got.borrowed
        /\ Prefix(got.list, got.borrowed)
        /\ Cardinality(DOMAIN got.borrowed) < Len(got.list)
    BY <2>1 DEF KineticRounds
  <2>3. a = K!Pending(got.borrowed)
    BY <2>2 DEF K!Pending
  <2>4. DOMAIN got'.flags = DOMAIN got.borrowed \cup {K!Pending(got.borrowed)}
    BY <2>1, <2>2, <2>3 DEF K!Mapped
  <2>5. K!Pending(got.borrowed)' = K!Pending(got.borrowed)
    BY <2>1 DEF K!Pending
  <2>6. Prefix(got.list, got.borrowed)'
    BY <2>1, <2>2 DEF Prefix
  <2>7. row.status = "none"
    BY <1>c, <2>1
  <2> QED
    BY <2>1, <2>2, <2>4, <2>5, <2>6, <2>7 DEF KineticRounds
<1>4. CASE K!ReadSupply
  BY <1>0, <1>4, <1>a DEF K!ReadSupply, K!Blank
<1>5. CASE K!ReadDebt
  <2> DEFINE a == K!Pending(got.borrowed)
             known == K!Mapped(got.borrowed, a, chain.borrowed[a])
  <2>1. /\ pc = "debt" /\ row' = row
        /\ pc' = IF K!AllKnown(known) THEN "prices" ELSE "reserve"
        /\ got'.list = got.list /\ got'.flags = got.flags /\ got'.borrowed = known
    BY <1>0, <1>5 DEF K!ReadDebt, K!Blank
  <2>2. /\ DOMAIN got.flags = DOMAIN got.borrowed \cup {a}
        /\ Prefix(got.list, got.borrowed)
        /\ Cardinality(DOMAIN got.borrowed) < Len(got.list)
    BY <2>1 DEF KineticRounds
  <2>3. /\ DOMAIN known = DOMAIN got.borrowed \cup {a}
        /\ K!AllKnown(known) => DOMAIN known = Members(got.list)
        /\ ~K!AllKnown(known) => /\ Prefix(got.list, known)
                                 /\ Cardinality(DOMAIN known) < Len(got.list)
    BY <1>0, <2>2, KineticTakes
  <2> HIDE DEF a, known
  <2>4. row.status = "none"
    BY <1>c, <2>1
  <2>5. CASE K!AllKnown(known)
    BY <2>1, <2>2, <2>3, <2>4, <2>5 DEF KineticRounds
  <2>6. CASE ~K!AllKnown(known)
    <3>1. pc' = "reserve" /\ DOMAIN got'.flags = DOMAIN got'.borrowed
      BY <2>1, <2>2, <2>3, <2>6
    <3>2. Prefix(got.list, got.borrowed)' /\ Cardinality(DOMAIN got.borrowed)' < Len(got.list)'
      BY <2>1, <2>3, <2>6 DEF Prefix
    <3> QED
      BY <2>1, <2>4, <3>1, <3>2 DEF KineticRounds
  <2> QED
    BY <2>5, <2>6
<1>6. CASE K!ReadPriceBatch \/ K!PriceBatchFails
  BY <1>0, <1>6, <1>a DEF K!ReadPriceBatch, K!PriceBatchFails, K!Blank
<1>7. CASE K!ReadPrice \/ K!PriceFails
  BY <1>0, <1>7, <1>a DEF K!ReadPrice, K!PriceFails, K!TakePrice, K!Blank
<1>8. CASE K!ReadOracleConfig \/ K!ReadOraclePaused \/ K!ReadOracleInstance
  BY <1>0, <1>8, <1>a DEF K!ReadOracleConfig, K!ReadOraclePaused, K!ReadOracleInstance, K!Blank
<1>9. CASE K!ReadAssetConfig
  BY <1>0, <1>9, <1>a DEF K!ReadAssetConfig, K!AfterConfig, K!Blank
<1>10. CASE K!AssetConfigFails
  BY <1>0, <1>10, <1>a DEF K!AssetConfigFails, K!AfterConfig, K!Blank
<1>11. CASE K!ReadBaseline \/ K!BaselineFails
  BY <1>0, <1>11, <1>a DEF K!ReadBaseline, K!BaselineFails, K!TakeBaseline, K!AfterConfig, K!Blank
<1>12. CASE K!ReadAdmin \/ K!ReadOps
  BY <1>0, <1>12, <1>a DEF K!ReadAdmin, K!ReadOps, K!Blank
<1>13. CASE K!ReadFails
  BY <1>0, <1>13, <1>a DEF K!ReadFails, K!ThrowFor, K!Blank
<1>14. CASE K!Finish
  BY <1>0, <1>14, <1>a DEF K!Finish, K!Publish
<1>15. CASE K!Tick \/ K!TransactionLands \/ K!Finished
  BY <1>15, <1>a DEF K!Tick, K!TransactionLands, K!ChainMoves, K!Finished, K!readVars
<1> QED
  BY <1>1, <1>2, <1>3, <1>4, <1>5, <1>6, <1>7, <1>8, <1>9, <1>10, <1>11, <1>12, <1>13, <1>14,
     <1>15 DEF K!Next

\* Two chains that differ in no more than one of the things a row's state is made from.
KineticAlike(c, d, spot) ==
    /\ spot # <<"paused">> => c.paused = d.paused
    /\ spot # <<"list">> => c.list = d.list
    /\ \A a \in Assets : spot # <<"flags", a>> => c.flags[a] = d.flags[a]

\* What has been read is from the chain as it was or as it is.
KineticReadFrom(before, spot) ==
    /\ K!TrueState(before) \in seen
    /\ changes = 0 => before = chain
    /\ KineticAlike(before, chain, spot)
    /\ pc \notin {"instance", "paused"} => got.paused \in {before.paused, chain.paused}
    /\ pc \notin {"instance", "paused", "list"} => got.list \in {before.list, chain.list}
    /\ \A a \in DOMAIN got.flags : got.flags[a] \in {before.flags[a], chain.flags[a]}

\* Until a second transaction lands, there is one chain or there are two.
KineticSeen ==
    /\ changes \in Nat
    /\ K!TrueState(chain) \in seen
    /\ changes <= 1 /\ row.status # "failed" => \E before, spot : KineticReadFrom(before, spot)

\* At first there is one.
LEMMA KineticSeenInit == K!Init => KineticSeen
<1> SUFFICES ASSUME K!Init
             PROVE  KineticSeen
  OBVIOUS
<1>1. /\ changes = 0 /\ seen = {K!TrueState(chain)} /\ pc = "instance"
      /\ DOMAIN got.flags = {}
  BY DEF K!Init, K!Blank
<1>2. KineticReadFrom(chain, <<>>)
  BY <1>1 DEF KineticReadFrom, KineticAlike
<1> QED
  BY <1>1, <1>2 DEF KineticSeen

\* What is read is of the chain as it is, and a transaction changes one part of it.
LEMMA KineticSeenStep ==
    KineticTyped /\ KineticChain /\ KineticOutcome /\ KineticRounds /\ KineticSeen /\ K!Next
    => KineticSeen'
<1> SUFFICES ASSUME KineticTyped, KineticChain, KineticOutcome, KineticRounds, KineticSeen, K!Next
             PROVE  KineticSeen'
  OBVIOUS
<1>0. DOMAIN got = DOMAIN K!Blank /\ got.list \in Seq(Assets)
  BY DEF KineticTyped
<1>c. pc # "done" => row.status = "none"
  BY DEF KineticOutcome, Unpublished, FailedRow
<1>a. ASSUME chain' = chain, seen' = seen, changes' = changes,
             row'.status # "failed" =>
                 /\ row.status # "failed"
                 /\ pc' \notin {"instance", "paused"} =>
                       \/ got'.paused = chain.paused
                       \/ got'.paused = got.paused /\ pc \notin {"instance", "paused"}
                 /\ pc' \notin {"instance", "paused", "list"} =>
                       \/ got'.list = chain.list
                       \/ got'.list = got.list /\ pc \notin {"instance", "paused", "list"}
                 /\ \A a \in DOMAIN got'.flags :
                       \/ got'.flags[a] = chain.flags[a]
                       \/ a \in DOMAIN got.flags /\ got'.flags[a] = got.flags[a]
      PROVE  KineticSeen'
  <2> SUFFICES ASSUME changes' <= 1, row'.status # "failed"
               PROVE  \E before, spot : KineticReadFrom(before, spot)'
    BY <1>a, Zenon DEF KineticSeen
  <2>1. PICK before, spot : KineticReadFrom(before, spot)
    BY <1>a DEF KineticSeen
  <2>2. KineticReadFrom(before, spot)'
    <3>1. pc' \notin {"instance", "paused"} => got'.paused \in {before.paused, chain'.paused}
      BY <1>a, <2>1 DEF KineticReadFrom
    <3>2. pc' \notin {"instance", "paused", "list"} => got'.list \in {before.list, chain'.list}
      BY <1>a, <2>1 DEF KineticReadFrom
    <3>3. \A a \in DOMAIN got'.flags : got'.flags[a] \in {before.flags[a], chain'.flags[a]}
      BY <1>a, <2>1 DEF KineticReadFrom
    <3>4. /\ K!TrueState(before) \in seen'
          /\ changes' = 0 => before = chain'
          /\ KineticAlike(before, chain', spot)
      BY <1>a, <2>1 DEF KineticReadFrom
    <3> QED
      BY <3>1, <3>2, <3>3, <3>4 DEF KineticReadFrom
  <2> QED
    BY <2>2
<1>b. ASSUME chain' = chain, seen' = seen, changes' = changes,
             got'.paused = got.paused, got'.list = got.list, got'.flags = got.flags,
             row'.status = "failed" \/ row' = row,
             pc \in {"instance", "paused"} => pc' = pc \/ row'.status = "failed",
             pc = "list" => pc' = pc \/ row'.status = "failed"
      PROVE  KineticSeen'
  BY <1>a, <1>b
<1> USE DEF K!Learn, K!Throw, K!FailedRow
<1>1. CASE K!ReadInstance
  BY <1>0, <1>1, <1>a DEF K!ReadInstance, K!Blank, KineticRounds
<1>2. CASE K!ReadPaused
  <2>1. /\ chain' = chain /\ seen' = seen /\ changes' = changes /\ row' = row
        /\ pc = "paused" /\ pc' = "list"
        /\ got'.paused = chain.paused /\ got'.list = got.list /\ got'.flags = got.flags
    BY <1>0, <1>2 DEF K!ReadPaused, K!Blank
  <2>2. row.status # "failed"
    BY <1>c, <2>1
  <2> QED
    BY <1>a, <2>1, <2>2
<1>3. CASE K!ReadReservesList
  <2>1. CASE K!Throw
    BY <1>b, <2>1
  <2>2. CASE K!Learn([got EXCEPT !.list = chain.list], "reserve")
    <3>1. /\ chain' = chain /\ seen' = seen /\ changes' = changes /\ row' = row
          /\ pc = "list" /\ pc' = "reserve"
          /\ got'.paused = got.paused /\ got'.list = chain.list /\ got'.flags = got.flags
      BY <1>0, <1>3, <2>2 DEF K!ReadReservesList, K!Blank
    <3>2. row.status # "failed"
      BY <1>c, <3>1
    <3> QED
      BY <1>a, <3>1, <3>2
  <2> QED
    BY <1>3, <2>1, <2>2 DEF K!ReadReservesList
<1>4. CASE K!ReadReserve
  <2> DEFINE a == K!Pending(got.flags)
  <2>1. /\ chain' = chain /\ seen' = seen /\ changes' = changes /\ row' = row
        /\ pc = "reserve" /\ pc' = "supply"
        /\ got'.paused = got.paused /\ got'.list = got.list
        /\ got'.flags = K!Mapped(got.flags, a, chain.flags[a])
    BY <1>0, <1>4 DEF K!ReadReserve, K!ReserveFlags, K!Blank
  <2>2. row.status # "failed"
    BY <1>c, <2>1
  <2> HIDE DEF a
  <2>3. \A x \in DOMAIN got'.flags :
            \/ got'.flags[x] = chain.flags[x]
            \/ x \in DOMAIN got.flags /\ got'.flags[x] = got.flags[x]
    BY <2>1 DEF K!Mapped
  <2> QED
    BY <1>a, <2>1, <2>2, <2>3
<1>5. CASE K!ReadSupply \/ K!ReadDebt
  BY <1>0, <1>5, <1>b DEF K!ReadSupply, K!ReadDebt, K!Blank
<1>6. CASE K!ReadPriceBatch \/ K!PriceBatchFails
  BY <1>0, <1>6, <1>b DEF K!ReadPriceBatch, K!PriceBatchFails, K!Blank
<1>7. CASE K!ReadPrice \/ K!PriceFails
  BY <1>0, <1>7, <1>b DEF K!ReadPrice, K!PriceFails, K!TakePrice, K!Blank
<1>8. CASE K!ReadOracleConfig \/ K!ReadOraclePaused \/ K!ReadOracleInstance
  BY <1>0, <1>8, <1>b DEF K!ReadOracleConfig, K!ReadOraclePaused, K!ReadOracleInstance, K!Blank
<1>9. CASE K!ReadAssetConfig
  BY <1>0, <1>9, <1>b DEF K!ReadAssetConfig, K!AfterConfig, K!Blank
<1>10. CASE K!AssetConfigFails
  BY <1>0, <1>10, <1>b DEF K!AssetConfigFails, K!AfterConfig, K!Blank
<1>11. CASE K!ReadBaseline \/ K!BaselineFails
  BY <1>0, <1>11, <1>b DEF K!ReadBaseline, K!BaselineFails, K!TakeBaseline, K!AfterConfig, K!Blank
<1>12. CASE K!ReadAdmin \/ K!ReadOps
  BY <1>0, <1>12, <1>b DEF K!ReadAdmin, K!ReadOps, K!Blank
<1>13. CASE K!ReadFails
  BY <1>0, <1>13, <1>b DEF K!ReadFails, K!ThrowFor, K!Blank
<1>14. CASE K!Finish
  <2>1. /\ chain' = chain /\ seen' = seen /\ changes' = changes /\ got' = got
        /\ pc = "finish" /\ pc' = "done"
    BY <1>14 DEF K!Finish, K!Publish
  <2>2. row.status # "failed"
    BY <1>c, <2>1
  <2> QED
    BY <1>a, <2>1, <2>2
<1>15. CASE K!Tick \/ K!Finished
  BY <1>15, <1>b DEF K!Tick, K!Finished, K!readVars
<1>16. CASE K!TransactionLands
  <2>1. PICK i \in DOMAIN KineticEdits : chain' = K!Edited(chain, KineticEdits[i])
    BY <1>16 DEF K!TransactionLands, K!ChainMoves
  <2>2. /\ changes' = changes + 1 /\ seen' = seen \cup {K!TrueState(chain')}
        /\ got' = got /\ pc' = pc /\ row' = row /\ row.status = "none"
    BY <1>16 DEF K!TransactionLands, K!ChainMoves
  <2> DEFINE e == KineticEdits[i]
             spot == IF e.part = "flags" THEN <<"flags", e.key>> ELSE <<e.part>>
  <2>3. KineticAlike(chain, chain', spot)
    <3>1. /\ e.part \in KineticParts
          /\ e.part = "flags" <=> "key" \in DOMAIN e
      BY ChainsAssumption DEF Sound
    <3>2. DOMAIN chain = KineticParts /\ Assets \subseteq DOMAIN chain["flags"]
      BY DEF KineticChain, KineticParts, KineticHolds
    <3> HIDE DEF e
    <3>3. CASE e.part = "flags"
      <4>1. chain' = [chain EXCEPT !["flags"][e.key] = e.to]
        BY <2>1, <3>1, <3>3 DEF K!Edited, e
      <4>2. chain'.paused = chain.paused /\ chain'.list = chain.list
        BY <3>2, <4>1 DEF KineticParts
      <4>3. \A a \in Assets : a # e.key => chain'.flags[a] = chain.flags[a]
        BY <3>2, <4>1 DEF KineticParts
      <4>4. \A a \in Assets : spot # <<"flags", a>> => a # e.key
        BY <3>3
      <4> QED
        BY <4>2, <4>3, <4>4 DEF KineticAlike
    <3>4. CASE e.part # "flags"
      <4>1. chain' = [chain EXCEPT ![e.part] = e.to]
        BY <2>1, <3>1, <3>4 DEF K!Edited, e
      <4>2. /\ e.part # "paused" => chain'.paused = chain.paused
            /\ e.part # "list" => chain'.list = chain.list
            /\ chain'.flags = chain.flags
        BY <3>2, <3>4, <4>1 DEF KineticParts
      <4>3. spot = <<e.part>>
        BY <3>4
      <4> QED
        BY <4>2, <4>3 DEF KineticAlike
    <3> QED
      BY <3>3, <3>4
  <2> HIDE DEF spot, e
  <2>4. K!TrueState(chain') \in seen' /\ K!TrueState(chain) \in seen' /\ changes' \in Nat
    BY <2>2 DEF KineticSeen
  <2>5. ASSUME changes' <= 1
        PROVE  \E before, s : KineticReadFrom(before, s)'
    <3>1. changes = 0 /\ changes' # 0
      BY <2>2, <2>5 DEF KineticSeen
    <3>2. PICK before, old : KineticReadFrom(before, old)
      BY <2>2, <3>1 DEF KineticSeen
    <3>3. before = chain
      BY <3>1, <3>2 DEF KineticReadFrom
    <3>4. PICK s : s = spot
      OBVIOUS
    <3>5. KineticAlike(before, chain', s) /\ K!TrueState(before) \in seen'
      BY <2>3, <2>4, <3>3, <3>4
    <3>6. KineticReadFrom(before, s)'
      <4>1. changes' = 0 => before = chain'
        BY <3>1
      <4>2. pc' \notin {"instance", "paused"} => got'.paused \in {before.paused, chain'.paused}
        BY <2>2, <3>2, <3>3 DEF KineticReadFrom
      <4>3. pc' \notin {"instance", "paused", "list"} => got'.list \in {before.list, chain'.list}
        BY <2>2, <3>2, <3>3 DEF KineticReadFrom
      <4>4. \A a \in DOMAIN got'.flags : got'.flags[a] \in {before.flags[a], chain'.flags[a]}
        BY <2>2, <3>2, <3>3 DEF KineticReadFrom
      <4> QED
        BY <3>5, <4>1, <4>2, <4>3, <4>4 DEF KineticReadFrom
    <3> QED
      BY <3>6
  <2> QED
    BY <2>4, <2>5 DEF KineticSeen
<1> QED
  BY <1>1, <1>2, <1>3, <1>4, <1>5, <1>6, <1>7, <1>8, <1>9, <1>10, <1>11, <1>12, <1>13, <1>14,
     <1>15, <1>16 DEF K!Next

\* The row's state is the union over a chain that was there during the fetch.
LEMMA KineticStateSeen ==
    ASSUME KineticTyped, KineticOutcome, KineticRounds, KineticSeen,
           row.status = "ok", changes <= 1
    PROVE  row.state \in seen
<1> DEFINE Agrees(c) == /\ got.paused = c.paused /\ got.list = c.list
                        /\ \A a \in Members(got.list) : got.flags[a] = c.flags[a]
<1>1. PICK before, spot : KineticReadFrom(before, spot)
  BY DEF KineticSeen
<1>2. /\ pc = "done"
      /\ row.state = K!OperationalState(got.paused, got.list, got.flags)
  BY DEF KineticOutcome, KineticRowTrue, Unpublished, FailedRow
<1>3. /\ got.list \in Seq(Assets)
      /\ Members(got.list) \subseteq Assets
      /\ DOMAIN got.flags = Members(got.list)
  BY DEF KineticTyped, KineticRounds, Members
<1>4. K!TrueState(before) \in seen /\ K!TrueState(chain) \in seen
  BY <1>1 DEF KineticReadFrom, KineticSeen
<1>5. /\ got.paused \in {before.paused, chain.paused}
      /\ got.list \in {before.list, chain.list}
      /\ \A a \in Members(got.list) : got.flags[a] \in {before.flags[a], chain.flags[a]}
  BY <1>1, <1>2, <1>3 DEF KineticReadFrom
<1>6. KineticAlike(before, chain, spot)
  BY <1>1 DEF KineticReadFrom
<1>7. Agrees(before) \/ Agrees(chain)
  <2>1. CASE spot = <<"paused">>
    <3>1. \A a \in Members(got.list) : before.flags[a] = chain.flags[a]
      BY <1>3, <1>6, <2>1 DEF KineticAlike
    <3>2. before.list = chain.list
      BY <1>6, <2>1 DEF KineticAlike
    <3> QED
      BY <1>5, <3>1, <3>2
  <2>2. CASE spot = <<"list">>
    <3>1. \A a \in Members(got.list) : before.flags[a] = chain.flags[a]
      BY <1>3, <1>6, <2>2 DEF KineticAlike
    <3>2. before.paused = chain.paused
      BY <1>6, <2>2 DEF KineticAlike
    <3> QED
      BY <1>5, <3>1, <3>2
  <2>3. CASE spot # <<"paused">> /\ spot # <<"list">>
    <3>1. before.paused = chain.paused /\ before.list = chain.list
      BY <1>6, <2>3 DEF KineticAlike
    <3>2. CASE \A a \in Members(got.list) : before.flags[a] = chain.flags[a]
      BY <1>5, <3>1, <3>2
    <3>3. CASE \E a \in Members(got.list) : before.flags[a] # chain.flags[a]
      <4>1. PICK a \in Members(got.list) : before.flags[a] # chain.flags[a]
        BY <3>3
      <4>2. \A b \in Members(got.list) : b # a => before.flags[b] = chain.flags[b]
        <5>1. spot = <<"flags", a>>
          BY <1>3, <1>6, <4>1 DEF KineticAlike
        <5>2. \A b : b # a => spot # <<"flags", b>>
          BY <5>1
        <5> QED
          BY <1>3, <1>6, <5>2 DEF KineticAlike
      <4>3. CASE got.flags[a] = chain.flags[a]
        BY <1>5, <3>1, <4>2, <4>3
      <4>4. CASE got.flags[a] = before.flags[a]
        BY <1>5, <3>1, <4>2, <4>4
      <4> QED
        BY <1>5, <4>3, <4>4
    <3> QED
      BY <3>2, <3>3
  <2> QED
    BY <2>1, <2>2, <2>3
<1>8. ASSUME NEW c, Agrees(c)
      PROVE  row.state = K!TrueState(c)
  <2>1. {K!ReserveBlocked(got.flags[a]) : a \in Members(got.list)}
            = {K!ReserveBlocked(c.flags[a]) : a \in Members(c.list)}
    BY <1>8
  <2>2. row.state = KineticUnion(got.paused, got.list, got.flags)
    BY <1>2, <1>3, KineticStateIsUnion
  <2>3. K!TrueState(c) = K!LendingState(
                (IF c.paused THEN K!LendingOperations ELSE {}) \cup
                UNION {K!ReserveBlocked(c.flags[a]) : a \in Members(c.list)}, FALSE)
    BY KineticCounts DEF K!TrueState
  <2>4. c.paused = got.paused
    BY <1>8
  <2> QED
    BY <2>1, <2>2, <2>3, <2>4 DEF KineticUnion
<1> QED
  BY <1>4, <1>7, <1>8

--------------------------------------------------------------------------------
(* Aquarius.                                                               *)

\* Where a fetch may stand.
AquariusPcs == {"type", "pool", "entries", "token", "issuer", "roles", "account", "ops", "router",
                "finish", "done"}

\* Whose roles are read, and what a list of them is.
BothContracts == {"pool", "router"}
RoleLists == Seq([role : STRING, holders : Seq(Addresses)])

\* The published row is what was computed from what was read.
AquariusRowTrue ==
    /\ row.status = "ok"
    /\ row.factors["adminKeySafety"][1] = A!AdminKeySafety
    /\ row.factors["assetControlSafety"][1] = A!AssetControlSafety
    /\ row.state = A!OperationalState(got.killed)

\* The chain holds what it should.
AquariusChain ==
    DOMAIN chain = AquariusParts /\ \A part \in AquariusParts : AquariusHolds(part, chain[part])

\* The types of what has been read.
AquariusTyped ==
    /\ DOMAIN got = DOMAIN A!Blank
    /\ got.list \in Seq(Assets)
    /\ got.contract \in BothContracts
    /\ DOMAIN got.roles = BothContracts /\ DOMAIN got.accounts = BothContracts
    /\ \A c \in BothContracts : got.roles[c].roles \in RoleLists
    /\ pc \in AquariusPcs
    /\ pc \notin {"type", "pool", "done"} => got.list # <<>>

\* No row yet, a failed one, or a true one; only a failed fetch met a failed endpoint.
AquariusOutcome ==
    \/ pc # "done" /\ row = Unpublished /\ got.transport = FALSE
    \/ pc = "done" /\ row = FailedRow
    \/ pc = "done" /\ AquariusRowTrue /\ got.transport = FALSE

\* A transaction leaves a chain that holds what it should.
LEMMA AquariusChainKept ==
    ASSUME AquariusChain, NEW i \in DOMAIN AquariusEdits,
           chain' = A!Edited(chain, AquariusEdits[i])
    PROVE  AquariusChain'
<1> DEFINE e == AquariusEdits[i]
<1>1. /\ e.part \in AquariusParts
      /\ e.part = "killed" <=> "key" \in DOMAIN e
      /\ e.part # "killed" => AquariusHolds(e.part, e.to)
  BY ChainsAssumption DEF Sound
<1> HIDE DEF e
<1>2. CASE e.part # "killed"
  <2>1. chain' = [chain EXCEPT ![e.part] = e.to]
    BY <1>1, <1>2 DEF A!Edited, e
  <2>2. DOMAIN chain' = AquariusParts
    BY <2>1 DEF AquariusChain
  <2>3. ASSUME NEW part \in AquariusParts
        PROVE  AquariusHolds(part, chain'[part])
    <3>1. chain'[part] = IF part = e.part THEN e.to ELSE chain[part]
      BY <1>1, <2>1 DEF AquariusChain
    <3> QED
      BY <1>1, <1>2, <3>1 DEF AquariusChain
  <2> QED
    BY <2>2, <2>3 DEF AquariusChain
<1>3. CASE e.part = "killed"
  <2>1. chain' = [chain EXCEPT !["killed"][e.key] = e.to]
    BY <1>1, <1>3 DEF A!Edited, e
  <2>2. DOMAIN chain' = AquariusParts
    BY <2>1 DEF AquariusChain
  <2>3. A!KillFlags \subseteq DOMAIN chain["killed"] /\ "killed" \in DOMAIN chain
    BY DEF AquariusChain, AquariusParts, AquariusHolds
  <2>4. DOMAIN chain'["killed"] = DOMAIN chain["killed"]
    BY <2>1, <2>3
  <2>5. \A part \in AquariusParts : part # "killed" => chain'[part] = chain[part]
    BY <2>1 DEF AquariusChain
  <2>6. ASSUME NEW part \in AquariusParts
        PROVE  AquariusHolds(part, chain'[part])
    <3>1. CASE part = "killed"
      BY <2>3, <2>4, <3>1 DEF AquariusHolds
    <3>2. CASE part # "killed"
      BY <2>5, <3>2 DEF AquariusChain
    <3> QED
      BY <3>1, <3>2
  <2> QED
    BY <2>2, <2>6 DEF AquariusChain
<1> QED
  BY <1>2, <1>3

\* Only a transaction changes the chain.
LEMMA AquariusChainStep == AquariusChain /\ A!Next => AquariusChain'
<1> SUFFICES ASSUME AquariusChain, A!Next
             PROVE  AquariusChain'
  OBVIOUS
<1>1. CASE chain' = chain
  BY <1>1 DEF AquariusChain
<1>2. CASE A!TransactionLands
  BY <1>2, AquariusChainKept DEF A!TransactionLands, A!ChainMoves
<1>3. chain' = chain \/ A!TransactionLands
  BY DEF A!Next, A!Learn, A!Throw, A!ThrowFor, A!Publish, A!ReadPoolType, A!PoolReadLands,
     A!ReadEntries, A!ReadChunk, A!ReadToken, A!TakeIssuer, A!ReadIssuerFlags, A!IssuerRefused,
     A!ReadRoles, A!TakeRoles, A!RolesRefused, A!ReadAccount, A!TakeAccount, A!ReadOps,
     A!AccountRefused, A!ReadRouter, A!ReadFails, A!Finish, A!Tick, A!Finished, A!readVars
<1> QED
  BY <1>1, <1>2, <1>3

\* A fetch begins well.
LEMMA AquariusTypedInit == A!Init => AquariusTyped /\ AquariusChain /\ AquariusOutcome
<1> SUFFICES ASSUME A!Init
             PROVE  AquariusTyped /\ AquariusChain /\ AquariusOutcome
  OBVIOUS
<1>1. AquariusTyped
  <2>1. got = A!Blank /\ pc = "type"
    BY DEF A!Init
  <2>2. /\ got.list = <<>> /\ got.contract = "pool"
        /\ DOMAIN got.roles = BothContracts /\ DOMAIN got.accounts = BothContracts
        /\ \A c \in BothContracts : got.roles[c].roles = <<>>
    BY <2>1 DEF A!Blank, A!NotRead, BothContracts
  <2>3. <<>> \in RoleLists
    BY DEF RoleLists
  <2> QED
    BY <2>1, <2>2, <2>3 DEF AquariusTyped, AquariusPcs, BothContracts
<1>2. AquariusChain
  BY ChainsAssumption DEF A!Init, Sound, AquariusChain
<1>3. AquariusOutcome
  BY DEF A!Init, A!Unpublished, A!Blank, Unpublished, AquariusOutcome
<1> QED
  BY <1>1, <1>2, <1>3

\* A list of roles taken in.
LEMMA AquariusTakesRoles ==
    ASSUME AquariusTyped, got.list # <<>>, NEW read, read.roles \in RoleLists, A!TakeRoles(read)
    PROVE  /\ AquariusTyped'
           /\ got'.roles = [got.roles EXCEPT ![got.contract] = read]
           /\ got'.accounts =
                 [got.accounts EXCEPT ![got.contract] = [i \in DOMAIN read.roles |-> <<>>]]
           /\ got'.list = got.list /\ got'.contract = got.contract /\ got'.cache = got.cache
           /\ got'.issuer = got.issuer /\ got'.transport = got.transport
           /\ got'.killed = got.killed /\ got'.landed = got.landed
           /\ pc' \in {A!AfterRoles, "account"} /\ chain' = chain /\ row' = row
           /\ pc' = "account" <=> A!Unread(read.roles, [i \in DOMAIN read.roles |-> <<>>]) # {}
<1> DEFINE none == [i \in DOMAIN read.roles |-> <<>>]
<1>0. DOMAIN got = DOMAIN A!Blank /\ got.contract \in BothContracts
      /\ DOMAIN got.roles = BothContracts /\ DOMAIN got.accounts = BothContracts
  BY DEF AquariusTyped
<1>1. /\ got' = [got EXCEPT !.roles[got.contract] = read, !.accounts[got.contract] = none]
      /\ pc' = IF A!Unread(read.roles, none) = {} THEN A!AfterRoles ELSE "account"
      /\ chain' = chain /\ row' = row
  BY DEF A!TakeRoles, A!Learn
<1>2. A!AfterRoles \in {"router", "finish"}
  BY DEF A!AfterRoles
<1> HIDE DEF none
<1>3. /\ got'.roles = [got.roles EXCEPT ![got.contract] = read]
      /\ got'.accounts = [got.accounts EXCEPT ![got.contract] = none]
      /\ got'.list = got.list /\ got'.contract = got.contract /\ got'.cache = got.cache
      /\ got'.issuer = got.issuer /\ got'.transport = got.transport
      /\ got'.killed = got.killed /\ got'.landed = got.landed
      /\ DOMAIN got' = DOMAIN got
  BY <1>0, <1>1 DEF A!Blank
<1>4. /\ pc' \in {A!AfterRoles, "account"}
      /\ pc' = "account" <=> A!Unread(read.roles, none) # {}
  BY <1>1, <1>2
<1>5. AquariusTyped'
  <2>1. \A c \in BothContracts : got'.roles[c].roles \in RoleLists
    BY <1>0, <1>3 DEF AquariusTyped
  <2>2. DOMAIN got'.roles = BothContracts /\ DOMAIN got'.accounts = BothContracts
    BY <1>0, <1>3
  <2>3. pc' \in AquariusPcs
    BY <1>2, <1>4 DEF AquariusPcs
  <2> QED
    BY <1>0, <1>3, <2>1, <2>2, <2>3 DEF AquariusTyped
<1> QED
  BY <1>1, <1>3, <1>4, <1>5 DEF none

\* A sequence, whatever it is of.
IsSeq(s) == s \in Seq({s[k] : k \in DOMAIN s})

\* An item more, of whatever kind.
LEMMA Appended ==
    ASSUME NEW s, NEW e, IsSeq(s)
    PROVE  /\ IsSeq(Append(s, e))
           /\ Len(s) \in Nat /\ DOMAIN s = 1 .. Len(s)
           /\ Len(Append(s, e)) = Len(s) + 1 /\ DOMAIN Append(s, e) = 1 .. (Len(s) + 1)
           /\ Append(s, e)[Len(s) + 1] = e
           /\ \A k \in 1 .. Len(s) : Append(s, e)[k] = s[k]
<1> DEFINE S == {s[k] : k \in DOMAIN s}
           T == S \cup {e}
<1>1. s \in Seq(S)
  BY DEF IsSeq
<1>2. /\ Len(s) \in Nat /\ DOMAIN s = 1 .. Len(s)
      /\ \A k \in 1 .. Len(s) : s[k] \in S
  BY <1>1
<1>3. s \in Seq(T)
  BY <1>1, <1>2
<1>4. e \in T
  OBVIOUS
<1> HIDE DEF S, T
<1>5. /\ Append(s, e) \in Seq(T)
      /\ Len(Append(s, e)) = Len(s) + 1
      /\ Append(s, e)[Len(s) + 1] = e
      /\ \A k \in 1 .. Len(s) : Append(s, e)[k] = s[k]
  BY <1>2, <1>3, <1>4
<1> DEFINE a == Append(s, e)
<1> HIDE DEF a
<1>6. a \in Seq(T) /\ Len(a) = Len(s) + 1 /\ Len(a) \in Nat /\ DOMAIN a = 1 .. (Len(s) + 1)
  BY <1>2, <1>5 DEF a
<1>7. IsSeq(a)
  <2>1. a \in [1 .. Len(a) -> {a[k] : k \in DOMAIN a}]
    BY <1>6
  <2> QED
    BY <1>6, <2>1 DEF IsSeq
<1> QED
  BY <1>2, <1>5, <1>6, <1>7 DEF a

\* The holders of a role that were read so far, each as it is in the cache.
Answered(read, holders, cache) ==
    /\ IsSeq(read) /\ Len(read) <= Len(holders)
    /\ \A k \in 1 .. Len(read) :
          holders[k] \in DOMAIN cache /\ read[k] = cache[holders[k]]

\* An account learned elsewhere changes no answer.
LEMMA AnsweredStill ==
    ASSUME NEW read, NEW holders, NEW cache, NEW address, NEW account,
           Answered(read, holders, cache),
           address \in DOMAIN cache => cache[address] = account
    PROVE  Answered(read, holders, Mapped(cache, address, account))
<1>1. \A h \in DOMAIN cache : /\ h \in DOMAIN Mapped(cache, address, account)
                              /\ Mapped(cache, address, account)[h] = cache[h]
  BY DEF Mapped
<1> QED
  BY <1>1 DEF Answered

\* The next holder is answered.
LEMMA AnsweredOneMore ==
    ASSUME NEW read, NEW holders \in Seq(Addresses), NEW cache, NEW account,
           Answered(read, holders, cache), Len(read) < Len(holders),
           holders[Len(read) + 1] \in DOMAIN cache =>
               cache[holders[Len(read) + 1]] = account
    PROVE  Answered(Append(read, account), holders,
                    Mapped(cache, holders[Len(read) + 1], account))
<1> DEFINE address == holders[Len(read) + 1]
           known == Mapped(cache, address, account)
           more == Append(read, account)
<1>1. Answered(read, holders, known)
  BY AnsweredStill
<1>2. address \in DOMAIN known /\ known[address] = account
  BY DEF Mapped
<1>0. IsSeq(read)
  BY DEF Answered
<1>3. /\ IsSeq(more) /\ Len(read) \in Nat /\ Len(more) = Len(read) + 1
      /\ more[Len(read) + 1] = account
      /\ \A k \in 1 .. Len(read) : more[k] = read[k]
  BY <1>0, Appended
<1> HIDE DEF known, more
<1>4. Len(more) <= Len(holders)
  BY <1>3
<1>5. ASSUME NEW k \in 1 .. Len(more)
      PROVE  holders[k] \in DOMAIN known /\ more[k] = known[holders[k]]
  <2>1. CASE k = Len(read) + 1
    BY <1>2, <1>3, <2>1
  <2>2. CASE k # Len(read) + 1
    <3>1. k \in 1 .. Len(read)
      BY <1>3, <2>2
    <3> QED
      BY <1>1, <1>3, <3>1 DEF Answered
  <2> QED
    BY <2>1, <2>2
<1> QED
  BY <1>3, <1>4, <1>5 DEF Answered, known, more

\* What a list of roles is.
LEMMA RoleListsHold ==
    ASSUME NEW roles \in RoleLists
    PROVE  /\ DOMAIN roles \subseteq Nat
           /\ \A i \in DOMAIN roles : roles[i].holders \in Seq(Addresses)
<1> DEFINE entries == [role : STRING, holders : Seq(Addresses)]
<1>1. roles \in Seq(entries)
  BY DEF RoleLists
<1>2. \A r \in entries : r.holders \in Seq(Addresses)
  OBVIOUS
<1> HIDE DEF entries
<1>3. DOMAIN roles \subseteq Nat /\ \A i \in DOMAIN roles : roles[i] \in entries
  BY <1>1
<1> QED
  BY <1>2, <1>3

\* The roles of a contract.
Roster(c) == got.roles[c].roles

\* Every account that was read is the one in the cache.
AquariusHeld ==
    /\ \A c \in BothContracts :
          /\ DOMAIN got.accounts[c] = DOMAIN Roster(c)
          /\ \A i \in DOMAIN Roster(c) :
                Answered(got.accounts[c][i], Roster(c)[i].holders, got.cache)
    /\ \A h \in DOMAIN got.cache : got.cache[h].status = "read" => got.cache[h].ops \in Nat

\* No role of the contract has a holder left.
AllRead(g, c) == A!Unread(g.roles[c].roles, g.accounts[c]) = {}

\* The role that is next, and its holder.
LEMMA AquariusNext ==
    ASSUME AquariusTyped, AquariusHeld, ~AllRead(got, got.contract)
    PROVE  /\ A!NextRole \in DOMAIN Roster(got.contract)
           /\ Len(A!Accounts[A!NextRole]) < Len(Roster(got.contract)[A!NextRole].holders)
           /\ Roster(got.contract)[A!NextRole].holders \in Seq(Addresses)
           /\ A!NextHolder =
                 Roster(got.contract)[A!NextRole].holders[Len(A!Accounts[A!NextRole]) + 1]
           /\ A!NextHolder \in Addresses
<1> DEFINE roles == Roster(got.contract)
           left == A!Unread(roles, got.accounts[got.contract])
<1>1. got.contract \in BothContracts /\ roles \in RoleLists
  BY DEF AquariusTyped, Roster
<1>2. /\ DOMAIN roles \subseteq Nat
      /\ \A i \in DOMAIN roles : roles[i].holders \in Seq(Addresses)
  BY <1>1, RoleListsHold
<1>3. left \in SUBSET Nat /\ left # {} /\ left \subseteq DOMAIN roles
  BY <1>2 DEF A!Unread, AllRead, Roster
<1>4. A!NextRole = Min(left)
  <2>1. A!Roster = roles /\ A!Accounts = got.accounts[got.contract]
    BY DEF A!Roster, A!Accounts, Roster
  <2> QED
    BY <2>1, Zenon DEF A!NextRole, A!Min, Min
<1>5. A!NextRole \in left
  BY <1>3, <1>4, LeastOf
<1>6. A!NextRole \in DOMAIN roles /\ Len(A!Accounts[A!NextRole]) < Len(roles[A!NextRole].holders)
  BY <1>5 DEF A!Unread, A!Accounts
<1>7. A!NextHolder = roles[A!NextRole].holders[Len(A!Accounts[A!NextRole]) + 1]
  BY DEF A!NextHolder, A!Roster, Roster
<1>8. Len(A!Accounts[A!NextRole]) \in Nat
  <2>1. Answered(got.accounts[got.contract][A!NextRole], roles[A!NextRole].holders, got.cache)
    BY <1>1, <1>6 DEF AquariusHeld
  <2>2. Len(got.accounts[got.contract][A!NextRole]) \in Nat
    BY <2>1, Appended DEF Answered
  <2> QED
    BY <2>2 DEF A!Accounts
<1> HIDE DEF roles, left
<1>9. roles[A!NextRole].holders \in Seq(Addresses)
  BY <1>2, <1>6
<1>10. A!NextHolder \in Addresses
  BY <1>6, <1>7, <1>8, <1>9
<1> QED
  BY <1>6, <1>7, <1>9, <1>10 DEF roles

\* A holder's account taken in.
LEMMA AquariusTakesAccount ==
    ASSUME AquariusTyped, AquariusHeld, got.list # <<>>, ~AllRead(got, got.contract), NEW account,
           account.status = "read" => account.ops \in Nat,
           A!NextHolder \in DOMAIN got.cache => got.cache[A!NextHolder] = account,
           A!TakeAccount(account)
    PROVE  /\ AquariusTyped' /\ AquariusHeld'
           /\ got'.roles = got.roles
           /\ \A c \in BothContracts : c # got.contract => got'.accounts[c] = got.accounts[c]
           /\ got'.list = got.list /\ got'.contract = got.contract
           /\ got'.issuer = got.issuer /\ got'.transport = got.transport
           /\ got'.killed = got.killed /\ got'.landed = got.landed
           /\ pc' \in {A!AfterRoles, "account"} /\ chain' = chain /\ row' = row
           /\ pc' = "account" <=> ~AllRead(got', got.contract)
<1> DEFINE c == got.contract
           role == A!NextRole
           grown == [A!Accounts EXCEPT ![role] = Append(@, account)]
           known == Mapped(got.cache, A!NextHolder, account)
<1>0. DOMAIN got = DOMAIN A!Blank /\ c \in BothContracts
      /\ DOMAIN got.roles = BothContracts /\ DOMAIN got.accounts = BothContracts
  BY DEF AquariusTyped
<1>1. /\ got' = [got EXCEPT !.accounts[got.contract] = grown, !.cache = known,
                            !.reading = <<>>]
      /\ pc' = IF A!Unread(A!Roster, grown) = {} THEN A!AfterRoles ELSE "account"
      /\ chain' = chain /\ row' = row
  BY DEF A!TakeAccount, A!Learn, A!Mapped, Mapped
<1>2. A!AfterRoles \in {"router", "finish"}
  BY DEF A!AfterRoles
<1>3. /\ role \in DOMAIN Roster(c)
      /\ Len(A!Accounts[role]) < Len(Roster(c)[role].holders)
      /\ Roster(c)[role].holders \in Seq(Addresses)
      /\ A!NextHolder = Roster(c)[role].holders[Len(A!Accounts[role]) + 1]
  BY AquariusNext
<1>4. A!Accounts = got.accounts[c] /\ A!Roster = Roster(c)
  BY DEF A!Accounts, A!Roster, Roster
<1> HIDE DEF grown, known, role
<1>5. /\ got'.accounts = [got.accounts EXCEPT ![c] = grown]
      /\ got'.cache = known
      /\ got'.roles = got.roles /\ got'.list = got.list /\ got'.contract = got.contract
      /\ got'.issuer = got.issuer /\ got'.transport = got.transport
      /\ got'.killed = got.killed /\ got'.landed = got.landed
      /\ DOMAIN got' = DOMAIN got
  BY <1>0, <1>1 DEF A!Blank
<1>6. /\ \A b \in BothContracts : b # c => got'.accounts[b] = got.accounts[b]
      /\ got'.accounts[c] = grown /\ DOMAIN got'.accounts = BothContracts
  BY <1>0, <1>5
<1>7. AquariusTyped'
  <2>1. pc' \in AquariusPcs
    BY <1>1, <1>2 DEF AquariusPcs
  <2> QED
    BY <1>0, <1>5, <1>6, <2>1 DEF AquariusTyped
<1>8. pc' = "account" <=> ~AllRead(got', got.contract)
  <2>1. AllRead(got', got.contract) <=> A!Unread(Roster(c), grown) = {}
    BY <1>5, <1>6 DEF AllRead, Roster
  <2> QED
    BY <1>1, <1>2, <1>4, <2>1
<1>9. AquariusHeld'
  <2>1. \A b : Roster(b)' = Roster(b)
    BY <1>5 DEF Roster
  <2>2. /\ DOMAIN got.accounts[c] = DOMAIN Roster(c)
        /\ \A b \in BothContracts : \A i \in DOMAIN Roster(b) :
              Answered(got.accounts[b][i], Roster(b)[i].holders, got.cache)
    BY <1>0 DEF AquariusHeld
  <2>3. DOMAIN grown = DOMAIN Roster(c)
    BY <1>4, <2>2 DEF grown
  <2>4. \A b \in BothContracts : \A i \in DOMAIN Roster(b) :
            Answered(got.accounts[b][i], Roster(b)[i].holders, known)
    BY <2>2, AnsweredStill DEF known
  <2>5. \A i \in DOMAIN Roster(c) : Answered(grown[i], Roster(c)[i].holders, known)
    <3> SUFFICES ASSUME NEW i \in DOMAIN Roster(c)
                 PROVE  Answered(grown[i], Roster(c)[i].holders, known)
      OBVIOUS
    <3>1. CASE i # role
      <4>1. grown[i] = got.accounts[c][i]
        BY <1>4, <2>2, <3>1 DEF grown
      <4> QED
        BY <1>0, <2>4, <4>1
    <3>2. CASE i = role
      <4>1. grown[role] = Append(A!Accounts[role], account)
        BY <1>3, <1>4, <2>2 DEF grown
      <4>2. Answered(A!Accounts[role], Roster(c)[role].holders, got.cache)
        BY <1>0, <1>3, <1>4, <2>2
      <4>3. Answered(Append(A!Accounts[role], account), Roster(c)[role].holders, known)
        BY <1>3, <4>2, AnsweredOneMore DEF known
      <4> QED
        BY <3>2, <4>1, <4>3
    <3> QED
      BY <3>1, <3>2
  <2>6. \A h \in DOMAIN known : known[h].status = "read" => known[h].ops \in Nat
    <3>1. \A h \in DOMAIN got.cache : got.cache[h].status = "read" => got.cache[h].ops \in Nat
      BY DEF AquariusHeld
    <3> QED
      BY <3>1 DEF known, Mapped
  <2>7. ASSUME NEW b \in BothContracts
        PROVE  /\ DOMAIN got'.accounts[b] = DOMAIN Roster(b)
               /\ \A i \in DOMAIN Roster(b) :
                     Answered(got'.accounts[b][i], Roster(b)[i].holders, known)
    <3>1. CASE b = c
      BY <1>6, <2>3, <2>5, <3>1
    <3>2. CASE b # c
      BY <1>6, <2>4, <3>2 DEF AquariusHeld
    <3> QED
      BY <3>1, <3>2
  <2> QED
    BY <1>5, <2>1, <2>6, <2>7, Zenon DEF AquariusHeld
<1> QED
  BY <1>1, <1>5, <1>6, <1>7, <1>8, <1>9

\* Which contract's roles are being read, and what has been read by then.
AquariusTurn ==
    /\ pc \in {"type", "pool", "entries", "token", "issuer", "router"} => got.contract = "pool"
    /\ pc \in {"account", "ops"} => ~AllRead(got, got.contract)
    /\ pc = "ops" => A!NextHolder \in Keyholders /\ A!NextHolder \notin DOMAIN got.cache
    /\ pc = "router" \/ got.contract = "router" \/ row.status = "ok" => AllRead(got, "pool")
    /\ pc = "finish" \/ row.status = "ok" => got.contract = "router" /\ AllRead(got, "router")

\* No role has been read.
LEMMA AquariusReadsInit == A!Init => AquariusHeld /\ AquariusTurn
<1> SUFFICES ASSUME A!Init
             PROVE  AquariusHeld /\ AquariusTurn
  OBVIOUS
<1>1. /\ got.contract = "pool" /\ got.cache = <<>> /\ pc = "type" /\ row.status = "none"
      /\ \A c \in BothContracts : got.roles[c].roles = <<>> /\ got.accounts[c] = <<>>
  BY DEF A!Init, A!Blank, A!NotRead, A!Unpublished, BothContracts
<1> QED
  BY <1>1 DEF AquariusHeld, AquariusTurn, Roster

\* After a role list or an account the next is an account, or the list is through.
LEMMA AquariusMovesOn ==
    ASSUME AquariusTyped, AquariusTurn, pc \in {"roles", "account", "ops"}, row.status = "none",
           got'.contract = got.contract, row' = row,
           \A c \in BothContracts : c # got.contract =>
               got'.accounts[c] = got.accounts[c] /\ got'.roles[c] = got.roles[c],
           pc' \in {A!AfterRoles, "account"},
           pc' = "account" <=> ~AllRead(got', got.contract)
    PROVE  AquariusTurn'
<1>1. got.contract \in BothContracts /\ BothContracts = {"pool", "router"}
  BY DEF AquariusTyped, BothContracts
<1>2. CASE got.contract = "pool"
  <2>1. pc' \in {"router", "account"}
    BY <1>2 DEF A!AfterRoles
  <2>2. pc' = "router" => AllRead(got', "pool")
    BY <1>2
  <2> QED
    BY <1>2, <2>1, <2>2 DEF AquariusTurn
<1>3. CASE got.contract = "router"
  <2>1. pc' \in {"finish", "account"}
    BY <1>3 DEF A!AfterRoles
  <2>2. pc' = "finish" => AllRead(got', "router")
    BY <1>3
  <2>3. AllRead(got', "pool")
    BY <1>1, <1>3 DEF AquariusTurn, AllRead
  <2> QED
    BY <1>3, <2>1, <2>2, <2>3 DEF AquariusTurn
<1> QED
  BY <1>1, <1>2, <1>3

\* What has been read, and in which order.
AquariusReads == AquariusTyped /\ AquariusHeld /\ AquariusTurn

\* A holder is read once, and the cache answers for it from then on.
LEMMA AquariusReadsStep ==
    AquariusReads /\ AquariusChain /\ AquariusOutcome /\ A!Next => AquariusReads'
<1> SUFFICES ASSUME AquariusTyped, AquariusHeld, AquariusTurn, AquariusChain, AquariusOutcome,
                    A!Next
             PROVE  AquariusReads'
  BY DEF AquariusReads
<1>0. /\ DOMAIN got = DOMAIN A!Blank /\ got.contract \in BothContracts
      /\ DOMAIN got.roles = BothContracts /\ DOMAIN got.accounts = BothContracts
      /\ pc \in AquariusPcs
      /\ pc \notin {"type", "pool", "done"} => got.list # <<>>
  BY DEF AquariusTyped
<1>c. pc # "done" => row.status = "none"
  BY DEF AquariusOutcome, Unpublished, FailedRow
<1> DEFINE Early == {"type", "pool", "entries", "token", "issuer"}
<1>a. ASSUME got'.roles = got.roles, got'.accounts = got.accounts, got'.cache = got.cache,
             got'.contract = got.contract, DOMAIN got' = DOMAIN got,
             got'.list \in Seq(Assets), pc' \in AquariusPcs,
             pc' \notin {"type", "pool", "done"} => got'.list # <<>>,
             pc' \in Early => pc \in Early,
             pc' \in {"account", "ops", "router", "finish"} => pc' = pc,
             row'.status = "ok" => row.status = "ok" \/ pc = "finish"
      PROVE  AquariusReads'
  <2>1. AquariusTyped'
    BY <1>a DEF AquariusTyped
  <2>2. AquariusHeld'
    <3>1. \A c : Roster(c)' = Roster(c)
      BY <1>a DEF Roster
    <3> QED
      BY <1>a, <3>1 DEF AquariusHeld
  <2>3. AquariusTurn'
    <3>1. A!NextHolder' = A!NextHolder
      BY <1>a DEF A!NextHolder, A!NextRole, A!Roster, A!Accounts
    <3>2. \A c : AllRead(got', c) <=> AllRead(got, c)
      BY <1>a DEF AllRead
    <3> QED
      BY <1>a, <3>1, <3>2 DEF AquariusTurn
  <2> QED
    BY <2>1, <2>2, <2>3 DEF AquariusReads
<1>b. ASSUME pc # "done", NEW account, A!TakeAccount(account), pc \in {"account", "ops"},
             account.status = "read" => account.ops \in Nat,
             A!NextHolder \in DOMAIN got.cache => got.cache[A!NextHolder] = account
      PROVE  AquariusReads'
  <2>1. got.list # <<>> /\ ~AllRead(got, got.contract) /\ row.status = "none"
    BY <1>0, <1>b, <1>c DEF AquariusTurn
  <2>2. /\ AquariusTyped' /\ AquariusHeld'
        /\ got'.roles = got.roles
        /\ \A c \in BothContracts : c # got.contract => got'.accounts[c] = got.accounts[c]
        /\ got'.contract = got.contract
        /\ pc' \in {A!AfterRoles, "account"} /\ row' = row
        /\ pc' = "account" <=> ~AllRead(got', got.contract)
    BY <1>b, <2>1, AquariusTakesAccount
  <2>3. AquariusTurn'
    BY <1>b, <2>1, <2>2, AquariusMovesOn
  <2> QED
    BY <2>2, <2>3 DEF AquariusReads
<1>d. ASSUME pc = "roles", NEW read, read.roles \in RoleLists, A!TakeRoles(read)
      PROVE  AquariusReads'
  <2>1. got.list # <<>> /\ row.status = "none"
    BY <1>0, <1>c, <1>d
  <2>2. /\ AquariusTyped'
        /\ got'.roles = [got.roles EXCEPT ![got.contract] = read]
        /\ got'.accounts =
              [got.accounts EXCEPT ![got.contract] = [i \in DOMAIN read.roles |-> <<>>]]
        /\ got'.contract = got.contract /\ got'.cache = got.cache
        /\ pc' \in {A!AfterRoles, "account"} /\ row' = row
        /\ pc' = "account" <=> A!Unread(read.roles, [i \in DOMAIN read.roles |-> <<>>]) # {}
    BY <1>d, <2>1, AquariusTakesRoles
  <2> DEFINE none == [i \in DOMAIN read.roles |-> <<>>]
  <2>3. /\ got'.roles[got.contract] = read /\ got'.accounts[got.contract] = none
        /\ \A c \in BothContracts : c # got.contract =>
               got'.accounts[c] = got.accounts[c] /\ got'.roles[c] = got.roles[c]
    BY <1>0, <2>2
  <2>4. pc' = "account" <=> ~AllRead(got', got.contract)
    BY <2>2, <2>3 DEF AllRead
  <2>5. AquariusTurn'
    BY <1>d, <2>1, <2>2, <2>3, <2>4, AquariusMovesOn
  <2>6. AquariusHeld'
    <3>1. \A h \in DOMAIN got.cache : got.cache[h].status = "read" => got.cache[h].ops \in Nat
      BY DEF AquariusHeld
    <3>2. \A i \in DOMAIN read.roles : Answered(<<>>, read.roles[i].holders, got.cache)
      <4> SUFFICES ASSUME NEW i \in DOMAIN read.roles
                   PROVE  Answered(<<>>, read.roles[i].holders, got.cache)
        OBVIOUS
      <4>1. read.roles[i].holders \in Seq(Addresses)
        BY <1>d, RoleListsHold
      <4>2. IsSeq(<<>>) /\ Len(<<>>) = 0
        BY DEF IsSeq
      <4> QED
        BY <4>1, <4>2 DEF Answered
    <3>3. ASSUME NEW c \in BothContracts
          PROVE  /\ DOMAIN got'.accounts[c] = DOMAIN got'.roles[c].roles
                 /\ \A i \in DOMAIN got'.roles[c].roles :
                       Answered(got'.accounts[c][i], got'.roles[c].roles[i].holders, got.cache)
      <4>1. CASE c = got.contract
        BY <2>3, <3>2, <4>1
      <4>2. CASE c # got.contract
        BY <2>3, <4>2 DEF AquariusHeld, Roster
      <4> QED
        BY <4>1, <4>2
    <3> QED
      BY <2>2, <3>1, <3>3, Zenon DEF AquariusHeld, Roster
  <2> QED
    BY <2>2, <2>5, <2>6 DEF AquariusReads
<1>e. <<>> \in RoleLists
  BY DEF RoleLists
<1> USE DEF A!Learn, A!Throw, A!FailedRow
<1>1. CASE A!ReadPoolType
  BY <1>0, <1>1, <1>a DEF A!ReadPoolType, AquariusTyped, AquariusPcs
<1>2. CASE A!PoolReadLands
  <2>1. chain["tokens"] \in Seq(Assets)
    BY DEF AquariusChain, AquariusParts, AquariusHolds
  <2>2. /\ got'.roles = got.roles /\ got'.accounts = got.accounts /\ got'.cache = got.cache
        /\ got'.contract = got.contract /\ DOMAIN got' = DOMAIN got
        /\ got'.list \in {got.list, chain.tokens}
    BY <1>0, <1>2 DEF A!PoolReadLands, A!Blank
  <2>3. /\ pc = "pool" /\ pc' \in {"pool", "entries", "done"}
        /\ pc' = "entries" => got'.list # <<>>
        /\ row'.status = "ok" => row.status = "ok"
    <3>1. PICK learned : \/ A!Learn(learned, "pool")
                         \/ A!Throw
                         \/ learned.list # <<>> /\ A!Learn(learned, "entries")
      BY <1>2 DEF A!PoolReadLands
    <3>2. pc = "pool"
      BY <1>2 DEF A!PoolReadLands
    <3> QED
      BY <3>1, <3>2
  <2> QED
    BY <1>a, <2>1, <2>2, <2>3 DEF AquariusTyped, AquariusPcs
<1>3. CASE A!ReadEntries
  BY <1>0, <1>3, <1>a DEF A!ReadEntries, A!ReadChunk, A!Blank, AquariusTyped, AquariusPcs
<1>4. CASE A!ReadToken \/ A!ReadIssuerFlags \/ A!IssuerRefused
  <2>1. ASSUME NEW issuer, pc \in {"token", "issuer"}, A!TakeIssuer(issuer)
        PROVE  AquariusReads'
    BY <1>0, <1>a, <2>1 DEF A!TakeIssuer, A!Blank, AquariusTyped, AquariusPcs
  <2>2. CASE pc = "token" /\ A!Learn(got, "issuer")
    BY <1>0, <1>a, <2>2 DEF AquariusTyped, AquariusPcs
  <2> QED
    BY <1>4, <2>1, <2>2 DEF A!ReadToken, A!ReadIssuerFlags, A!IssuerRefused
<1>5. CASE A!ReadRoles
  <2>1. A!DecodeRoles(chain.roles[got.contract]).roles \in RoleLists
    <3>1. AquariusHolds("roles", chain["roles"])
      BY DEF AquariusChain, AquariusParts
    <3>2. chain.roles[got.contract].kind = "record" =>
              chain.roles[got.contract].roles \in RoleLists
      BY <1>0, <3>1 DEF AquariusHolds, RoleLists, BothContracts
    <3> QED
      BY <1>e, <3>2 DEF A!DecodeRoles
  <2> QED
    BY <1>5, <1>d, <2>1 DEF A!ReadRoles
<1>6. CASE A!RolesRefused
  <2> DEFINE read == [status |-> "failed", roles |-> <<>>]
  <2>1. read.roles \in RoleLists
    BY <1>e
  <2>2. pc = "roles" /\ A!TakeRoles(read)
    BY <1>6 DEF A!RolesRefused
  <2> HIDE DEF read
  <2> QED
    BY <1>d, <2>1, <2>2
<1>f. pc \in {"account", "ops"} =>
        /\ A!NextHolder \in Addresses
        /\ IF A!NextHolder \in Keyholders
           THEN chain.account[A!NextHolder].kind = "account"
                /\ chain.account[A!NextHolder].ops \in Nat
           ELSE chain.account[A!NextHolder].kind = "contract"
  <2> SUFFICES ASSUME pc \in {"account", "ops"}
               PROVE  /\ A!NextHolder \in Addresses
                      /\ IF A!NextHolder \in Keyholders
                         THEN chain.account[A!NextHolder].kind = "account"
                              /\ chain.account[A!NextHolder].ops \in Nat
                         ELSE chain.account[A!NextHolder].kind = "contract"
    OBVIOUS
  <2>1. A!NextHolder \in Addresses
    BY AquariusNext DEF AquariusTurn
  <2>2. AquariusHolds("account", chain["account"])
    BY DEF AquariusChain, AquariusParts
  <2> QED
    BY <2>1, <2>2 DEF AquariusHolds
<1>7. CASE A!ReadAccount
  <2>0. pc = "account"
    BY <1>7 DEF A!ReadAccount
  <2>1. CASE A!Cached(A!NextHolder) /\ A!TakeAccount(got.cache[A!NextHolder])
    <3>1. got.cache[A!NextHolder].status = "read" => got.cache[A!NextHolder].ops \in Nat
      BY <2>1 DEF A!Cached, AquariusHeld
    <3> QED
      BY <1>b, <2>0, <2>1, <3>1
  <2>2. CASE ~A!Cached(A!NextHolder) /\ A!TakeAccount([status |-> "contract"])
    BY <1>b, <2>0, <2>2 DEF A!Cached
  <2>3. CASE /\ ~A!Cached(A!NextHolder) /\ chain.account[A!NextHolder].kind # "contract"
             /\ A!Learn([got EXCEPT !.reading = <<chain.account[A!NextHolder]>>], "ops")
    <3>1. /\ got'.roles = got.roles /\ got'.accounts = got.accounts /\ got'.cache = got.cache
          /\ got'.contract = got.contract /\ DOMAIN got' = DOMAIN got /\ got'.list = got.list
          /\ pc' = "ops" /\ row' = row
      BY <1>0, <2>3 DEF A!Blank
    <3>2. AquariusTyped'
      BY <1>0, <2>0, <3>1 DEF AquariusTyped, AquariusPcs
    <3>3. AquariusHeld'
      <4>1. \A c : Roster(c)' = Roster(c)
        BY <3>1 DEF Roster
      <4> QED
        BY <3>1, <4>1 DEF AquariusHeld
    <3>4. AquariusTurn'
      <4>1. A!NextHolder' = A!NextHolder
        BY <3>1 DEF A!NextHolder, A!NextRole, A!Roster, A!Accounts
      <4>2. \A c : AllRead(got', c) <=> AllRead(got, c)
        BY <3>1 DEF AllRead
      <4>3. A!NextHolder \in Keyholders /\ A!NextHolder \notin DOMAIN got.cache
        BY <1>f, <2>0, <2>3 DEF A!Cached
      <4> QED
        BY <1>c, <2>0, <3>1, <4>1, <4>2, <4>3 DEF AquariusTurn
    <3> QED
      BY <3>2, <3>3, <3>4 DEF AquariusReads
  <2> QED
    BY <1>7, <2>1, <2>2, <2>3 DEF A!ReadAccount
<1>8. CASE A!ReadOps
  <2>1. PICK account : /\ account = [status |-> "read", signers |-> got.reading[1].signers,
                                     threshold |-> got.reading[1].threshold,
                                     ops |-> chain.account[A!NextHolder].ops]
                       /\ A!TakeAccount(account)
    BY <1>8 DEF A!ReadOps
  <2>2. pc = "ops" /\ A!NextHolder \in Keyholders /\ A!NextHolder \notin DOMAIN got.cache
    BY <1>8 DEF A!ReadOps, AquariusTurn
  <2>3. account.ops \in Nat
    BY <1>f, <2>1, <2>2
  <2> QED
    BY <1>b, <2>1, <2>2, <2>3
<1>9. CASE A!AccountRefused
  <2>1. /\ pc \in {"account", "ops"} /\ A!NextHolder \notin DOMAIN got.cache
        /\ A!TakeAccount([status |-> "failed"])
    BY <1>9 DEF A!AccountRefused, A!Cached, AquariusTurn
  <2> QED
    BY <1>b, <2>1
<1>10. CASE A!ReadRouter
  <2>1. /\ pc = "router" /\ pc' = "roles" /\ row' = row
        /\ got'.contract = "router" /\ got'.roles = got.roles /\ got'.accounts = got.accounts
        /\ got'.cache = got.cache /\ got'.list = got.list /\ DOMAIN got' = DOMAIN got
    BY <1>0, <1>10 DEF A!ReadRouter, A!Blank
  <2>2. AquariusTyped'
    BY <1>0, <2>1 DEF AquariusTyped, AquariusPcs, BothContracts
  <2>3. AquariusHeld'
    <3>1. \A c : Roster(c)' = Roster(c)
      BY <2>1 DEF Roster
    <3> QED
      BY <2>1, <3>1 DEF AquariusHeld
  <2>4. AquariusTurn'
    BY <1>c, <2>1 DEF AquariusTurn, AllRead
  <2> QED
    BY <2>2, <2>3, <2>4 DEF AquariusReads
<1>11. CASE A!ReadFails
  BY <1>0, <1>11, <1>a DEF A!ReadFails, A!ThrowFor, A!Blank, AquariusTyped, AquariusPcs
<1>12. CASE A!Finish
  BY <1>0, <1>12, <1>a DEF A!Finish, A!Publish, AquariusTyped, AquariusPcs
<1>13. CASE A!Tick
  BY <1>0, <1>13, <1>a DEF A!Tick, AquariusTyped
<1>14. CASE A!TransactionLands
  BY <1>0, <1>14, <1>a DEF A!TransactionLands, A!ChainMoves, AquariusTyped
<1>15. CASE A!Finished
  BY <1>0, <1>15, <1>a DEF A!Finished, A!readVars, AquariusTyped
<1> QED
  BY <1>1, <1>2, <1>3, <1>4, <1>5, <1>6, <1>7, <1>8, <1>9, <1>10, <1>11, <1>12, <1>13, <1>14,
     <1>15 DEF A!Next

\* The scores are of what was read and of the time, and of nothing else.
LEMMA AquariusScoresKept ==
    ASSUME got' = got, now' = now
    PROVE  /\ A!AdminKeySafety' = A!AdminKeySafety
           /\ A!AssetControlSafety' = A!AssetControlSafety
<1>1. A!RolePosture("pool")' = A!RolePosture("pool")
      /\ A!RolePosture("router")' = A!RolePosture("router")
  BY DEF A!RolePosture
<1>2. /\ A!UpgradeCeiling("pool", now)' = A!UpgradeCeiling("pool", now)
      /\ A!UpgradeCeiling("router", now)' = A!UpgradeCeiling("router", now)
  BY DEF A!UpgradeCeiling, A!Deadline
<1>3. A!AdminKeySafety' = A!AdminKeySafety
  BY <1>1, <1>2 DEF A!AdminKeySafety
<1>4. A!AssetControlSafety' = A!AssetControlSafety
  BY DEF A!AssetControlSafety
<1> QED
  BY <1>3, <1>4

\* A row is published once, and stays.
LEMMA AquariusOutcomeStep == AquariusTyped /\ AquariusOutcome /\ A!Next => AquariusOutcome'
<1> SUFFICES ASSUME AquariusTyped, AquariusOutcome, A!Next
             PROVE  AquariusOutcome'
  OBVIOUS
<1>0. DOMAIN got = DOMAIN A!Blank /\ got.contract \in BothContracts
  BY DEF AquariusTyped
<1>c. ASSUME pc # "done", pc' # "done", got'.transport = got.transport, row' = row
      PROVE  AquariusOutcome'
  BY <1>c DEF AquariusOutcome
<1>d. CASE A!Throw
  BY <1>d DEF A!Throw, A!FailedRow, FailedRow, AquariusOutcome
<1>e. ASSUME NEW issuer, pc \in {"token", "issuer"}, A!TakeIssuer(issuer)
      PROVE  AquariusOutcome'
  BY <1>0, <1>c, <1>e DEF A!TakeIssuer, A!Learn, A!Blank
<1>f. ASSUME NEW account, pc \in {"account", "ops"}, A!TakeAccount(account)
      PROVE  AquariusOutcome'
  BY <1>0, <1>c, <1>f DEF A!TakeAccount, A!Learn, A!AfterRoles, A!Blank
<1>g. ASSUME NEW read, pc = "roles", A!TakeRoles(read)
      PROVE  AquariusOutcome'
  BY <1>0, <1>c, <1>g DEF A!TakeRoles, A!Learn, A!AfterRoles, A!Blank
<1>1. CASE A!ReadPoolType
  BY <1>1, <1>c, <1>d DEF A!ReadPoolType, A!Learn
<1>2. CASE A!PoolReadLands
  <2>1. CASE A!Throw
    BY <1>d, <2>1
  <2>2. CASE ~A!Throw
    <3>1. got'.transport = got.transport
      BY <1>0, <1>2, <2>2 DEF A!PoolReadLands, A!Learn, A!Blank
    <3>2. PICK learned : A!Learn(learned, "pool") \/ A!Learn(learned, "entries")
      BY <1>2, <2>2 DEF A!PoolReadLands
    <3>3. pc = "pool" /\ pc' \in {"pool", "entries"} /\ row' = row
      BY <1>2, <3>2 DEF A!PoolReadLands, A!Learn
    <3> QED
      BY <1>c, <3>1, <3>3
  <2> QED
    BY <2>1, <2>2
<1>3. CASE A!ReadEntries
  BY <1>0, <1>3, <1>c DEF A!ReadEntries, A!ReadChunk, A!Learn, A!Blank
<1>4. CASE A!ReadToken
  BY <1>4, <1>c, <1>e DEF A!ReadToken, A!Learn
<1>5. CASE A!ReadIssuerFlags \/ A!IssuerRefused
  BY <1>5, <1>e DEF A!ReadIssuerFlags, A!IssuerRefused
<1>6. CASE A!ReadRoles \/ A!RolesRefused
  BY <1>6, <1>g DEF A!ReadRoles, A!RolesRefused
<1>7. CASE A!ReadAccount
  <2>1. pc = "account"
    BY <1>7 DEF A!ReadAccount
  <2>2. CASE A!Learn([got EXCEPT !.reading = <<chain.account[A!NextHolder]>>], "ops")
    BY <1>0, <1>c, <2>1, <2>2 DEF A!Learn, A!Blank
  <2> QED
    BY <1>7, <1>f, <2>1, <2>2 DEF A!ReadAccount
<1>8. CASE A!ReadOps \/ A!AccountRefused
  BY <1>8, <1>f DEF A!ReadOps, A!AccountRefused
<1>9. CASE A!ReadRouter
  BY <1>0, <1>9, <1>c DEF A!ReadRouter, A!Learn, A!Blank
<1>10. CASE A!ReadFails
  BY <1>10 DEF A!ReadFails, A!ThrowFor, A!FailedRow, FailedRow, AquariusOutcome
<1>11. CASE A!Finish
  <2>1. /\ pc = "finish" /\ pc' = "done" /\ got' = got /\ now' = now
        /\ row'.status = "ok" /\ row'.state = A!OperationalState(got.killed)
        /\ row'.factors = A!RiskFactors
    BY <1>11 DEF A!Finish, A!Publish
  <2>2. /\ A!AdminKeySafety' = A!AdminKeySafety
        /\ A!AssetControlSafety' = A!AssetControlSafety
    BY <2>1, AquariusScoresKept
  <2>3. AquariusRowTrue'
    BY <2>1, <2>2 DEF AquariusRowTrue, A!RiskFactors
  <2>4. got'.transport = FALSE
    BY <2>1 DEF AquariusOutcome
  <2> QED
    BY <2>1, <2>3, <2>4 DEF AquariusOutcome
<1>12. CASE A!Tick \/ A!TransactionLands
  <2>1. pc' = pc /\ got' = got /\ row' = row /\ row.status = "none"
    BY <1>12 DEF A!Tick, A!TransactionLands, A!ChainMoves
  <2>2. pc # "done"
    BY <2>1 DEF AquariusOutcome, AquariusRowTrue, FailedRow
  <2> QED
    BY <1>c, <2>1, <2>2
<1>13. CASE A!Finished
  <2>1. pc' = pc /\ got' = got /\ row' = row /\ now' = now
    BY <1>13 DEF A!Finished, A!readVars
  <2>2. /\ A!AdminKeySafety' = A!AdminKeySafety
        /\ A!AssetControlSafety' = A!AssetControlSafety
    BY <2>1, AquariusScoresKept
  <2>3. AquariusRowTrue => AquariusRowTrue'
    BY <2>1, <2>2 DEF AquariusRowTrue
  <2> QED
    BY <2>1, <2>3 DEF AquariusOutcome
<1> QED
  BY <1>1, <1>2, <1>3, <1>4, <1>5, <1>6, <1>7, <1>8, <1>9, <1>10, <1>11, <1>12, <1>13 DEF A!Next

\* How far the tokens' issuers have been read, and what of each is known.
AquariusIssuers ==
    /\ \A t \in DOMAIN got.issuer :
          got.issuer[t].status \in {"noIssuer", "notApplicable", "failed", "read"}
    /\ pc \in {"type", "pool", "entries"} => DOMAIN got.issuer = {}
    /\ pc \in {"token", "issuer"} =>
          Prefix(got.list, got.issuer) /\ Cardinality(DOMAIN got.issuer) < Len(got.list)
    /\ pc \in {"roles", "account", "ops", "router", "finish"} \/ row.status = "ok" =>
          DOMAIN got.issuer = Members(got.list)

\* No issuer has been read.
LEMMA AquariusIssuersInit == A!Init => AquariusIssuers
BY DEF A!Init, A!Blank, A!Unpublished, AquariusIssuers

\* Tokens are read one after another, and a refused issuer is a reading.
LEMMA AquariusIssuersStep ==
    AquariusTyped /\ AquariusOutcome /\ AquariusIssuers /\ A!Next => AquariusIssuers'
<1> SUFFICES ASSUME AquariusTyped, AquariusOutcome, AquariusIssuers, A!Next
             PROVE  AquariusIssuers'
  OBVIOUS
<1>0. /\ DOMAIN got = DOMAIN A!Blank /\ got.contract \in BothContracts
      /\ got.list \in Seq(Assets)
      /\ pc \notin {"type", "pool", "done"} => got.list # <<>>
  BY DEF AquariusTyped
<1>c. pc # "done" => row.status = "none"
  BY DEF AquariusOutcome, Unpublished, FailedRow
<1> DEFINE Untouched == {"type", "pool", "entries"}
           Underway == {"token", "issuer"}
           Through == {"roles", "account", "ops", "router", "finish"}
<1>a. ASSUME got'.list = got.list, got'.issuer = got.issuer,
             pc' \in Untouched => pc \in Untouched, pc' \in Underway => pc \in Underway,
             pc' \in Through => pc \in Through,
             row'.status = "ok" => row.status = "ok" \/ pc \in Through
      PROVE  AquariusIssuers'
  BY <1>a DEF AquariusIssuers, Prefix
<1>b. ASSUME NEW issuer, pc \in Underway, A!TakeIssuer(issuer),
             issuer.status \in {"noIssuer", "notApplicable", "failed", "read"}
      PROVE  AquariusIssuers'
  <2> DEFINE n == Cardinality(DOMAIN got.issuer)
             grown == Mapped(got.issuer, got.list[n + 1], issuer)
  <2>1. /\ A!Mapped(got.issuer, A!NextToken, issuer) = grown
        /\ A!Cardinality(DOMAIN grown) = Cardinality(DOMAIN grown)
    <3>1. \A S : A!Cardinality(S) = Cardinality(S)
      BY Zenon DEF A!Cardinality, Cardinality
    <3> QED
      BY <3>1 DEF A!NextToken, A!Mapped, Mapped
  <2>2. Prefix(got.list, got.issuer) /\ Cardinality(DOMAIN got.issuer) < Len(got.list)
    BY <1>b DEF AquariusIssuers
  <2>3. Grows(Assets, got.list, got.issuer, grown)
    BY <1>0, <2>2, PrefixGrows
  <2>4. \A t \in DOMAIN grown :
            grown[t].status \in {"noIssuer", "notApplicable", "failed", "read"}
    BY <1>b DEF Mapped, AquariusIssuers
  <2> HIDE DEF grown, n
  <2>5. Prefix(got.list, grown)
    BY <2>3 DEF Grows
  <2>6. /\ got'.issuer = grown /\ got'.list = got.list /\ row' = row
        /\ pc' = IF Cardinality(DOMAIN grown) = Len(got.list) THEN "roles" ELSE "token"
    BY <1>0, <1>b, <2>1 DEF A!TakeIssuer, A!Learn, A!Blank
  <2>7. row'.status # "ok"
    BY <1>b, <1>c, <2>6
  <2>8. CASE Cardinality(DOMAIN grown) = Len(got.list)
    <3>1. DOMAIN grown = Members(got.list)
      BY <1>0, <2>5, <2>8, PrefixWhole
    <3> QED
      BY <2>4, <2>6, <2>7, <2>8, <3>1 DEF AquariusIssuers
  <2>9. CASE Cardinality(DOMAIN grown) # Len(got.list)
    <3>1. Cardinality(DOMAIN grown) < Len(got.list)
      <4>1. Cardinality(DOMAIN grown) \in Nat /\ Cardinality(DOMAIN grown) <= Len(got.list)
        BY <2>5, FS_CardinalityType DEF Prefix
      <4>2. Len(got.list) \in Nat
        BY <1>0
      <4> QED
        BY <2>9, <4>1, <4>2
    <3> QED
      BY <2>4, <2>5, <2>6, <2>7, <2>9, <3>1 DEF AquariusIssuers
  <2> QED
    BY <2>8, <2>9
<1> USE DEF A!Learn, A!Throw, A!FailedRow
<1>1. CASE A!ReadPoolType
  BY <1>1, <1>a DEF A!ReadPoolType
<1>2. CASE A!PoolReadLands
  <2>1. got'.issuer = got.issuer
    BY <1>0, <1>2 DEF A!PoolReadLands, A!Blank
  <2>2. /\ pc = "pool" /\ pc' \in {"pool", "entries", "done"}
        /\ row'.status = "ok" => row.status = "ok"
    <3>1. PICK learned : \/ A!Learn(learned, "pool")
                         \/ A!Throw
                         \/ A!Learn(learned, "entries")
      BY <1>2 DEF A!PoolReadLands
    <3>2. pc = "pool"
      BY <1>2 DEF A!PoolReadLands
    <3> QED
      BY <3>1, <3>2
  <2> QED
    BY <1>c, <2>1, <2>2 DEF AquariusIssuers
<1>3. CASE A!ReadEntries
  <2>1. /\ pc = "entries" /\ pc' \in {"entries", "token"} /\ row' = row
        /\ got'.issuer = got.issuer /\ got'.list = got.list
    BY <1>0, <1>3 DEF A!ReadEntries, A!ReadChunk, A!Blank
  <2>2. CASE pc' = "entries"
    BY <1>a, <2>1, <2>2
  <2>3. CASE pc' = "token"
    <3>1. DOMAIN got.issuer = {}
      BY <2>1 DEF AquariusIssuers
    <3>2. Prefix(got.list, got.issuer) /\ Cardinality(DOMAIN got.issuer) = 0
      BY <1>0, <3>1, PrefixNone
    <3>3. 0 < Len(got.list)
      BY <1>0, <2>1
    <3> QED
      BY <1>c, <2>1, <2>3, <3>1, <3>2, <3>3 DEF AquariusIssuers
  <2> QED
    BY <2>1, <2>2, <2>3
<1>4. CASE A!ReadToken
  <2>1. CASE A!Learn(got, "issuer")
    BY <1>4, <1>a, <2>1 DEF A!ReadToken
  <2>2. CASE ~A!Learn(got, "issuer")
    BY <1>4, <1>b, <2>2 DEF A!ReadToken
  <2> QED
    BY <2>1, <2>2
<1>5. CASE A!ReadIssuerFlags
  BY <1>5, <1>b DEF A!ReadIssuerFlags
<1>6. CASE A!IssuerRefused
  BY <1>6, <1>b DEF A!IssuerRefused
<1>7. CASE A!ReadRoles \/ A!RolesRefused
  BY <1>0, <1>7, <1>a DEF A!ReadRoles, A!RolesRefused, A!TakeRoles, A!AfterRoles, A!Blank
<1>8. CASE A!ReadAccount
  BY <1>0, <1>8, <1>a DEF A!ReadAccount, A!TakeAccount, A!AfterRoles, A!Blank
<1>9. CASE A!ReadOps \/ A!AccountRefused
  BY <1>0, <1>9, <1>a DEF A!ReadOps, A!AccountRefused, A!TakeAccount, A!AfterRoles, A!Blank
<1>10. CASE A!ReadRouter
  BY <1>0, <1>10, <1>a DEF A!ReadRouter, A!Blank
<1>11. CASE A!ReadFails
  BY <1>0, <1>11, <1>a DEF A!ReadFails, A!ThrowFor, A!Blank
<1>12. CASE A!Finish
  BY <1>12, <1>a DEF A!Finish, A!Publish
<1>13. CASE A!Tick \/ A!TransactionLands \/ A!Finished
  BY <1>13, <1>a DEF A!Tick, A!TransactionLands, A!ChainMoves, A!Finished, A!readVars
<1> QED
  BY <1>1, <1>2, <1>3, <1>4, <1>5, <1>6, <1>7, <1>8, <1>9, <1>10, <1>11, <1>12, <1>13 DEF A!Next

\* One zero makes the worst zero.
LEMMA WorstIsZero ==
    ASSUME NEW scores \in SUBSET (0 .. 100), 0 \in scores
    PROVE  WorstScore(scores) = 0
<1>1. WorstScore(scores) \in 0 .. 100 /\ WorstScore(scores) <= 0
  BY WorstOf
<1> QED
  BY <1>1

\* The adapter's own copy of the rulebook is the rulebook.
LEMMA AquariusArithmetic ==
    /\ \A s : A!WorstScore(s) = WorstScore(s)
    /\ \A x, y : A!MinOf(x, y) = MinOf(x, y)
    /\ \A s : A!ToSet(s) = Members(s)
    /\ \A account : account.ops \in Nat => A!AccountScore(account) \in 0 .. 100
<1>1. /\ \A s : A!WorstScore(s) = WorstScore(s)
      /\ \A x, y : A!MinOf(x, y) = MinOf(x, y)
      /\ \A s : A!ToSet(s) = Members(s)
  BY DEF A!WorstScore, WorstScore, A!Min, Min, A!MinOf, MinOf, A!ToSet, Members
<1>2. ASSUME NEW account, account.ops \in Nat
      PROVE  A!AccountScore(account) \in 0 .. 100
  <2> DEFINE base == IF account.signers > 1 /\ account.threshold > 1 THEN 90 ELSE 40
             n == base - MinOf(30, 3 * account.ops)
  <2>1. base \in Int
    OBVIOUS
  <2> HIDE DEF base
  <2>2. n \in Int
    BY <1>2, <2>1 DEF MinOf
  <2>3. Clamp(n) \in 0 .. 100
    BY <2>2, ClampRange
  <2>4. A!AccountScore(account) = Clamp(n)
    BY DEF A!AccountScore, A!Clamp, Clamp, A!MinOf, MinOf, A!MaxOf, MaxOf, base
  <2> QED
    BY <2>3, <2>4
<1> QED
  BY <1>1, <1>2

\* Every score a role list comes to is one, and a holder not read makes it 0.
LEMMA AquariusPosture ==
    ASSUME AquariusTyped, AquariusHeld, NEW c \in BothContracts
    PROVE  /\ A!RolePosture(c) \in 0 .. 100
           /\ got.roles[c].status # "read" => A!RolePosture(c) = 0
           /\ (\E i \in DOMAIN Roster(c) : \E k \in DOMAIN got.accounts[c][i] :
                  got.accounts[c][i][k].status = "failed") => A!RolePosture(c) = 0
<1> DEFINE holders(i) ==
               {A!HolderScore(got.accounts[c][i][k]) : k \in DOMAIN got.accounts[c][i]}
           roles == {A!RoleScore(got.accounts[c][i]) : i \in DOMAIN Roster(c)}
<1>1. ASSUME NEW i \in DOMAIN Roster(c), NEW k \in DOMAIN got.accounts[c][i]
      PROVE  /\ A!HolderScore(got.accounts[c][i][k]) \in 0 .. 100
             /\ got.accounts[c][i][k].status = "failed" =>
                    A!HolderScore(got.accounts[c][i][k]) = 0
  <2> DEFINE account == got.accounts[c][i][k]
  <2>1. Answered(got.accounts[c][i], Roster(c)[i].holders, got.cache)
    BY DEF AquariusHeld
  <2>2. k \in 1 .. Len(got.accounts[c][i])
    BY <2>1, Appended DEF Answered
  <2>3. account.status = "read" => account.ops \in Nat
    BY <2>1, <2>2 DEF Answered, AquariusHeld
  <2> HIDE DEF account
  <2>4. /\ A!HolderScore(account) \in 0 .. 100
        /\ account.status = "failed" => A!HolderScore(account) = 0
    BY <2>3, AquariusArithmetic DEF A!HolderScore
  <2> QED
    BY <2>4 DEF account
<1>2. ASSUME NEW i \in DOMAIN Roster(c)
      PROVE  /\ A!RoleScore(got.accounts[c][i]) \in 0 .. 100
             /\ (\E k \in DOMAIN got.accounts[c][i] : got.accounts[c][i][k].status = "failed")
                    => A!RoleScore(got.accounts[c][i]) = 0
  <2>1. holders(i) \in SUBSET (0 .. 100)
    BY <1>1
  <2>2. A!RoleScore(got.accounts[c][i]) = WorstScore(holders(i))
    BY AquariusArithmetic DEF A!RoleScore
  <2>3. (\E k \in DOMAIN got.accounts[c][i] : got.accounts[c][i][k].status = "failed")
            => 0 \in holders(i)
    BY <1>1
  <2> HIDE DEF holders
  <2> QED
    BY <2>1, <2>2, <2>3, WorstOf, WorstIsZero
<1>3. roles \in SUBSET (0 .. 100)
  BY <1>2
<1>4. A!RolePosture(c) = IF got.roles[c].status # "read" THEN 0 ELSE WorstScore(roles)
  BY AquariusArithmetic DEF A!RolePosture, Roster
<1>5. (\E i \in DOMAIN Roster(c) : \E k \in DOMAIN got.accounts[c][i] :
          got.accounts[c][i][k].status = "failed") => 0 \in roles
  BY <1>2
<1> HIDE DEF roles
<1> QED
  BY <1>3, <1>4, <1>5, WorstOf, WorstIsZero

\* What was not read counts as unsafe.
LEMMA AquariusRowSays ==
    ASSUME AquariusReads, AquariusOutcome, AquariusIssuers, Published
    PROVE  /\ ~got.transport
           /\ (\E c \in {"pool", "router"} :
                  \/ got.roles[c].status # "read"
                  \/ \E i \in DOMAIN got.roles[c].roles : \E k \in DOMAIN got.accounts[c][i] :
                         got.accounts[c][i][k].status = "failed")
              => Factor("adminKeySafety") = 0
           /\ (\E t \in DOMAIN got.issuer : got.issuer[t].status = "failed")
              => Factor("assetControlSafety") = 0
<1>1. AquariusTyped /\ AquariusHeld
  BY DEF AquariusReads
<1>2. /\ row.status = "ok" /\ got.transport = FALSE
      /\ Factor("adminKeySafety") = A!AdminKeySafety
      /\ Factor("assetControlSafety") = A!AssetControlSafety
  BY DEF AquariusOutcome, AquariusRowTrue, Published, Factor, Unpublished, FailedRow
<1>3. ASSUME NEW c \in {"pool", "router"},
             \/ got.roles[c].status # "read"
             \/ \E i \in DOMAIN got.roles[c].roles : \E k \in DOMAIN got.accounts[c][i] :
                    got.accounts[c][i][k].status = "failed"
      PROVE  A!AdminKeySafety = 0
  <2>1. A!RolePosture("pool") \in 0 .. 100 /\ A!RolePosture("router") \in 0 .. 100
    BY <1>1, AquariusPosture DEF BothContracts
  <2>2. A!RolePosture(c) = 0
    BY <1>1, <1>3, AquariusPosture DEF BothContracts, Roster
  <2>3. \A contract, at : A!UpgradeCeiling(contract, at) \in {0, 40, 100}
    BY DEF A!UpgradeCeiling
  <2> DEFINE p == A!RolePosture("pool")
             r == A!RolePosture("router")
             u == A!UpgradeCeiling("pool", now)
             v == A!UpgradeCeiling("router", now)
  <2>4. A!AdminKeySafety = MinOf(MinOf(p, r), MinOf(u, v))
    BY AquariusArithmetic DEF A!AdminKeySafety
  <2>5. p \in 0 .. 100 /\ r \in 0 .. 100 /\ u \in {0, 40, 100} /\ v \in {0, 40, 100}
        /\ (p = 0 \/ r = 0)
    BY <2>1, <2>2, <2>3
  <2> HIDE DEF p, r, u, v
  <2> QED
    BY <2>4, <2>5 DEF MinOf
<1>4. ASSUME NEW t \in DOMAIN got.issuer, got.issuer[t].status = "failed"
      PROVE  A!AssetControlSafety = 0
  <2> DEFINE scores == UNION {Members(A!TokenScore(got.issuer[s])) : s \in Members(got.list)}
  <2>1. DOMAIN got.issuer = Members(got.list)
    BY <1>2 DEF AquariusIssuers
  <2>2. ASSUME NEW s \in Members(got.list)
        PROVE  /\ Members(A!TokenScore(got.issuer[s])) \subseteq 0 .. 100
               /\ got.issuer[s].status = "failed" =>
                      0 \in Members(A!TokenScore(got.issuer[s]))
    <3>1. got.issuer[s].status \in {"noIssuer", "notApplicable", "failed", "read"}
      BY <2>1 DEF AquariusIssuers
    <3>2. /\ A!TokenScore(got.issuer[s]) \in {<<>>, <<0>>, <<40>>, <<70>>, <<100>>}
          /\ got.issuer[s].status = "failed" => A!TokenScore(got.issuer[s]) = <<0>>
      BY <3>1 DEF A!TokenScore
    <3> DEFINE score == A!TokenScore(got.issuer[s])
    <3>3. /\ Members(<<>>) = {} /\ Members(<<0>>) = {0} /\ Members(<<40>>) = {40}
          /\ Members(<<70>>) = {70} /\ Members(<<100>>) = {100}
      BY DEF Members
    <3> HIDE DEF score
    <3>4. Members(score) \in {{}, {0}, {40}, {70}, {100}}
      BY <3>2, <3>3 DEF score
    <3>5. got.issuer[s].status = "failed" => Members(score) = {0}
      BY <3>2, <3>3 DEF score
    <3> QED
      BY <3>4, <3>5 DEF score
  <2>3. scores \in SUBSET (0 .. 100)
    BY <2>2
  <2>4. 0 \in scores
    BY <1>4, <2>1, <2>2
  <2>5. A!AssetControlSafety = WorstScore(scores)
    BY AquariusArithmetic DEF A!AssetControlSafety
  <2> HIDE DEF scores
  <2> QED
    BY <2>3, <2>4, <2>5, WorstIsZero
<1> QED
  BY <1>2, <1>3, <1>4

\* An address is one account, whichever contract names it.
LEMMA AquariusOneReading ==
    ASSUME AquariusReads, Published, protocol = "aquarius"
    PROVE  OneReadingPerAddress
<1>1. AquariusTyped /\ AquariusHeld /\ AquariusTurn /\ row.status = "ok"
  BY DEF AquariusReads, Published
<1>2. ASSUME NEW c \in BothContracts, NEW i \in DOMAIN Roster(c),
             NEW k \in DOMAIN Roster(c)[i].holders
      PROVE  got.accounts[c][i][k] = got.cache[Roster(c)[i].holders[k]]
  <2>1. Answered(got.accounts[c][i], Roster(c)[i].holders, got.cache)
    BY <1>1 DEF AquariusHeld
  <2>2. AllRead(got, c)
    BY <1>1 DEF AquariusTurn, BothContracts
  <2>3. ~(Len(got.accounts[c][i]) < Len(Roster(c)[i].holders))
    BY <2>2 DEF AllRead, A!Unread, Roster
  <2>4. Roster(c) \in RoleLists
    BY <1>1 DEF AquariusTyped, Roster
  <2>5. Roster(c)[i].holders \in Seq(Addresses)
    BY <2>4, RoleListsHold
  <2>6. k \in 1 .. Len(Roster(c)[i].holders) /\ Len(Roster(c)[i].holders) \in Nat
    BY <2>5
  <2>7. Len(got.accounts[c][i]) \in Nat
    BY <2>1, Appended DEF Answered
  <2>8. k \in 1 .. Len(got.accounts[c][i])
    BY <2>3, <2>6, <2>7
  <2> QED
    BY <2>1, <2>8 DEF Answered
<1>3. "pool" \in BothContracts /\ "router" \in BothContracts
  BY DEF BothContracts
<1> QED
  BY <1>2, <1>3 DEF OneReadingPerAddress, Roster

\* The switches that have been read, each as it was before the transaction or after it.
AquariusReadFrom(before, spot) ==
    /\ A!TrueState(before) \in seen
    /\ changes = 0 => before = chain
    /\ \A f \in A!KillFlags : f # spot => before.killed[f] = chain.killed[f]
    /\ \A f \in A!KillFlags : f \in got.landed =>
          \/ f \in got.killed <=> before.killed[f]
          \/ f \in got.killed <=> chain.killed[f]

\* Until a second transaction lands, there is one chain or there are two.
AquariusSeen ==
    /\ changes \in Nat
    /\ A!TrueState(chain) \in seen
    /\ got.killed \subseteq A!KillFlags /\ got.killed \subseteq got.landed
    /\ pc \notin {"type", "pool", "done"} \/ row.status = "ok" => A!KillFlags \subseteq got.landed
    /\ changes <= 1 /\ row.status # "failed" => \E before, spot : AquariusReadFrom(before, spot)

\* At first there is one.
LEMMA AquariusSeenInit == A!Init => AquariusSeen
<1> SUFFICES ASSUME A!Init
             PROVE  AquariusSeen
  OBVIOUS
<1>1. /\ changes = 0 /\ seen = {A!TrueState(chain)} /\ pc = "type" /\ row.status = "none"
      /\ got.killed = {} /\ got.landed = {}
  BY DEF A!Init, A!Blank, A!Unpublished
<1>2. AquariusReadFrom(chain, "swap")
  BY <1>1 DEF AquariusReadFrom
<1> QED
  BY <1>1, <1>2 DEF AquariusSeen

\* Each switch is read once, and a transaction changes one of them.
LEMMA AquariusSeenStep ==
    AquariusTyped /\ AquariusChain /\ AquariusOutcome /\ AquariusSeen /\ A!Next => AquariusSeen'
<1> SUFFICES ASSUME AquariusTyped, AquariusChain, AquariusOutcome, AquariusSeen, A!Next
             PROVE  AquariusSeen'
  OBVIOUS
<1>0. DOMAIN got = DOMAIN A!Blank /\ got.contract \in BothContracts
  BY DEF AquariusTyped
<1>c. pc # "done" => row.status = "none"
  BY DEF AquariusOutcome, Unpublished, FailedRow
<1>a. ASSUME chain' = chain, seen' = seen, changes' = changes,
             got'.killed = got.killed, got'.landed = got.landed,
             row'.status # "failed" => row.status # "failed",
             pc' \notin {"type", "pool", "done"} \/ row'.status = "ok" =>
                 pc \notin {"type", "pool", "done"} \/ row.status = "ok"
      PROVE  AquariusSeen'
  <2>1. ASSUME changes' <= 1, row'.status # "failed"
        PROVE  \E before, spot : AquariusReadFrom(before, spot)'
    <3>1. PICK before, spot : AquariusReadFrom(before, spot)
      BY <1>a, <2>1 DEF AquariusSeen
    <3>2. AquariusReadFrom(before, spot)'
      BY <1>a, <3>1 DEF AquariusReadFrom
    <3> QED
      BY <3>2
  <2>2. /\ changes' \in Nat /\ A!TrueState(chain') \in seen'
        /\ got'.killed \subseteq A!KillFlags /\ got'.killed \subseteq got'.landed
        /\ pc' \notin {"type", "pool", "done"} \/ row'.status = "ok" =>
              A!KillFlags \subseteq got'.landed
    BY <1>a DEF AquariusSeen
  <2> QED
    BY <2>1, <2>2 DEF AquariusSeen
<1> USE DEF A!Learn, A!Throw, A!FailedRow
<1>e. ASSUME NEW issuer, pc \in {"token", "issuer"}, A!TakeIssuer(issuer)
      PROVE  AquariusSeen'
  BY <1>0, <1>a, <1>e DEF A!TakeIssuer, A!Blank
<1>f. ASSUME NEW account, pc \in {"account", "ops"}, A!TakeAccount(account)
      PROVE  AquariusSeen'
  BY <1>0, <1>a, <1>f DEF A!TakeAccount, A!Blank
<1>g. ASSUME NEW read, pc = "roles", A!TakeRoles(read)
      PROVE  AquariusSeen'
  BY <1>0, <1>a, <1>g DEF A!TakeRoles, A!Blank
<1>1. CASE A!ReadPoolType
  BY <1>1, <1>a DEF A!ReadPoolType
<1>2. CASE A!PoolReadLands
  <2>1. CASE A!Throw
    BY <1>a, <1>c, <1>2, <2>1 DEF A!PoolReadLands
  <2>2. CASE ~A!Throw
    <3>1. PICK f \in A!PoolReads \ got.landed :
             /\ got'.landed = got.landed \cup {f}
             /\ got'.killed = IF f # "tokens" /\ chain.killed[f] THEN got.killed \cup {f}
                              ELSE got.killed
             /\ pc' \in {"pool", "entries"}
             /\ pc' = "entries" => got'.landed = A!PoolReads
      BY <1>0, <1>2, <2>2 DEF A!PoolReadLands, A!Blank
    <3>2. /\ chain' = chain /\ seen' = seen /\ changes' = changes /\ row' = row /\ pc = "pool"
      BY <1>2, <2>2 DEF A!PoolReadLands
    <3>3. got'.killed \subseteq A!KillFlags /\ got'.killed \subseteq got'.landed
      BY <3>1 DEF AquariusSeen, A!PoolReads
    <3>4. row.status = "none"
      BY <1>c, <3>2
    <3>5. ASSUME changes' <= 1
          PROVE  \E before, spot : AquariusReadFrom(before, spot)'
      <4>1. PICK before, spot : AquariusReadFrom(before, spot)
        BY <3>2, <3>4, <3>5 DEF AquariusSeen
      <4>2. ASSUME NEW g \in A!KillFlags, g \in got'.landed
            PROVE  \/ g \in got'.killed <=> before.killed[g]
                   \/ g \in got'.killed <=> chain'.killed[g]
        <5>1. CASE g = f
          <6>1. f \notin got.killed /\ f # "tokens"
            BY <3>1, <4>2, <5>1 DEF AquariusSeen, A!KillFlags
          <6>2. f \in got'.killed <=> chain.killed[f]
            BY <3>1, <6>1
          <6> QED
            BY <3>2, <5>1, <6>2
        <5>2. CASE g # f
          <6>1. (g \in got'.killed <=> g \in got.killed) /\ g \in got.landed
            BY <3>1, <4>2, <5>2
          <6>2. \/ g \in got.killed <=> before.killed[g]
                \/ g \in got.killed <=> chain.killed[g]
            BY <4>1, <6>1 DEF AquariusReadFrom
          <6> QED
            BY <3>2, <6>1, <6>2
        <5> QED
          BY <5>1, <5>2
      <4>3. /\ A!TrueState(before) \in seen'
            /\ changes' = 0 => before = chain'
            /\ \A g \in A!KillFlags : g # spot => before.killed[g] = chain'.killed[g]
        BY <3>2, <4>1 DEF AquariusReadFrom
      <4>4. AquariusReadFrom(before, spot)'
        BY <4>2, <4>3 DEF AquariusReadFrom
      <4> QED
        BY <4>4
    <3>6. /\ changes' \in Nat /\ A!TrueState(chain') \in seen'
          /\ pc' \notin {"type", "pool", "done"} \/ row'.status = "ok" =>
                A!KillFlags \subseteq got'.landed
      BY <3>1, <3>2, <3>4 DEF AquariusSeen, A!PoolReads
    <3> QED
      BY <3>3, <3>5, <3>6 DEF AquariusSeen
  <2> QED
    BY <2>1, <2>2
<1>3. CASE A!ReadEntries
  BY <1>0, <1>3, <1>a DEF A!ReadEntries, A!ReadChunk, A!Blank
<1>4. CASE A!ReadToken
  <2>1. CASE A!Learn(got, "issuer")
    BY <1>4, <1>a, <2>1 DEF A!ReadToken
  <2>2. CASE ~A!Learn(got, "issuer")
    BY <1>4, <1>e, <2>2 DEF A!ReadToken
  <2> QED
    BY <2>1, <2>2
<1>5. CASE A!ReadIssuerFlags \/ A!IssuerRefused
  BY <1>5, <1>e DEF A!ReadIssuerFlags, A!IssuerRefused
<1>6. CASE A!ReadRoles \/ A!RolesRefused
  BY <1>6, <1>g DEF A!ReadRoles, A!RolesRefused
<1>7. CASE A!ReadAccount
  <2>1. pc = "account"
    BY <1>7 DEF A!ReadAccount
  <2>2. CASE A!Learn([got EXCEPT !.reading = <<chain.account[A!NextHolder]>>], "ops")
    BY <1>0, <1>a, <2>1, <2>2 DEF A!Blank
  <2> QED
    BY <1>7, <1>f, <2>1, <2>2 DEF A!ReadAccount
<1>8. CASE A!ReadOps \/ A!AccountRefused
  BY <1>8, <1>f DEF A!ReadOps, A!AccountRefused
<1>9. CASE A!ReadRouter
  BY <1>0, <1>9, <1>a DEF A!ReadRouter, A!Blank
<1>10. CASE A!ReadFails
  BY <1>0, <1>c, <1>10, <1>a DEF A!ReadFails, A!Awaiting, A!ThrowFor, A!Blank
<1>11. CASE A!Finish
  <2>1. /\ chain' = chain /\ seen' = seen /\ changes' = changes /\ got' = got
        /\ pc = "finish" /\ pc' = "done"
    BY <1>11 DEF A!Finish, A!Publish
  <2>2. row.status # "failed"
    BY <1>c, <2>1
  <2> QED
    BY <1>a, <2>1, <2>2
<1>12. CASE A!Tick \/ A!Finished
  BY <1>12, <1>a DEF A!Tick, A!Finished, A!readVars
<1>13. CASE A!TransactionLands
  <2>1. PICK i \in DOMAIN AquariusEdits : chain' = A!Edited(chain, AquariusEdits[i])
    BY <1>13 DEF A!TransactionLands, A!ChainMoves
  <2>2. /\ changes' = changes + 1 /\ seen' = seen \cup {A!TrueState(chain')}
        /\ got' = got /\ pc' = pc /\ row' = row /\ row.status = "none"
    BY <1>13 DEF A!TransactionLands, A!ChainMoves
  <2> DEFINE e == AquariusEdits[i]
  <2>3. \E s : \A f \in A!KillFlags : f # s => chain.killed[f] = chain'.killed[f]
    <3>1. /\ e.part \in AquariusParts
          /\ e.part = "killed" <=> "key" \in DOMAIN e
      BY ChainsAssumption DEF Sound
    <3>2. DOMAIN chain = AquariusParts /\ A!KillFlags \subseteq DOMAIN chain["killed"]
      BY DEF AquariusChain, AquariusParts, AquariusHolds
    <3> HIDE DEF e
    <3>3. CASE e.part = "killed"
      <4>1. chain' = [chain EXCEPT !["killed"][e.key] = e.to]
        BY <2>1, <3>1, <3>3 DEF A!Edited, e
      <4>2. \A f \in A!KillFlags : f # e.key => chain'.killed[f] = chain.killed[f]
        BY <3>2, <4>1 DEF AquariusParts
      <4> QED
        BY <4>2
    <3>4. CASE e.part # "killed"
      <4>1. chain' = [chain EXCEPT ![e.part] = e.to]
        BY <2>1, <3>1, <3>4 DEF A!Edited, e
      <4>2. chain'.killed = chain.killed
        BY <3>2, <3>4, <4>1 DEF AquariusParts
      <4> QED
        BY <4>2
    <3> QED
      BY <3>3, <3>4
  <2>4. PICK s : \A f \in A!KillFlags : f # s => chain.killed[f] = chain'.killed[f]
    BY <2>3
  <2>5. A!TrueState(chain') \in seen' /\ A!TrueState(chain) \in seen' /\ changes' \in Nat
    BY <2>2 DEF AquariusSeen
  <2>6. ASSUME changes' <= 1
        PROVE  \E before, spot : AquariusReadFrom(before, spot)'
    <3>1. changes = 0 /\ changes' # 0
      BY <2>2, <2>6 DEF AquariusSeen
    <3>2. PICK before, old : AquariusReadFrom(before, old)
      BY <2>2, <3>1 DEF AquariusSeen
    <3>3. before = chain
      BY <3>1, <3>2 DEF AquariusReadFrom
    <3>4. /\ A!TrueState(before) \in seen'
          /\ changes' = 0 => before = chain'
          /\ \A f \in A!KillFlags : f # s => before.killed[f] = chain'.killed[f]
      BY <2>4, <2>5, <3>1, <3>3
    <3>5. \A f \in A!KillFlags : f \in got'.landed =>
             \/ f \in got'.killed <=> before.killed[f]
             \/ f \in got'.killed <=> chain'.killed[f]
      BY <2>2, <3>2, <3>3 DEF AquariusReadFrom
    <3>6. AquariusReadFrom(before, s)'
      BY <3>4, <3>5 DEF AquariusReadFrom
    <3> QED
      BY <3>6
  <2>7. /\ got'.killed \subseteq A!KillFlags /\ got'.killed \subseteq got'.landed
        /\ pc' \notin {"type", "pool", "done"} \/ row'.status = "ok" =>
              A!KillFlags \subseteq got'.landed
    BY <2>2 DEF AquariusSeen
  <2> QED
    BY <2>5, <2>6, <2>7 DEF AquariusSeen
<1> QED
  BY <1>1, <1>2, <1>3, <1>4, <1>5, <1>6, <1>7, <1>8, <1>9, <1>10, <1>11, <1>12, <1>13 DEF A!Next

\* The pool's state wins over the router's, which blocks nothing.
LEMMA AquariusStateIsPools ==
    ASSUME NEW killed \in SUBSET A!KillFlags
    PROVE  A!OperationalState(killed) = A!DexState(killed)
<1> DEFINE pool == A!DexState(killed)
           router == A!DexState({})
<1>1. A!Rank(router.level) = 0 /\ A!Rank(pool.level) \in 0 .. 4
  BY DEF A!DexState, A!DexLevel, A!Rank
<1>2. ASSUME NEW x, NEW y, A!Rank(x.level) \in 0 .. 4, A!Rank(y.level) = 0
      PROVE  A!MostRestrictive(<<x, y>>) = x
  <2> DEFINE states == <<x, y>>
             Wins(i) == \A j \in DOMAIN states :
                           /\ A!Rank(states[j].level) <= A!Rank(states[i].level)
                           /\ j < i => A!Rank(states[j].level) < A!Rank(states[i].level)
  <2>1. DOMAIN states = {1, 2} /\ states[1] = x /\ states[2] = y
    OBVIOUS
  <2> HIDE DEF states
  <2>2. Wins(1)
    BY <1>2, <2>1
  <2>3. ~Wins(2)
    BY <1>2, <2>1
  <2>4. (CHOOSE i \in DOMAIN states : Wins(i)) = 1
    BY <2>1, <2>2, <2>3
  <2>5. A!MostRestrictive(states) = states[CHOOSE i \in DOMAIN states : Wins(i)]
    BY DEF A!MostRestrictive
  <2> QED
    BY <2>1, <2>4, <2>5 DEF states
<1> HIDE DEF pool, router
<1>3. A!OperationalState(killed) = A!MostRestrictive(IF killed # {} THEN <<pool, router>>
                                                     ELSE <<router, pool>>)
  BY DEF A!OperationalState, A!PoolFirst, pool, router
<1>4. CASE killed # {}
  BY <1>1, <1>2, <1>3, <1>4 DEF pool
<1>5. CASE killed = {}
  <2>1. pool = router
    BY <1>5 DEF pool, router
  <2> QED
    BY <1>1, <1>2, <1>3, <1>5, <2>1 DEF pool
<1> QED
  BY <1>4, <1>5

\* The row's state is that of one of them.
LEMMA AquariusStateSeen ==
    ASSUME AquariusOutcome, AquariusSeen, row.status = "ok", changes <= 1
    PROVE  row.state \in seen
<1>1. PICK before, spot : AquariusReadFrom(before, spot)
  BY DEF AquariusSeen
<1>2. row.state = A!DexState(got.killed)
  <2>1. row.state = A!OperationalState(got.killed)
    BY DEF AquariusOutcome, AquariusRowTrue, Unpublished, FailedRow
  <2>2. got.killed \in SUBSET A!KillFlags
    BY DEF AquariusSeen
  <2> QED
    BY <2>1, <2>2, AquariusStateIsPools
<1>3. \A f \in A!KillFlags :
         \/ f \in got.killed <=> before.killed[f]
         \/ f \in got.killed <=> chain.killed[f]
  BY <1>1 DEF AquariusReadFrom, AquariusSeen
<1>4. \A f \in A!KillFlags : f # spot => before.killed[f] = chain.killed[f]
  BY <1>1 DEF AquariusReadFrom
<1>5. \/ \A f \in A!KillFlags : f \in got.killed <=> before.killed[f]
      \/ \A f \in A!KillFlags : f \in got.killed <=> chain.killed[f]
  <2>1. CASE spot \in A!KillFlags /\ (spot \in got.killed <=> before.killed[spot])
    <3>1. ASSUME NEW f \in A!KillFlags
          PROVE  f \in got.killed <=> before.killed[f]
      BY <1>3, <1>4, <2>1
    <3> QED
      BY <3>1
  <2>2. CASE ~(spot \in A!KillFlags /\ (spot \in got.killed <=> before.killed[spot]))
    <3>1. ASSUME NEW f \in A!KillFlags
          PROVE  f \in got.killed <=> chain.killed[f]
      BY <1>3, <1>4, <2>2
    <3> QED
      BY <3>1
  <2> QED
    BY <2>1, <2>2
<1>6. ASSUME NEW c, \A f \in A!KillFlags : f \in got.killed <=> c.killed[f]
      PROVE  A!TrueState(c) = A!DexState(got.killed)
  <2>1. {f \in A!KillFlags : c.killed[f]} = got.killed
    BY <1>6 DEF AquariusSeen
  <2> QED
    BY <2>1 DEF A!TrueState
<1>7. A!TrueState(before) \in seen /\ A!TrueState(chain) \in seen
  BY <1>1 DEF AquariusReadFrom, AquariusSeen
<1> QED
  BY <1>2, <1>5, <1>6, <1>7

--------------------------------------------------------------------------------
(* The invariant of each adapter.                                          *)

\* The first state is seen.
LEMMA BlendSeenInit == B!Init => BlendSeen
BY DEF B!Init, BlendSeen

\* The row's state is one that was seen.
LEMMA BlendStateSeen ==
    ASSUME BlendOutcome, BlendSeen, row.status = "ok"
    PROVE  row.state \in seen
<1>1. pc = "done" /\ row.state = B!OperationalState(got.status)
  BY DEF BlendOutcome, BlendRowTrue, Unpublished, FailedRow
<1> QED
  BY <1>1 DEF BlendSeen

\* The inductive invariant of the Blend adapter.
BlendInv ==
    BlendTyped /\ BlendChain /\ BlendOutcome /\ BlendPrices /\ BlendHeld /\ BlendSeen

\* It holds when a fetch begins.
LEMMA BlendInvInit == B!Init /\ protocol = "blend" => BlendInv
BY BlendTypedInit, BlendPricesInit, BlendHeldInit, BlendSeenInit DEF BlendInv

\* Every step of the adapter keeps it.
LEMMA BlendInvStep == BlendInv /\ B!Next => BlendInv'
BY BlendTypedStep, BlendChainStep, BlendOutcomeStep, BlendPricesStep, BlendHeldStep, BlendSeenStep
DEF BlendInv

\* So does a step in which nothing changes.
LEMMA BlendInvStays == BlendInv /\ UNCHANGED readVars => BlendInv'
<1> SUFFICES ASSUME BlendTyped, BlendChain, BlendOutcome, BlendPrices, BlendHeld, BlendSeen,
                    UNCHANGED readVars
             PROVE  BlendInv'
  BY DEF BlendInv
<1>0. /\ chain' = chain /\ now' = now /\ changes' = changes /\ seen' = seen
      /\ pc' = pc /\ got' = got /\ row' = row
  BY DEF readVars
<1>1. BlendTyped' /\ BlendChain' /\ BlendSeen'
  BY <1>0 DEF BlendTyped, BlendChain, BlendSeen
<1>2. BlendOutcome'
  BY <1>0, BlendScoresKept DEF BlendOutcome, BlendRowTrue
<1>3. BlendPrices'
  BY <1>0 DEF BlendPrices, BlendWhole, Prefix
<1>4. BlendHeld'
  <2>1. B!Keys' = B!Keys
    BY <1>0 DEF B!Keys
  <2>2. \A a : B!Missing(a)' = B!Missing(a) /\ OneLedger(a)' = OneLedger(a)
    BY <1>0 DEF OneLedger, B!Missing
  <2> QED
    BY <1>0, <2>1, <2>2 DEF BlendHeld, BlendWhole
<1> QED
  BY <1>1, <1>2, <1>3, <1>4 DEF BlendInv

\* The inductive invariant of the Kinetic adapter.
KineticInv ==
    /\ KineticTyped /\ KineticChain /\ KineticOutcome
    /\ KineticPrices /\ KineticConfigs /\ KineticRounds /\ KineticSeen

\* It holds when a fetch begins.
LEMMA KineticInvInit == K!Init => KineticInv
BY KineticTypedInit, KineticKnownInit, KineticRoundsInit, KineticSeenInit DEF KineticInv

\* Every step of the adapter keeps it.
LEMMA KineticInvStep == KineticInv /\ K!Next => KineticInv'
BY KineticTypedStep, KineticChainStep, KineticOutcomeStep, KineticPricesStep, KineticConfigsStep,
   KineticRoundsStep, KineticSeenStep
DEF KineticInv

\* So does a step in which nothing changes.
LEMMA KineticInvStays == KineticInv /\ UNCHANGED readVars => KineticInv'
<1> SUFFICES ASSUME KineticInv, UNCHANGED readVars
             PROVE  KineticInv'
  OBVIOUS
<1>0. /\ chain' = chain /\ now' = now /\ changes' = changes /\ seen' = seen
      /\ pc' = pc /\ got' = got /\ row' = row
  BY DEF readVars
<1>a. /\ KineticTyped /\ KineticChain /\ KineticOutcome
      /\ KineticPrices /\ KineticConfigs /\ KineticRounds /\ KineticSeen
  BY DEF KineticInv
<1>1. KineticTyped' /\ KineticChain'
  BY <1>0, <1>a DEF KineticTyped, KineticChain
<1>2. KineticOutcome'
  BY <1>0, <1>a, KineticScoresKept DEF KineticOutcome, KineticRowTrue
<1>3. KineticPrices' /\ KineticConfigs'
  BY <1>0, <1>a DEF KineticPrices, KineticConfigs, Prefix
<1>4. KineticRounds'
  <2>1. K!Pending(got.borrowed)' = K!Pending(got.borrowed)
    BY <1>0 DEF K!Pending
  <2> QED
    BY <1>0, <1>a, <2>1 DEF KineticRounds, Prefix
<1>5. KineticSeen'
  <2>1. ASSUME changes' <= 1, row'.status # "failed"
        PROVE  \E before, spot : KineticReadFrom(before, spot)'
    <3>1. PICK before, spot : KineticReadFrom(before, spot)
      BY <1>0, <1>a, <2>1 DEF KineticSeen
    <3>2. KineticReadFrom(before, spot)'
      BY <1>0, <3>1 DEF KineticReadFrom
    <3> QED
      BY <3>2
  <2>2. changes' \in Nat /\ K!TrueState(chain') \in seen'
    BY <1>0, <1>a DEF KineticSeen
  <2> QED
    BY <2>1, <2>2 DEF KineticSeen
<1> QED
  BY <1>1, <1>2, <1>3, <1>4, <1>5 DEF KineticInv

\* The inductive invariant of the Aquarius adapter.
AquariusInv ==
    AquariusReads /\ AquariusChain /\ AquariusOutcome /\ AquariusIssuers /\ AquariusSeen

\* It holds when a fetch begins.
LEMMA AquariusInvInit == A!Init => AquariusInv
BY AquariusTypedInit, AquariusReadsInit, AquariusIssuersInit, AquariusSeenInit
DEF AquariusInv, AquariusReads

\* Every step of the adapter keeps it.
LEMMA AquariusInvStep == AquariusInv /\ A!Next => AquariusInv'
BY AquariusReadsStep, AquariusChainStep, AquariusOutcomeStep, AquariusIssuersStep,
   AquariusSeenStep
DEF AquariusInv, AquariusReads

\* So does a step in which nothing changes.
LEMMA AquariusInvStays == AquariusInv /\ UNCHANGED readVars => AquariusInv'
<1> SUFFICES ASSUME AquariusInv, UNCHANGED readVars
             PROVE  AquariusInv'
  OBVIOUS
<1>0. /\ chain' = chain /\ now' = now /\ changes' = changes /\ seen' = seen
      /\ pc' = pc /\ got' = got /\ row' = row
  BY DEF readVars
<1>a. /\ AquariusTyped /\ AquariusHeld /\ AquariusTurn
      /\ AquariusChain /\ AquariusOutcome /\ AquariusIssuers /\ AquariusSeen
  BY DEF AquariusInv, AquariusReads
<1>1. AquariusTyped' /\ AquariusChain'
  BY <1>0, <1>a DEF AquariusTyped, AquariusChain
<1>2. AquariusHeld'
  <2>1. \A c : Roster(c)' = Roster(c)
    BY <1>0 DEF Roster
  <2> QED
    BY <1>0, <1>a, <2>1 DEF AquariusHeld
<1>3. AquariusTurn'
  <2>1. A!NextHolder' = A!NextHolder
    BY <1>0 DEF A!NextHolder, A!NextRole, A!Roster, A!Accounts
  <2> QED
    BY <1>0, <1>a, <2>1 DEF AquariusTurn
<1>4. AquariusOutcome'
  BY <1>0, <1>a, AquariusScoresKept DEF AquariusOutcome, AquariusRowTrue
<1>5. AquariusIssuers'
  BY <1>0, <1>a DEF AquariusIssuers, Prefix
<1>6. AquariusSeen'
  <2>1. ASSUME changes' <= 1, row'.status # "failed"
        PROVE  \E before, spot : AquariusReadFrom(before, spot)'
    <3>1. PICK before, spot : AquariusReadFrom(before, spot)
      BY <1>0, <1>a, <2>1 DEF AquariusSeen
    <3>2. AquariusReadFrom(before, spot)'
      BY <1>0, <3>1 DEF AquariusReadFrom
    <3> QED
      BY <3>2
  <2>2. /\ changes' \in Nat /\ A!TrueState(chain') \in seen'
        /\ got'.killed \subseteq A!KillFlags /\ got'.killed \subseteq got'.landed
        /\ pc' \notin {"type", "pool", "done"} \/ row'.status = "ok" =>
              A!KillFlags \subseteq got'.landed
    BY <1>0, <1>a DEF AquariusSeen
  <2> QED
    BY <2>1, <2>2 DEF AquariusSeen
<1> QED
  BY <1>1, <1>2, <1>3, <1>4, <1>5, <1>6 DEF AquariusInv, AquariusReads

--------------------------------------------------------------------------------
(* The three together.                                                     *)

\* Whichever adapter runs, its invariant.
AdaptersInv ==
    /\ protocol \in {"blend", "kinetic", "aquarius"}
    /\ protocol = "blend" => BlendInv
    /\ protocol = "kinetic" => KineticInv
    /\ protocol = "aquarius" => AquariusInv

\* And it holds always.
LEMMA InvariantHolds == Spec => []AdaptersInv
<1>1. Init => AdaptersInv
  BY BlendInvInit, KineticInvInit, AquariusInvInit DEF Init, AdaptersInv
<1>2. AdaptersInv /\ [Next]_vars => AdaptersInv'
  <2> SUFFICES ASSUME AdaptersInv, [Next]_vars
               PROVE  AdaptersInv'
    OBVIOUS
  <2>1. protocol' = protocol
    BY DEF Next, vars
  <2>2. CASE protocol = "blend"
    <3>1. BlendInv
      BY <2>2 DEF AdaptersInv
    <3>2. BlendInv'
      BY <2>2, <3>1, BlendInvStep, BlendInvStays DEF Next, vars
    <3> QED
      BY <2>1, <2>2, <3>2 DEF AdaptersInv
  <2>3. CASE protocol = "kinetic"
    <3>1. KineticInv
      BY <2>3 DEF AdaptersInv
    <3>2. KineticInv'
      BY <2>3, <3>1, KineticInvStep, KineticInvStays DEF Next, vars
    <3> QED
      BY <2>1, <2>3, <3>2 DEF AdaptersInv
  <2>4. CASE protocol = "aquarius"
    <3>1. AquariusInv
      BY <2>4 DEF AdaptersInv
    <3>2. AquariusInv'
      BY <2>4, <3>1, AquariusInvStep, AquariusInvStays DEF Next, vars
    <3> QED
      BY <2>1, <2>4, <3>2 DEF AdaptersInv
  <2> QED
    BY <2>2, <2>3, <2>4 DEF AdaptersInv
<1> QED
  BY <1>1, <1>2, PTL DEF Spec

\* A Blend or Aquarius row is never published of a fetch whose endpoint failed it.
THEOREM EndpointFailuresThrow == Spec => []TransportNeverScored
<1>1. AdaptersInv => TransportNeverScored
  BY BlendRowSays, AquariusRowSays
  DEF AdaptersInv, BlendInv, AquariusInv, TransportNeverScored
<1> QED
  BY <1>1, InvariantHolds, PTL

\* A price, a role list, an account or an issuer that could not be had leaves the factor
\* that asked for it at 0, whatever else was read.
THEOREM UnreadScoresZero == Spec => []UnreadIsUnsafe
<1>1. AdaptersInv => UnreadIsUnsafe
  <2> SUFFICES ASSUME AdaptersInv
               PROVE  UnreadIsUnsafe
    OBVIOUS
  <2>1. ASSUME Published, protocol = "blend"
        PROVE  (\E a \in B!Graded : got.price[a] = <<>>) => Factor("oracleSafety") = 0
    BY <2>1, BlendRowSays DEF AdaptersInv, BlendInv
  <2>2. ASSUME Published, protocol = "kinetic"
        PROVE  (\E a \in K!Listed : got.price[a] = <<>> \/ got.config[a] = <<>>)
                   => Factor("oracleSafety") = 0
    BY <2>2, KineticRowSays DEF AdaptersInv, KineticInv
  <2>3. ASSUME Published, protocol = "aquarius"
        PROVE  /\ (\E c \in {"pool", "router"} :
                      \/ got.roles[c].status # "read"
                      \/ \E i \in DOMAIN got.roles[c].roles :
                             \E k \in DOMAIN got.accounts[c][i] :
                                 got.accounts[c][i][k].status = "failed")
                   => Factor("adminKeySafety") = 0
               /\ (\E t \in DOMAIN got.issuer : got.issuer[t].status = "failed")
                   => Factor("assetControlSafety") = 0
    BY <2>3, AquariusRowSays DEF AdaptersInv, AquariusInv
  <2> QED
    BY <2>1, <2>2, <2>3 DEF UnreadIsUnsafe
<1> QED
  BY <1>1, InvariantHolds, PTL

\* A Blend row's reserves are each of one ledger, when its keys fit in one call.
THEOREM ReservesAreWhole == Spec => []ReservesWhole
<1>1. AdaptersInv => ReservesWhole
  <2> SUFFICES ASSUME AdaptersInv, Published, protocol = "blend", Len(B!Keys) <= KeysPerCall,
                      NEW a \in B!Listed
               PROVE  /\ ~(got.entries[<<"config", a>>] = <<>>
                           \/ got.entries[<<"data", a>>] = <<>>)
                      /\ got.entries[<<"config", a>>][1].rev = got.entries[<<"data", a>>][1].rev
    BY DEF ReservesWhole
  <2>1. BlendPrices /\ BlendHeld /\ BlendWhole
    BY DEF AdaptersInv, BlendInv, BlendWhole, Published
  <2>2. a \in Members(got.list)
    BY BlendArithmetic DEF B!Listed
  <2>3. ~B!Missing(a)
    BY <2>1, <2>2 DEF BlendPrices, BlendHeld
  <2>4. OneLedger(a)
    BY <2>1, <2>2 DEF BlendHeld
  <2> QED
    BY <2>3, <2>4 DEF OneLedger, B!Missing
<1> QED
  BY <1>1, InvariantHolds, PTL

\* The freshness a Blend row publishes is at most that of the moment each price was read.
THEOREM ReadingAgesPrices == Spec => []FreshnessNotFlattered
<1>1. AdaptersInv => FreshnessNotFlattered
  BY BlendRowSays DEF AdaptersInv, BlendInv, FreshnessNotFlattered
<1> QED
  BY <1>1, InvariantHolds, PTL

\* What a lending row lists as stale is what its score counts as stale, up to a feed that
\* is slower than the limit.
THEOREM StaleMeansZero == Spec => []StaleListMatchesScore
<1>1. AdaptersInv => StaleListMatchesScore
  BY BlendRowSays, KineticRowSays
  DEF AdaptersInv, BlendInv, KineticInv, StaleListMatchesScore
<1> QED
  BY <1>1, InvariantHolds, PTL

\* An address that holds several Aquarius roles is graded as one account.
THEOREM OneAccountPerAddress == Spec => []OneReadingPerAddress
<1>1. AdaptersInv => OneReadingPerAddress
  <2>1. ~(Published /\ protocol = "aquarius") => OneReadingPerAddress
    BY DEF OneReadingPerAddress
  <2> QED
    BY <2>1, AquariusOneReading DEF AdaptersInv, AquariusInv
<1> QED
  BY <1>1, InvariantHolds, PTL

\* A row's state was true at some moment of its fetch, if no more than one transaction
\* landed while it lasted; for Blend, which reads it at once, whatever landed.
THEOREM StateWasOnceTrue ==
    Spec => [](changes <= 1 \/ protocol = "blend" => StateWasTrue)
<1>1. AdaptersInv => (changes <= 1 \/ protocol = "blend" => StateWasTrue)
  <2> SUFFICES ASSUME AdaptersInv, changes <= 1 \/ protocol = "blend", Published
               PROVE  row.state \in seen
    BY DEF StateWasTrue
  <2>1. row.status = "ok"
    BY DEF Published
  <2>2. CASE protocol = "blend"
    BY <2>1, <2>2, BlendStateSeen DEF AdaptersInv, BlendInv
  <2>3. CASE protocol = "kinetic"
    BY <2>1, <2>3, KineticStateSeen DEF AdaptersInv, KineticInv
  <2>4. CASE protocol = "aquarius"
    BY <2>1, <2>4, AquariusStateSeen DEF AdaptersInv, AquariusInv
  <2> QED
    BY <2>2, <2>3, <2>4 DEF AdaptersInv
<1> QED
  BY <1>1, InvariantHolds, PTL
================================================================================
