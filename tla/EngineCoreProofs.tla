-------------------------- MODULE EngineCoreProofs --------------------------
(***************************************************************************)
(* Every reachable state of EngineCore satisfies IInv: the structural      *)
(* properties hold for any number of blocks and requests, any block size,  *)
(* batch limits and prompts, and whatever the callers do when a run fails. *)
(*                                                                         *)
(* The queues, the block tables, the reference counts and the batch have   *)
(* to be treated together: that a preempted request is not in the batch    *)
(* needs the queues, that hash_blocks hits no shared block needs the       *)
(* batch, and that can_append speaks about the right block needs the       *)
(* tables.                                                                 *)
(*                                                                         *)
(* The second part is what the prefix cache rests on: a token that counts  *)
(* as cached is in the slot its block table names, computed from this very *)
(* prefix, although blocks are shared, evicted, reused and released in     *)
(* between.  The counters only say how many tokens are cached.  CacheInv   *)
(* adds what makes that true: a block with a hash holds the tokens its     *)
(* hash stands for, the full cached blocks of a table carry the hashes of  *)
(* the prefix, and a request that decodes has all but its last token       *)
(* cached.                                                                 *)
(***************************************************************************)
EXTENDS EngineCore, DequeTheorems

-----------------------------------------------------------------------------
(* The block manager: every operation preserves PoolInv.                   *)

(* Prefixes of different lengths have different hashes.                    *)
LEMMA PrefixHashInjective ==
    ASSUME NEW s, NEW i \in Nat \ {0}, NEW j \in Nat \ {0},
           PrefixHash(s, i) = PrefixHash(s, j)
    PROVE  i = j /\ PrefixHash(s, i) # NoHash
<1>1. i * BlockSize \in Nat /\ j * BlockSize \in Nat
  BY PoolAssumption
<1>2. DOMAIN PrefixHash(s, i) = 1..i * BlockSize /\ DOMAIN PrefixHash(s, j) = 1..j * BlockSize
  BY DEF PrefixHash
<1>3. i * BlockSize = j * BlockSize
  BY <1>1, <1>2
<1>4. i = j
  BY <1>3, PoolAssumption, DivBounds
<1>5. i * BlockSize # 0
  BY PoolAssumption
<1>6. 1 \in DOMAIN PrefixHash(s, i)
  BY <1>1, <1>2, <1>5
<1> QED BY <1>4, <1>6 DEF NoHash

(* The leading blocks can_allocate counts are all in the index, and they   *)
(* never include the last block.                                           *)
LEMMA CachedBlocksIndexed ==
    ASSUME NEW s, NumTokens(s) \in Nat \ {0}
    PROVE  /\ NumBlocksOf(s) \in Nat \ {0}
           /\ NumCachedBlocks(s) \in 0..NumBlocksOf(s) - 1
           /\ \A i \in 1..NumCachedBlocks(s) : PrefixHash(s, i) \in DOMAIN hmap
<1> DEFINE R == ReusableBlocks(s)
           S == { n \in 1..R : \A i \in 1..n : PrefixHash(s, i) \in DOMAIN hmap }
           k == NumCachedBlocks(s)
<1>1. NumBlocksOf(s) \in Nat \ {0} /\ R \in Nat /\ R = NumBlocksOf(s) - 1
  BY PoolAssumption, DivFacts DEF NumBlocksOf, CeilDiv, ReusableBlocks
<1>2. IsFiniteSet(S) /\ Cardinality(S) \in Nat /\ Cardinality(S) <= R
  <2>1. IsFiniteSet(1..R) /\ Cardinality(1..R) = R
    <3>1. R \in Nat
      BY <1>1
    <3> HIDE DEF R
    <3> QED BY <3>1, FS_Interval
  <2>2. IsFiniteSet(S) /\ Cardinality(S) <= R
    BY <2>1, FS_Subset
  <2> QED BY <2>2, FS_CardinalityType
<1>3. k = Cardinality(S)
  BY DEF NumCachedBlocks
<1>4. k = 0 \/ k \in S
  <2> SUFFICES ASSUME k # 0, k \notin S PROVE FALSE
    OBVIOUS
  <2>1. k \in 1..R
    BY <1>1, <1>2, <1>3
  <2>0. k \in Nat /\ k - 1 \in Nat /\ 1 \in Int /\ k - 1 \in Int
    <3> HIDE DEF k, S, R
    <3> QED BY <2>1, <1>1
  <2>2. S \subseteq 1..k - 1
    <3> SUFFICES ASSUME NEW n \in S, n >= k PROVE FALSE
      BY <2>0, <1>1
    <3>1. 1..k \subseteq 1..n
      BY <2>1, <1>1
    <3> QED BY <2>1, <3>1
  <2>3. Cardinality(S) <= k - 1
    <3> HIDE DEF k, S
    <3>1. IsFiniteSet(1..k - 1)
      BY <2>0, FS_Interval
    <3>2. Cardinality(1..k - 1) = k - 1
      <4>1. Cardinality(1..k - 1) = IF 1 > k - 1 THEN 0 ELSE k - 1 - 1 + 1
        BY <2>0, FS_Interval
      <4> QED BY <2>0, <4>1
    <3>3. Cardinality(S) <= Cardinality(1..k - 1)
      BY <2>2, <3>1, FS_Subset
    <3> QED BY <3>2, <3>3
  <2> QED BY <1>2, <1>3, <2>3
<1>5. \A i \in 1..k : PrefixHash(s, i) \in DOMAIN hmap
  <2>1. CASE k = 0
    BY <2>1
  <2>2. CASE k \in S
    BY <2>2
  <2> QED BY <1>4, <2>1, <2>2
<1> QED BY <1>1, <1>2, <1>3, <1>5

(* The cached blocks are distinct physical blocks that hold hashes.        *)
LEMMA CachedBlocksDistinct ==
    ASSUME NEW s, NumTokens(s) \in Nat \ {0}, IndexSound
    PROVE  /\ \A i \in 1..NumCachedBlocks(s) :
                CachedBlock(s, i) \in Block /\ bhash[CachedBlock(s, i)] # NoHash
           /\ \A i, j \in 1..NumCachedBlocks(s) :
                CachedBlock(s, i) = CachedBlock(s, j) => i = j
<1> DEFINE k == NumCachedBlocks(s)
<1>1. k \in Nat /\ \A i \in 1..k : PrefixHash(s, i) \in DOMAIN hmap
  BY CachedBlocksIndexed
<1> HIDE DEF k
<1>2. \A i \in 1..k : /\ CachedBlock(s, i) \in Block
                      /\ bhash[CachedBlock(s, i)] = PrefixHash(s, i)
                      /\ bhash[CachedBlock(s, i)] # NoHash
  BY <1>1 DEF IndexSound, CachedBlock
<1>3. \A i, j \in 1..k : CachedBlock(s, i) = CachedBlock(s, j) => i = j
  <2> SUFFICES ASSUME NEW i \in 1..k, NEW j \in 1..k, CachedBlock(s, i) = CachedBlock(s, j)
               PROVE  i = j
    OBVIOUS
  <2>1. PrefixHash(s, i) = PrefixHash(s, j)
    BY <1>2
  <2>2. i \in Nat \ {0} /\ j \in Nat \ {0}
    BY <1>1
  <2> QED BY <2>1, <2>2, PrefixHashInjective
<1> QED BY <1>2, <1>3 DEF k

(* Counting owners: a reference count of zero means no owner, of one means *)
(* that an owner is the only one.                                          *)
LEMMA CountedOwners ==
    ASSUME RefCountsExact, NEW b \in Block
    PROVE  /\ ref[b] = 0 => Owners(b) = {}
           /\ \A s \in Owners(b) : ref[b] = 1 => Owners(b) = {s}
           /\ Owners(b) # {} => ref[b] > 0
<1>1. IsFiniteSet(Owners(b)) /\ ref[b] = Cardinality(Owners(b)) /\ Cardinality(Owners(b)) \in Nat
  BY FS_CardinalityType DEF RefCountsExact
<1>2. Cardinality(Owners(b)) = 0 <=> Owners(b) = {}
  BY <1>1, FS_EmptySet
<1>3. ASSUME NEW s \in Owners(b), ref[b] = 1 PROVE Owners(b) = {s}
  <2>1. IsFiniteSet({s}) /\ Cardinality({s}) = 1 /\ {s} \subseteq Owners(b)
    BY FS_Singleton
  <2> QED BY <1>1, <1>3, <2>1, FS_Subset
<1> QED BY <1>1, <1>2, <1>3

(* A block referenced once is in no second block table.                    *)
LEMMA TailNotShared ==
    ASSUME PoolTypeOK, RefCountsExact, NEW r \in SeqId, NEW s \in SeqId, r # s,
           NEW i \in 1..Len(table[r]), ref[table[r][i]] = 1
    PROVE  table[r][i] \notin Range(table[s])
<1>1. table[r][i] \in Block /\ table[r][i] \in Range(table[r])
  BY RangeOfSeq, RangeEquality DEF PoolTypeOK
<1>2. r \in Owners(table[r][i])
  BY <1>1 DEF Owners
<1>3. Owners(table[r][i]) = {r}
  BY <1>1, <1>2, CountedOwners
<1> QED BY <1>3 DEF Owners

(* deallocate(seq) takes seq off the owners of its blocks; blocks left     *)
(* without owner return to the free list.                                  *)
LEMMA DeallocateKeepsRefs ==
    ASSUME PoolTypeOK, RefCountsExact, PoolPartition,
           NEW s \in SeqId, Deallocate(s)
    PROVE  /\ table'   = [table EXCEPT ![s] = << >>]
           /\ table'   \in [SeqId -> Seq(Block)]
           /\ ncached' = [ncached EXCEPT ![s] = 0]
           /\ ncached' \in [SeqId -> Nat]
           /\ free' \in Seq(Block)
           /\ used' \subseteq Block
           /\ ref'  \in [Block -> Nat]
           /\ \A b \in Block : Owners(b)' = Owners(b) \ {s}
           /\ RefCountsExact'
           /\ PoolPartition'
<1> DEFINE M == Range(table[s])
           back == Reversed(table[s])
           F == Freed(s)
<1>1. table[s] \in Seq(Block) /\ M \subseteq Block
  BY RangeOfSeq DEF PoolTypeOK
<1>2. /\ table'   = [table EXCEPT ![s] = << >>]
      /\ ncached' = [ncached EXCEPT ![s] = 0]
      /\ free' = free \o Keep(back, F)
      /\ used' = used \ F
      /\ ref'  = [ b \in Block |-> IF b \in M THEN ref[b] - 1 ELSE ref[b] ]
      /\ F = { b \in M : ref[b] = 1 }
  BY DEF Deallocate, Freed, LastOwned
<1>3. back \in Seq(Block) /\ Range(back) = M /\ Injective(back)
  BY <1>1, ReversedFacts DEF RefCountsExact
<1> HIDE DEF M, back, F
<1>4. /\ Keep(back, F) \in Seq(Block) /\ Injective(Keep(back, F))
      /\ Range(Keep(back, F)) = F /\ F \subseteq M
  BY <1>2, <1>3, KeepProperties
<1>5. \A b \in Block : b \in M <=> s \in Owners(b)
  BY DEF Owners, M
<1>6. \A b \in M : ref[b] \in Nat \ {0}
  BY <1>1, <1>5, CountedOwners DEF PoolTypeOK
<1>7. /\ table' \in [SeqId -> Seq(Block)] /\ ncached' \in [SeqId -> Nat]
      /\ used' \subseteq Block /\ ref' \in [Block -> Nat]
  <2>1. << >> \in Seq(Block)
    OBVIOUS
  <2> QED BY <1>2, <1>6, <2>1 DEF PoolTypeOK
<1>8. Range(free) = Block \ used /\ free \in Seq(Block) /\ Injective(free)
  BY DEF PoolPartition, PoolTypeOK
<1>9. \A b \in M : b \in used
  BY <1>1, <1>6 DEF PoolPartition
<1>10. /\ free' \in Seq(Block) /\ Injective(free')
       /\ Range(free') = Range(free) \cup F
  <2>1. Range(free) \cap F = {}
    BY <1>4, <1>8, <1>9
  <2> QED BY <1>2, <1>4, <1>8, <2>1, ConcatFacts
<1>11. \A b \in Block : Owners(b)' = Owners(b) \ {s}
  <2> SUFFICES ASSUME NEW b \in Block, NEW r \in SeqId
               PROVE  b \in Range(table'[r]) <=> r # s /\ b \in Range(table[r])
    BY DEF Owners
  <2>1. CASE r = s
    <3>1. table'[r] = << >>
      BY <1>2, <2>1 DEF PoolTypeOK
    <3>2. Range(<< >>) = {}
      BY DEF Range
    <3> QED BY <2>1, <3>1, <3>2
  <2>2. CASE r # s
    BY <1>2, <2>2 DEF PoolTypeOK
  <2> QED BY <2>1, <2>2
<1>12. RefCountsExact'
  <2>1. ASSUME NEW b \in Block
        PROVE  IsFiniteSet(Owners(b)') /\ ref'[b] = Cardinality(Owners(b)')
    <3>1. IsFiniteSet(Owners(b)) /\ ref[b] = Cardinality(Owners(b))
      BY DEF RefCountsExact
    <3>2. /\ IsFiniteSet(Owners(b) \ {s})
          /\ Cardinality(Owners(b) \ {s}) = IF s \in Owners(b) THEN ref[b] - 1 ELSE ref[b]
      BY <3>1, FS_RemoveElement
    <3> QED BY <1>2, <1>5, <1>11, <3>2
  <2>2. ASSUME NEW r \in SeqId PROVE Injective(table'[r])
    <3>1. CASE r = s
      <4>1. table'[r] = << >>
        BY <1>2, <3>1 DEF PoolTypeOK
      <4> QED BY <4>1 DEF Injective
    <3>2. CASE r # s
      BY <1>2, <3>2 DEF PoolTypeOK, RefCountsExact
    <3> QED BY <3>1, <3>2
  <2> QED BY <2>1, <2>2 DEF RefCountsExact
<1>13. PoolPartition'
  <2>1. used' = { b \in Block : ref'[b] > 0 }
    BY <1>1, <1>2, <1>4, <1>6 DEF PoolPartition, PoolTypeOK
  <2>2. Range(free') = Block \ used'
    BY <1>1, <1>2, <1>4, <1>8, <1>10
  <2> QED BY <1>10, <2>1, <2>2 DEF PoolPartition
<1> QED BY <1>2, <1>7, <1>10, <1>11, <1>12, <1>13

(* deallocate on its own preserves the whole invariant.                    *)
LEMMA DeallocateKeepsPool ==
    ASSUME PoolInv, NEW s \in SeqId, Deallocate(s),
           UNCHANGED <<tokens, bhash, hmap>>
    PROVE  PoolInv'
<1>1. /\ PoolTypeOK /\ RefCountsExact /\ PoolPartition /\ IndexSound /\ TailExclusive
  BY DEF PoolInv
<1>2. /\ table' = [table EXCEPT ![s] = << >>] /\ ncached' = [ncached EXCEPT ![s] = 0]
      /\ \A b \in Block : Owners(b)' = Owners(b) \ {s}
      /\ PoolTypeOK' /\ RefCountsExact' /\ PoolPartition'
  BY <1>1, DeallocateKeepsRefs DEF PoolTypeOK
<1>3. IndexSound'
  BY <1>1 DEF IndexSound
<1>4. TailExclusive'
  <2> SUFFICES ASSUME NEW r \in SeqId, NEW i \in 1..Len(table'[r]),
                      i > ncached'[r] \div BlockSize
               PROVE  bhash'[table'[r][i]] = NoHash /\ ref'[table'[r][i]] = 1
    BY DEF TailExclusive
  <2>1. r # s
    BY <1>1, <1>2 DEF PoolTypeOK
  <2>2. table'[r] = table[r] /\ ncached'[r] = ncached[r] /\ table[r][i] \in Block
    BY <1>1, <1>2, <2>1 DEF PoolTypeOK
  <2>3. bhash[table[r][i]] = NoHash /\ ref[table[r][i]] = 1
    BY <1>1, <2>2 DEF TailExclusive
  <2>4. table[r][i] \notin Range(table[s])
    BY <1>1, <2>1, <2>2, <2>3, TailNotShared
  <2> QED BY <2>2, <2>3, <2>4 DEF Deallocate
<1> QED BY <1>2, <1>3, <1>4 DEF PoolInv

(* The rolling hash over logical blocks m..n-1, as long as the tokens go.  *)
LEMMA ChainFromType ==
    ASSUME PoolTypeOK, NEW s \in SeqId, NEW h \in CacheKey,
           NEW m \in Nat, NEW n \in Nat, m < n, n * BlockSize <= NumTokens(s)
    PROVE  ChainFrom(h, s, m, n) \in CacheKey /\ ChainFrom(h, s, m, n) # NoHash
<1> DEFINE w == (n - m) * BlockSize
           c == [ j \in 1..w |-> CacheToken(tokens[s][m * BlockSize + j]) ]
<1>1. /\ w \in Nat \ {0} /\ m * BlockSize \in Nat
      /\ m * BlockSize + w = n * BlockSize
  BY PoolAssumption
<1>2. tokens[s] \in Seq(Token)
  BY DEF PoolTypeOK
<1>3. ASSUME NEW j \in 1..w
      PROVE  CacheToken(tokens[s][m * BlockSize + j]) \in TokenId \X (Visual \cup {NoVisual})
  <2> HIDE DEF w
  <2>1. m * BlockSize + j \in 1..Len(tokens[s])
    BY <1>1, <1>2 DEF NumTokens
  <2>2. tokens[s][m * BlockSize + j] \in Token
    BY <1>2, <2>1
  <2> QED BY <2>2 DEF CacheToken, Token
<1>4. c \in CacheKey /\ Len(c) = w
  <2> HIDE DEF w
  <2> QED BY <1>1, <1>3 DEF CacheKey
<1>5. h \o c \in CacheKey /\ Len(h \o c) # 0
  <2> DEFINE K == TokenId \X (Visual \cup {NoVisual})
  <2>1. h \in Seq(K) /\ c \in Seq(K)
    BY <1>4 DEF CacheKey
  <2> HIDE DEF c, w, K
  <2>2. h \o c \in Seq(K) /\ Len(h \o c) = Len(h) + Len(c)
    BY <2>1, ConcatProperties
  <2>3. Len(h) \in Nat
    BY <2>1
  <2> QED BY <2>2, <2>3, <1>1, <1>4 DEF CacheKey, K
<1>6. ChainFrom(h, s, m, n) = h \o c
  BY DEF ChainFrom
<1> HIDE DEF c, w
<1> QED BY <1>5, <1>6 DEF NoHash

(* hash_blocks(seq) changes the hashes of the blocks it fills and of no    *)
(* other, and the index stays sound: the blocks it fills had no hash, so   *)
(* no index entry pointed at them.                                         *)
LEMMA HashBlocksKeepsIndex ==
    ASSUME PoolInv, NEW s \in SeqId, NEW q \in Nat, HashBlocks(s, q),
           ncached[s] + q <= NumTokens(s),
           ncached[s] + q <= Len(table[s]) * BlockSize
    PROVE  /\ bhash' \in [Block -> CacheKey]
           /\ IndexSound'
           /\ \A b \in Block \ Range(table[s]) : bhash'[b] = bhash[b]
           /\ \A i \in 1..Len(table[s]) :
                i > (ncached[s] + q) \div BlockSize =>
                    bhash'[table[s][i]] = bhash[table[s][i]]
           /\ \A b \in Block : bhash[b] # NoHash => bhash'[b] = bhash[b]
           /\ LET start == ncached[s] \div BlockSize
                  h0    == IF start > 0 THEN bhash[table[s][start]] ELSE NoHash
              IN  \A i \in start + 1..FilledAfter(s, q) :
                     bhash'[table[s][i]] = ChainFrom(h0, s, start, i)
<1> DEFINE start == ncached[s] \div BlockSize
           end   == FilledAfter(s, q)
           h0    == IF start > 0 THEN bhash[table[s][start]] ELSE NoHash
           H(i)  == ChainFrom(h0, s, start, i)
           new   == { H(i) : i \in start + 1..end }
           IndexOf(h) == CHOOSE i \in start + 1..end : H(i) = h
           PosOf(b) == CHOOSE i \in start + 1..end : table[s][i] = b
           W(b)  == \E i \in start + 1..end : table[s][i] = b
<1>1. /\ PoolTypeOK /\ RefCountsExact /\ PoolPartition /\ IndexSound /\ TailExclusive
  BY DEF PoolInv
<1>2. /\ bhash' = [ b \in Block |-> IF W(b) THEN H(PosOf(b)) ELSE bhash[b] ]
      /\ hmap' = [ h \in DOMAIN hmap \cup new |->
                     IF h \in new THEN table[s][IndexOf(h)] ELSE hmap[h] ]
  BY DEF HashBlocks
<1>3. /\ start \in Nat /\ end \in Nat /\ end <= Len(table[s])
      /\ end * BlockSize <= NumTokens(s) /\ end = (ncached[s] + q) \div BlockSize
      /\ table[s] \in Seq(Block) /\ Len(table[s]) \in Nat
  <2>1. ncached[s] \in Nat /\ ncached[s] + q \in Nat /\ table[s] \in Seq(Block) /\ Len(table[s]) \in Nat
        /\ NumTokens(s) \in Nat
    BY <1>1 DEF PoolTypeOK, NumTokens
  <2>2. start \in Nat /\ end \in Nat
    BY <2>1, PoolAssumption, DivFacts DEF FilledAfter
  <2>3. end <= Len(table[s])
    BY <2>1, PoolAssumption, DivBounds DEF FilledAfter
  <2>4. end * BlockSize <= ncached[s] + q /\ end * BlockSize \in Nat
    <3>1. \A k \in Nat : /\ k * BlockSize \in Nat
                         /\ k <= (ncached[s] + q) \div BlockSize => k * BlockSize <= ncached[s] + q
      <4>1. BlockSize \in Nat \ {0, 1} /\ ncached[s] + q \in Nat
        BY <2>1, PoolAssumption
      <4> QED BY <4>1, DivBounds, Zenon
    <3>2. end \in Nat /\ end <= (ncached[s] + q) \div BlockSize
      BY <2>2 DEF FilledAfter
    <3> HIDE DEF end
    <3> QED BY <3>1, <3>2
  <2> HIDE DEF start, end
  <2>5. end * BlockSize <= NumTokens(s)
    BY <2>1, <2>4
  <2> QED BY <2>1, <2>2, <2>3, <2>5 DEF end, FilledAfter
<1>4. h0 \in CacheKey
  <2> HIDE DEF end
  <2>0. start <= Len(table[s])
    <3>1. ncached[s] \in Nat /\ ncached[s] <= Len(table[s]) * BlockSize
      BY <1>1, <1>3, PoolAssumption DEF PoolTypeOK
    <3> QED BY <3>1, <1>3, PoolAssumption, DivBounds
  <2>1. CASE start > 0
    <3> HIDE DEF start
    <3>1. table[s][start] \in Block
      BY <1>3, <2>0, <2>1
    <3> QED BY <1>1, <2>1, <3>1 DEF PoolTypeOK
  <2>2. CASE ~ start > 0
    BY <2>2 DEF CacheKey, NoHash
  <2> QED BY <2>1, <2>2
<1> HIDE DEF start, end, h0
<1>5. ASSUME NEW i \in start + 1..end
      PROVE  /\ H(i) \in CacheKey /\ H(i) # NoHash
             /\ i \in 1..Len(table[s]) /\ table[s][i] \in Block
             /\ bhash[table[s][i]] = NoHash
  <2>1. i \in Nat /\ start < i /\ i <= end /\ i \in 1..Len(table[s])
    BY <1>3
  <2>2. i * BlockSize <= NumTokens(s)
    <3>1. i * BlockSize <= end * BlockSize /\ i * BlockSize \in Nat /\ end * BlockSize \in Nat
      BY <1>3, <2>1, PoolAssumption
    <3>2. NumTokens(s) \in Nat
      BY <1>1 DEF PoolTypeOK, NumTokens
    <3> QED BY <3>1, <3>2, <1>3
  <2>3. H(i) \in CacheKey /\ H(i) # NoHash
    BY <1>1, <1>3, <1>4, <2>1, <2>2, ChainFromType
  <2>4. table[s][i] \in Block /\ bhash[table[s][i]] = NoHash
    BY <1>1, <1>3, <2>1 DEF TailExclusive, start
  <2> QED BY <2>1, <2>3, <2>4
<1>6. \A i \in start + 1..end : W(table[s][i]) /\ PosOf(table[s][i]) = i
  <2> SUFFICES ASSUME NEW i \in start + 1..end
               PROVE  W(table[s][i]) /\ PosOf(table[s][i]) = i
    OBVIOUS
  <2>1. Injective(table[s])
    BY <1>1 DEF RefCountsExact
  <2>2. \A k \in start + 1..end : table[s][k] = table[s][i] => k = i
    BY <1>5, <2>1 DEF Injective
  <2> QED BY <2>2
<1>7. \A b \in Block : W(b) => PosOf(b) \in start + 1..end /\ table[s][PosOf(b)] = b
  OBVIOUS
<1>8. \A h \in new : IndexOf(h) \in start + 1..end /\ H(IndexOf(h)) = h
  OBVIOUS
<1> HIDE DEF PosOf, IndexOf
<1>9. bhash' \in [Block -> CacheKey]
  BY <1>1, <1>2, <1>5, <1>7 DEF PoolTypeOK
<1>10. IndexSound'
  <2> SUFFICES ASSUME NEW h \in DOMAIN hmap'
               PROVE  h # NoHash /\ hmap'[h] \in Block /\ bhash'[hmap'[h]] = h
    BY DEF IndexSound
  <2>1. CASE h \in new
    <3>1. hmap'[h] = table[s][IndexOf(h)]
      BY <1>2, <2>1
    <3>2. IndexOf(h) \in start + 1..end /\ H(IndexOf(h)) = h
      BY <1>8, <2>1
    <3>3. bhash'[table[s][IndexOf(h)]] = H(IndexOf(h))
      BY <1>2, <1>5, <1>6, <3>2
    <3> QED BY <1>5, <3>1, <3>2, <3>3
  <2>2. CASE h \notin new
    <3>1. h \in DOMAIN hmap /\ hmap'[h] = hmap[h]
      BY <1>2, <2>2
    <3>2. h # NoHash /\ hmap[h] \in Block /\ bhash[hmap[h]] = h
      BY <1>1, <3>1 DEF IndexSound
    <3>3. ~ W(hmap[h])
      BY <1>5, <3>2
    <3> QED BY <1>2, <3>1, <3>2, <3>3
  <2> QED BY <2>1, <2>2
<1>11. \A b \in Block \ Range(table[s]) : bhash'[b] = bhash[b]
  <2> SUFFICES ASSUME NEW b \in Block \ Range(table[s]) PROVE ~ W(b)
    BY <1>2
  <2>1. \A i \in 1..Len(table[s]) : table[s][i] \in Range(table[s])
    BY <1>3, RangeEquality
  <2> QED BY <1>5, <2>1
<1>12. ASSUME NEW i \in 1..Len(table[s]), i > end
       PROVE  bhash'[table[s][i]] = bhash[table[s][i]]
  <2>1. Injective(table[s]) /\ table[s][i] \in Block
    BY <1>1, <1>3 DEF RefCountsExact
  <2>2. ~ W(table[s][i])
    <3> SUFFICES ASSUME NEW k \in start + 1..end, table[s][k] = table[s][i] PROVE FALSE
      OBVIOUS
    <3>1. k = i
      BY <1>5, <2>1 DEF Injective
    <3> QED BY <1>3, <1>12, <3>1
  <2> QED BY <1>2, <2>1, <2>2
<1>13. \A b \in Block : bhash[b] # NoHash => bhash'[b] = bhash[b]
  BY <1>2, <1>5
<1>14. \A i \in start + 1..end : bhash'[table[s][i]] = H(i)
  BY <1>2, <1>5, <1>6
<1> QED BY <1>3, <1>9, <1>10, <1>11, <1>12, <1>13, <1>14 DEF start, end, h0

(* What allocate and may_append have in common: seq gains the blocks G of  *)
(* which those in New come from the free list with their hash forgotten,   *)
(* and the others are shared because they hold a hash.                     *)
LEMMA GrowKeepsPool ==
    ASSUME PoolInv, NEW s \in SeqId, NEW G \in SUBSET Block, NEW New \in SUBSET G,
           UNCHANGED tokens,
           table'   \in [SeqId -> Seq(Block)],
           ncached' \in [SeqId -> Nat],
           free'    \in Seq(Block),
           \A r \in SeqId : r # s => table'[r] = table[r] /\ ncached'[r] = ncached[r],
           Injective(table'[s]),
           Range(table'[s]) = Range(table[s]) \cup G,
           Range(table[s]) \cap G = {},
           New \subseteq Range(free),
           Injective(free'),
           Range(free') = Range(free) \ G,
           used' = used \cup G,
           ref' = [ b \in Block |-> IF b \in G THEN ref[b] + 1 ELSE ref[b] ],
           ResetBlocks(New),
           \A b \in G \ New : bhash[b] # NoHash,
           \A i \in 1..Len(table'[s]) : i > ncached'[s] \div BlockSize =>
               \/ table'[s][i] \in New
               \/ /\ i \in 1..Len(table[s])
                  /\ table'[s][i] = table[s][i]
                  /\ i > ncached[s] \div BlockSize
    PROVE  PoolInv'
<1>1. /\ PoolTypeOK /\ RefCountsExact /\ PoolPartition /\ IndexSound /\ TailExclusive
  BY DEF PoolInv
<1>2. /\ bhash' = [ b \in Block |-> IF b \in New THEN NoHash ELSE bhash[b] ]
      /\ DOMAIN hmap' \subseteq DOMAIN hmap
      /\ \A h \in DOMAIN hmap' : hmap'[h] = hmap[h] /\ ~ (hmap[h] \in New /\ bhash[hmap[h]] = h)
  BY DEF ResetBlocks, Restrict, IndexWithout
<1>3. NoHash \in CacheKey
  BY DEF NoHash, CacheKey
<1>4. PoolTypeOK'
  BY <1>1, <1>2, <1>3 DEF PoolTypeOK
<1>5. \A b \in Block : s \in Owners(b) <=> b \in Range(table[s])
  BY DEF Owners
<1>6. \A b \in Block : Owners(b)' = IF b \in G THEN Owners(b) \cup {s} ELSE Owners(b)
  BY DEF Owners
<1>7. ASSUME NEW b \in Block
      PROVE  IsFiniteSet(Owners(b)') /\ ref'[b] = Cardinality(Owners(b)')
  <2>1. IsFiniteSet(Owners(b)) /\ ref[b] = Cardinality(Owners(b))
    BY <1>1 DEF RefCountsExact
  <2>2. CASE b \in G
    <3>1. s \notin Owners(b)
      BY <1>5, <2>2
    <3>2. IsFiniteSet(Owners(b) \cup {s}) /\ Cardinality(Owners(b) \cup {s}) = ref[b] + 1
      BY <2>1, <3>1, FS_AddElement
    <3> QED BY <1>6, <2>2, <3>2
  <2>3. CASE b \notin G
    BY <1>6, <2>1, <2>3
  <2> QED BY <2>2, <2>3
<1>8. RefCountsExact'
  BY <1>1, <1>7 DEF RefCountsExact
<1>9. PoolPartition'
  <2>1. used' = { b \in Block : ref'[b] > 0 }
    BY <1>1 DEF PoolPartition, PoolTypeOK
  <2>2. Range(free') = Block \ used'
    BY <1>1 DEF PoolPartition
  <2> QED BY <2>1, <2>2 DEF PoolPartition
<1>10. IndexSound'
  BY <1>1, <1>2 DEF IndexSound
<1>11. \A b \in New : b \notin used /\ ref[b] = 0
  BY <1>1 DEF PoolPartition, PoolTypeOK
<1>12. TailExclusive'
  <2> SUFFICES ASSUME NEW r \in SeqId, NEW i \in 1..Len(table'[r]),
                      i > ncached'[r] \div BlockSize
               PROVE  bhash'[table'[r][i]] = NoHash /\ ref'[table'[r][i]] = 1
    BY DEF TailExclusive
  <2>1. CASE table'[r][i] \in New
    BY <1>2, <1>11, <2>1
  <2>2. CASE table'[r][i] \notin New
    <3>1. /\ i \in 1..Len(table[r]) /\ table'[r][i] = table[r][i]
          /\ i > ncached[r] \div BlockSize
      BY <2>2
    <3>2. /\ table[r][i] \in Block
          /\ bhash[table[r][i]] = NoHash /\ ref[table[r][i]] = 1
      <4>1. table[r] \in Seq(Block)
        BY <1>1 DEF PoolTypeOK
      <4>2. table[r][i] \in Block
        BY <3>1, <4>1
      <4> QED BY <1>1, <3>1, <4>2 DEF TailExclusive
    <3>3. table[r][i] \notin G
      BY <2>2, <3>1, <3>2
    <3> QED BY <1>2, <2>2, <3>1, <3>2, <3>3
  <2> QED BY <2>1, <2>2
<1> QED BY <1>4, <1>8, <1>9, <1>10, <1>12 DEF PoolInv

(* A step that touches no token, table or block keeps the pool invariant.  *)
LEMMA PoolUnchanged ==
    ASSUME PoolInv, UNCHANGED bmVars
    PROVE  PoolInv'
<1>1. PoolTypeOK'
  BY DEF bmVars, PoolInv, PoolTypeOK
<1>2. RefCountsExact'
  BY DEF bmVars, PoolInv, RefCountsExact, Owners
<1>3. PoolPartition' /\ IndexSound'
  BY DEF bmVars, PoolInv, PoolPartition, IndexSound
<1>4. TailExclusive'
  BY DEF bmVars, PoolInv, TailExclusive
<1> QED BY <1>1, <1>2, <1>3, <1>4 DEF PoolInv

(* may_append(seq), once can_append allows it: the new block belongs to    *)
(* seq alone and has no hash.                                              *)
LEMMA MayAppendKeepsPool ==
    ASSUME PoolInv, NEW s \in SeqId, CanAppend(s), MayAppend(s),
           UNCHANGED <<tokens, ncached>>
    PROVE  /\ PoolInv'
           /\ \A r \in SeqId \ {s} : table'[r] = table[r]
           /\ Len(table'[s]) = Len(table[s]) + (IF OpensBlock(s) THEN 1 ELSE 0)
           /\ \A i \in 1..Len(table[s]) : table'[s][i] = table[s][i]
           /\ \A b \in Block : \/ bhash'[b] = bhash[b]
                               \/ /\ bhash'[b] = NoHash /\ ref[b] = 0
                                  /\ b \in Range(table'[s])
<1>1. /\ PoolTypeOK /\ RefCountsExact /\ PoolPartition /\ IndexSound /\ TailExclusive
  BY DEF PoolInv
<1>2. table[s] \in Seq(Block) /\ Injective(table[s]) /\ free \in Seq(Block)
  BY <1>1 DEF PoolTypeOK, RefCountsExact
<1>3. CASE OpensBlock(s)
  <2> DEFINE b == Head(free)
  <2>1. free # << >> /\ b \in Block /\ b \in Range(free)
    <3>1. free # << >>
      BY <1>2, <1>3 DEF CanAppend
    <3> QED BY <1>2, <3>1, EndFacts
  <2>2. /\ table' = [table EXCEPT ![s] = Append(@, b)]
        /\ free'  = Tail(free) /\ used' = used \cup {b}
        /\ ref'   = [ref EXCEPT ![b] = 1]
        /\ ResetBlocks({b})
    BY <1>3 DEF MayAppend
  <2> HIDE DEF b
  <2>3. b \notin used /\ ref[b] = 0
    BY <1>1, <2>1 DEF PoolPartition, PoolTypeOK
  <2>4. b \notin Range(table[s])
    <3>1. Owners(b) = {}
      BY <1>1, <2>1, <2>3, CountedOwners
    <3> QED BY <3>1 DEF Owners
  <2>5. /\ table'[s] = table[s] \o <<b>> /\ <<b>> \in Seq(Block)
        /\ Range(<<b>>) = {b} /\ Injective(<<b>>)
    <3>1. table'[s] = Append(table[s], b)
      BY <1>1, <2>2 DEF PoolTypeOK
    <3> QED BY <1>2, <2>1, <3>1 DEF Range, Injective
  <2>6. /\ table'[s] \in Seq(Block) /\ Len(table'[s]) = Len(table[s]) + 1
        /\ Injective(table'[s]) /\ Range(table'[s]) = Range(table[s]) \cup {b}
    <3> DEFINE u == <<b>>
    <3>1. u \in Seq(Block) /\ Range(u) = {b} /\ Injective(u) /\ table'[s] = table[s] \o u /\ Len(u) = 1
      BY <2>5
    <3> HIDE DEF u
    <3>2. /\ table[s] \o u \in Seq(Block) /\ Len(table[s] \o u) = Len(table[s]) + Len(u)
          /\ Range(table[s] \o u) = Range(table[s]) \cup Range(u)
          /\ Injective(table[s] \o u) <=> /\ Injective(table[s]) /\ Injective(u)
                                         /\ Range(table[s]) \cap Range(u) = {}
      BY <1>2, <3>1, ConcatFacts
    <3> QED BY <1>2, <2>4, <3>1, <3>2
  <2>7. \A i \in 1..Len(table'[s]) :
            table'[s][i] = b \/ (i \in 1..Len(table[s]) /\ table'[s][i] = table[s][i])
    BY <1>2, <2>5, <2>6
  <2>8. Tail(free) \in Seq(Block) /\ Injective(Tail(free)) /\ Range(Tail(free)) = Range(free) \ {b}
    BY <1>1, <1>2, <2>1, EndFacts DEF PoolPartition, b
  <2>9. table' \in [SeqId -> Seq(Block)] /\ ncached' \in [SeqId -> Nat]
    BY <1>1, <2>2, <2>6 DEF PoolTypeOK
  <2>10. ref' = [ x \in Block |-> IF x \in {b} THEN ref[x] + 1 ELSE ref[x] ]
    <3>1. \A x \in Block : ref'[x] = IF x \in {b} THEN ref[x] + 1 ELSE ref[x]
      BY <1>1, <2>2, <2>3 DEF PoolTypeOK
    <3>2. ref' \in [Block -> Nat]
      BY <1>1, <2>2 DEF PoolTypeOK
    <3> QED BY <3>1, <3>2
  <2>11. \A r \in SeqId \ {s} : table'[r] = table[r]
    BY <1>1, <2>2 DEF PoolTypeOK
  <2>12. \A r \in SeqId : r # s => table'[r] = table[r] /\ ncached'[r] = ncached[r]
    BY <2>11
  <2> DEFINE G == {b}
  <2>13. /\ G \in SUBSET Block /\ G \in SUBSET G /\ G \subseteq Range(free)
         /\ Range(table[s]) \cap G = {} /\ (\A x \in G \ G : bhash[x] # NoHash)
         /\ Range(table'[s]) = Range(table[s]) \cup G
         /\ free' \in Seq(Block) /\ Injective(free') /\ Range(free') = Range(free) \ G
         /\ used' = used \cup G /\ ResetBlocks(G)
         /\ ref' = [ x \in Block |-> IF x \in G THEN ref[x] + 1 ELSE ref[x] ]
    BY <2>1, <2>2, <2>4, <2>6, <2>8, <2>10
  <2>14. \A i \in 1..Len(table'[s]) : i > ncached'[s] \div BlockSize =>
               \/ table'[s][i] \in G
               \/ /\ i \in 1..Len(table[s])
                  /\ table'[s][i] = table[s][i]
                  /\ i > ncached[s] \div BlockSize
    BY <2>7
  <2>15. PoolInv'
    <3> HIDE DEF G
    <3> QED BY <2>6, <2>9, <2>12, <2>13, <2>14, GrowKeepsPool
  <2>16. \A i \in 1..Len(table[s]) : table'[s][i] = table[s][i]
    BY <1>2, <2>5
  <2>17. \A x \in Block : \/ bhash'[x] = bhash[x]
                          \/ bhash'[x] = NoHash /\ ref[x] = 0 /\ x \in Range(table'[s])
    BY <2>2, <2>3, <2>6 DEF ResetBlocks
  <2> QED BY <1>3, <2>6, <2>11, <2>15, <2>16, <2>17
<1>4. CASE ~ OpensBlock(s)
  <2>1. UNCHANGED <<tokens, ncached, table, free, used, ref, bhash, hmap>>
    BY <1>4 DEF MayAppend
  <2>2. PoolInv'
    BY <2>1, PoolUnchanged DEF bmVars
  <2> QED BY <1>2, <1>4, <2>1, <2>2
<1> QED BY <1>3, <1>4

(* can_allocate's count is right: when it says yes, the free list still    *)
(* has enough blocks after the cached ones have been taken out of it.      *)
LEMMA EnoughFree ==
    ASSUME PoolInv, NEW s \in SeqId, NumTokens(s) > 0, CanAllocate(s),
           NEW hit, hit = [ i \in 1..NumCachedBlocks(s) |-> CachedBlock(s, i) ]
    PROVE  Len(Keep(free, Block \ Range(hit))) >= NumBlocksOf(s) - NumCachedBlocks(s)
<1> DEFINE n == NumCachedBlocks(s)
           shared == { i \in 1..n : CachedBlock(s, i) \in used }
           alone == (1..n) \ shared
           F == Range(free)
           X == F \cap Range(hit)
           rest == Keep(free, Block \ Range(hit))
<1>1. PoolTypeOK /\ PoolPartition /\ IndexSound
  BY DEF PoolInv
<1>2. /\ NumBlocksOf(s) \in Nat /\ n \in Nat
      /\ \A i \in 1..n : CachedBlock(s, i) \in Block
  <2>1. NumTokens(s) \in Nat \ {0}
    BY <1>1 DEF PoolTypeOK, NumTokens
  <2>2. NumBlocksOf(s) \in Nat \ {0} /\ n \in 0..NumBlocksOf(s) - 1
    BY <2>1, CachedBlocksIndexed
  <2>3. \A i \in 1..n : CachedBlock(s, i) \in Block
    BY <1>1, <2>1, CachedBlocksDistinct
  <2> QED BY <2>2, <2>3
<1>3. hit = [ i \in 1..n |-> CachedBlock(s, i) ]
  OBVIOUS
<1>4. Len(free) >= NumBlocksOf(s) - Cardinality(shared)
  BY DEF CanAllocate
<1> HIDE DEF n
<1>5. /\ IsFiniteSet(1..n) /\ Cardinality(1..n) = n
      /\ IsFiniteSet(alone)
      /\ Cardinality(alone) = n - Cardinality(shared)
      /\ Cardinality(shared) \in Nat /\ Cardinality(alone) \in Nat
  <2>1. IsFiniteSet(1..n) /\ Cardinality(1..n) = n
    <3>1. Cardinality(1..n) = (IF 1 > n THEN 0 ELSE n - 1 + 1) /\ IsFiniteSet(1..n)
      BY <1>2, FS_Interval
    <3> QED BY <1>2, <3>1
  <2>2. IsFiniteSet(shared) /\ Cardinality(shared) \in Nat
    BY <2>1, FS_Subset, FS_CardinalityType
  <2>3. /\ IsFiniteSet(alone)
        /\ Cardinality(alone) = Cardinality(1..n) - Cardinality((1..n) \cap shared)
    BY <2>1, FS_Difference
  <2>4. (1..n) \cap shared = shared
    OBVIOUS
  <2>5. Cardinality(alone) \in Nat
    BY <2>3, FS_CardinalityType
  <2> QED BY <2>1, <2>2, <2>3, <2>4, <2>5
<1>6. F = Block \ used /\ free \in Seq(Block) /\ Injective(free)
  BY <1>1 DEF PoolPartition, PoolTypeOK
<1>7. IsFiniteSet(X) /\ Cardinality(X) <= Cardinality(alone)
  <2> DEFINE g == [ i \in alone |-> CachedBlock(s, i) ]
  <2>1. \A i \in alone : CachedBlock(s, i) \in X
    BY <1>2, <1>3, <1>6 DEF Range
  <2>2. \A b \in X : \E i \in alone : CachedBlock(s, i) = b
    <3> SUFFICES ASSUME NEW b \in X PROVE \E i \in alone : CachedBlock(s, i) = b
      OBVIOUS
    <3>1. PICK i \in 1..n : CachedBlock(s, i) = b
      BY <1>3 DEF Range
    <3>2. i \in alone
      BY <1>6, <3>1
    <3> QED BY <3>1, <3>2
  <2>3. g \in Surjection(alone, X)
    BY <2>1, <2>2 DEF Surjection
  <2> HIDE DEF g, alone, X
  <2> QED BY <1>5, <2>3, FS_Surjection
<1>8. /\ IsFiniteSet(F) /\ Cardinality(F) = Len(free)
      /\ Cardinality(F \ Range(hit)) = Len(free) - Cardinality(X)
  <2>1. IsFiniteSet(F) /\ Cardinality(F) = Len(free)
    BY <1>6, RangeSize
  <2>2. Cardinality(F \ Range(hit)) = Cardinality(F) - Cardinality(F \cap Range(hit))
    BY <2>1, FS_Difference
  <2> QED BY <2>1, <2>2
<1>9. Len(rest) = Cardinality(F \ Range(hit))
  <2>1. /\ rest \in Seq(Block) /\ Injective(rest)
        /\ Range(rest) = Range(free) \cap (Block \ Range(hit))
    BY <1>6, KeepProperties
  <2>2. Range(rest) = F \ Range(hit)
    BY <1>6, <2>1
  <2> HIDE DEF rest, F
  <2> QED BY <2>1, <2>2, RangeSize
<1>10. Cardinality(X) \in Nat /\ Len(free) \in Nat
  BY <1>6, <1>7, FS_CardinalityType
<1> HIDE DEF shared, alone, X, F, rest
<1> QED BY <1>2, <1>4, <1>5, <1>7, <1>8, <1>9, <1>10 DEF n, rest

(* allocate(seq), once can_allocate allows it: the table gets exactly as   *)
(* many blocks as the tokens need, and at least one token is left to       *)
(* compute.                                                                *)
LEMMA AllocateKeepsPool ==
    ASSUME PoolInv, NEW s \in SeqId, table[s] = << >>, NumTokens(s) > 0,
           CanAllocate(s), Allocate(s, NumCachedBlocks(s)), UNCHANGED tokens
    PROVE  /\ PoolInv'
           /\ \A r \in SeqId \ {s} : table'[r] = table[r] /\ ncached'[r] = ncached[r]
           /\ table'[s] # << >>
           /\ NumTokens(s) <= Len(table'[s]) * BlockSize
           /\ ncached'[s] = NumCachedBlocks(s) * BlockSize
           /\ ncached'[s] < NumTokens(s)
           /\ (Len(table'[s]) - 1) * BlockSize < NumTokens(s)
           /\ \A i \in 1..NumCachedBlocks(s) :
                /\ i <= Len(table'[s]) /\ table'[s][i] = CachedBlock(s, i)
                /\ bhash'[table'[s][i]] = PrefixHash(s, i)
           /\ \A b \in Block : \/ bhash'[b] = bhash[b]
                               \/ /\ bhash'[b] = NoHash /\ ref[b] = 0
                                  /\ b \in Range(table'[s])
<1> DEFINE n    == NumCachedBlocks(s)
           hit  == [ i \in 1..n |-> CachedBlock(s, i) ]
           rest == Keep(free, Block \ Range(hit))
           m    == NumBlocksOf(s) - n
           new  == SubSeq(rest, 1, m)
           left == SubSeq(rest, m + 1, Len(rest))
           T == hit \o new
           New == Range(new)
           G == Range(hit) \cup New
<1>1. /\ PoolTypeOK /\ RefCountsExact /\ PoolPartition /\ IndexSound /\ TailExclusive
  BY DEF PoolInv
<1>2. NumTokens(s) \in Nat \ {0}
  BY <1>1 DEF PoolTypeOK, NumTokens
<1>3. /\ NumBlocksOf(s) \in Nat \ {0} /\ n \in Nat /\ m \in Nat \ {0}
      /\ n <= NumBlocksOf(s) - 1
  BY <1>2, CachedBlocksIndexed
<1>4. /\ \A i \in 1..n : CachedBlock(s, i) \in Block /\ bhash[CachedBlock(s, i)] # NoHash
      /\ \A i, j \in 1..n : CachedBlock(s, i) = CachedBlock(s, j) => i = j
  BY <1>1, <1>2, CachedBlocksDistinct
<1>5. Len(rest) >= m
  BY <1>2, EnoughFree
<1>6. /\ table'   = [table EXCEPT ![s] = hit \o new]
      /\ ncached' = [ncached EXCEPT ![s] = n * BlockSize]
      /\ free'    = left
      /\ used'    = used \cup Range(hit) \cup Range(new)
      /\ ref'     = [ b \in Block |->
                      IF b \in G THEN RefAfterReuse(b) ELSE ref[b] ]
      /\ ResetBlocks(Range(new))
  BY DEF Allocate
<1> HIDE DEF n, m
<1>7. hit \in Seq(Block) /\ Len(hit) = n /\ Injective(hit)
  BY <1>3, <1>4 DEF Injective
<1>8. \A b \in Range(hit) : b \in Block /\ bhash[b] # NoHash
  BY <1>4 DEF Range
<1> HIDE DEF hit
<1>9. /\ rest \in Seq(Block) /\ Injective(rest) /\ Len(rest) \in Nat
      /\ Range(rest) = Range(free) \cap (Block \ Range(hit))
  BY <1>1, KeepProperties DEF PoolTypeOK, PoolPartition
<1> HIDE DEF rest
<1>10. /\ new \in Seq(Block) /\ Injective(new) /\ Len(new) = m
       /\ left \in Seq(Block) /\ Injective(left)
       /\ Range(new) \cup Range(left) = Range(rest)
       /\ Range(new) \cap Range(left) = {}
  <2>1. m \in 0..Len(rest)
    BY <1>3, <1>5, <1>9
  <2> QED BY <1>9, <2>1, SplitFacts
<1> HIDE DEF new, left
<1>11. /\ T \in Seq(Block) /\ Len(T) = NumBlocksOf(s) /\ Injective(T) /\ Range(T) = G
  <2>1. Range(hit) \cap Range(new) = {}
    BY <1>9, <1>10
  <2>2. /\ T \in Seq(Block) /\ Len(T) = Len(hit) + Len(new)
        /\ Range(T) = Range(hit) \cup Range(new)
        /\ Injective(T) <=> /\ Injective(hit) /\ Injective(new)
                            /\ Range(hit) \cap Range(new) = {}
    BY <1>7, <1>10, ConcatFacts
  <2> QED BY <1>3, <1>7, <1>10, <2>1, <2>2 DEF m
<1>12. \A i \in 1..Len(T) : i > n => T[i] \in New
  <2> SUFFICES ASSUME NEW i \in 1..Len(T), i > n PROVE T[i] \in New
    OBVIOUS
  <2>1. i - n \in 1..Len(new) /\ T[i] = new[i - n]
    BY <1>3, <1>7, <1>10, <1>11 DEF m
  <2> QED BY <1>10, <2>1, RangeEquality
<1>13. /\ table'[s] = T /\ ncached'[s] = n * BlockSize
       /\ \A r \in SeqId : r # s => table'[r] = table[r] /\ ncached'[r] = ncached[r]
       /\ table' \in [SeqId -> Seq(Block)]
  BY <1>1, <1>6, <1>11 DEF PoolTypeOK
<1>14. n * BlockSize \in Nat /\ (n * BlockSize) \div BlockSize = n
  BY <1>3, PoolAssumption, DivBounds
<1>15. ncached' \in [SeqId -> Nat]
  BY <1>1, <1>6, <1>14 DEF PoolTypeOK
<1>16. /\ G \in SUBSET Block /\ New \in SUBSET G /\ New \subseteq Range(free)
       /\ Range(free) = Block \ used
  BY <1>1, <1>8, <1>9, <1>10 DEF PoolPartition
<1>17. \A b \in Block : b \notin used => ref[b] = 0
  BY <1>1 DEF PoolPartition, PoolTypeOK
<1>18. ref' = [ b \in Block |-> IF b \in G THEN ref[b] + 1 ELSE ref[b] ]
  <2>1. ASSUME NEW b \in Block
        PROVE  ref'[b] = IF b \in G THEN ref[b] + 1 ELSE ref[b]
    <3>1. CASE b \in G
      <4>1. ref'[b] = IF b \in used THEN ref[b] + 1 ELSE 1
        BY <1>6, <3>1 DEF RefAfterReuse
      <4> QED BY <1>17, <3>1, <4>1
    <3>2. CASE b \notin G
      BY <1>6, <3>2
    <3> QED BY <3>1, <3>2
  <2>2. DOMAIN ref' = Block /\ ref' = [ b \in DOMAIN ref' |-> ref'[b] ]
    BY <1>6
  <2> HIDE DEF G
  <2> QED BY <2>1, <2>2
<1>19. /\ free' \in Seq(Block) /\ Injective(free') /\ Range(free') = Range(free) \ G
       /\ used' = used \cup G
  BY <1>6, <1>9, <1>10, <1>16
<1>20. Range(table[s]) = {} /\ Len(table[s]) = 0
  BY DEF Range
<1>21. \A i \in 1..Len(table'[s]) : i > ncached'[s] \div BlockSize => table'[s][i] \in New
  BY <1>12, <1>13, <1>14
<1>22. PoolInv'
  <2>1. \A b \in G \ New : bhash[b] # NoHash
    BY <1>8
  <2>2. Injective(table'[s]) /\ Range(table'[s]) = Range(table[s]) \cup G
        /\ Range(table[s]) \cap G = {}
    BY <1>11, <1>13, <1>20
  <2>3. ResetBlocks(New)
    BY <1>6
  <2> HIDE DEF G, New, T
  <2> QED BY <1>13, <1>15, <1>16, <1>18, <1>19, <1>21, <2>1, <2>2, <2>3, GrowKeepsPool
<1>23. NumTokens(s) <= Len(T) * BlockSize /\ T # << >>
  <2>1. NumTokens(s) <= NumBlocksOf(s) * BlockSize
    BY <1>2, PoolAssumption, DivFacts DEF NumBlocksOf, CeilDiv
  <2> QED BY <1>3, <1>11, <2>1
<1>24. n * BlockSize < NumTokens(s)
  <2>1. (NumBlocksOf(s) - 1) * BlockSize < NumTokens(s)
    BY <1>2, PoolAssumption, DivFacts DEF NumBlocksOf, CeilDiv
  <2>2. n * BlockSize <= (NumBlocksOf(s) - 1) * BlockSize /\ (NumBlocksOf(s) - 1) * BlockSize \in Nat
    BY <1>3, PoolAssumption
  <2> QED BY <1>2, <1>14, <2>1, <2>2
<1>25. (NumBlocksOf(s) - 1) * BlockSize < NumTokens(s)
  BY <1>2, PoolAssumption, DivFacts DEF NumBlocksOf, CeilDiv
<1>26. \A b \in Block : \/ bhash'[b] = bhash[b]
                        \/ bhash'[b] = NoHash /\ ref[b] = 0 /\ b \in Range(table'[s])
  BY <1>6, <1>11, <1>13, <1>16, <1>17 DEF ResetBlocks
<1>27. ASSUME NEW i \in 1..n
       PROVE  /\ i <= Len(T) /\ T[i] = CachedBlock(s, i)
              /\ bhash'[T[i]] = PrefixHash(s, i)
  <2>1. i \in 1..Len(hit) /\ i \in 1..Len(T) /\ hit[i] = CachedBlock(s, i)
    BY <1>3, <1>7, <1>11 DEF hit
  <2>2. T[i] = hit[i] /\ hit[i] \in Range(hit)
    BY <1>7, <1>10, <2>1, RangeEquality
  <2>3. hit[i] \in Block \ Range(new)
    BY <1>8, <1>9, <1>10, <2>2
  <2>4. bhash'[hit[i]] = bhash[hit[i]]
    BY <1>6, <2>3 DEF ResetBlocks
  <2>5. bhash[CachedBlock(s, i)] = PrefixHash(s, i)
    BY <1>1, <1>2, CachedBlocksIndexed DEF IndexSound, CachedBlock, n
  <2> QED BY <1>11, <2>1, <2>2, <2>4, <2>5
<1> QED BY <1>11, <1>13, <1>22, <1>23, <1>24, <1>25, <1>26, <1>27 DEF n

-----------------------------------------------------------------------------
(* The engine.                                                             *)

(* NoRequestLost queue by queue, for the contents w, r, d of waiting,      *)
(* running and the decode batch, the request c that is given a slot, and   *)
(* the live requests L.                                                    *)
OnePlaceEach(w, r, d, c, L) ==
    /\ Injective(w) /\ Injective(r) /\ Injective(d)
    /\ \A s \in SeqId :
         /\ s \in Range(w) => s \notin Range(r)
         /\ s \in Range(w) => s \notin Range(d)
         /\ s \in Range(r) => s \notin Range(d)
         /\ s = c => s \notin Range(w) /\ s \notin Range(r) /\ s \notin Range(d)
         /\ s \in L <=> s \in Range(w) \/ s \in Range(r) \/ s \in Range(d) \/ s = c

(* The sequence Places has no duplicates and holds exactly the set L when  *)
(* its four parts share nothing and cover L: NoRequestLost taken apart.    *)
LEMMA OnePlaceEachFacts ==
    ASSUME NEW w \in Seq(SeqId), NEW r \in Seq(SeqId), NEW d \in Seq(SeqId),
           NEW c \in SeqId \cup {NoSeq}, NEW L \in SUBSET SeqId
    PROVE  LET q == w \o r \o d \o (IF c # NoSeq THEN <<c>> ELSE << >>)
           IN  (Injective(q) /\ Range(q) = L) <=> OnePlaceEach(w, r, d, c, L)
<1> DEFINE x == w \o r
           y == x \o d
           e == IF c # NoSeq THEN <<c>> ELSE << >>
           q == y \o e
<1>1. e \in Seq(SeqId) /\ Injective(e) /\ Range(e) = IF c \in SeqId THEN {c} ELSE {}
  <2>1. CASE c \in SeqId
    <3>1. e = <<c>>
      BY <2>1, SchedulerAssumption
    <3> QED BY <2>1, <3>1 DEF Range, Injective
  <2>2. CASE c = NoSeq
    <3>1. e = << >> /\ c \notin SeqId
      BY <2>2, SchedulerAssumption
    <3> QED BY <3>1 DEF Range, Injective
  <2> QED BY <2>1, <2>2
<1> HIDE DEF e
<1>2. /\ x \in Seq(SeqId) /\ Range(x) = Range(w) \cup Range(r)
      /\ Injective(x) <=> Injective(w) /\ Injective(r) /\ Range(w) \cap Range(r) = {}
  BY ConcatFacts
<1> HIDE DEF x
<1>3. /\ y \in Seq(SeqId) /\ Range(y) = Range(x) \cup Range(d)
      /\ Injective(y) <=> Injective(x) /\ Injective(d) /\ Range(x) \cap Range(d) = {}
  BY <1>2, ConcatFacts
<1> HIDE DEF y
<1>4. /\ Range(q) = Range(y) \cup Range(e)
      /\ Injective(q) <=> Injective(y) /\ Injective(e) /\ Range(y) \cap Range(e) = {}
  BY <1>1, <1>3, ConcatFacts
<1> HIDE DEF q
<1>5. Range(w) \subseteq SeqId /\ Range(r) \subseteq SeqId /\ Range(d) \subseteq SeqId
  BY RangeOfSeq
<1>6. ASSUME Injective(q), Range(q) = L PROVE OnePlaceEach(w, r, d, c, L)
  BY <1>1, <1>2, <1>3, <1>4, <1>5, <1>6 DEF OnePlaceEach
<1>7. ASSUME OnePlaceEach(w, r, d, c, L) PROVE Injective(q) /\ Range(q) = L
  <2>1. Injective(q)
    BY <1>1, <1>2, <1>3, <1>4, <1>5, <1>7 DEF OnePlaceEach
  <2>2. Range(q) = L
    BY <1>1, <1>2, <1>3, <1>4, <1>5, <1>7 DEF OnePlaceEach
  <2> QED BY <2>1, <2>2
<1> QED BY <1>6, <1>7 DEF q, y, x, e

LiveSet  == { s \in SeqId : Live(s) }
QueuesOK == OnePlaceEach(waiting, running, Scheduled, cur, LiveSet)

(* NoRequestLost, before and after a step, in terms of the queues it is    *)
(* made of.                                                                *)
LEMMA QueuesSplit ==
    /\ EngineTypeOK  => (NoRequestLost  <=> QueuesOK)
    /\ EngineTypeOK' => (NoRequestLost' <=> QueuesOK')
<1>1. ASSUME EngineTypeOK PROVE NoRequestLost <=> QueuesOK
  <2>1. /\ waiting \in Seq(SeqId) /\ running \in Seq(SeqId) /\ cur \in SeqId \cup {NoSeq}
        /\ Scheduled \in Seq(SeqId)
    BY <1>1 DEF EngineTypeOK, Scheduled
  <2>2. Places = waiting \o running \o Scheduled \o (IF cur # NoSeq THEN <<cur>> ELSE << >>)
    BY DEF Places, Slot
  <2>3. LiveSet \in SUBSET SeqId
    BY DEF LiveSet
  <2>4. Injective(Places) /\ Range(Places) = LiveSet <=> QueuesOK
    <3> DEFINE q == waiting \o running \o Scheduled \o (IF cur # NoSeq THEN <<cur>> ELSE << >>)
    <3>1. (Injective(q) /\ Range(q) = LiveSet) <=> OnePlaceEach(waiting, running, Scheduled, cur, LiveSet)
      BY <2>1, <2>3, OnePlaceEachFacts
    <3> QED BY <2>2, <3>1 DEF QueuesOK
  <2> QED BY <2>4 DEF NoRequestLost, LiveSet
<1>2. ASSUME EngineTypeOK' PROVE NoRequestLost' <=> QueuesOK'
  <2>1. /\ waiting' \in Seq(SeqId) /\ running' \in Seq(SeqId) /\ cur' \in SeqId \cup {NoSeq}
        /\ Scheduled' \in Seq(SeqId)
    BY <1>2 DEF EngineTypeOK, Scheduled
  <2>2. Places' = waiting' \o running' \o Scheduled' \o (IF cur' # NoSeq THEN <<cur'>> ELSE << >>)
    BY DEF Places, Slot
  <2>3. LiveSet' \in SUBSET SeqId
    BY DEF LiveSet
  <2>4. Injective(Places') /\ Range(Places') = LiveSet' <=> QueuesOK'
    <3> DEFINE q == waiting' \o running' \o Scheduled' \o (IF cur' # NoSeq THEN <<cur'>> ELSE << >>)
    <3>1. (Injective(q) /\ Range(q) = LiveSet') <=> OnePlaceEach(waiting', running', Scheduled', cur', LiveSet')
      BY <2>1, <2>3, OnePlaceEachFacts
    <3> QED BY <2>2, <3>1 DEF QueuesOK
  <2> QED BY <2>4 DEF NoRequestLost, LiveSet
<1> QED BY <1>1, <1>2

-----------------------------------------------------------------------------
(* Taking IInv apart and putting it together again.                        *)

(* What IInv says of the scheduler, the pool and the batch, with the types *)
(* arithmetic needs.                                                       *)
LEMMA IInvParts ==
    ASSUME IInv
    PROVE  /\ EngineTypeOK /\ PoolInv /\ QueuesOK /\ TablesCover /\ BatchCovered
           /\ waiting \in Seq(SeqId) /\ running \in Seq(SeqId) /\ batch \in Seq(SeqId)
           /\ Range(waiting) \subseteq SeqId /\ Range(running) \subseteq SeqId
           /\ Range(batch) \subseteq SeqId
           /\ \A s \in SeqId : /\ tokens[s] \in Seq(Token) /\ NumTokens(s) \in Nat
                               /\ table[s] \in Seq(Block) /\ Len(table[s]) \in Nat
                               /\ ncached[s] \in Nat /\ nsched[s] \in Nat
<1>1. EngineTypeOK /\ PoolInv /\ QueuesOK /\ TablesCover /\ BatchCovered
  BY QueuesSplit DEF IInv
<1>2. waiting \in Seq(SeqId) /\ running \in Seq(SeqId) /\ batch \in Seq(SeqId)
  BY <1>1 DEF EngineTypeOK
<1>3. /\ Range(waiting) \subseteq SeqId /\ Range(running) \subseteq SeqId
      /\ Range(batch) \subseteq SeqId
  BY <1>2, RangeOfSeq
<1>4. \A s \in SeqId : /\ tokens[s] \in Seq(Token) /\ NumTokens(s) \in Nat
                       /\ table[s] \in Seq(Block) /\ Len(table[s]) \in Nat
                       /\ ncached[s] \in Nat /\ nsched[s] \in Nat
  BY <1>1 DEF EngineTypeOK, PoolTypeOK, NumTokens
<1> QED BY <1>1, <1>2, <1>3, <1>4

(* IInv after a step, from its parts.                                      *)
LEMMA IInvPutTogether ==
    ASSUME EngineTypeOK', PoolInv', QueuesOK', TablesCover', BatchCovered'
    PROVE  IInv'
  BY QueuesSplit DEF IInv

-----------------------------------------------------------------------------
(* The steps that touch no block.                                          *)

(* EngineCore.step begins: the batch is empty.                             *)
LEMMA StartStepKeepsIInv ==
    ASSUME IInv, StartStep
    PROVE  IInv'
<1>1. /\ EngineTypeOK /\ PoolInv /\ QueuesOK /\ TablesCover /\ BatchCovered
  BY IInvParts
<1>2. /\ UNCHANGED bmVars /\ UNCHANGED <<waiting, running, status, nprompt, nsched, cur>>
      /\ UNCHANGED <<tokens, table, ncached>>
      /\ phase = "idle" /\ phase' = "prefill" /\ batch' = << >> /\ nbatched' = 0
  BY DEF StartStep, bmVars, queueVars
<1>3. Range(batch') = {} /\ Injective(batch') /\ batch' \in Seq(SeqId)
  BY <1>2 DEF Range, Injective
<1>4. EngineTypeOK'
  BY <1>1, <1>2, <1>3, SchedulerAssumption DEF EngineTypeOK, PoolTypeOK, bmVars, Phases
<1>5. PoolInv'
  BY <1>1, <1>2, PoolUnchanged
<1>6. QueuesOK'
  BY <1>1, <1>2 DEF QueuesOK, Scheduled, LiveSet, Live
<1>7. TablesCover'
  BY <1>1, <1>2 DEF TablesCover, Live, NumTokens
<1>8. BatchCovered'
  BY <1>1, <1>2, <1>3 DEF BatchCovered, RunPhases
<1> QED BY <1>4, <1>5, <1>6, <1>7, <1>8, IInvPutTogether

(* schedule() leaves the prefill loop.                                     *)
LEMMA EndPrefillKeepsIInv ==
    ASSUME IInv, EndPrefill
    PROVE  IInv'
<1>1. /\ EngineTypeOK /\ PoolInv /\ QueuesOK /\ TablesCover /\ BatchCovered
  BY IInvParts
<1>2. /\ UNCHANGED bmVars
      /\ UNCHANGED <<waiting, running, status, nprompt, nsched, batch, nbatched, cur>>
      /\ UNCHANGED <<tokens, table, ncached>>
      /\ phase = "prefill"
      /\ phase' = IF batch # << >> THEN "runPrefill" ELSE "decode"
  BY DEF EndPrefill, bmVars, queueVars
<1>3. EngineTypeOK'
  BY <1>1, <1>2 DEF EngineTypeOK, PoolTypeOK, bmVars, Phases
<1>4. PoolInv'
  BY <1>1, <1>2, PoolUnchanged
<1>5. Scheduled' = << >> /\ Scheduled = << >>
  BY <1>2 DEF Scheduled
<1>6. QueuesOK'
  BY <1>1, <1>2, <1>5 DEF QueuesOK, LiveSet, Live
<1>7. TablesCover'
  BY <1>1, <1>2 DEF TablesCover, Live, NumTokens
<1>8. BatchCovered'
  BY <1>1, <1>2 DEF BatchCovered, RunPhases, PrefillPhases, NumTokens
<1> QED BY <1>3, <1>4, <1>6, <1>7, <1>8, IInvPutTogether

(* The decode loop takes the head of running out of its queue.             *)
LEMMA DecodeHeadKeepsIInv ==
    ASSUME IInv, DecodeHead
    PROVE  IInv'
<1>1. /\ EngineTypeOK /\ PoolInv /\ QueuesOK /\ TablesCover /\ BatchCovered
      /\ running \in Seq(SeqId) /\ Range(running) \subseteq SeqId
  BY IInvParts
<1>2. /\ UNCHANGED bmVars
      /\ UNCHANGED <<waiting, status, nprompt, nsched, batch, nbatched>>
      /\ UNCHANGED <<tokens, table, ncached>>
      /\ phase = "decode" /\ phase' = "append"
      /\ running # << >> /\ cur' = Head(running) /\ running' = Tail(running)
  BY DEF DecodeHead, CanDecodeMore, bmVars
<1>3. cur = NoSeq /\ cur \notin SeqId
  BY <1>1, <1>2, SchedulerAssumption DEF BatchCovered
<1>4. /\ cur' \in Range(running) /\ cur' \in SeqId /\ running' \in Seq(SeqId)
      /\ Injective(running') /\ Range(running') = Range(running) \ {cur'}
  BY <1>1, <1>2, EndFacts DEF QueuesOK, OnePlaceEach
<1>5. EngineTypeOK'
  BY <1>1, <1>2, <1>4 DEF EngineTypeOK, PoolTypeOK, bmVars, Phases
<1>6. PoolInv'
  BY <1>1, <1>2, PoolUnchanged
<1>7. Scheduled' = batch /\ Scheduled = batch /\ LiveSet' = LiveSet
  BY <1>2 DEF Scheduled, LiveSet, Live
<1>8. QueuesOK'
  BY <1>1, <1>2, <1>3, <1>4, <1>7 DEF QueuesOK, OnePlaceEach
<1>9. TablesCover'
  BY <1>1, <1>2, <1>4 DEF TablesCover, Live, NumTokens
<1>10. BatchCovered'
  BY <1>1, <1>2, <1>4, SchedulerAssumption DEF BatchCovered, RunPhases, PrefillPhases, NumTokens
<1> QED BY <1>5, <1>6, <1>8, <1>9, <1>10, IInvPutTogether

(* The decode batch returns to the head of running.                        *)
LEMMA EndDecodeKeepsIInv ==
    ASSUME IInv, EndDecode
    PROVE  IInv'
<1>1. /\ EngineTypeOK /\ PoolInv /\ QueuesOK /\ TablesCover /\ BatchCovered
      /\ running \in Seq(SeqId) /\ batch \in Seq(SeqId)
  BY IInvParts
<1>2. /\ UNCHANGED bmVars
      /\ UNCHANGED <<waiting, status, nprompt, nsched, batch, nbatched, cur>>
      /\ UNCHANGED <<tokens, table, ncached>>
      /\ phase = "decode" /\ running' = batch \o running
      /\ phase' = IF batch = << >> THEN "asserted" ELSE "runDecode"
  BY DEF EndDecode, BackToRunning, bmVars
<1>3. /\ Scheduled = batch /\ Scheduled' = << >> /\ Range(Scheduled') = {}
      /\ Injective(Scheduled') /\ LiveSet' = LiveSet
  BY <1>2 DEF Scheduled, LiveSet, Live, Range, Injective
<1>4. /\ running' \in Seq(SeqId) /\ Range(running') = Range(batch) \cup Range(running)
      /\ Injective(running')
  <2>1. Range(batch) \cap Range(running) = {} /\ Injective(batch) /\ Injective(running)
    BY <1>1, <1>3, RangeOfSeq DEF QueuesOK, OnePlaceEach
  <2> QED BY <1>1, <1>2, <2>1, ConcatFacts
<1>5. EngineTypeOK'
  BY <1>1, <1>2, <1>4 DEF EngineTypeOK, PoolTypeOK, bmVars, Phases
<1>6. PoolInv'
  BY <1>1, <1>2, PoolUnchanged
<1>7. QueuesOK'
  BY <1>1, <1>2, <1>3, <1>4 DEF QueuesOK, OnePlaceEach
<1>8. TablesCover'
  BY <1>1, <1>2, <1>4 DEF TablesCover, BatchCovered, Live, NumTokens
<1>9. BatchCovered'
  BY <1>1, <1>2, <1>4 DEF BatchCovered, RunPhases, PrefillPhases, NumTokens
<1> QED BY <1>5, <1>6, <1>7, <1>8, <1>9, IInvPutTogether

(* The model run changes nothing the invariant speaks of but the phase.    *)
LEMMA RunKeepsIInv ==
    ASSUME IInv, Run
    PROVE  IInv'
<1>1. /\ EngineTypeOK /\ PoolInv /\ QueuesOK /\ TablesCover /\ BatchCovered
  BY IInvParts
<1>2. /\ UNCHANGED bmVars
      /\ UNCHANGED <<waiting, running, status, nprompt, nsched, batch, nbatched, cur>>
      /\ UNCHANGED <<tokens, table, ncached>>
      /\ \/ phase = "runPrefill" /\ phase' = "postPrefill"
         \/ phase = "runDecode" /\ phase' = "postDecode"
  BY DEF Run, bmVars, queueVars
<1>3. EngineTypeOK'
  BY <1>1, <1>2 DEF EngineTypeOK, PoolTypeOK, bmVars, Phases
<1>4. PoolInv'
  BY <1>1, <1>2, PoolUnchanged
<1>5. Scheduled' = << >> /\ Scheduled = << >>
  BY <1>2 DEF Scheduled
<1>6. QueuesOK'
  BY <1>1, <1>2, <1>5 DEF QueuesOK, LiveSet, Live
<1>7. TablesCover'
  BY <1>1, <1>2 DEF TablesCover, Live, NumTokens
<1>8. BatchCovered'
  BY <1>1, <1>2 DEF BatchCovered, RunPhases, PrefillPhases, NumTokens
<1> QED BY <1>3, <1>4, <1>6, <1>7, <1>8, IInvPutTogether

(* A run that raises drops the batch, whose requests are all still queued. *)
LEMMA RunRaisesKeepsIInv ==
    ASSUME IInv, RunRaises
    PROVE  IInv'
<1>1. /\ EngineTypeOK /\ PoolInv /\ QueuesOK /\ TablesCover /\ BatchCovered
  BY IInvParts
<1>2. /\ UNCHANGED bmVars
      /\ UNCHANGED <<waiting, running, status, nprompt, nsched, cur>>
      /\ UNCHANGED <<tokens, table, ncached>>
      /\ phase \in {"runPrefill", "runDecode"} /\ phase' = "idle"
      /\ batch' = << >> /\ nbatched' = 0
  BY DEF RunRaises, bmVars, queueVars
<1>3. Range(batch') = {} /\ Injective(batch') /\ batch' \in Seq(SeqId)
  BY <1>2 DEF Range, Injective
<1>4. EngineTypeOK'
  BY <1>1, <1>2, <1>3, SchedulerAssumption DEF EngineTypeOK, PoolTypeOK, bmVars, Phases
<1>5. PoolInv'
  BY <1>1, <1>2, PoolUnchanged
<1>6. Scheduled' = << >> /\ Scheduled = << >>
  BY <1>2 DEF Scheduled
<1>7. QueuesOK'
  BY <1>1, <1>2, <1>6 DEF QueuesOK, LiveSet, Live
<1>8. TablesCover'
  BY <1>1, <1>2 DEF TablesCover, Live, NumTokens
<1>9. BatchCovered'
  BY <1>1, <1>2, <1>3 DEF BatchCovered, RunPhases, PrefillPhases
<1> QED BY <1>4, <1>5, <1>7, <1>8, <1>9, IInvPutTogether

-----------------------------------------------------------------------------
(* Preemption.                                                             *)

(* Adding an element at the head of a queue: its elements, and when they   *)
(* stay distinct.                                                          *)
LEMMA PushFront ==
    ASSUME NEW T, NEW q \in Seq(T), NEW e \in T
    PROVE  /\ <<e>> \o q \in Seq(T) /\ Range(<<e>> \o q) = Range(q) \cup {e}
           /\ Injective(q) /\ e \notin Range(q) => Injective(<<e>> \o q)
<1> DEFINE a == <<e>>
<1>1. a \in Seq(T) /\ Range(a) = {e} /\ Injective(a)
  BY DEF Range, Injective
<1> HIDE DEF a
<1>2. /\ a \o q \in Seq(T) /\ Range(a \o q) = Range(a) \cup Range(q)
      /\ Injective(a \o q) <=> Injective(a) /\ Injective(q) /\ Range(a) \cap Range(q) = {}
  BY <1>1, ConcatFacts
<1> QED BY <1>1, <1>2 DEF a

(* Adding a queue behind another: their elements, and when they stay       *)
(* distinct.                                                               *)
LEMMA PushBack ==
    ASSUME NEW T, NEW q \in Seq(T), NEW e \in T
    PROVE  /\ Append(q, e) \in Seq(T) /\ Range(Append(q, e)) = Range(q) \cup {e}
           /\ Append(q, e) # << >>
           /\ Injective(q) /\ e \notin Range(q) => Injective(Append(q, e))
<1> DEFINE a == <<e>>
<1>1. a \in Seq(T) /\ Range(a) = {e} /\ Injective(a) /\ Append(q, e) = q \o a
  BY DEF Range, Injective
<1> HIDE DEF a
<1>2. /\ q \o a \in Seq(T) /\ Range(q \o a) = Range(q) \cup Range(a)
      /\ Injective(q \o a) <=> Injective(q) /\ Injective(a) /\ Range(q) \cap Range(a) = {}
  BY <1>1, ConcatFacts
<1> QED BY <1>1, <1>2

(* Giving up the blocks of s leaves those of the others as they are.       *)
LEMMA DeallocateOneTable ==
    ASSUME PoolInv, NEW s \in SeqId, Deallocate(s), UNCHANGED <<tokens, bhash, hmap>>
    PROVE  /\ PoolInv'
           /\ table'[s] = << >>
           /\ \A r \in SeqId \ {s} : table'[r] = table[r] /\ ncached'[r] = ncached[r]
<1>1. PoolInv'
  BY DeallocateKeepsPool
<1>2. table' = [table EXCEPT ![s] = << >>] /\ ncached' = [ncached EXCEPT ![s] = 0]
  BY DEF Deallocate
<1> QED BY <1>1, <1>2 DEF PoolInv, PoolTypeOK

(* A request without blocks, or gone, cannot break what the others rely on.*)
LEMMA ReleasedTableCovers ==
    ASSUME IInv, NEW s \in SeqId, UNCHANGED tokens, table'[s] = << >>,
           \A r \in SeqId \ {s} : table'[r] = table[r] /\ ncached'[r] = ncached[r],
           \A r \in SeqId \ {s} : Live(r)' <=> Live(r),
           Live(s)' => Live(s),
           Range(waiting') \subseteq Range(waiting) \cup {s},
           Range(running') \subseteq Range(running) \ {s},
           cur' = NoSeq \/ (cur' = cur /\ cur' \in SeqId /\ cur' # s)
    PROVE  TablesCover'
<1>1. TablesCover /\ Range(waiting) \subseteq SeqId /\ Range(running) \subseteq SeqId
  BY IInvParts
<1>2. \A r \in SeqId : NumTokens(r)' = NumTokens(r)
  BY DEF NumTokens
<1>3. \A r \in SeqId : Live(r)' => NumTokens(r)' > 0
  BY <1>1, <1>2 DEF TablesCover
<1>4. \A r \in SeqId : table'[r] # << >> =>
          /\ Live(r)' /\ ncached'[r] < NumTokens(r)'
          /\ NumTokens(r)' - 1 <= Len(table'[r]) * BlockSize
  <2> SUFFICES ASSUME NEW r \in SeqId \ {s}, table[r] # << >>
               PROVE  /\ Live(r) /\ ncached[r] < NumTokens(r)
                      /\ NumTokens(r) - 1 <= Len(table[r]) * BlockSize
    BY <1>2
  <2> QED BY <1>1 DEF TablesCover
<1>5. \A r \in Range(waiting') : table'[r] # << >> => NumTokens(r)' <= Len(table'[r]) * BlockSize
  <2> SUFFICES ASSUME NEW r \in Range(waiting), r # s, table[r] # << >>
               PROVE  NumTokens(r) <= Len(table[r]) * BlockSize
    BY <1>1, <1>2
  <2> QED BY <1>1 DEF TablesCover
<1>6. \A r \in Range(running') : table'[r] # << >>
  BY <1>1 DEF TablesCover
<1>7. cur' # NoSeq => table'[cur'] # << >>
  BY <1>1 DEF TablesCover
<1> QED BY <1>3, <1>4, <1>5, <1>6, <1>7 DEF TablesCover

(* The last running request is preempted for the one that needs a block.   *)
LEMMA PreemptTailKeepsIInv ==
    ASSUME IInv, PreemptTail
    PROVE  IInv'
<1> DEFINE s == Last(running)
<1>1. /\ EngineTypeOK /\ PoolInv /\ QueuesOK /\ TablesCover /\ BatchCovered
      /\ waiting \in Seq(SeqId) /\ running \in Seq(SeqId) /\ Range(running) \subseteq SeqId
      /\ Range(batch) \subseteq SeqId
  BY IInvParts
<1>2. /\ UNCHANGED <<tokens, bhash, hmap, nprompt, nsched, phase, batch, nbatched, cur>>
      /\ phase = "append" /\ running # << >> /\ running' = Front(running)
      /\ Deallocate(s)
      /\ waiting' = <<s>> \o waiting
      /\ status' = [status EXCEPT ![s] = "waiting"]
  BY DEF PreemptTail, Preempt, stepVars
<1>3. /\ s \in SeqId /\ s \in Range(running)
      /\ running' \in Seq(SeqId) /\ Injective(running') /\ Range(running') = Range(running) \ {s}
  BY <1>1, <1>2, EndFacts DEF QueuesOK, OnePlaceEach
<1> HIDE DEF s
<1>4. /\ PoolInv' /\ table'[s] = << >>
      /\ \A r \in SeqId \ {s} : table'[r] = table[r] /\ ncached'[r] = ncached[r]
  BY <1>1, <1>2, <1>3, DeallocateOneTable
<1>5. Scheduled' = batch /\ Scheduled = batch
  BY <1>2 DEF Scheduled
<1>6. /\ s \notin Range(waiting) /\ s \notin Range(batch) /\ s # cur /\ Live(s)
  BY <1>1, <1>3, <1>5 DEF QueuesOK, OnePlaceEach, LiveSet
<1>7. /\ waiting' \in Seq(SeqId) /\ Range(waiting') = Range(waiting) \cup {s}
      /\ Injective(waiting')
  BY <1>1, <1>2, <1>3, <1>6, PushFront DEF QueuesOK, OnePlaceEach
<1>8. \A r \in SeqId : Live(r)' <=> Live(r)
  BY <1>1, <1>2, <1>3, <1>6 DEF Live, EngineTypeOK
<1>9. EngineTypeOK'
  BY <1>1, <1>2, <1>3, <1>4, <1>7 DEF EngineTypeOK, PoolInv
<1>10. QueuesOK'
  <2>1. LiveSet' = LiveSet
    BY <1>8 DEF LiveSet
  <2> QED BY <1>1, <1>2, <1>3, <1>5, <1>6, <1>7, <2>1 DEF QueuesOK, OnePlaceEach
<1>11. TablesCover'
  <2>1. cur' = cur /\ cur' \in SeqId
    BY <1>1, <1>2 DEF BatchCovered, EngineTypeOK
  <2> QED BY <1>2, <1>3, <1>4, <1>6, <1>7, <1>8, <2>1, ReleasedTableCovers
<1>12. BatchCovered'
  <2>1. \A r \in Range(batch) : r \in SeqId /\ table'[r] = table[r] /\ ncached'[r] = ncached[r]
    BY <1>1, <1>4, <1>6
  <2> QED BY <1>1, <1>2, <2>1 DEF BatchCovered, RunPhases, PrefillPhases, NumTokens
<1> QED BY <1>4, <1>9, <1>10, <1>11, <1>12, IInvPutTogether

(* With nobody else to preempt, the request preempts itself.               *)
LEMMA PreemptSelfKeepsIInv ==
    ASSUME IInv, PreemptSelf
    PROVE  IInv'
<1> DEFINE s == cur
<1>1. /\ EngineTypeOK /\ PoolInv /\ QueuesOK /\ TablesCover /\ BatchCovered
      /\ waiting \in Seq(SeqId) /\ running \in Seq(SeqId) /\ Range(running) \subseteq SeqId
      /\ Range(batch) \subseteq SeqId
  BY IInvParts
<1>2. /\ UNCHANGED <<tokens, bhash, hmap, nprompt, nsched, running, batch, nbatched>>
      /\ phase = "append" /\ phase' = "decode" /\ cur' = NoSeq
      /\ Deallocate(s)
      /\ waiting' = <<s>> \o waiting
      /\ status' = [status EXCEPT ![s] = "waiting"]
  BY DEF PreemptSelf, Preempt
<1>3. s \in SeqId /\ cur' \notin SeqId
  BY <1>1, <1>2, SchedulerAssumption DEF BatchCovered, EngineTypeOK
<1>4. /\ PoolInv' /\ table'[s] = << >>
      /\ \A r \in SeqId \ {s} : table'[r] = table[r] /\ ncached'[r] = ncached[r]
  <2> HIDE DEF s
  <2> QED BY <1>1, <1>2, <1>3, DeallocateOneTable
<1>5. Scheduled' = batch /\ Scheduled = batch
  BY <1>2 DEF Scheduled
<1>6. /\ s \notin Range(waiting) /\ s \notin Range(batch) /\ s \notin Range(running) /\ Live(s)
  BY <1>1, <1>3, <1>5 DEF QueuesOK, OnePlaceEach, LiveSet
<1>7. /\ waiting' \in Seq(SeqId) /\ Range(waiting') = Range(waiting) \cup {s}
      /\ Injective(waiting')
  BY <1>1, <1>2, <1>3, <1>6, PushFront DEF QueuesOK, OnePlaceEach
<1>8. \A r \in SeqId : Live(r)' <=> Live(r)
  BY <1>1, <1>2, <1>3, <1>6 DEF Live, EngineTypeOK
<1>9. EngineTypeOK'
  BY <1>1, <1>2, <1>3, <1>4, <1>7 DEF EngineTypeOK, PoolInv, Phases
<1>10. QueuesOK'
  <2>1. LiveSet' = LiveSet
    BY <1>8 DEF LiveSet
  <2> QED BY <1>1, <1>2, <1>3, <1>5, <1>6, <1>7, <2>1 DEF QueuesOK, OnePlaceEach
<1>11. TablesCover'
  <2> HIDE DEF s
  <2> QED BY <1>2, <1>3, <1>4, <1>6, <1>7, <1>8, ReleasedTableCovers
<1>12. BatchCovered'
  <2>1. \A r \in Range(batch) : r \in SeqId /\ table'[r] = table[r] /\ ncached'[r] = ncached[r]
    BY <1>1, <1>4, <1>6
  <2> QED BY <1>1, <1>2, <2>1 DEF BatchCovered, RunPhases, PrefillPhases, NumTokens
<1> QED BY <1>4, <1>9, <1>10, <1>11, <1>12, IInvPutTogether

-----------------------------------------------------------------------------
(* A decode slot.                                                          *)

(* A request gets its decode slot, and the block that slot may open.       *)
LEMMA ScheduleDecodeKeepsIInv ==
    ASSUME IInv, ScheduleDecode
    PROVE  IInv'
<1> DEFINE s == cur
<1>1. /\ EngineTypeOK /\ PoolInv /\ QueuesOK /\ TablesCover /\ BatchCovered
      /\ batch \in Seq(SeqId) /\ Range(batch) \subseteq SeqId
      /\ \A r \in SeqId : /\ NumTokens(r) \in Nat /\ Len(table[r]) \in Nat
                          /\ ncached[r] \in Nat /\ table[r] \in Seq(Block)
  BY IInvParts
<1>2. /\ UNCHANGED <<tokens, ncached, waiting, running, status, nprompt, nbatched>>
      /\ phase = "append" /\ phase' = "decode" /\ cur' = NoSeq
      /\ CanAppend(s) /\ MayAppend(s)
      /\ nsched' = [nsched EXCEPT ![s] = 1]
      /\ batch' = Append(batch, s)
  BY DEF ScheduleDecode, RunningAfterSlot
<1>3. s \in SeqId /\ cur' \notin SeqId
  BY <1>1, <1>2, SchedulerAssumption DEF BatchCovered, EngineTypeOK
<1>4. /\ PoolInv' /\ \A r \in SeqId \ {s} : table'[r] = table[r]
      /\ Len(table'[s]) = Len(table[s]) + (IF OpensBlock(s) THEN 1 ELSE 0)
  <2> HIDE DEF s
  <2> QED BY <1>1, <1>2, <1>3, MayAppendKeepsPool
<1>5. Scheduled' = batch' /\ Scheduled = batch /\ LiveSet' = LiveSet
  BY <1>2 DEF Scheduled, LiveSet, Live
<1>6. s \notin Range(batch)
  BY <1>1, <1>3, <1>5 DEF QueuesOK, OnePlaceEach
<1>7. /\ batch' \in Seq(SeqId) /\ Range(batch') = Range(batch) \cup {s} /\ Injective(batch')
  BY <1>1, <1>2, <1>3, <1>6, PushBack DEF BatchCovered
<1>8. /\ table[s] # << >> /\ ncached[s] < NumTokens(s)
      /\ NumTokens(s) - 1 <= Len(table[s]) * BlockSize
  BY <1>1, <1>3, SchedulerAssumption DEF TablesCover
<1>9. NumTokens(s) <= Len(table'[s]) * BlockSize /\ table'[s] # << >>
  <2> DEFINE n == NumTokens(s)
             k == Len(table[s])
  <2>1. n \in Nat /\ k \in Nat /\ k # 0 /\ n - 1 <= k * BlockSize
    BY <1>1, <1>3, <1>8
  <2>2. Len(table'[s]) = IF n % BlockSize = 1 THEN k + 1 ELSE k
    <3>1. OpensBlock(s) <=> n % BlockSize = 1
      BY DEF OpensBlock
    <3> HIDE DEF n
    <3>2. CASE OpensBlock(s)
      BY <1>4, <3>1, <3>2
    <3>3. CASE ~ OpensBlock(s)
      BY <1>4, <2>1, <3>1, <3>3
    <3> QED BY <3>2, <3>3
  <2>3. table'[s] # << >>
    <3>1. Len(table'[s]) # 0
      BY <2>1, <2>2
    <3> QED BY <3>1
  <2> HIDE DEF n, k
  <2>4. k * BlockSize \in Nat /\ (k + 1) * BlockSize = k * BlockSize + BlockSize
    BY <2>1, PoolAssumption
  <2>5. n % BlockSize # 1 => n <= k * BlockSize
    BY <2>1, PoolAssumption, DivBounds
  <2>6. CASE n % BlockSize = 1
    BY <2>1, <2>2, <2>3, <2>4, <2>6, PoolAssumption DEF n
  <2>7. CASE n % BlockSize # 1
    BY <2>2, <2>3, <2>5, <2>7 DEF n
  <2> QED BY <2>6, <2>7
<1>10. EngineTypeOK'
  BY <1>1, <1>2, <1>3, <1>4, <1>7 DEF EngineTypeOK, PoolInv, Phases
<1>11. QueuesOK'
  BY <1>1, <1>2, <1>3, <1>5, <1>6, <1>7 DEF QueuesOK, OnePlaceEach
<1>12. TablesCover'
  <2>1. NumTokens(s) - 1 <= Len(table'[s]) * BlockSize
    <3>0. Len(table'[s]) \in Nat
      <4>1. table'[s] \in Seq(Block)
        BY <1>3, <1>4 DEF PoolInv, PoolTypeOK
      <4> QED BY <4>1
    <3>1. Len(table'[s]) * BlockSize \in Nat
      BY <3>0, PoolAssumption
    <3> QED BY <1>1, <1>3, <1>9, <3>1
  <2>2. \A r \in SeqId : NumTokens(r)' = NumTokens(r) /\ (Live(r)' <=> Live(r))
    BY <1>2 DEF NumTokens, Live
  <2>3. \A r \in SeqId : table'[r] # << >> =>
            /\ Live(r) /\ ncached[r] < NumTokens(r)
            /\ NumTokens(r) - 1 <= Len(table'[r]) * BlockSize
    <3> SUFFICES ASSUME NEW r \in SeqId, table'[r] # << >>
                 PROVE  /\ Live(r) /\ ncached[r] < NumTokens(r)
                        /\ NumTokens(r) - 1 <= Len(table'[r]) * BlockSize
      OBVIOUS
    <3>1. CASE r = s
      BY <1>1, <1>3, <1>8, <2>1, <3>1 DEF TablesCover
    <3>2. CASE r # s
      <4>1. table'[r] = table[r]
        BY <1>4, <3>2
      <4> QED BY <1>1, <4>1 DEF TablesCover
    <3> QED BY <3>1, <3>2
  <2>4. \A r \in Range(waiting) \cup Range(running) : r \in SeqId /\ r # s
    BY <1>1, <1>3, IInvParts DEF QueuesOK, OnePlaceEach
  <2>5. \A r \in Range(waiting) : table'[r] # << >> => NumTokens(r) <= Len(table'[r]) * BlockSize
    BY <1>1, <1>4, <2>4 DEF TablesCover
  <2>6. \A r \in Range(running) : table'[r] # << >>
    BY <1>1, <1>4, <2>4 DEF TablesCover
  <2>7. waiting' = waiting /\ running' = running /\ ncached' = ncached /\ cur' = NoSeq
    BY <1>2
  <2>8. \A r \in SeqId : Live(r) => NumTokens(r) > 0
    BY <1>1 DEF TablesCover
  <2> QED BY <2>2, <2>3, <2>4, <2>5, <2>6, <2>7, <2>8 DEF TablesCover
<1>13. BatchCovered'
  <2>1. \A r \in Range(batch) :
          r \in SeqId /\ r # s /\ table'[r] = table[r] /\ nsched'[r] = nsched[r]
    BY <1>1, <1>2, <1>4, <1>6 DEF EngineTypeOK
  <2>2. nsched'[s] = 1 /\ ncached[s] + 1 <= NumTokens(s)
    BY <1>1, <1>2, <1>3, <1>8 DEF EngineTypeOK
  <2> QED BY <1>1, <1>2, <1>3, <1>7, <1>9, <2>1, <2>2, SchedulerAssumption
        DEF BatchCovered, RunPhases, PrefillPhases, NumTokens
<1> QED BY <1>4, <1>10, <1>11, <1>12, <1>13, IInvPutTogether

-----------------------------------------------------------------------------
(* Submitting and cancelling.                                              *)

(* A new request joins the tail of waiting and holds no blocks.            *)
LEMMA AddKeepsIInv ==
    ASSUME IInv, NEW s \in SeqId, NEW p \in Prompts, Add(s, p)
    PROVE  IInv'
<1>1. /\ EngineTypeOK /\ PoolInv /\ QueuesOK /\ TablesCover /\ BatchCovered
      /\ waiting \in Seq(SeqId) /\ Range(waiting) \subseteq SeqId /\ Range(running) \subseteq SeqId
  BY IInvParts
<1>2. /\ phase = "idle" /\ status[s] = "new"
      /\ tokens'  = [tokens EXCEPT ![s] = p]
      /\ nprompt' = [nprompt EXCEPT ![s] = Len(p)]
      /\ status'  = [status EXCEPT ![s] = "waiting"]
      /\ waiting' = Append(waiting, s)
      /\ UNCHANGED <<table, ncached, free, used, ref, bhash, hmap>>
      /\ UNCHANGED <<running, nsched, phase, batch, nbatched, cur>>
  BY DEF Add, poolVars, stepVars
<1>3. p \in Seq(Token) /\ Len(p) \in Nat /\ Len(p) > 0
  <2>1. p \in Seq(Token) /\ p # << >>
    BY SchedulerAssumption
  <2> QED BY <2>1
<1>4. ~ Live(s) /\ table[s] = << >>
  <2>1. ~ Live(s)
    BY <1>2 DEF Live
  <2> QED BY <1>1, <2>1 DEF TablesCover
<1>5. /\ s \notin Range(waiting) /\ s \notin Range(running) /\ s \notin Range(Scheduled)
      /\ s # cur /\ Scheduled' = Scheduled
  <2>1. s \notin LiveSet
    BY <1>4 DEF LiveSet
  <2>2. Scheduled' = Scheduled
    BY <1>2 DEF Scheduled
  <2> QED BY <1>1, <2>1, <2>2 DEF QueuesOK, OnePlaceEach
<1>6. /\ waiting' \in Seq(SeqId) /\ Range(waiting') = Range(waiting) \cup {s} /\ Injective(waiting')
  BY <1>1, <1>2, <1>5, PushBack DEF QueuesOK, OnePlaceEach
<1>7. /\ Live(s)' /\ \A r \in SeqId \ {s} : Live(r)' <=> Live(r)
  BY <1>1, <1>2 DEF Live, EngineTypeOK
<1>8. EngineTypeOK'
  BY <1>1, <1>2, <1>3, <1>6 DEF EngineTypeOK, PoolTypeOK
<1>9. PoolInv'
  <2>1. PoolTypeOK'
    BY <1>8 DEF EngineTypeOK
  <2> QED BY <1>1, <1>2, <2>1 DEF PoolInv, RefCountsExact, Owners, PoolPartition,
                                  IndexSound, TailExclusive
<1>10. QueuesOK'
  <2>1. LiveSet' = LiveSet \cup {s}
    BY <1>7 DEF LiveSet
  <2> QED BY <1>1, <1>2, <1>5, <1>6, <2>1 DEF QueuesOK, OnePlaceEach
<1>11. /\ NumTokens(s)' = Len(p)
       /\ \A r \in SeqId \ {s} : NumTokens(r)' = NumTokens(r)
  BY <1>1, <1>2 DEF NumTokens, EngineTypeOK, PoolTypeOK
<1>12. TablesCover'
  <2>1. \A r \in SeqId : Live(r)' => NumTokens(r)' > 0
    BY <1>1, <1>3, <1>7, <1>11 DEF TablesCover
  <2>2. \A r \in SeqId : table[r] # << >> =>
          /\ Live(r)' /\ ncached[r] < NumTokens(r)'
          /\ NumTokens(r)' - 1 <= Len(table[r]) * BlockSize
    BY <1>1, <1>4, <1>7, <1>11 DEF TablesCover
  <2>3. \A r \in Range(waiting') : table[r] # << >> => NumTokens(r)' <= Len(table[r]) * BlockSize
    <3> SUFFICES ASSUME NEW r \in Range(waiting), r # s, table[r] # << >>
                 PROVE  NumTokens(r) <= Len(table[r]) * BlockSize
      BY <1>1, <1>4, <1>6, <1>11
    <3> QED BY <1>1 DEF TablesCover
  <2> QED BY <1>1, <1>2, <2>1, <2>2, <2>3 DEF TablesCover
<1>13. BatchCovered'
  <2>1. batch = << >> /\ Range(batch) = {}
    BY <1>1, <1>2 DEF BatchCovered, Range
  <2> QED BY <1>1, <1>2, <2>1 DEF BatchCovered, RunPhases
<1> QED BY <1>8, <1>9, <1>10, <1>12, <1>13, IInvPutTogether

(* Cancelling a request between two steps.                                 *)
LEMMA CancelKeepsIInv ==
    ASSUME IInv, NEW s \in SeqId, phase = "idle", Cancel(s),
           UNCHANGED stepVars
    PROVE  IInv'
<1>1. /\ EngineTypeOK /\ PoolInv /\ QueuesOK /\ TablesCover /\ BatchCovered
      /\ waiting \in Seq(SeqId) /\ running \in Seq(SeqId)
  BY IInvParts
<1>2. /\ Live(s)
      /\ waiting' = IF s \in Range(waiting) THEN Without(waiting, s) ELSE waiting
      /\ running' = IF s \in Range(waiting) THEN running ELSE Without(running, s)
      /\ IF table[s] # << >>
         THEN Deallocate(s)
         ELSE UNCHANGED <<table, ncached, free, used, ref>>
      /\ status' = [status EXCEPT ![s] = "abort"]
      /\ UNCHANGED <<tokens, bhash, hmap, nprompt, nsched, phase, batch, nbatched, cur>>
  BY DEF Cancel, stepVars
<1>3. /\ batch = << >> /\ Range(batch) = {} /\ Scheduled = << >> /\ Scheduled' = << >>
      /\ Range(Scheduled) = {} /\ cur = NoSeq /\ cur \notin SeqId
  BY <1>1, <1>2, SchedulerAssumption DEF BatchCovered, Scheduled, Range
<1>4. s \in Range(waiting) \/ s \in Range(running)
  BY <1>1, <1>2, <1>3 DEF QueuesOK, OnePlaceEach, LiveSet
<1>5. /\ Injective(waiting) /\ Injective(running)
      /\ s \in Range(waiting) => s \notin Range(running)
  BY <1>1 DEF QueuesOK, OnePlaceEach
<1>6. /\ waiting' \in Seq(SeqId) /\ Injective(waiting') /\ Range(waiting') = Range(waiting) \ {s}
      /\ running' \in Seq(SeqId) /\ Injective(running') /\ Range(running') = Range(running) \ {s}
  BY <1>1, <1>2, <1>4, <1>5, WithoutProperties
<1>7. /\ ~ Live(s)' /\ \A r \in SeqId \ {s} : Live(r)' <=> Live(r)
  BY <1>1, <1>2 DEF Live, EngineTypeOK
<1>8. /\ PoolInv' /\ table'[s] = << >>
      /\ \A r \in SeqId \ {s} : table'[r] = table[r] /\ ncached'[r] = ncached[r]
  <2>1. CASE table[s] # << >>
    BY <1>1, <1>2, <2>1, DeallocateOneTable
  <2>2. CASE table[s] = << >>
    <3>1. UNCHANGED bmVars
      BY <1>2, <2>2 DEF bmVars
    <3>2. UNCHANGED <<table, ncached>>
      BY <3>1 DEF bmVars
    <3> QED BY <1>1, <2>2, <3>1, <3>2, PoolUnchanged
  <2> QED BY <2>1, <2>2
<1>9. EngineTypeOK'
  BY <1>1, <1>2, <1>6, <1>8 DEF EngineTypeOK, PoolInv, Finished
<1>10. QueuesOK'
  <2>1. LiveSet' = LiveSet \ {s}
    BY <1>7 DEF LiveSet
  <2> QED BY <1>1, <1>2, <1>3, <1>6, <2>1 DEF QueuesOK, OnePlaceEach
<1>11. TablesCover'
  BY <1>2, <1>3, <1>6, <1>7, <1>8, ReleasedTableCovers
<1>12. BatchCovered'
  BY <1>1, <1>2, <1>3 DEF BatchCovered, RunPhases
<1> QED BY <1>8, <1>9, <1>10, <1>11, <1>12, IInvPutTogether

-----------------------------------------------------------------------------
(* Admitting the head of waiting into a prefill batch.                     *)

(* The head of waiting is scheduled, whole or in part, with or without     *)
(* blocks of its own.                                                      *)
LEMMA PrefillHeadKeepsIInv ==
    ASSUME IInv, PrefillHead
    PROVE  IInv'
<1> DEFINE s == Head(waiting)
           todo == ToPrefill(s)
           c == Chunk(s)
<1>1. /\ EngineTypeOK /\ PoolInv /\ QueuesOK /\ TablesCover /\ BatchCovered
      /\ waiting \in Seq(SeqId) /\ running \in Seq(SeqId) /\ batch \in Seq(SeqId)
      /\ Range(waiting) \subseteq SeqId /\ Range(running) \subseteq SeqId
      /\ Range(batch) \subseteq SeqId
      /\ \A r \in SeqId : /\ NumTokens(r) \in Nat /\ Len(table[r]) \in Nat
                          /\ ncached[r] \in Nat /\ nsched[r] \in Nat
  BY IInvParts
<1>2. /\ phase = "prefill" /\ waiting # << >> /\ Remaining > 0 /\ HasRoom(s)
      /\ IF Fresh(s)
         THEN Allocate(s, NumCachedBlocks(s))
         ELSE UNCHANGED <<table, ncached, poolVars>>
      /\ nsched'   = [nsched EXCEPT ![s] = c]
      /\ nbatched' = nbatched + c
      /\ batch'    = Append(batch, s)
      /\ IF CompletesPrompt(s)
         THEN /\ status'  = [status EXCEPT ![s] = "running"]
              /\ waiting' = Tail(waiting)
              /\ running' = Append(running, s)
         ELSE UNCHANGED <<status, waiting, running>>
      /\ UNCHANGED <<tokens, nprompt, phase, cur>>
  BY DEF PrefillHead, CanPrefillHead
<1>3. /\ s \in SeqId /\ s \in Range(waiting)
      /\ Tail(waiting) \in Seq(SeqId) /\ Injective(Tail(waiting))
      /\ Range(Tail(waiting)) = Range(waiting) \ {s}
  BY <1>1, <1>2, EndFacts DEF QueuesOK, OnePlaceEach
<1> HIDE DEF s
<1>4. /\ Scheduled = << >> /\ Scheduled' = << >> /\ cur = NoSeq /\ cur \notin SeqId
      /\ Range(Scheduled) = {}
  BY <1>1, <1>2, SchedulerAssumption DEF Scheduled, BatchCovered, Range
<1>5. Live(s) /\ s \notin Range(running)
  BY <1>1, <1>3 DEF QueuesOK, OnePlaceEach, LiveSet
(* A batch with a half-prefilled prompt has no tokens remaining, so s is   *)
(* not in the batch yet.                                                   *)
<1>6. Range(batch) \cap Range(waiting) = {}
  BY <1>1, <1>2 DEF BatchCovered
<1>7. /\ PoolInv'
      /\ \A r \in SeqId \ {s} : table'[r] = table[r] /\ ncached'[r] = ncached[r]
      /\ table'[s] # << >> /\ NumTokens(s) <= Len(table'[s]) * BlockSize
      /\ ncached'[s] < NumTokens(s) /\ todo = NumTokens(s) - ncached'[s]
  <2>1. CASE Fresh(s)
    <3>1. table[s] = << >> /\ NumTokens(s) > 0 /\ CanAllocate(s)
          /\ Allocate(s, NumCachedBlocks(s)) /\ UNCHANGED tokens
      BY <1>1, <1>2, <1>3, <1>5, <2>1 DEF Fresh, HasRoom, TablesCover
    <3>2. /\ PoolInv'
          /\ \A r \in SeqId \ {s} : table'[r] = table[r] /\ ncached'[r] = ncached[r]
          /\ table'[s] # << >>
          /\ NumTokens(s) <= Len(table'[s]) * BlockSize
          /\ ncached'[s] = NumCachedBlocks(s) * BlockSize
          /\ ncached'[s] < NumTokens(s)
      BY <1>1, <1>3, <3>1, AllocateKeepsPool
    <3> QED BY <2>1, <3>2 DEF ToPrefill
  <2>2. CASE ~ Fresh(s)
    <3>1. UNCHANGED bmVars /\ table' = table /\ ncached' = ncached
      BY <1>2, <2>2 DEF bmVars, poolVars
    <3>2. table[s] # << >>
      BY <2>2 DEF Fresh
    <3> QED BY <1>1, <1>3, <2>2, <3>1, <3>2, PoolUnchanged DEF TablesCover, ToPrefill
  <2> QED BY <2>1, <2>2
<1>8. ncached'[s] \in Nat /\ table'[s] \in Seq(Block) /\ Len(table'[s]) \in Nat
  <2>1. ncached'[s] \in Nat /\ table'[s] \in Seq(Block)
    BY <1>3, <1>7 DEF PoolInv, PoolTypeOK
  <2> QED BY <2>1
<1>9. todo \in Nat \ {0} /\ Remaining \in Nat /\ nbatched \in Nat /\ MaxBatchedTokens \in Nat
  <2>1. Remaining \in Nat /\ nbatched \in Nat /\ MaxBatchedTokens \in Nat
    BY <1>1, SchedulerAssumption DEF EngineTypeOK, Remaining
  <2> HIDE DEF todo
  <2>2. todo \in Nat \ {0}
    BY <1>1, <1>3, <1>7, <1>8
  <2> QED BY <2>1, <2>2
<1>10. /\ c \in Nat \ {0} /\ c <= todo /\ c <= Remaining
       /\ ~ CompletesPrompt(s) => c < todo /\ c = Remaining
  <2> HIDE DEF c
  <2>1. c = IF todo < Remaining THEN todo ELSE Remaining
    BY DEF c, Chunk
  <2>2. CompletesPrompt(s) <=> c = todo
    BY DEF CompletesPrompt, c
  <2> HIDE DEF todo
  <2> QED BY <1>2, <1>9, <2>1, <2>2
<1> HIDE DEF c, todo
<1>11. nbatched' \in 0..MaxBatchedTokens /\ (~ CompletesPrompt(s) => Remaining' = 0)
  BY <1>2, <1>9, <1>10 DEF Remaining
<1>12. /\ batch' \in Seq(SeqId) /\ Range(batch') = Range(batch) \cup {s} /\ Injective(batch')
       /\ batch' # << >>
  BY <1>1, <1>2, <1>3, <1>6, PushBack DEF BatchCovered
<1>13. /\ Append(running, s) \in Seq(SeqId) /\ Injective(Append(running, s))
       /\ Range(Append(running, s)) = Range(running) \cup {s}
  BY <1>1, <1>3, <1>5, PushBack DEF QueuesOK, OnePlaceEach
<1>14. \A r \in SeqId : Live(r)' <=> Live(r)
  BY <1>1, <1>2, <1>3, <1>5 DEF Live, EngineTypeOK
<1>15. /\ nsched'[s] = c /\ \A r \in SeqId \ {s} : nsched'[r] = nsched[r]
       /\ nsched' \in [SeqId -> Nat]
  BY <1>1, <1>2, <1>3, <1>10 DEF EngineTypeOK
<1>16. EngineTypeOK'
  BY <1>1, <1>2, <1>3, <1>7, <1>11, <1>12, <1>13, <1>15 DEF EngineTypeOK, PoolInv
<1>17. QueuesOK'
  <2>1. LiveSet' = LiveSet
    BY <1>14 DEF LiveSet
  <2>2. CASE CompletesPrompt(s)
    BY <1>1, <1>2, <1>3, <1>4, <1>5, <1>13, <2>1, <2>2 DEF QueuesOK, OnePlaceEach
  <2>3. CASE ~ CompletesPrompt(s)
    BY <1>1, <1>2, <1>4, <2>1, <2>3 DEF QueuesOK
  <2> QED BY <2>2, <2>3
<1>18. \A r \in SeqId : NumTokens(r)' = NumTokens(r)
  BY <1>2 DEF NumTokens
<1>19. TablesCover'
  <2>1. \A r \in SeqId : Live(r)' => NumTokens(r)' > 0
    BY <1>1, <1>14, <1>18 DEF TablesCover
  <2>2. \A r \in SeqId : table'[r] # << >> =>
          /\ Live(r)' /\ ncached'[r] < NumTokens(r)'
          /\ NumTokens(r)' - 1 <= Len(table'[r]) * BlockSize
    <3> SUFFICES ASSUME NEW r \in SeqId, table'[r] # << >>
                 PROVE  /\ Live(r) /\ ncached'[r] < NumTokens(r)
                        /\ NumTokens(r) - 1 <= Len(table'[r]) * BlockSize
      BY <1>14, <1>18
    <3>1. CASE r = s
      <4>1. Len(table'[s]) * BlockSize \in Nat
        BY <1>8, PoolAssumption
      <4> QED BY <1>1, <1>3, <1>5, <1>7, <3>1, <4>1
    <3>2. CASE r # s
      <4>1. table'[r] = table[r] /\ ncached'[r] = ncached[r]
        BY <1>7, <3>2
      <4> QED BY <1>1, <4>1 DEF TablesCover
    <3> QED BY <3>1, <3>2
  <2>3. /\ Range(waiting') \subseteq Range(waiting) /\ Range(running') \subseteq Range(running) \cup {s}
    BY <1>2, <1>3, <1>13
  <2>4. \A r \in Range(waiting) : table'[r] # << >> => NumTokens(r) <= Len(table'[r]) * BlockSize
    <3> SUFFICES ASSUME NEW r \in Range(waiting), r # s, table[r] # << >>
                 PROVE  NumTokens(r) <= Len(table[r]) * BlockSize
      BY <1>1, <1>7
    <3> QED BY <1>1 DEF TablesCover
  <2>5. \A r \in Range(running) \cup {s} : table'[r] # << >>
    BY <1>1, <1>7 DEF TablesCover
  <2>6. \A r \in Range(waiting') : table'[r] # << >> => NumTokens(r)' <= Len(table'[r]) * BlockSize
    BY <1>1, <1>18, <2>3, <2>4
  <2> QED BY <1>2, <1>4, <2>1, <2>2, <2>3, <2>5, <2>6 DEF TablesCover
<1>20. BatchCovered'
  <2>1. \A r \in Range(batch) : r \in SeqId \ {s}
    BY <1>1, <1>3, <1>6
  <2>2. \A r \in Range(batch') :
          /\ table'[r] # << >>
          /\ NumTokens(r)' <= Len(table'[r]) * BlockSize
          /\ ncached'[r] + nsched'[r] <= NumTokens(r)'
    <3> SUFFICES ASSUME NEW r \in Range(batch')
                 PROVE  /\ table'[r] # << >>
                        /\ NumTokens(r) <= Len(table'[r]) * BlockSize
                        /\ ncached'[r] + nsched'[r] <= NumTokens(r)
      BY <1>1, <1>3, <1>12, <1>18
    <3>1. CASE r = s
      <4>1. ncached'[s] + c <= NumTokens(s)
        BY <1>1, <1>3, <1>7, <1>8, <1>9, <1>10
      <4> QED BY <1>7, <1>15, <3>1, <4>1
    <3>2. CASE r # s
      BY <1>1, <1>7, <1>12, <1>15, <2>1, <3>2 DEF BatchCovered
    <3> QED BY <3>1, <3>2
  <2>3. \A r \in Range(batch') :
          \/ r \in Range(running')
          \/ r \in Range(waiting') /\ ncached'[r] + nsched'[r] < NumTokens(r)'
    <3> SUFFICES ASSUME NEW r \in Range(batch')
                 PROVE  \/ r \in Range(running')
                        \/ r \in Range(waiting') /\ ncached'[r] + nsched'[r] < NumTokens(r)
      BY <1>1, <1>3, <1>12, <1>18
    <3>1. CASE r = s
      <4>1. CASE CompletesPrompt(s)
        BY <1>2, <1>13, <3>1, <4>1
      <4>2. CASE ~ CompletesPrompt(s)
        <5>1. ncached'[s] + c < NumTokens(s)
          BY <1>1, <1>3, <1>7, <1>8, <1>9, <1>10, <4>2
        <5> QED BY <1>2, <1>3, <1>15, <3>1, <4>2, <5>1
      <4> QED BY <4>1, <4>2
    <3>2. CASE r # s
      <4>1. r \in Range(batch) /\ r \in Range(running)
        BY <1>1, <1>2, <1>6, <1>12, <3>2 DEF BatchCovered, PrefillPhases
      <4> QED BY <1>2, <1>13, <4>1
    <3> QED BY <3>1, <3>2
  <2>4. Range(batch') \cap Range(waiting') # {} => Remaining' = 0
    <3>1. CASE CompletesPrompt(s)
      <4>1. Range(waiting') = Range(waiting) \ {s}
        BY <1>2, <1>3, <3>1
      <4> QED BY <1>6, <1>12, <4>1
    <3>2. CASE ~ CompletesPrompt(s)
      BY <1>11, <3>2
    <3> QED BY <3>1, <3>2
  <2> QED BY <1>2, <1>4, <1>12, <2>2, <2>3, <2>4 DEF BatchCovered, RunPhases, PrefillPhases
<1> QED BY <1>7, <1>16, <1>17, <1>19, <1>20, IInvPutTogether

-----------------------------------------------------------------------------
(* postprocess.                                                            *)

(* What is left of the batch after its first request.                      *)
LEMMA NextPostFacts ==
    ASSUME IInv, phase \in {"postPrefill", "postDecode"}, NextPost
    PROVE  /\ batch # << >> /\ Head(batch) \in SeqId /\ Head(batch) \in Range(batch)
           /\ batch' \in Seq(SeqId) /\ Injective(batch')
           /\ Range(batch') = Range(batch) \ {Head(batch)}
           /\ phase' = IF batch' = << >> THEN "idle" ELSE phase
           /\ nbatched' \in 0..MaxBatchedTokens
           /\ cur' = cur /\ cur = NoSeq /\ cur \notin SeqId
           /\ Scheduled = << >> /\ Scheduled' = << >>
<1>1. EngineTypeOK /\ BatchCovered /\ batch \in Seq(SeqId)
  BY IInvParts
<1>2. batch # << >> /\ Injective(batch) /\ cur = NoSeq
  BY <1>1 DEF BatchCovered, RunPhases
<1>3. /\ Head(batch) \in SeqId /\ Head(batch) \in Range(batch)
      /\ Tail(batch) \in Seq(SeqId) /\ Injective(Tail(batch))
      /\ Range(Tail(batch)) = Range(batch) \ {Head(batch)}
  BY <1>1, <1>2, EndFacts
<1>4. /\ batch' = Tail(batch) /\ cur' = cur
      /\ phase' = IF Tail(batch) = << >> THEN "idle" ELSE phase
      /\ nbatched' = IF Tail(batch) = << >> THEN 0 ELSE nbatched
  BY DEF NextPost
<1>5. nbatched' \in 0..MaxBatchedTokens
  BY <1>1, <1>4, SchedulerAssumption DEF EngineTypeOK
<1>6. phase' = IF batch' = << >> THEN "idle" ELSE phase
  BY <1>4
<1>7. Scheduled = << >> /\ Scheduled' = << >>
  BY <1>6 DEF Scheduled
<1> QED BY <1>2, <1>3, <1>4, <1>5, <1>6, <1>7, SchedulerAssumption

(* hash_blocks on the head of the batch: its table covers what has been    *)
(* computed, so only blocks of its own that had no hash get one.           *)
LEMMA HashBatchHead ==
    ASSUME IInv, NEW s \in SeqId, s \in Range(batch), HashBlocks(s, nsched[s])
    PROVE  /\ bhash' \in [Block -> CacheKey]
           /\ IndexSound'
           /\ \A r \in SeqId \ {s} : \A i \in 1..Len(table[r]) :
                i > ncached[r] \div BlockSize => bhash'[table[r][i]] = NoHash
           /\ \A i \in 1..Len(table[s]) :
                i > (ncached[s] + nsched[s]) \div BlockSize =>
                    bhash'[table[s][i]] = NoHash /\ ref[table[s][i]] = 1
<1>1. /\ PoolInv /\ BatchCovered /\ table[s] \in Seq(Block) /\ Len(table[s]) \in Nat
      /\ ncached[s] \in Nat /\ nsched[s] \in Nat /\ NumTokens(s) \in Nat
  BY IInvParts
<1>2. PoolTypeOK /\ RefCountsExact /\ TailExclusive
  BY <1>1 DEF PoolInv
<1>3. ncached[s] + nsched[s] <= NumTokens(s) /\ NumTokens(s) <= Len(table[s]) * BlockSize
  BY <1>1 DEF BatchCovered
<1>4. Len(table[s]) * BlockSize \in Nat /\ ncached[s] + nsched[s] <= Len(table[s]) * BlockSize
  <2>1. Len(table[s]) * BlockSize \in Nat
    BY <1>1, PoolAssumption
  <2> QED BY <1>1, <1>3, <2>1
<1>5. /\ bhash' \in [Block -> CacheKey]
      /\ IndexSound'
      /\ \A b \in Block \ Range(table[s]) : bhash'[b] = bhash[b]
      /\ \A i \in 1..Len(table[s]) :
           i > (ncached[s] + nsched[s]) \div BlockSize =>
               bhash'[table[s][i]] = bhash[table[s][i]]
  BY <1>1, <1>3, <1>4, HashBlocksKeepsIndex
<1>6. ASSUME NEW r \in SeqId \ {s}, NEW i \in 1..Len(table[r]), i > ncached[r] \div BlockSize
      PROVE  bhash'[table[r][i]] = NoHash
  <2>1. bhash[table[r][i]] = NoHash /\ ref[table[r][i]] = 1 /\ table[r][i] \in Block
    BY <1>2, <1>6 DEF TailExclusive, PoolTypeOK
  <2>2. table[r][i] \notin Range(table[s])
    BY <1>2, <2>1, TailNotShared
  <2> QED BY <1>5, <2>1, <2>2
<1>7. ASSUME NEW i \in 1..Len(table[s]), i > (ncached[s] + nsched[s]) \div BlockSize
      PROVE  bhash'[table[s][i]] = NoHash /\ ref[table[s][i]] = 1
  <2>1. i > ncached[s] \div BlockSize
    <3> DEFINE a == ncached[s]
               z == ncached[s] + nsched[s]
    <3>1. a \in Nat /\ z \in Nat /\ a <= z /\ i \in Nat /\ i > z \div BlockSize
      BY <1>1, <1>7
    <3>2. a \div BlockSize <= z \div BlockSize /\ a \div BlockSize \in Nat /\ z \div BlockSize \in Nat
      <4> HIDE DEF a, z
      <4> QED BY <3>1, PoolAssumption
    <3> HIDE DEF z
    <3> QED BY <3>1, <3>2
  <2> QED BY <1>2, <1>5, <1>7, <2>1 DEF TailExclusive
<1> QED BY <1>5, <1>6, <1>7

(* postprocess of a prompt that stays incomplete.                          *)
LEMMA PostChunkKeepsIInv ==
    ASSUME IInv, PostChunk
    PROVE  IInv'
<1> DEFINE s == Head(batch)
<1>1. /\ EngineTypeOK /\ PoolInv /\ QueuesOK /\ TablesCover /\ BatchCovered
      /\ Range(waiting) \subseteq SeqId /\ Range(running) \subseteq SeqId
      /\ Range(batch) \subseteq SeqId
      /\ \A r \in SeqId : NumTokens(r) \in Nat /\ ncached[r] \in Nat /\ nsched[r] \in Nat
  BY IInvParts
<1>2. /\ phase \in {"postPrefill", "postDecode"} /\ NextPost
      /\ phase = "postPrefill" /\ ncached[s] + nsched[s] < NumTokens(s)
      /\ HashBlocks(s, nsched[s])
      /\ ncached' = [ncached EXCEPT ![s] = @ + nsched[s]]
      /\ nsched'  = [nsched EXCEPT ![s] = 0]
      /\ UNCHANGED <<tokens, table, free, used, ref, waiting, running, status, nprompt>>
  BY DEF PostChunk, PromptIncomplete
<1>3. /\ batch # << >> /\ s \in SeqId /\ s \in Range(batch)
      /\ batch' \in Seq(SeqId) /\ Injective(batch') /\ Range(batch') = Range(batch) \ {s}
      /\ phase' = IF batch' = << >> THEN "idle" ELSE phase
      /\ nbatched' \in 0..MaxBatchedTokens
      /\ cur' = cur /\ cur = NoSeq /\ cur \notin SeqId
      /\ Scheduled = << >> /\ Scheduled' = << >>
  BY <1>2, NextPostFacts
<1> HIDE DEF s
<1>4. /\ ncached'[s] = ncached[s] + nsched[s] /\ nsched'[s] = 0
      /\ \A r \in SeqId \ {s} : ncached'[r] = ncached[r] /\ nsched'[r] = nsched[r]
      /\ ncached' \in [SeqId -> Nat] /\ nsched' \in [SeqId -> Nat]
  <2>1. ncached' = [ncached EXCEPT ![s] = ncached[s] + nsched[s]] /\ ncached[s] + nsched[s] \in Nat
    BY <1>1, <1>2, <1>3
  <2>2. ncached \in [SeqId -> Nat] /\ nsched \in [SeqId -> Nat]
    BY <1>1 DEF EngineTypeOK, PoolTypeOK
  <2> QED BY <1>2, <1>3, <2>1, <2>2
<1>5. /\ bhash' \in [Block -> CacheKey]
      /\ IndexSound'
      /\ \A r \in SeqId \ {s} : \A i \in 1..Len(table[r]) :
           i > ncached[r] \div BlockSize => bhash'[table[r][i]] = NoHash
      /\ \A i \in 1..Len(table[s]) :
           i > (ncached[s] + nsched[s]) \div BlockSize =>
               bhash'[table[s][i]] = NoHash /\ ref[table[s][i]] = 1
  BY <1>2, <1>3, HashBatchHead
<1>6. EngineTypeOK'
  BY <1>1, <1>2, <1>3, <1>4, <1>5 DEF EngineTypeOK, PoolTypeOK, Phases
<1>7. PoolInv'
  <2>1. PoolTypeOK' /\ RefCountsExact' /\ PoolPartition'
    BY <1>1, <1>2, <1>6 DEF EngineTypeOK, PoolInv, RefCountsExact, Owners, PoolPartition
  <2>2. TailExclusive'
    <3> SUFFICES ASSUME NEW r \in SeqId, NEW i \in 1..Len(table[r]),
                        i > ncached'[r] \div BlockSize
                 PROVE  bhash'[table[r][i]] = NoHash /\ ref[table[r][i]] = 1
      BY <1>2 DEF TailExclusive
    <3>1. CASE r = s
      BY <1>4, <1>5, <3>1
    <3>2. CASE r # s
      BY <1>1, <1>4, <1>5, <3>2 DEF PoolInv, TailExclusive
    <3> QED BY <3>1, <3>2
  <2> QED BY <1>5, <2>1, <2>2 DEF PoolInv
<1>8. QueuesOK'
  BY <1>1, <1>2, <1>3 DEF QueuesOK, LiveSet, Live
<1>9. \A r \in SeqId : NumTokens(r)' = NumTokens(r) /\ (Live(r)' <=> Live(r))
  BY <1>2 DEF NumTokens, Live
<1>10. TablesCover'
  <2>1. \A r \in SeqId : table[r] # << >> =>
          /\ Live(r)' /\ ncached'[r] < NumTokens(r)'
          /\ NumTokens(r)' - 1 <= Len(table[r]) * BlockSize
    BY <1>1, <1>2, <1>4, <1>9 DEF TablesCover
  <2>2. \A r \in Range(waiting) : table[r] # << >> => NumTokens(r)' <= Len(table[r]) * BlockSize
    BY <1>1, <1>9 DEF TablesCover
  <2> QED BY <1>1, <1>2, <1>3, <1>9, <2>1, <2>2 DEF TablesCover
<1>11. BatchCovered'
  <2>1. \A r \in Range(batch') : /\ r \in Range(batch) /\ r \in SeqId
                                 /\ ncached'[r] = ncached[r] /\ nsched'[r] = nsched[r]
                                 /\ NumTokens(r)' = NumTokens(r)
    BY <1>1, <1>3, <1>4, <1>9
  <2> QED BY <1>1, <1>2, <1>3, <2>1 DEF BatchCovered, RunPhases, PrefillPhases
<1> QED BY <1>6, <1>7, <1>8, <1>10, <1>11, IInvPutTogether

(* postprocess of a request that gets a token, and finishes or goes on.    *)
LEMMA PostTokenKeepsIInv ==
    ASSUME IInv, NEW t \in Sampled, NEW s \in SeqId, s = Head(batch), PostToken(t)
    PROVE  IInv'
<1> DEFINE done == Reason(s, t) # "none"
<1>1. /\ EngineTypeOK /\ PoolInv /\ QueuesOK /\ TablesCover /\ BatchCovered
      /\ Range(waiting) \subseteq SeqId /\ Range(running) \subseteq SeqId
      /\ Range(batch) \subseteq SeqId /\ running \in Seq(SeqId)
      /\ \A r \in SeqId : /\ NumTokens(r) \in Nat /\ ncached[r] \in Nat /\ nsched[r] \in Nat
                          /\ tokens[r] \in Seq(Token)
                          /\ table[r] \in Seq(Block) /\ Len(table[r]) \in Nat
  BY IInvParts
<1>2. /\ phase \in {"postPrefill", "postDecode"} /\ NextPost
      /\ ~ PromptIncomplete(s)
      /\ HashBlocks(s, nsched[s])
      /\ tokens' = [tokens EXCEPT ![s] = Append(@, [id |-> t, mm |-> NoVisual])]
      /\ nsched' = [nsched EXCEPT ![s] = 0]
      /\ IF Reason(s, t) = "none"
         THEN /\ ncached' = [ncached EXCEPT ![s] = @ + nsched[s]]
              /\ UNCHANGED <<table, free, used, ref, status, running>>
         ELSE /\ status' = [status EXCEPT ![s] = Reason(s, t)]
              /\ Deallocate(s)
              /\ running' = Without(running, s)
      /\ UNCHANGED <<waiting, nprompt>>
  BY DEF PostToken
<1>3. /\ batch # << >> /\ s \in SeqId /\ s \in Range(batch)
      /\ batch' \in Seq(SeqId) /\ Injective(batch') /\ Range(batch') = Range(batch) \ {s}
      /\ phase' = IF batch' = << >> THEN "idle" ELSE phase
      /\ nbatched' \in 0..MaxBatchedTokens
      /\ cur' = cur /\ cur = NoSeq /\ cur \notin SeqId
      /\ Scheduled = << >> /\ Scheduled' = << >>
  BY <1>2, NextPostFacts
<1>r. Reason(s, t) \in {"none", "stop", "length"}
  <2>1. t = Eos => Reason(s, t) = "stop"
    BY DEF Reason
  <2>2. t # Eos => Reason(s, t) \in {"none", "length"}
    BY DEF Reason
  <2> QED BY <2>1, <2>2
<1>4. bhash' \in [Block -> CacheKey] /\ IndexSound'
  BY <1>2, <1>3, HashBatchHead
<1>5. /\ \A r \in SeqId \ {s} : \A i \in 1..Len(table[r]) :
           i > ncached[r] \div BlockSize => bhash'[table[r][i]] = NoHash
      /\ \A i \in 1..Len(table[s]) :
           i > (ncached[s] + nsched[s]) \div BlockSize =>
               bhash'[table[s][i]] = NoHash /\ ref[table[s][i]] = 1
  BY <1>2, <1>3, HashBatchHead
<1>6. s \in Range(running) /\ s \notin Range(waiting) /\ Live(s)
  <2>1. s \in Range(running)
    BY <1>1, <1>2, <1>3 DEF BatchCovered, RunPhases, PrefillPhases, PromptIncomplete
  <2> QED BY <1>1, <1>3, <2>1 DEF QueuesOK, OnePlaceEach, LiveSet
<1>7. /\ table[s] # << >> /\ NumTokens(s) <= Len(table[s]) * BlockSize
      /\ ncached[s] + nsched[s] <= NumTokens(s)
  BY <1>1, <1>3 DEF BatchCovered
<1>8. /\ tokens' \in [SeqId -> Seq(Token)]
      /\ NumTokens(s)' = NumTokens(s) + 1
      /\ \A r \in SeqId \ {s} : NumTokens(r)' = NumTokens(r)
  <2> DEFINE new == [id |-> t, mm |-> NoVisual]
  <2>1. new \in Token
    BY SchedulerAssumption DEF Token
  <2> HIDE DEF new
  <2>2. tokens' = [tokens EXCEPT ![s] = Append(tokens[s], new)]
    BY <1>2 DEF new
  <2>3. Append(tokens[s], new) \in Seq(Token) /\ Len(Append(tokens[s], new)) = NumTokens(s) + 1
    BY <1>1, <1>3, <2>1, AppendProperties DEF NumTokens
  <2>4. tokens \in [SeqId -> Seq(Token)]
    BY <1>1 DEF EngineTypeOK, PoolTypeOK
  <2>5. tokens'[s] = Append(tokens[s], new) /\ \A r \in SeqId \ {s} : tokens'[r] = tokens[r]
    BY <1>3, <2>2, <2>4
  <2>6. tokens' \in [SeqId -> Seq(Token)]
    BY <2>2, <2>3, <2>4
  <2> QED BY <2>3, <2>5, <2>6 DEF NumTokens
<1>9. /\ nsched' \in [SeqId -> Nat]
      /\ \A r \in SeqId \ {s} : nsched'[r] = nsched[r]
  BY <1>1, <1>2 DEF EngineTypeOK
(* What the two outcomes, going on and finishing, have in common.          *)
<1>10. /\ table' \in [SeqId -> Seq(Block)] /\ ncached' \in [SeqId -> Nat]
       /\ free' \in Seq(Block) /\ used' \subseteq Block /\ ref' \in [Block -> Nat]
       /\ RefCountsExact' /\ PoolPartition'
       /\ \A r \in SeqId \ {s} : table'[r] = table[r] /\ ncached'[r] = ncached[r]
       /\ IF done THEN table'[s] = << >>
          ELSE table'[s] = table[s] /\ ncached'[s] = ncached[s] + nsched[s]
  <2>1. CASE done
    <3>1. /\ table'   = [table EXCEPT ![s] = << >>]
          /\ ncached' = [ncached EXCEPT ![s] = 0]
          /\ table' \in [SeqId -> Seq(Block)] /\ ncached' \in [SeqId -> Nat]
          /\ free' \in Seq(Block) /\ used' \subseteq Block /\ ref' \in [Block -> Nat]
          /\ RefCountsExact' /\ PoolPartition'
      BY <1>1, <1>2, <1>3, <2>1, DeallocateKeepsRefs DEF PoolInv
    <3> QED BY <1>1, <1>3, <2>1, <3>1 DEF EngineTypeOK, PoolTypeOK
  <2>2. CASE ~ done
    <3>1. UNCHANGED <<table, free, used, ref>>
      BY <1>2, <2>2
    <3>2. RefCountsExact' /\ PoolPartition'
      BY <1>1, <3>1 DEF PoolInv, RefCountsExact, Owners, PoolPartition
    <3>3. ncached' = [ncached EXCEPT ![s] = ncached[s] + nsched[s]]
      BY <1>2, <2>2
    <3>4. ncached[s] + nsched[s] \in Nat /\ ncached \in [SeqId -> Nat]
      <4>1. ncached[s] \in Nat /\ nsched[s] \in Nat
        BY <1>1
      <4>2. ncached \in [SeqId -> Nat]
        BY <1>1 DEF EngineTypeOK, PoolTypeOK
      <4> QED BY <4>1, <4>2
    <3>5. /\ ncached' \in [SeqId -> Nat] /\ ncached'[s] = ncached[s] + nsched[s]
          /\ \A r \in SeqId \ {s} : ncached'[r] = ncached[r]
      BY <1>3, <3>3, <3>4
    <3>6. /\ table' \in [SeqId -> Seq(Block)] /\ free' \in Seq(Block)
          /\ used' \subseteq Block /\ ref' \in [Block -> Nat]
      BY <1>1, <3>1 DEF EngineTypeOK, PoolTypeOK
    <3> QED BY <2>2, <3>1, <3>2, <3>5, <3>6
  <2> QED BY <2>1, <2>2
<1>11. /\ running' \in Seq(SeqId) /\ Injective(running')
       /\ Range(running') = IF done THEN Range(running) \ {s} ELSE Range(running)
       /\ status' \in [SeqId -> {"new", "waiting", "running"} \cup Finished]
       /\ Live(s)' <=> ~ done
       /\ \A r \in SeqId \ {s} : Live(r)' <=> Live(r)
  <2>1. CASE done
    <3>1. running' = Without(running, s) /\ status' = [status EXCEPT ![s] = Reason(s, t)]
      BY <1>2, <2>1
    <3>2. Reason(s, t) \in {"stop", "length"}
      BY <1>r, <2>1
    <3>3. running' \in Seq(SeqId) /\ Injective(running') /\ Range(running') = Range(running) \ {s}
      BY <1>1, <3>1, WithoutProperties DEF QueuesOK, OnePlaceEach
    <3> QED BY <1>1, <1>3, <2>1, <3>1, <3>2, <3>3 DEF EngineTypeOK, Finished, Live
  <2>2. CASE ~ done
    <3>1. running' = running /\ status' = status
      BY <1>2, <2>2
    <3> QED BY <1>1, <1>6, <2>2, <3>1 DEF EngineTypeOK, Live, QueuesOK, OnePlaceEach
  <2> QED BY <2>1, <2>2
<1>12. EngineTypeOK'
  BY <1>1, <1>2, <1>3, <1>4, <1>8, <1>9, <1>10, <1>11 DEF EngineTypeOK, PoolTypeOK, Phases
<1>13. PoolInv'
  <2>1. TailExclusive'
    <3> SUFFICES ASSUME NEW r \in SeqId, NEW i \in 1..Len(table'[r]),
                        i > ncached'[r] \div BlockSize
                 PROVE  bhash'[table'[r][i]] = NoHash /\ ref'[table'[r][i]] = 1
      BY DEF TailExclusive
    <3>1. CASE r # s
      <4>1. /\ table'[r] = table[r] /\ ncached'[r] = ncached[r] /\ table[r][i] \in Block
        BY <1>1, <1>10, <3>1
      <4>2. bhash'[table[r][i]] = NoHash /\ ref[table[r][i]] = 1
        BY <1>1, <1>5, <3>1, <4>1 DEF PoolInv, TailExclusive
      <4>3. ref'[table[r][i]] = ref[table[r][i]]
        <5>1. table[r][i] \notin Range(table[s])
          BY <1>1, <1>3, <3>1, <4>1, <4>2, TailNotShared DEF PoolInv
        <5>2. CASE done
          BY <1>2, <4>1, <5>1, <5>2 DEF Deallocate
        <5>3. CASE ~ done
          BY <1>2, <5>3
        <5> QED BY <5>2, <5>3
      <4> QED BY <4>1, <4>2, <4>3
    <3>2. CASE r = s
      <4>1. ~ done
        <5> SUFFICES ASSUME done PROVE FALSE
          OBVIOUS
        <5>1. table'[s] = << >>
          BY <1>10
        <5> QED BY <3>2, <5>1
      <4>2. table'[s] = table[s] /\ ncached'[s] = ncached[s] + nsched[s] /\ ref' = ref
        BY <1>2, <1>10, <4>1
      <4> QED BY <1>5, <3>2, <4>2
    <3> QED BY <3>1, <3>2
  <2> QED BY <1>4, <1>10, <1>12, <2>1 DEF PoolInv, EngineTypeOK
<1>14. QueuesOK'
  <2>1. LiveSet' = IF done THEN LiveSet \ {s} ELSE LiveSet
    BY <1>6, <1>11 DEF LiveSet
  <2>2. CASE done
    BY <1>1, <1>2, <1>3, <1>6, <1>11, <2>1, <2>2 DEF QueuesOK, OnePlaceEach
  <2>3. CASE ~ done
    BY <1>1, <1>2, <1>3, <1>11, <2>1, <2>3 DEF QueuesOK, OnePlaceEach
  <2> QED BY <2>2, <2>3
<1>15. TablesCover'
  <2>1. \A r \in SeqId : Live(r)' => NumTokens(r)' > 0
    <3> SUFFICES ASSUME NEW r \in SeqId, Live(r)' PROVE NumTokens(r)' > 0
      OBVIOUS
    <3>1. CASE r = s
      BY <1>1, <1>3, <1>8, <3>1
    <3>2. CASE r # s
      BY <1>1, <1>8, <1>11, <3>2 DEF TablesCover
    <3> QED BY <3>1, <3>2
  <2>2. \A r \in SeqId : table'[r] # << >> =>
          /\ Live(r)' /\ ncached'[r] < NumTokens(r)'
          /\ NumTokens(r)' - 1 <= Len(table'[r]) * BlockSize
    <3> SUFFICES ASSUME NEW r \in SeqId, table'[r] # << >>
                 PROVE  /\ Live(r)' /\ ncached'[r] < NumTokens(r)'
                        /\ NumTokens(r)' - 1 <= Len(table'[r]) * BlockSize
      OBVIOUS
    <3>1. CASE r = s
      <4>1. ~ done /\ table'[s] = table[s] /\ ncached'[s] = ncached[s] + nsched[s]
        BY <1>10, <3>1
      <4>2. Live(s)' /\ NumTokens(s)' = NumTokens(s) + 1
        BY <1>8, <1>11, <4>1
      <4>3. ncached[s] + nsched[s] < NumTokens(s) + 1 /\ NumTokens(s) + 1 - 1 = NumTokens(s)
        <5>1. ncached[s] \in Nat /\ nsched[s] \in Nat /\ NumTokens(s) \in Nat
          BY <1>1, <1>3
        <5>2. ncached[s] + nsched[s] <= NumTokens(s)
          BY <1>7
        <5> QED BY <5>1, <5>2
      <4>4. ncached'[s] < NumTokens(s)'
        BY <4>1, <4>2, <4>3
      <4>5. NumTokens(s)' - 1 <= Len(table'[s]) * BlockSize
        <5>1. NumTokens(s)' - 1 = NumTokens(s)
          BY <1>1, <4>2
        <5> QED BY <1>7, <4>1, <5>1
      <4> QED BY <3>1, <4>2, <4>4, <4>5
    <3>2. CASE r # s
      <4>1. /\ table'[r] = table[r] /\ ncached'[r] = ncached[r]
            /\ NumTokens(r)' = NumTokens(r) /\ (Live(r)' <=> Live(r))
        BY <1>8, <1>10, <1>11, <3>2
      <4> QED BY <1>1, <4>1 DEF TablesCover
    <3> QED BY <3>1, <3>2
  <2>3. \A r \in Range(waiting) : table'[r] # << >> => NumTokens(r)' <= Len(table'[r]) * BlockSize
    <3> SUFFICES ASSUME NEW r \in Range(waiting)
                 PROVE  table'[r] # << >> => NumTokens(r)' <= Len(table'[r]) * BlockSize
      OBVIOUS
    <3>1. r \in SeqId \ {s}
      BY <1>1, <1>6
    <3>2. table'[r] = table[r] /\ NumTokens(r)' = NumTokens(r)
      BY <1>8, <1>10, <3>1
    <3> QED BY <1>1, <3>2 DEF TablesCover
  <2>4. \A r \in Range(running') : table'[r] # << >>
    <3> SUFFICES ASSUME NEW r \in Range(running') PROVE table'[r] # << >>
      OBVIOUS
    <3>1. r \in Range(running) /\ r \in SeqId /\ (done => r # s)
      BY <1>1, <1>11
    <3>2. table[r] # << >>
      BY <1>1, <3>1 DEF TablesCover
    <3>3. table'[r] = table[r]
      BY <1>10, <3>1
    <3> QED BY <3>2, <3>3
  <2> QED BY <1>2, <1>3, <2>1, <2>2, <2>3, <2>4 DEF TablesCover
<1>16. BatchCovered'
  <2>1. \A r \in Range(batch') :
          /\ r \in Range(batch) /\ r \in SeqId \ {s}
          /\ table'[r] = table[r] /\ ncached'[r] = ncached[r] /\ nsched'[r] = nsched[r]
          /\ NumTokens(r)' = NumTokens(r)
    BY <1>1, <1>3, <1>8, <1>9, <1>10
  <2>2. \A r \in Range(batch') : r \in Range(running) => r \in Range(running')
    BY <1>11, <2>1
  <2> QED BY <1>1, <1>2, <1>3, <2>1, <2>2 DEF BatchCovered, RunPhases, PrefillPhases
<1> QED BY <1>12, <1>13, <1>14, <1>15, <1>16, IInvPutTogether

-----------------------------------------------------------------------------
(* The theorems.                                                           *)

(* The initial state satisfies the inductive invariant.                    *)
LEMMA InitIInv == Init => IInv
<1> SUFFICES ASSUME Init PROVE IInv
  OBVIOUS
<1>1. /\ free  = [ i \in 1..NumBlocks |-> i - 1 ] /\ used = {}
      /\ ref   = [ b \in Block |-> 0 ]
      /\ bhash = [ b \in Block |-> NoHash ]
      /\ hmap  = << >>
      /\ tokens  = [ s \in SeqId |-> << >> ]
      /\ table   = [ s \in SeqId |-> << >> ]
      /\ ncached = [ s \in SeqId |-> 0 ]
      /\ waiting = << >> /\ running = << >>
      /\ status  = [ s \in SeqId |-> "new" ]
      /\ nprompt = [ s \in SeqId |-> 0 ]
      /\ nsched  = [ s \in SeqId |-> 0 ]
      /\ phase = "idle" /\ batch = << >> /\ nbatched = 0 /\ cur = NoSeq
  BY DEF Init, InitScheduler, InitPool
<1>2. \A S : << >> \in Seq(S)
  OBVIOUS
<1>3. /\ free \in Seq(Block) /\ Len(free) = NumBlocks /\ Injective(free)
      /\ Range(free) = Block
  <2>1. free \in Seq(Block) /\ Len(free) = NumBlocks
    BY <1>1, PoolAssumption DEF Block
  <2>2. \A i \in 1..NumBlocks : free[i] = i - 1
    BY <1>1
  <2>3. Injective(free)
    BY <2>1, <2>2, PoolAssumption DEF Injective
  <2>4. Block \subseteq Range(free)
    <3> SUFFICES ASSUME NEW b \in Block PROVE b \in Range(free)
      OBVIOUS
    <3>1. b + 1 \in 1..NumBlocks /\ free[b + 1] = b
      BY <2>2, PoolAssumption DEF Block
    <3> QED BY <2>1, <3>1, RangeEquality
  <2> QED BY <2>1, <2>3, <2>4, RangeOfSeq
<1>4. PoolTypeOK
  BY <1>1, <1>2, <1>3 DEF PoolTypeOK, NoHash, CacheKey
<1>5. EngineTypeOK
  BY <1>1, <1>2, <1>4, SchedulerAssumption DEF EngineTypeOK, Phases
<1>6. \A s \in SeqId : table[s] = << >> /\ Range(table[s]) = {} /\ Len(table[s]) = 0 /\ ~ Live(s)
  BY <1>1 DEF Range, Live
<1>7. RefCountsExact
  <2>1. \A b \in Block : Owners(b) = {}
    BY <1>6 DEF Owners
  <2>2. IsFiniteSet({}) /\ Cardinality({}) = 0
    BY FS_EmptySet
  <2>3. \A b \in Block : IsFiniteSet(Owners(b)) /\ ref[b] = Cardinality(Owners(b))
    BY <1>1, <2>1, <2>2
  <2>4. \A s \in SeqId : Injective(table[s])
    BY <1>6 DEF Injective
  <2> QED BY <2>3, <2>4 DEF RefCountsExact
<1>8. PoolPartition
  BY <1>1, <1>3 DEF PoolPartition
<1>9. IndexSound /\ TailExclusive
  BY <1>1, <1>6 DEF IndexSound, TailExclusive
<1>10. Range(<< >>) = {} /\ Injective(<< >>)
  BY DEF Range, Injective
<1>11. QueuesOK
  <2>1. LiveSet = {} /\ Scheduled = << >>
    BY <1>1, <1>6 DEF LiveSet, Scheduled
  <2> QED BY <1>1, <1>10, <2>1, SchedulerAssumption DEF QueuesOK, OnePlaceEach
<1>12. TablesCover
  BY <1>1, <1>6, <1>10 DEF TablesCover
<1>13. BatchCovered
  BY <1>1, <1>10 DEF BatchCovered, RunPhases
<1>14. PoolInv
  BY <1>4, <1>7, <1>8, <1>9 DEF PoolInv
<1> QED BY <1>5, <1>11, <1>12, <1>13, <1>14, QueuesSplit DEF IInv

(* One step: an action of the engine or of a client, or a stutter.         *)
LEMMA NextIInv == IInv /\ [Next]_vars => IInv'
<1> SUFFICES ASSUME IInv, [Next]_vars PROVE IInv'
  OBVIOUS
<1>1. CASE StartStep
  BY <1>1, StartStepKeepsIInv
<1>2. CASE PrefillHead
  BY <1>2, PrefillHeadKeepsIInv
<1>3. CASE EndPrefill
  BY <1>3, EndPrefillKeepsIInv
<1>4. CASE DecodeHead
  BY <1>4, DecodeHeadKeepsIInv
<1>5. CASE PreemptTail
  BY <1>5, PreemptTailKeepsIInv
<1>6. CASE PreemptSelf
  BY <1>6, PreemptSelfKeepsIInv
<1>7. CASE ScheduleDecode
  BY <1>7, ScheduleDecodeKeepsIInv
<1>8. CASE EndDecode
  BY <1>8, EndDecodeKeepsIInv
<1>9. CASE Execute
  BY <1>9, RunKeepsIInv DEF Execute
<1>10. CASE ExecuteRaises
  BY <1>10, RunRaisesKeepsIInv DEF ExecuteRaises
<1>11. CASE PostChunk
  BY <1>11, PostChunkKeepsIInv
<1>12. ASSUME NEW t \in Sampled, PostToken(t) PROVE IInv'
  <2>1. Head(batch) \in SeqId
    BY <1>12, NextPostFacts DEF PostToken
  <2>2. PICK s \in SeqId : s = Head(batch)
    BY <2>1
  <2> QED BY <1>12, <2>2, PostTokenKeepsIInv
<1>13. ASSUME NEW s \in SeqId, Abort(s) PROVE IInv'
  BY <1>13, CancelKeepsIInv DEF Abort
<1>14. ASSUME NEW s \in SeqId, NEW p \in Prompts, Add(s, p) PROVE IInv'
  BY <1>14, AddKeepsIInv
<1>15. CASE UNCHANGED vars
  <2>1. /\ UNCHANGED bmVars
        /\ UNCHANGED <<tokens, table, ncached, waiting, running, status, nprompt, nsched,
                       phase, batch, nbatched, cur>>
    BY <1>15 DEF vars, schedVars, bmVars, queueVars, stepVars
  <2>2. /\ EngineTypeOK /\ PoolInv /\ QueuesOK /\ TablesCover /\ BatchCovered
    BY IInvParts
  <2>3. PoolInv'
    BY <2>1, <2>2, PoolUnchanged
  <2>4. EngineTypeOK'
    BY <2>1, <2>2, <2>3 DEF EngineTypeOK, PoolInv
  <2>5. QueuesOK'
    BY <2>1, <2>2 DEF QueuesOK, Scheduled, LiveSet, Live
  <2>6. TablesCover'
    BY <2>1, <2>2 DEF TablesCover, Live, NumTokens
  <2>7. BatchCovered'
    BY <2>1, <2>2 DEF BatchCovered, NumTokens, Remaining
  <2> QED BY <2>3, <2>4, <2>5, <2>6, <2>7, IInvPutTogether
<1> QED BY <1>1, <1>2, <1>3, <1>4, <1>5, <1>6, <1>7, <1>8, <1>9, <1>10, <1>11, <1>12,
           <1>13, <1>14, <1>15 DEF Next, EngineStep

(* IInv is an invariant of the engine.                                     *)
THEOREM InductiveInvariant == Spec => []IInv
  BY InitIInv, NextIInv, PTL DEF Spec

(* Every step but a stutter brings the history up to date.                 *)
LEMMA RemembersSome ==
    ASSUME [Next]_vars
    PROVE  UNCHANGED vars \/ Remember({}) \/ Remember(Range(batch))
  BY DEF Next, EngineStep, Execute, ExecuteRaises, CacheKept

(* The types of the engine's state are never violated.                     *)
THEOREM TypeCorrect == Spec => []TypeOK
<1> DEFINE HistoryOK == interrupted \subseteq SeqId /\ resumed \in BOOLEAN
<1>1. Init => HistoryOK
  BY DEF Init
<1>2. IInv /\ HistoryOK /\ [Next]_vars => HistoryOK'
  <2> SUFFICES ASSUME IInv, HistoryOK, [Next]_vars PROVE HistoryOK'
    OBVIOUS
  <2>1. Range(batch) \subseteq SeqId
    BY IInvParts
  <2>2. UNCHANGED vars \/ Remember({}) \/ Remember(Range(batch))
    BY RemembersSome
  <2>3. CASE UNCHANGED vars
    BY <2>3 DEF vars
  <2>4. CASE Remember({}) \/ Remember(Range(batch))
    BY <2>1, <2>4 DEF Remember
  <2> QED BY <2>2, <2>3, <2>4
<1>3. IInv /\ HistoryOK => TypeOK
  BY DEF IInv, TypeOK
<1> HIDE DEF HistoryOK
<1> QED BY <1>1, <1>2, <1>3, InductiveInvariant, PTL DEF Spec

(* The reference count of a block is at all times the number of requests   *)
(* whose block table contains it.                                          *)
THEOREM RefCountsAlwaysExact == Spec => []RefCountsExact
<1>1. IInv => RefCountsExact
  BY DEF IInv, PoolInv
<1> QED BY <1>1, InductiveInvariant, PTL

(* The free list and the used set always split the blocks between them.    *)
THEOREM PoolAlwaysPartitioned == Spec => []PoolPartition
<1>1. IInv => PoolPartition
  BY DEF IInv, PoolInv
<1> QED BY <1>1, InductiveInvariant, PTL

(* The prefix index never points at a block that holds something else.     *)
THEOREM IndexAlwaysSound == Spec => []IndexSound
<1>1. IInv => IndexSound
  BY DEF IInv, PoolInv
<1> QED BY <1>1, InductiveInvariant, PTL

(* Every live request is in exactly one place of the scheduler.            *)
THEOREM NoRequestEverLost == Spec => []NoRequestLost
<1>1. IInv => NoRequestLost
  BY DEF IInv
<1> QED BY <1>1, InductiveInvariant, PTL

(* A run stores only into blocks that no other request references and that *)
(* the prefix index cannot hand out: the writes of a run start at the      *)
(* cached tokens, and the blocks from there on belong to one request.      *)
LEMMA WritesAreExclusive ==
    ASSUME IInv
    PROVE  WritesExclusive
<1>1. /\ PoolInv /\ BatchCovered /\ TablesCover /\ Range(batch) \subseteq SeqId
      /\ \A s \in SeqId : /\ NumTokens(s) \in Nat /\ ncached[s] \in Nat /\ nsched[s] \in Nat
                          /\ table[s] \in Seq(Block) /\ Len(table[s]) \in Nat
  BY IInvParts
<1>2. TailExclusive
  BY <1>1 DEF PoolInv
<1>3. ASSUME NEW s \in Range(batch), NEW p \in ncached[s]..NumTokens(s) - 1
      PROVE  ref[BlockAt(s, p)] = 1 /\ bhash[BlockAt(s, p)] = NoHash
  <2> DEFINE k == Len(table[s])
             a == ncached[s]
  <2>1. s \in SeqId /\ p \in Nat /\ a \in Nat /\ a <= p /\ k \in Nat
    BY <1>1
  <2>2. NumTokens(s) <= k * BlockSize /\ p < NumTokens(s) /\ NumTokens(s) \in Nat
    BY <1>1, <2>1 DEF BatchCovered
  <2> HIDE DEF k, a
  <2>3. k * BlockSize \in Nat /\ p < k * BlockSize
    <3>1. k * BlockSize \in Nat
      BY <2>1, PoolAssumption
    <3> QED BY <2>1, <2>2, <3>1
  <2>4. p \div BlockSize < k /\ p \div BlockSize \in Nat
    BY <2>1, <2>3, PoolAssumption, DivBounds, DivFacts
  <2>5. a \div BlockSize <= p \div BlockSize /\ a \div BlockSize \in Nat
    BY <2>1, PoolAssumption
  <2>6. p \div BlockSize + 1 \in 1..k /\ p \div BlockSize + 1 > a \div BlockSize
    BY <2>1, <2>4, <2>5
  <2> QED BY <1>2, <2>1, <2>6 DEF TailExclusive, BlockAt, k, a
<1>4. ASSUME NEW s \in Range(batch)
      PROVE  ref[Last(table[s])] = 1 /\ bhash[Last(table[s])] = NoHash
  <2> DEFINE k == Len(table[s])
             a == ncached[s]
  <2>1. s \in SeqId /\ a \in Nat /\ k \in Nat /\ NumTokens(s) \in Nat
    BY <1>1
  <2>2. table[s] # << >> /\ NumTokens(s) <= k * BlockSize
    BY <1>1 DEF BatchCovered
  <2>3. a < NumTokens(s)
    BY <1>1, <2>1, <2>2 DEF TablesCover
  <2> HIDE DEF k, a
  <2>4. k * BlockSize \in Nat /\ a < k * BlockSize
    <3>1. k * BlockSize \in Nat
      BY <2>1, PoolAssumption
    <3> QED BY <2>1, <2>2, <2>3, <3>1
  <2>5. a \div BlockSize < k /\ a \div BlockSize \in Nat
    BY <2>1, <2>4, PoolAssumption, DivBounds, DivFacts
  <2>6. k \in 1..k /\ k > a \div BlockSize
    BY <2>1, <2>5
  <2> QED BY <1>2, <2>1, <2>6 DEF TailExclusive, Last, k, a
<1>5. CASE phase = "runPrefill"
  <2> SUFFICES ASSUME NEW s \in Range(batch), NEW w \in PrefillWrites(s)
               PROVE  ref[w.block] = 1 /\ bhash[w.block] = NoHash
    BY <1>5 DEF WritesExclusive, Writes
  <2>1. PICK p \in ncached[s]..ncached[s] + nsched[s] - 1 : w.block = BlockAt(s, p)
    BY DEF PrefillWrites, PrefillStart
  <2>2. s \in SeqId /\ ncached[s] + nsched[s] <= NumTokens(s)
    BY <1>1 DEF BatchCovered
  <2>3. p \in ncached[s]..NumTokens(s) - 1
    BY <1>1, <2>1, <2>2
  <2> QED BY <1>3, <2>1, <2>3
<1>6. CASE phase = "runDecode"
  <2> SUFFICES ASSUME NEW s \in Range(batch), NEW w \in DecodeWrites(s)
               PROVE  ref[w.block] = 1 /\ bhash[w.block] = NoHash
    BY <1>6 DEF WritesExclusive, Writes
  <2> QED BY <1>4 DEF DecodeWrites
<1> QED BY <1>5, <1>6 DEF WritesExclusive

(* No run ever stores into a block another request reads or may be handed. *)
THEOREM WritesAlwaysExclusive == Spec => []WritesExclusive
<1>1. IInv => WritesExclusive
  BY WritesAreExclusive
<1> QED BY <1>1, InductiveInvariant, PTL

-----------------------------------------------------------------------------
(* What the blocks contain.                                                *)

(* The tokens behind the first m keys of a chain.                          *)
Plain(h, m) == [ j \in 1..m |-> [id |-> h[j][1], mm |-> h[j][2]] ]

(* A block in the index, or that may enter it again, is full and holds     *)
(* what its hash stands for.                                               *)
KeyedContent ==
    \A b \in Block : bhash[b] # NoHash =>
        \E n \in 1..Len(bhash[b]) :
            /\ Len(bhash[b]) = n * BlockSize
            /\ \A o \in 0..BlockSize - 1 :
                  kv[b][o] = Plain(bhash[b], (n - 1) * BlockSize + o + 1)

(* The full blocks of the cached tokens carry the hash of their prefix.    *)
Keyed(s) ==
    \A i \in 1..ncached[s] \div BlockSize :
        i <= Len(table[s]) /\ bhash[table[s][i]] = PrefixHash(s, i)
TableKeyed == \A s \in SeqId : Keyed(s)

(* The tokens counted as cached are in the cache, and after a run those    *)
(* that were scheduled are too.                                            *)
Contents ==
    /\ \A s \in SeqId : Computed(s, ncached[s])
    /\ phase \in {"postPrefill", "postDecode"} =>
          \A s \in Range(batch) : Computed(s, ncached[s] + nsched[s])

(* No table has more blocks than its tokens need; what runs has all but    *)
(* its last token cached, and no block for that one before it is scheduled *)
(* - unless its run has raised.                                            *)
Tight(s)   == (Len(table[s]) - 1) * BlockSize < NumTokens(s)
Caught(s)  == ncached[s] = NumTokens(s) - 1
Settled(s) == Caught(s) /\ (Len(table[s]) - 1) * BlockSize < ncached[s]
InStep(s)  == s \in interrupted \/ Settled(s)
Progress ==
    /\ \A s \in SeqId : table[s] # << >> => Tight(s)
    /\ \A s \in Range(running) :
          IF s \notin Range(batch) THEN InStep(s)
          ELSE phase \in PrefillPhases => ncached[s] + nsched[s] = NumTokens(s)
    /\ cur # NoSeq => InStep(cur)
    /\ phase \notin PrefillPhases => \A s \in Range(batch) : Caught(s) /\ nsched[s] = 1

(* What the cache keeps until a request whose run has raised is decoded.   *)
CacheInv == KeyedContent /\ TableKeyed /\ Contents /\ Progress

-----------------------------------------------------------------------------
(* Prefixes and the hashes that stand for them.                            *)

(* The tokens behind the hash of a prefix are that prefix.                 *)
LEMMA PlainPrefix ==
    ASSUME NEW s, tokens[s] \in Seq(Token), NEW i \in Nat,
           i * BlockSize <= NumTokens(s), NEW m \in 0..i * BlockSize
    PROVE  Plain(PrefixHash(s, i), m) = SubSeq(tokens[s], 1, m)
<1> DEFINE T == tokens[s]
           N == i * BlockSize
<1>1. N \in Nat /\ T \in Seq(Token) /\ N <= Len(T) /\ m \in 0..N
  BY PoolAssumption DEF NumTokens
<1>2. ASSUME NEW t \in Token
      PROVE  [id |-> CacheToken(t)[1], mm |-> CacheToken(t)[2]] = t
  BY DEF Token, CacheToken
<1>3. \A j \in 1..N : PrefixHash(s, i)[j] = CacheToken(T[j])
  BY DEF PrefixHash
<1> HIDE DEF T, N
<1>4. ASSUME NEW j \in 1..m
      PROVE  [id |-> PrefixHash(s, i)[j][1], mm |-> PrefixHash(s, i)[j][2]] = T[j]
  <2>1. j \in 1..N /\ T[j] \in Token
    BY <1>1
  <2> QED BY <1>2, <1>3, <2>1
<1>5. Plain(PrefixHash(s, i), m) = [ j \in 1..m |-> T[j] ]
  BY <1>4 DEF Plain
<1>6. SubSeq(T, 1, m) = [ j \in 1..m |-> T[j] ]
  BY <1>1
<1> QED BY <1>5, <1>6 DEF T

(* Extending the hash of a prefix by the keys of the next blocks gives the *)
(* hash of the longer prefix.                                              *)
LEMMA ChainIsPrefix ==
    ASSUME NEW s, NEW m \in Nat, NEW n \in Nat, m <= n
    PROVE  ChainFrom(PrefixHash(s, m), s, m, n) = PrefixHash(s, n)
<1> DEFINE M == m * BlockSize
           N == n * BlockSize
           a == PrefixHash(s, m)
           z == [ j \in 1..(n - m) * BlockSize |-> CacheToken(tokens[s][M + j]) ]
           K(j) == CacheToken(tokens[s][j])
<1>1. M \in Nat /\ N \in Nat /\ M <= N /\ (n - m) * BlockSize = N - M
  BY PoolAssumption
<1> HIDE DEF M, N
<1>2. a = [ j \in 1..M |-> K(j) ] /\ z = [ j \in 1..N - M |-> K(M + j) ]
  BY <1>1 DEF PrefixHash, M
<1>3. PrefixHash(s, n) = [ j \in 1..N |-> K(j) ]
  BY DEF PrefixHash, N
<1> HIDE DEF K, a, z
<1>4. a \o z = [ j \in 1..N |-> K(j) ]
  <2> DEFINE S == { K(j) : j \in 1..N }
  <2>1. \A j \in 1..N : K(j) \in S
    OBVIOUS
  <2> HIDE DEF S
  <2>2. a \in Seq(S) /\ Len(a) = M /\ z \in Seq(S) /\ Len(z) = N - M
    <3>1. \A j \in 1..M : j \in 1..N
      BY <1>1
    <3>2. \A j \in 1..N - M : M + j \in 1..N
      BY <1>1
    <3>3. a \in [1..M -> S] /\ z \in [1..N - M -> S]
      BY <1>2, <2>1, <3>1, <3>2
    <3>4. M \in Nat /\ N - M \in Nat
      BY <1>1
    <3> QED BY <3>3, <3>4
  <2>3. /\ a \o z \in Seq(S) /\ Len(a \o z) = N
        /\ \A j \in 1..N : (a \o z)[j] = IF j <= M THEN a[j] ELSE z[j - M]
    <3>1. Len(a) + Len(z) = N
      BY <1>1, <2>2
    <3>2. /\ a \o z \in Seq(S) /\ Len(a \o z) = Len(a) + Len(z)
          /\ \A j \in 1..Len(a) + Len(z) :
               (a \o z)[j] = IF j <= Len(a) THEN a[j] ELSE z[j - Len(a)]
      BY <2>2, ConcatProperties
    <3> QED BY <2>2, <3>1, <3>2
  <2>4. ASSUME NEW j \in 1..N PROVE (a \o z)[j] = K(j)
    <3>1. CASE j <= M
      BY <1>1, <1>2, <2>3, <3>1
    <3>2. CASE ~ (j <= M)
      <4>1. j - M \in 1..N - M /\ M + (j - M) = j
        BY <1>1, <3>2
      <4> QED BY <1>2, <2>3, <3>2, <4>1
    <3> QED BY <3>1, <3>2
  <2> DEFINE c == a \o z
  <2>5. c \in Seq(S) /\ Len(c) = N /\ \A j \in 1..N : c[j] = K(j)
    BY <2>3, <2>4
  <2> HIDE DEF c
  <2>6. c = [ j \in 1..N |-> c[j] ]
    BY <2>5
  <2> QED BY <2>5, <2>6, Zenon DEF c
<1> QED BY <1>3, <1>4 DEF ChainFrom, a, z, M

-----------------------------------------------------------------------------
(* What a step leaves of the cache of a request.                           *)

(* The tokens and the table of s only grow.                                *)
Stays(s) ==
    /\ NumTokens(s) <= NumTokens(s)'
    /\ \A j \in 1..NumTokens(s) : tokens'[s][j] = tokens[s][j]
    /\ Len(table[s]) <= Len(table'[s])
    /\ \A i \in 1..Len(table[s]) : table'[s][i] = table[s][i]

(* A block that is in the table of s before and after a step has an owner  *)
(* before and after it.                                                    *)
LEMMA OwnedStays ==
    ASSUME IInv, IInv', NEW s \in SeqId, Stays(s), NEW i \in 1..Len(table[s])
    PROVE  /\ table[s][i] \in Block /\ table'[s][i] = table[s][i]
           /\ ref[table[s][i]] > 0 /\ ref'[table[s][i]] > 0
<1> DEFINE b == table[s][i]
<1>1. /\ PoolTypeOK /\ RefCountsExact /\ PoolTypeOK' /\ RefCountsExact'
      /\ table[s] \in Seq(Block) /\ table'[s] \in Seq(Block)
  BY DEF IInv, PoolInv, PoolTypeOK
<1>2. b \in Block /\ b \in Range(table[s])
  BY <1>1, RangeOfSeq DEF Range
<1>3. table'[s][i] = b /\ b \in Range(table'[s])
  <2>1. i \in 1..Len(table'[s]) /\ table'[s][i] = b
    BY <1>1 DEF Stays
  <2> QED BY <1>1, <2>1 DEF Range
<1>4. ref[b] > 0
  BY <1>1, <1>2, CountedOwners DEF Owners
<1>5. ref'[b] > 0
  <2>1. IsFiniteSet(Owners(b)') /\ ref'[b] = Cardinality(Owners(b)') /\ s \in Owners(b)'
    BY <1>1, <1>2, <1>3 DEF RefCountsExact, Owners
  <2>2. Cardinality(Owners(b)') \in Nat /\ Cardinality(Owners(b)') # 0
    BY <2>1, FS_CardinalityType, FS_EmptySet
  <2> QED BY <2>1, <2>2
<1> QED BY <1>2, <1>3, <1>4, <1>5

(* The logical block a cached token is in.                                 *)
LEMMA TokenInBlock ==
    ASSUME IInv, NEW s \in SeqId, NEW p \in Nat, p \div BlockSize < Len(table[s])
    PROVE  /\ p \div BlockSize + 1 \in 1..Len(table[s]) /\ BlockAt(s, p) \in Block
           /\ p % BlockSize \in 0..BlockSize - 1
<1>1. table[s] \in Seq(Block) /\ Len(table[s]) \in Nat
  BY IInvParts
<1>2. p \div BlockSize \in Nat /\ p % BlockSize \in 0..BlockSize - 1
  BY PoolAssumption, DivFacts
<1>3. p \div BlockSize + 1 \in 1..Len(table[s])
  BY <1>1, <1>2
<1> QED BY <1>1, <1>2, <1>3 DEF BlockAt

(* What is computed stays computed as long as its slots are left alone.    *)
LEMMA ComputedStays ==
    ASSUME IInv, IInv', NEW s \in SeqId, Stays(s), NEW n \in Nat, n <= NumTokens(s),
           Computed(s, n),
           \A p \in 0..n - 1 : kv'[BlockAt(s, p)][p % BlockSize] = kv[BlockAt(s, p)][p % BlockSize]
    PROVE  Computed(s, n)'
<1> SUFFICES ASSUME NEW p \in 0..n - 1
             PROVE  p \div BlockSize < Len(table'[s]) /\ Holds(s, p)'
  BY DEF Computed
<1>1. p \in Nat /\ p \div BlockSize \in Nat /\ p + 1 \in 0..NumTokens(s) /\ NumTokens(s) \in Nat
  <2>1. NumTokens(s) \in Nat
    BY IInvParts
  <2>2. p \in Nat
    OBVIOUS
  <2>3. p \div BlockSize \in Nat
    BY <2>2, PoolAssumption, DivFacts
  <2> QED BY <2>1, <2>2, <2>3
<1>2. p \div BlockSize < Len(table[s]) /\ Holds(s, p)
  BY DEF Computed
<1>3. p \div BlockSize + 1 \in 1..Len(table[s])
  BY <1>1, <1>2, TokenInBlock
<1>4. BlockAt(s, p)' = BlockAt(s, p)
  BY <1>3, OwnedStays DEF BlockAt
<1>5. p \div BlockSize < Len(table'[s])
  <2>1. Len(table[s]) \in Nat /\ Len(table'[s]) \in Nat /\ Len(table[s]) <= Len(table'[s])
    BY IInvParts DEF IInv, PoolInv, PoolTypeOK, Stays
  <2> QED BY <1>1, <1>2, <2>1
<1>6. SubSeq(tokens'[s], 1, p + 1) = SubSeq(tokens[s], 1, p + 1)
  <2>1. /\ tokens[s] \in Seq(Token) /\ tokens'[s] \in Seq(Token)
        /\ Len(tokens[s]) <= Len(tokens'[s]) /\ p + 1 \in 0..Len(tokens[s])
        /\ \A j \in 1..Len(tokens[s]) : tokens'[s][j] = tokens[s][j]
    BY <1>1 DEF IInv, PoolInv, PoolTypeOK, Stays, NumTokens
  <2>2. /\ SubSeq(tokens'[s], 1, p + 1) = [ j \in 1..p + 1 |-> tokens'[s][j] ]
        /\ SubSeq(tokens[s], 1, p + 1) = [ j \in 1..p + 1 |-> tokens[s][j] ]
    BY <2>1
  <2>3. \A j \in 1..p + 1 : tokens'[s][j] = tokens[s][j]
    BY <1>1, <2>1
  <2> QED BY <2>2, <2>3
<1> QED BY <1>2, <1>4, <1>5, <1>6 DEF Holds

(* Steps other than a run leave the slots of a request alone.              *)
LEMMA ComputedKept ==
    ASSUME IInv, IInv', CacheKept, NEW s \in SeqId, Stays(s),
           NEW n \in Nat, n <= NumTokens(s), Computed(s, n)
    PROVE  Computed(s, n)'
<1>1. ASSUME NEW p \in 0..n - 1
      PROVE  kv'[BlockAt(s, p)][p % BlockSize] = kv[BlockAt(s, p)][p % BlockSize]
  <2>1. p \in Nat /\ p \div BlockSize < Len(table[s])
    BY DEF Computed
  <2>2. p \div BlockSize + 1 \in 1..Len(table[s]) /\ BlockAt(s, p) \in Block
    BY <2>1, TokenInBlock
  <2>3. ref[BlockAt(s, p)] > 0 /\ ref'[BlockAt(s, p)] > 0
    BY <2>2, OwnedStays DEF BlockAt
  <2>4. kv'[BlockAt(s, p)] = kv[BlockAt(s, p)]
    BY <2>2, <2>3 DEF CacheKept
  <2> QED BY <2>4
<1> QED BY <1>1, ComputedStays

(* The hashes of blocks in use only change when there was none before.     *)
HashesStay ==
    \A b \in Block : ref[b] > 0 /\ bhash[b] # NoHash => bhash'[b] = bhash[b]

(* The hash of a prefix does not depend on the tokens after it.            *)
LEMMA PrefixHashStays ==
    ASSUME NEW s, NEW i, NEW n \in Nat, i * BlockSize <= n, n <= NumTokens(s),
           \A j \in 1..NumTokens(s) : tokens'[s][j] = tokens[s][j],
           NumTokens(s) \in Nat, i \in Nat
    PROVE  PrefixHash(s, i)' = PrefixHash(s, i)
<1>1. i * BlockSize \in Nat
  BY PoolAssumption
<1>2. \A j \in 1..i * BlockSize : tokens'[s][j] = tokens[s][j]
  BY <1>1
<1> QED BY <1>2 DEF PrefixHash

(* The full cached blocks of a request keep the hashes of its prefix.      *)
LEMMA KeyedStays ==
    ASSUME IInv, IInv', HashesStay, NEW s \in SeqId, Stays(s), ncached'[s] = ncached[s],
           Keyed(s)
    PROVE  Keyed(s)'
<1> SUFFICES ASSUME NEW i \in 1..ncached[s] \div BlockSize
             PROVE  i <= Len(table'[s]) /\ bhash'[table'[s][i]] = PrefixHash(s, i)'
  BY DEF Keyed
<1>1. /\ ncached[s] \in Nat /\ ncached[s] \div BlockSize \in Nat /\ i \in Nat \ {0}
      /\ Len(table[s]) \in Nat /\ NumTokens(s) \in Nat
  <2>1. ncached[s] \in Nat /\ Len(table[s]) \in Nat /\ NumTokens(s) \in Nat
    BY IInvParts
  <2>2. ncached[s] \div BlockSize \in Nat
    BY <2>1, PoolAssumption, DivFacts
  <2> QED BY <2>1, <2>2
<1>2. i \in 1..Len(table[s]) /\ bhash[table[s][i]] = PrefixHash(s, i)
  BY <1>1 DEF Keyed
<1>3. /\ table[s][i] \in Block /\ table'[s][i] = table[s][i] /\ ref[table[s][i]] > 0
  BY <1>2, OwnedStays
<1>4. bhash[table[s][i]] # NoHash
  BY <1>1, <1>2, PrefixHashInjective
<1>5. i <= Len(table'[s])
  <2>1. Len(table'[s]) \in Nat /\ Len(table[s]) <= Len(table'[s])
    BY DEF IInv, PoolInv, PoolTypeOK, Stays
  <2> QED BY <1>1, <1>2, <2>1
<1>6. PrefixHash(s, i)' = PrefixHash(s, i)
  <2>1. i * BlockSize <= ncached[s]
    <3> DEFINE a == ncached[s]
    <3>1. a \in Nat /\ i \in Nat /\ i <= a \div BlockSize
      BY <1>1
    <3> HIDE DEF a
    <3>2. i * BlockSize <= a
      BY <3>1, PoolAssumption, DivBounds
    <3> QED BY <3>2 DEF a
  <2>2. table[s] # << >>
    BY <1>2
  <2>3. ncached[s] <= NumTokens(s)
    BY <1>1, <2>2 DEF IInv, TablesCover
  <2> QED BY <1>1, <2>1, <2>3, PrefixHashStays DEF Stays
<1> QED BY <1>2, <1>3, <1>4, <1>5, <1>6 DEF HashesStay

(* Blocks that keep their hash keep what it stands for.                    *)
LEMMA KeyedContentStays ==
    ASSUME CacheKept, KeyedContent,
           \A b \in Block : bhash'[b] = NoHash \/ bhash'[b] = bhash[b]
    PROVE  KeyedContent'
<1> SUFFICES ASSUME NEW b \in Block, bhash'[b] # NoHash
             PROVE  \E n \in 1..Len(bhash'[b]) :
                       /\ Len(bhash'[b]) = n * BlockSize
                       /\ \A o \in 0..BlockSize - 1 :
                             kv'[b][o] = Plain(bhash'[b], (n - 1) * BlockSize + o + 1)
  BY DEF KeyedContent
<1>1. bhash'[b] = bhash[b] /\ bhash[b] # NoHash
  OBVIOUS
<1>2. kv'[b] = kv[b]
  BY DEF CacheKept
<1> QED BY <1>1, <1>2 DEF KeyedContent

-----------------------------------------------------------------------------
(* How far the requests are, step by step.                                 *)

(* A request none of whose tokens, blocks and counters a step touches.     *)
Untouched(s) ==
    /\ tokens'[s] = tokens[s] /\ table'[s] = table[s]
    /\ ncached'[s] = ncached[s] /\ nsched'[s] = nsched[s]

(* Such a request is as far as it was.                                     *)
LEMMA UntouchedKeeps ==
    ASSUME NEW s, Untouched(s)
    PROVE  /\ NumTokens(s)' = NumTokens(s)
           /\ Tight(s)' <=> Tight(s)
           /\ Caught(s)' <=> Caught(s)
           /\ Settled(s)' <=> Settled(s)
  BY DEF Untouched, NumTokens, Tight, Caught, Settled

(* What runs after a step and had a run that raised before it is not       *)
(* forgotten.                                                              *)
NotForgotten == \A s \in SeqId \cap interrupted :
            s \in Range(running') \/ s = cur' => s \in interrupted'

(* A step that touches the requests of X only: those that run afterwards   *)
(* ran before, or are of X and as far as they should be.                   *)
Advances(X) ==
    /\ \A s \in SeqId \ X : Untouched(s)
    /\ \A s \in X : table'[s] # << >> => Tight(s)'
    /\ \A s \in Range(running') \ X :
          IF s \notin Range(batch') THEN s \in Range(running) \ Range(batch)
          ELSE phase' \in PrefillPhases =>
                  phase \in PrefillPhases /\ s \in Range(running) \cap Range(batch)
    /\ \A s \in Range(running') \cap X :
          IF s \notin Range(batch') THEN Settled(s)'
          ELSE phase' \in PrefillPhases => (ncached[s] + nsched[s] = NumTokens(s))'
    /\ cur' # NoSeq => InStep(cur') /\ cur' \notin X
    /\ phase' \notin PrefillPhases => \A s \in Range(batch') :
          IF s \in X THEN Caught(s)' /\ nsched'[s] = 1
          ELSE s \in Range(batch) /\ phase \notin PrefillPhases

(* Such a step keeps Progress.                                             *)
LEMMA ProgressExcept ==
    ASSUME IInv, IInv', Progress, NotForgotten, NEW X \in SUBSET SeqId, Advances(X)
    PROVE  Progress'
<1>1. /\ Range(running') \subseteq SeqId /\ Range(batch') \subseteq SeqId
      /\ cur' # NoSeq => cur' \in SeqId
  BY RangeOfSeq DEF IInv, EngineTypeOK
<1>2. ASSUME NEW s \in SeqId, table'[s] # << >> PROVE Tight(s)'
  BY <1>2, UntouchedKeeps DEF Progress, Untouched, Advances
<1>3. ASSUME NEW s \in Range(running')
      PROVE  IF s \notin Range(batch') THEN InStep(s)'
             ELSE phase' \in PrefillPhases => (ncached[s] + nsched[s] = NumTokens(s))'
  <2>1. CASE s \in X
    BY <2>1 DEF Advances, InStep
  <2>2. CASE s \notin X
    <3>1. Untouched(s)
      BY <1>1, <2>2 DEF Advances
    <3>2. (Settled(s)' <=> Settled(s)) /\ NumTokens(s)' = NumTokens(s)
      BY <3>1, UntouchedKeeps
    <3>3. CASE s \notin Range(batch')
      BY <1>1, <2>2, <3>2, <3>3 DEF Progress, Advances, InStep, NotForgotten
    <3>4. CASE s \in Range(batch')
      BY <2>2, <3>1, <3>2, <3>4 DEF Progress, Untouched, Advances
    <3> QED BY <3>3, <3>4
  <2> QED BY <2>1, <2>2
<1>4. cur' # NoSeq => InStep(cur)'
  BY <1>1, UntouchedKeeps DEF Advances, InStep, NotForgotten
<1>5. ASSUME phase' \notin PrefillPhases, NEW s \in Range(batch')
      PROVE  Caught(s)' /\ nsched'[s] = 1
  <2>1. CASE s \in X
    BY <1>5, <2>1 DEF Advances
  <2>2. CASE s \notin X
    <3>1. Untouched(s) /\ Caught(s) /\ nsched[s] = 1
      BY <1>1, <1>5, <2>2 DEF Progress, Advances
    <3> QED BY <3>1, UntouchedKeeps DEF Untouched
  <2> QED BY <2>1, <2>2
<1> QED BY <1>2, <1>3, <1>4, <1>5 DEF Progress

(* The steps that only move requests between the queues and the batch.     *)
LEMMA QuietStepsProgress ==
    ASSUME IInv, IInv', Progress, NotForgotten,
           StartStep \/ EndPrefill \/ DecodeHead \/ EndDecode \/ Run
    PROVE  Progress'
<1>1. /\ EngineTypeOK /\ QueuesOK /\ BatchCovered /\ running \in Seq(SeqId) /\ batch \in Seq(SeqId)
  BY IInvParts
<1>2. UNCHANGED <<tokens, table, ncached, nsched>>
  BY DEF StartStep, EndPrefill, DecodeHead, EndDecode, Run, bmVars, queueVars
<1>3. /\ {} \in SUBSET SeqId /\ \A s \in SeqId \ {} : Untouched(s)
      /\ NoSeq \notin SeqId
  BY <1>2, SchedulerAssumption DEF Untouched
<1>4. CASE StartStep
  <2>1. /\ phase = "idle" /\ phase' = "prefill" /\ batch = << >> /\ batch' = << >>
        /\ Range(batch) = {} /\ Range(batch') = {} /\ running' = running /\ cur' = NoSeq
    BY <1>1, <1>4 DEF StartStep, queueVars, BatchCovered, Range
  <2>2. Advances({})
    BY <1>3, <2>1 DEF PrefillPhases, Advances
  <2> QED BY <1>3, <2>2, ProgressExcept
<1>5. CASE EndPrefill
  <2>1. /\ phase = "prefill" /\ phase' = (IF batch # << >> THEN "runPrefill" ELSE "decode")
        /\ batch' = batch /\ running' = running /\ cur' = NoSeq
    BY <1>1, <1>5 DEF EndPrefill, queueVars, BatchCovered
  <2>2. phase' \notin PrefillPhases => Range(batch') = {}
    BY <2>1 DEF PrefillPhases, Range
  <2>3. Advances({})
    BY <1>3, <2>1, <2>2 DEF PrefillPhases, Advances
  <2> QED BY <1>3, <2>3, ProgressExcept
<1>6. CASE DecodeHead
  <2>1. /\ phase = "decode" /\ phase' = "append" /\ running # << >> /\ batch' = batch
        /\ cur' = Head(running) /\ running' = Tail(running)
    BY <1>6 DEF DecodeHead, CanDecodeMore
  <2>2. cur' \in Range(running) /\ cur' \in SeqId /\ Range(running') \subseteq Range(running)
    <3>1. /\ Head(running) \in Range(running) /\ Head(running) \in SeqId
          /\ Range(running) = Range(Tail(running)) \cup {Head(running)}
      BY <1>1, <2>1, EndFacts
    <3> QED BY <2>1, <3>1
  <2>3. \A s \in Range(running) : s \in SeqId /\ s \notin Range(batch)
    BY <1>1, <2>1, RangeOfSeq DEF QueuesOK, OnePlaceEach, Scheduled
  <2>4. InStep(cur')
    BY <2>1, <2>2, <2>3 DEF Progress
  <2>5. Advances({})
    BY <1>3, <2>1, <2>2, <2>3, <2>4 DEF PrefillPhases, Advances
  <2> QED BY <1>3, <2>5, ProgressExcept
<1>7. CASE EndDecode
  <2>1. /\ phase = "decode" /\ phase' \in {"asserted", "runDecode"} /\ batch' = batch
        /\ running' = batch \o running /\ cur' = NoSeq
    BY <1>1, <1>7 DEF EndDecode, BackToRunning, BatchCovered
  <2>2. Range(running') = Range(batch) \cup Range(running)
    BY <1>1, <2>1, ConcatFacts
  <2>3. Advances({})
    BY <1>3, <2>1, <2>2 DEF PrefillPhases, Advances
  <2> QED BY <1>3, <2>3, ProgressExcept
<1>8. CASE Run
  <2>1. /\ \/ phase = "runPrefill" /\ phase' = "postPrefill"
           \/ phase = "runDecode" /\ phase' = "postDecode"
        /\ batch' = batch /\ running' = running /\ cur' = NoSeq
    BY <1>1, <1>8 DEF Run, queueVars, BatchCovered
  <2>2. Advances({})
    BY <1>3, <2>1 DEF PrefillPhases, Advances
  <2> QED BY <1>3, <2>2, ProgressExcept
<1> QED BY <1>4, <1>5, <1>6, <1>7, <1>8

(* A run that raises leaves the requests that have come into running as    *)
(* they are.                                                               *)
LEMMA FailureProgress ==
    ASSUME IInv, IInv', Progress, NotForgotten, RunRaises,
           Range(batch) \cap Range(running) \subseteq interrupted'
    PROVE  Progress'
<1>1. /\ BatchCovered /\ Range(running) \subseteq SeqId
  BY IInvParts
<1>2. UNCHANGED <<tokens, table, ncached, nsched, running, cur>> /\ batch' = << >>
  BY DEF RunRaises, bmVars, queueVars
<1>3. cur' = NoSeq /\ Range(batch') = {}
  BY <1>1, <1>2 DEF BatchCovered, RunRaises, Range
<1>4. \A s \in SeqId : Untouched(s)
  BY <1>2 DEF Untouched
<1>5. \A s \in SeqId : table'[s] # << >> => Tight(s)'
  BY <1>2, <1>4, UntouchedKeeps DEF Progress
<1>6. ASSUME NEW s \in Range(running) PROVE InStep(s)'
  <2>1. CASE s \in Range(batch)
    BY <2>1 DEF InStep
  <2>2. CASE s \notin Range(batch)
    BY <1>1, <1>2, <1>4, <2>2, UntouchedKeeps DEF Progress, InStep, NotForgotten
  <2> QED BY <2>1, <2>2
<1> QED BY <1>2, <1>3, <1>5, <1>6 DEF Progress

(* A preempted request loses its blocks and is neither in running nor in   *)
(* the batch any more.                                                     *)
LEMMA PreemptProgress ==
    ASSUME IInv, IInv', Progress, NotForgotten, PreemptTail \/ PreemptSelf
    PROVE  Progress'
<1>1. /\ EngineTypeOK /\ PoolInv /\ QueuesOK /\ BatchCovered /\ running \in Seq(SeqId)
      /\ phase = "append" /\ Scheduled = batch /\ cur \in SeqId /\ NoSeq \notin SeqId
  <2>1. EngineTypeOK /\ PoolInv /\ QueuesOK /\ BatchCovered /\ running \in Seq(SeqId) /\ phase = "append"
    BY IInvParts DEF PreemptTail, PreemptSelf
  <2> QED BY <2>1, SchedulerAssumption DEF BatchCovered, EngineTypeOK, Scheduled
<1>v. PICK v \in SeqId : v = IF running # << >> THEN Last(running) ELSE cur
  BY <1>1, EndFacts
<1>2. /\ Deallocate(v) /\ UNCHANGED <<tokens, bhash, hmap, nsched, batch>>
      /\ phase' \in {"append", "decode"}
      /\ \/ running # << >> /\ running' = Front(running) /\ cur' = cur /\ v = Last(running)
         \/ running = << >> /\ running' = running /\ cur' = NoSeq /\ v = cur
  BY <1>1, <1>v DEF PreemptTail, PreemptSelf, Preempt, stepVars
<1>3. /\ v # cur' /\ v \notin Range(running') /\ v \notin Range(batch)
      /\ Range(running') \subseteq Range(running)
  <2>1. CASE running # << >>
    <3>1. /\ Last(running) \in Range(running) /\ Last(running) \in SeqId
          /\ Range(Front(running)) = Range(running) \ {Last(running)}
      BY <1>1, <2>1, EndFacts DEF QueuesOK, OnePlaceEach
    <3>2. Last(running) # cur /\ Last(running) \notin Range(batch)
      BY <1>1, <3>1 DEF QueuesOK, OnePlaceEach
    <3> QED BY <1>2, <2>1, <3>1, <3>2
  <2>2. CASE running = << >>
    <3>1. Range(running) = {}
      BY <2>2 DEF Range
    <3>2. cur \notin Range(batch)
      BY <1>1 DEF QueuesOK, OnePlaceEach
    <3> QED BY <1>1, <1>2, <2>2, <3>1, <3>2
  <2> QED BY <2>1, <2>2
<1>4. table'[v] = << >> /\ \A s \in SeqId \ {v} : Untouched(s)
  BY <1>1, <1>2, <1>3, DeallocateOneTable DEF Untouched
<1>5. \A s \in Range(running) : s \in SeqId /\ s \notin Range(batch)
  BY <1>1, RangeOfSeq DEF QueuesOK, OnePlaceEach
<1>6. InStep(cur)
  BY <1>1 DEF Progress
<1>7. Advances({v})
  BY <1>1, <1>2, <1>3, <1>4, <1>5, <1>6 DEF Advances, PrefillPhases
<1>8. {v} \in SUBSET SeqId
  OBVIOUS
<1> QED BY <1>7, <1>8, ProgressExcept

(* The next block opens where the blocks there are end.                    *)
LEMMA NextBlockOpens ==
    ASSUME NEW B \in Nat \ {0, 1}, NEW n \in Nat, NEW k \in Nat,
           n % B = 1, (k - 1) * B < n - 1, n - 1 <= k * B
    PROVE  n - 1 = k * B
<1> DEFINE q == n \div B
<1>1. q \in Nat /\ n = B * q + 1
  BY DivFacts
<1> HIDE DEF q
<1>2. n - 1 = q * B /\ q * B \in Nat /\ n - 1 \in Nat /\ k * B \in Nat
  BY <1>1
<1>3. q <= k
  <2>1. (q * B) \div B = q
    BY <1>1, DivBounds
  <2>2. (n - 1) \div B <= k
    BY <1>2, DivBounds
  <2> QED BY <1>2, <2>1, <2>2
<1>4. ASSUME q # k PROVE FALSE
  <2>1. k - 1 \in Nat /\ q <= k - 1
    BY <1>1, <1>3, <1>4
  <2>2. (k - 1) * B \in Nat /\ ((k - 1) * B) \div B = k - 1
    BY <2>1, DivBounds
  <2>3. q * B <= (k - 1) * B
    BY <1>1, <2>1, <2>2, DivBounds
  <2> QED BY <1>2, <2>2, <2>3
<1> QED BY <1>2, <1>4

(* A request given a decode slot has all but its last token cached, and    *)
(* the block for that one is the last of its table.                        *)
LEMMA ScheduleDecodeProgress ==
    ASSUME IInv, IInv', Progress, NotForgotten, ScheduleDecode,
           interrupted \cap Range(batch') = {}
    PROVE  Progress'
<1>1. /\ EngineTypeOK /\ PoolInv /\ QueuesOK /\ BatchCovered /\ TablesCover
      /\ running \in Seq(SeqId) /\ batch \in Seq(SeqId)
      /\ phase = "append" /\ Scheduled = batch /\ cur \in SeqId /\ NoSeq \notin SeqId
  <2>1. /\ EngineTypeOK /\ PoolInv /\ QueuesOK /\ BatchCovered /\ TablesCover
        /\ running \in Seq(SeqId) /\ batch \in Seq(SeqId) /\ phase = "append"
    BY IInvParts DEF ScheduleDecode
  <2> QED BY <2>1, SchedulerAssumption DEF BatchCovered, EngineTypeOK, Scheduled
<1>s. PICK s \in SeqId : s = cur
  BY <1>1
<1> DEFINE n == NumTokens(s)
           k == Len(table[s])
<1>2. /\ UNCHANGED <<tokens, ncached, running>> /\ phase' = "decode" /\ cur' = NoSeq
      /\ CanAppend(s) /\ MayAppend(s)
      /\ nsched' = [nsched EXCEPT ![s] = 1] /\ batch' = Append(batch, s)
  BY <1>s DEF ScheduleDecode, RunningAfterSlot
<1>10. Range(batch') = Range(batch) \cup {s}
  BY <1>1, <1>2, PushBack
<1>3. Settled(s) /\ Tight(s) /\ k \in Nat /\ n \in Nat /\ n - 1 <= k * BlockSize /\ table[s] # << >>
  <2>1. Settled(s) /\ table[s] # << >>
    BY <1>1, <1>s, <1>10 DEF Progress, InStep, TablesCover
  <2>2. k \in Nat /\ n \in Nat
    BY <1>1, IInvParts
  <2>3. Tight(s) /\ n - 1 <= k * BlockSize
    BY <1>1, <2>1 DEF Progress, TablesCover
  <2> QED BY <2>1, <2>2, <2>3
<1>4. /\ \A r \in SeqId \ {s} : table'[r] = table[r]
      /\ Len(table'[s]) = k + (IF OpensBlock(s) THEN 1 ELSE 0)
  BY <1>1, <1>2, MayAppendKeepsPool
<1>5. \A r \in SeqId \ {s} : Untouched(r)
  BY <1>1, <1>2, <1>4 DEF Untouched, EngineTypeOK
<1>6. NumTokens(s)' = n /\ ncached'[s] = ncached[s] /\ nsched'[s] = 1
  BY <1>1, <1>2 DEF NumTokens, EngineTypeOK
<1>7. Tight(s)'
  <2>1. CASE OpensBlock(s)
    <3>1. Len(table'[s]) - 1 = k /\ n % BlockSize = 1
      BY <1>3, <1>4, <2>1 DEF OpensBlock
    <3>2. (k - 1) * BlockSize < n - 1
      BY <1>3 DEF Settled, Caught
    <3>3. n - 1 = k * BlockSize
      <4> HIDE DEF n, k
      <4> QED BY <1>3, <3>1, <3>2, PoolAssumption, NextBlockOpens
    <3>4. Len(table'[s]) - 1 = k /\ NumTokens(s)' = n /\ k * BlockSize < n
      BY <1>3, <1>6, <3>1, <3>3
    <3> QED BY <3>4 DEF Tight
  <2>2. CASE ~ OpensBlock(s)
    <3>1. Len(table'[s]) = k
      BY <1>3, <1>4, <2>2
    <3> QED BY <1>3, <1>6, <3>1 DEF Tight
  <2> QED BY <2>1, <2>2
<1>8. Caught(s)'
  BY <1>3, <1>6 DEF Caught, Settled
<1>9. /\ s \notin Range(running) /\ s \notin Range(batch)
      /\ \A r \in Range(running) : r \in SeqId /\ r \notin Range(batch)
  BY <1>1, <1>s, RangeOfSeq DEF QueuesOK, OnePlaceEach
<1>11. Advances({s})
  BY <1>1, <1>2, <1>5, <1>6, <1>7, <1>8, <1>9, <1>10 DEF Advances, PrefillPhases
<1>12. {s} \in SUBSET SeqId
  OBVIOUS
<1> QED BY <1>11, <1>12, ProgressExcept

(* A cancelled request leaves the queues and gives up its blocks.          *)
LEMMA CancelProgress ==
    ASSUME IInv, IInv', Progress, NotForgotten, NEW s \in SeqId, phase = "idle",
           Cancel(s), UNCHANGED stepVars
    PROVE  Progress'
<1>1. /\ PoolInv /\ QueuesOK /\ BatchCovered
      /\ waiting \in Seq(SeqId) /\ running \in Seq(SeqId)
  BY IInvParts
<1>2. /\ running' = IF s \in Range(waiting) THEN running ELSE Without(running, s)
      /\ IF table[s] # << >>
         THEN Deallocate(s)
         ELSE UNCHANGED <<table, ncached, free, used, ref>>
      /\ UNCHANGED <<tokens, bhash, hmap, nsched, phase, batch, cur>>
  BY DEF Cancel, stepVars
<1>3. batch' = << >> /\ Range(batch') = {} /\ batch = << >> /\ Range(batch) = {} /\ cur' = NoSeq
  BY <1>1, <1>2 DEF BatchCovered, Range
<1>4. Range(running') \subseteq Range(running) \ {s}
  BY <1>1, <1>2, WithoutProperties DEF QueuesOK, OnePlaceEach
<1>5. table'[s] = << >> /\ \A r \in SeqId \ {s} : Untouched(r)
  <2>1. CASE table[s] # << >>
    BY <1>1, <1>2, <2>1, DeallocateOneTable DEF Untouched
  <2>2. CASE table[s] = << >>
    BY <1>2, <2>2 DEF Untouched
  <2> QED BY <2>1, <2>2
<1>6. NoSeq \notin SeqId /\ {s} \in SUBSET SeqId
  BY SchedulerAssumption
<1>7. Advances({s})
  BY <1>2, <1>3, <1>4, <1>5, <1>6 DEF Advances, PrefillPhases
<1> QED BY <1>6, <1>7, ProgressExcept

(* A new request waits, without blocks.                                    *)
LEMMA AddProgress ==
    ASSUME IInv, IInv', Progress, NotForgotten, NEW s \in SeqId, NEW p \in Prompts, Add(s, p)
    PROVE  Progress'
<1>1. /\ EngineTypeOK /\ QueuesOK /\ BatchCovered /\ TablesCover /\ NoSeq \notin SeqId
  BY IInvParts, SchedulerAssumption
<1>2. /\ phase = "idle" /\ status[s] = "new"
      /\ tokens' = [tokens EXCEPT ![s] = p]
      /\ UNCHANGED <<table, ncached, nsched, running, phase, batch, cur>>
  BY DEF Add, stepVars
<1>3. ~ Live(s)
  BY <1>2 DEF Live
<1>4. table'[s] = << >> /\ s \notin Range(running)
  BY <1>1, <1>2, <1>3 DEF TablesCover, QueuesOK, OnePlaceEach, LiveSet
<1>5. \A r \in SeqId \ {s} : Untouched(r)
  BY <1>1, <1>2 DEF Untouched, EngineTypeOK, PoolTypeOK
<1>6. batch' = << >> /\ Range(batch') = {} /\ Range(batch) = {} /\ cur' = NoSeq
  BY <1>1, <1>2 DEF BatchCovered, Range
<1>7. Advances({s})
  BY <1>1, <1>2, <1>4, <1>5, <1>6 DEF Advances, PrefillPhases
<1>8. {s} \in SUBSET SeqId
  OBVIOUS
<1> QED BY <1>7, <1>8, ProgressExcept

(* What every iteration of postprocess starts from: the head of the batch  *)
(* and the rest of it.                                                     *)
LEMMA PostFacts ==
    ASSUME IInv, PostChunk \/ \E t \in Sampled : PostToken(t)
    PROVE  \E s \in SeqId :
              /\ s = Head(batch) /\ s \in Range(batch) /\ Range(batch') = Range(batch) \ {s}
              /\ phase \in {"postPrefill", "postDecode"}
              /\ phase' \in {phase, "idle"} /\ (phase' = "idle" => Range(batch') = {})
              /\ cur' = NoSeq /\ HashBlocks(s, nsched[s])
              /\ NumTokens(s) <= Len(table[s]) * BlockSize /\ table[s] # << >>
              /\ ncached[s] + nsched[s] <= NumTokens(s)
<1>1. /\ phase \in {"postPrefill", "postDecode"} /\ NextPost
      /\ HashBlocks(Head(batch), nsched[Head(batch)])
  BY DEF PostChunk, PostToken
<1>2. /\ Head(batch) \in SeqId /\ Head(batch) \in Range(batch)
      /\ Range(batch') = Range(batch) \ {Head(batch)}
      /\ phase' = (IF batch' = << >> THEN "idle" ELSE phase)
      /\ cur' = NoSeq
  BY <1>1, NextPostFacts
<1>3. phase' = "idle" => Range(batch') = {}
  BY <1>1, <1>2 DEF Range
<1>4. BatchCovered
  BY IInvParts
<1> QED BY <1>1, <1>2, <1>3, <1>4 DEF BatchCovered

(* After a chunk of a prompt the request still waits.                      *)
LEMMA PostChunkProgress ==
    ASSUME IInv, IInv', Progress, NotForgotten, PostChunk
    PROVE  Progress'
<1>1. PICK s \in SeqId :
         /\ s = Head(batch) /\ s \in Range(batch) /\ Range(batch') = Range(batch) \ {s}
         /\ phase \in {"postPrefill", "postDecode"}
         /\ phase' \in {phase, "idle"} /\ (phase' = "idle" => Range(batch') = {})
         /\ cur' = NoSeq
  BY PostFacts
<1>2. /\ EngineTypeOK /\ \A r \in SeqId : /\ NumTokens(r) \in Nat /\ ncached[r] \in Nat
                                    /\ nsched[r] \in Nat
  BY IInvParts
<1>3. /\ phase = "postPrefill" /\ ncached[s] + nsched[s] < NumTokens(s)
      /\ ncached' = [ncached EXCEPT ![s] = @ + nsched[s]]
      /\ nsched'  = [nsched EXCEPT ![s] = 0]
      /\ UNCHANGED <<tokens, table, running>>
  BY <1>1 DEF PostChunk, PromptIncomplete
<1>4. \A r \in SeqId \ {s} : Untouched(r)
  BY <1>2, <1>3 DEF Untouched, EngineTypeOK, PoolTypeOK
<1>5. table'[s] # << >> => Tight(s)'
  BY <1>3 DEF Progress, Tight, NumTokens
<1>6. s \notin Range(running)
  BY <1>1, <1>2, <1>3 DEF Progress, PrefillPhases
<1>7. {s} \in SUBSET SeqId /\ NoSeq \notin SeqId
  BY SchedulerAssumption
<1>8. Advances({s})
  BY <1>1, <1>3, <1>4, <1>5, <1>6, <1>7 DEF Advances, PrefillPhases
<1> QED BY <1>7, <1>8, ProgressExcept

(* A request that goes on has its new last token to compute; one that is   *)
(* finished is gone.                                                       *)
LEMMA PostTokenProgress ==
    ASSUME IInv, IInv', Progress, NotForgotten, NEW t \in Sampled, PostToken(t)
    PROVE  Progress'
<1>1. PICK s \in SeqId :
         /\ s = Head(batch) /\ s \in Range(batch) /\ Range(batch') = Range(batch) \ {s}
         /\ phase \in {"postPrefill", "postDecode"}
         /\ phase' \in {phase, "idle"} /\ (phase' = "idle" => Range(batch') = {})
         /\ cur' = NoSeq /\ table[s] # << >> /\ ncached[s] + nsched[s] <= NumTokens(s)
  BY PostFacts
<1>2. /\ EngineTypeOK /\ PoolInv /\ QueuesOK /\ running \in Seq(SeqId)
      /\ NumTokens(s) \in Nat /\ ncached[s] \in Nat /\ nsched[s] \in Nat
      /\ tokens[s] \in Seq(Token) /\ Len(table[s]) \in Nat
  BY IInvParts
<1> DEFINE new == [id |-> t, mm |-> NoVisual]
           n == NumTokens(s)
           k == Len(table[s])
<1>3. /\ ~ PromptIncomplete(s)
      /\ tokens' = [tokens EXCEPT ![s] = Append(@, new)]
      /\ nsched' = [nsched EXCEPT ![s] = 0]
      /\ \/ ncached' = [ncached EXCEPT ![s] = @ + nsched[s]] /\ UNCHANGED <<table, running>>
         \/ /\ table' = [table EXCEPT ![s] = << >>] /\ ncached' = [ncached EXCEPT ![s] = 0]
            /\ running' = Without(running, s)
  BY <1>1 DEF PostToken, Deallocate
<1> HIDE DEF new
<1>4. \A r \in SeqId \ {s} : Untouched(r)
  BY <1>2, <1>3 DEF Untouched, EngineTypeOK, PoolTypeOK
<1>5. ncached[s] + nsched[s] = n
  <2>1. CASE phase = "postPrefill"
    BY <1>1, <1>2, <1>3, <2>1 DEF PromptIncomplete
  <2>2. CASE phase = "postDecode"
    BY <1>1, <1>2, <2>2 DEF Progress, PrefillPhases, Caught
  <2> QED BY <1>1, <2>1, <2>2
<1>6. NumTokens(s)' = n + 1
  <2>1. tokens'[s] = Append(tokens[s], new)
    BY <1>2, <1>3 DEF EngineTypeOK, PoolTypeOK
  <2> QED BY <1>2, <2>1 DEF NumTokens
<1>7. /\ \/ table'[s] = table[s] /\ ncached'[s] = n /\ running' = running
         \/ table'[s] = << >> /\ s \notin Range(running')
      /\ Range(running') \subseteq Range(running)
  <2>1. CASE ncached' = [ncached EXCEPT ![s] = @ + nsched[s]] /\ UNCHANGED <<table, running>>
    BY <1>2, <1>5, <2>1 DEF EngineTypeOK, PoolTypeOK
  <2>2. CASE /\ table' = [table EXCEPT ![s] = << >>]
             /\ running' = Without(running, s)
    BY <1>2, <2>2, WithoutProperties DEF EngineTypeOK, PoolTypeOK
  <2> QED BY <1>3, <2>1, <2>2
<1>8. (k - 1) * BlockSize < n
  BY <1>1 DEF Progress, Tight
<1>9. table'[s] # << >> => Tight(s)' /\ Settled(s)'
  <2> SUFFICES ASSUME table'[s] = table[s], ncached'[s] = n PROVE Tight(s)' /\ Settled(s)'
    BY <1>7
  <2>1. Len(table'[s]) = k /\ NumTokens(s)' = n + 1
    BY <1>6
  <2> HIDE DEF n, k
  <2>2. (k - 1) * BlockSize \in Int /\ n \in Nat
    BY <1>2, PoolAssumption DEF n, k
  <2>3. (k - 1) * BlockSize < n + 1 /\ n = (n + 1) - 1
    BY <1>8, <2>2
  <2> QED BY <1>8, <2>1, <2>3 DEF Tight, Settled, Caught
<1>10. s \in Range(running') => Settled(s)'
  <2>1. TablesCover'
    BY DEF IInv
  <2> QED BY <1>9, <2>1 DEF TablesCover
<1>11. {s} \in SUBSET SeqId /\ NoSeq \notin SeqId
  BY SchedulerAssumption
<1>12. Advances({s})
  BY <1>1, <1>4, <1>7, <1>9, <1>10, <1>11 DEF Advances, PrefillPhases
<1> QED BY <1>11, <1>12, ProgressExcept

(* What admitting the head of waiting starts from and does to it.          *)
LEMMA PrefillFacts ==
    ASSUME IInv, PrefillHead
    PROVE  \E s \in SeqId :
              /\ phase = "prefill" /\ phase' = "prefill" /\ cur' = NoSeq /\ tokens' = tokens
              /\ s \notin Range(running) /\ s \notin Range(batch)
              /\ Range(batch') = Range(batch) \cup {s}
              /\ \A r \in SeqId \ {s} : Untouched(r)
              /\ IF Fresh(s)
                 THEN /\ table[s] = << >> /\ NumTokens(s) > 0 /\ CanAllocate(s)
                      /\ Allocate(s, NumCachedBlocks(s))
                 ELSE table[s] # << >> /\ UNCHANGED <<table, ncached, poolVars>>
              /\ \/ running' = running
                 \/ /\ Range(running') = Range(running) \cup {s}
                    /\ ncached'[s] + nsched'[s] = NumTokens(s)
<1>1. /\ EngineTypeOK /\ PoolInv /\ QueuesOK /\ BatchCovered /\ TablesCover
      /\ waiting \in Seq(SeqId) /\ running \in Seq(SeqId) /\ batch \in Seq(SeqId)
  BY IInvParts
<1>2. phase = "prefill" /\ waiting # << >> /\ Remaining > 0
  BY DEF PrefillHead, CanPrefillHead
<1>3. PICK s \in SeqId : s = Head(waiting) /\ s \in Range(waiting)
  BY <1>1, <1>2, EndFacts
<1>4. /\ HasRoom(s)
      /\ IF Fresh(s)
         THEN Allocate(s, NumCachedBlocks(s))
         ELSE UNCHANGED <<table, ncached, poolVars>>
      /\ nsched' = [nsched EXCEPT ![s] = Chunk(s)] /\ batch' = Append(batch, s)
      /\ \/ Chunk(s) = ToPrefill(s) /\ running' = Append(running, s)
         \/ running' = running
      /\ UNCHANGED <<tokens, phase, cur>>
  BY <1>3 DEF PrefillHead, CanPrefillHead, CompletesPrompt
<1>5. /\ s \notin Range(running) /\ s \notin Range(batch) /\ Live(s) /\ cur = NoSeq
  <2>1. Range(batch) \cap Range(waiting) = {}
    BY <1>1, <1>2 DEF BatchCovered
  <2> QED BY <1>1, <1>2, <1>3, <2>1 DEF QueuesOK, OnePlaceEach, LiveSet, BatchCovered
<1>6. /\ Range(batch') = Range(batch) \cup {s}
      /\ running' = running \/ Range(running') = Range(running) \cup {s}
  <2>1. Range(Append(batch, s)) = Range(batch) \cup {s}
    BY <1>1, PushBack
  <2>2. Range(Append(running, s)) = Range(running) \cup {s}
    BY <1>1, PushBack
  <2> QED BY <1>4, <2>1, <2>2
<1>7. IF Fresh(s)
      THEN /\ table[s] = << >> /\ NumTokens(s) > 0 /\ CanAllocate(s)
           /\ Allocate(s, NumCachedBlocks(s))
      ELSE table[s] # << >> /\ UNCHANGED <<table, ncached, poolVars>>
  BY <1>1, <1>4, <1>5 DEF Fresh, HasRoom, TablesCover
<1>8. \A r \in SeqId \ {s} : table'[r] = table[r] /\ ncached'[r] = ncached[r]
  <2>1. CASE Fresh(s)
    BY <1>1, <1>4, <1>7, <2>1, AllocateKeepsPool
  <2>2. CASE ~ Fresh(s)
    BY <1>7, <2>2
  <2> QED BY <2>1, <2>2
<1>9. \A r \in SeqId \ {s} : Untouched(r)
  BY <1>1, <1>4, <1>8 DEF Untouched, EngineTypeOK
<1>10. ToPrefill(s) = NumTokens(s) - ncached'[s]
  <2>1. CASE Fresh(s)
    BY <1>1, <1>4, <1>7, <2>1, AllocateKeepsPool DEF ToPrefill
  <2>2. CASE ~ Fresh(s)
    BY <1>7, <2>2 DEF ToPrefill
  <2> QED BY <2>1, <2>2
<1>11. Chunk(s) = ToPrefill(s) => ncached'[s] + nsched'[s] = NumTokens(s)
  <2>1. IInv'
    BY PrefillHeadKeepsIInv
  <2>2. nsched'[s] = Chunk(s) /\ ncached'[s] \in Nat /\ NumTokens(s) \in Nat
    BY <1>1, <1>4, <2>1, IInvParts DEF IInv, EngineTypeOK, PoolTypeOK
  <2> HIDE DEF Chunk
  <2> QED BY <1>10, <2>2
<1>12. \/ running' = running
       \/ Range(running') = Range(running) \cup {s} /\ ncached'[s] + nsched'[s] = NumTokens(s)
  BY <1>4, <1>6, <1>11
<1> QED BY <1>2, <1>4, <1>5, <1>6, <1>7, <1>9, <1>12

(* A prompt that gets its blocks gets no more than its tokens need, and    *)
(* one that is complete has all its tokens scheduled.                      *)
LEMMA PrefillProgress ==
    ASSUME IInv, IInv', Progress, NotForgotten, PrefillHead
    PROVE  Progress'
<1>1. PICK s \in SeqId :
         /\ phase = "prefill" /\ phase' = "prefill" /\ cur' = NoSeq /\ tokens' = tokens
         /\ s \notin Range(running) /\ s \notin Range(batch)
         /\ Range(batch') = Range(batch) \cup {s}
         /\ \A r \in SeqId \ {s} : Untouched(r)
         /\ IF Fresh(s)
            THEN /\ table[s] = << >> /\ NumTokens(s) > 0 /\ CanAllocate(s)
                 /\ Allocate(s, NumCachedBlocks(s))
            ELSE table[s] # << >> /\ UNCHANGED <<table, ncached, poolVars>>
         /\ \/ running' = running
            \/ /\ Range(running') = Range(running) \cup {s}
               /\ ncached'[s] + nsched'[s] = NumTokens(s)
  BY PrefillFacts
<1>2. NumTokens(s)' = NumTokens(s) /\ PoolInv /\ NoSeq \notin SeqId /\ {s} \in SUBSET SeqId
  BY <1>1, IInvParts, SchedulerAssumption DEF NumTokens
<1>3. Tight(s)'
  <2>1. CASE Fresh(s)
    <3>1. (Len(table'[s]) - 1) * BlockSize < NumTokens(s)
      BY <1>1, <1>2, <2>1, AllocateKeepsPool
    <3> QED BY <1>2, <3>1 DEF Tight
  <2>2. CASE ~ Fresh(s)
    BY <1>1, <1>2, <2>2 DEF Progress, Tight
  <2> QED BY <2>1, <2>2
<1>4. s \in Range(running') => (ncached[s] + nsched[s] = NumTokens(s))'
  BY <1>1, <1>2
<1>5. Advances({s})
  BY <1>1, <1>2, <1>3, <1>4 DEF Advances, PrefillPhases
<1> QED BY <1>2, <1>5, ProgressExcept

-----------------------------------------------------------------------------
(* Who runs.                                                               *)

(* Requests in running, in the decode batch or on their way between them   *)
(* have the status "running".                                              *)
Active == Range(running) \cup Range(Scheduled) \cup {cur}
StatusOK == \A s \in SeqId : s \in Active => status[s] = "running"

(* Every step keeps the status of what runs: a victim of preemption has    *)
(* left running before it becomes "waiting".                               *)
LEMMA NextStatus ==
    ASSUME IInv, IInv', StatusOK, [Next]_vars
    PROVE  StatusOK'
<1>1. /\ EngineTypeOK /\ QueuesOK /\ BatchCovered /\ NoSeq \notin SeqId
      /\ waiting \in Seq(SeqId) /\ running \in Seq(SeqId) /\ batch \in Seq(SeqId)
      /\ Range(<< >>) = {}
  BY IInvParts, SchedulerAssumption DEF Range
<1>2. /\ batch' \in Seq(SeqId) /\ running' \in Seq(SeqId)
  BY DEF IInv, EngineTypeOK
<1>3. CASE StartStep \/ EndPrefill \/ Execute \/ ExecuteRaises \/ UNCHANGED vars
  <2>1. /\ running' = running /\ status' = status /\ cur' = cur
        /\ Range(Scheduled') \subseteq Range(Scheduled)
    <3>1. running' = running /\ status' = status /\ cur' = cur
      BY <1>3 DEF StartStep, EndPrefill, Execute, ExecuteRaises, Run, RunRaises,
                  queueVars, vars, schedVars, stepVars
    <3>2. Scheduled' = << >> \/ Scheduled' = Scheduled
      BY <1>3 DEF StartStep, EndPrefill, Execute, ExecuteRaises, Run, RunRaises,
                  vars, schedVars, stepVars, Scheduled
    <3> QED BY <1>1, <3>1, <3>2
  <2> QED BY <2>1 DEF StatusOK, Active
<1>4. CASE DecodeHead \/ ScheduleDecode \/ EndDecode
  <2>1. status' = status /\ batch' \in {batch, Append(batch, cur)}
    BY <1>4 DEF DecodeHead, ScheduleDecode, EndDecode
  <2>2. Active' \cap SeqId \subseteq Active
    <3>1. CASE DecodeHead
      <4>1. /\ running # << >> /\ cur' = Head(running) /\ running' = Tail(running)
            /\ Scheduled' = Scheduled
        BY <3>1 DEF DecodeHead, CanDecodeMore, Scheduled
      <4>2. Head(running) \in Range(running) /\ Range(running) = Range(Tail(running)) \cup {Head(running)}
        BY <1>1, <4>1, EndFacts
      <4> QED BY <4>1, <4>2 DEF Active
    <3>2. CASE ScheduleDecode
      <4>1. /\ running' = running /\ cur' = NoSeq /\ cur \in SeqId
            /\ Scheduled' = Append(batch, cur) /\ Scheduled = batch
        BY <1>1, <3>2 DEF ScheduleDecode, RunningAfterSlot, Scheduled, BatchCovered, EngineTypeOK
      <4>2. Range(Append(batch, cur)) = Range(batch) \cup {cur}
        BY <1>1, <4>1, PushBack
      <4> QED BY <1>1, <4>1, <4>2 DEF Active
    <3>3. CASE EndDecode
      <4>1. /\ running' = batch \o running /\ cur' = cur
            /\ Scheduled' = << >> /\ Scheduled = batch
        BY <3>3 DEF EndDecode, BackToRunning, Scheduled
      <4>2. Range(batch \o running) = Range(batch) \cup Range(running)
        BY <1>1, ConcatFacts
      <4> QED BY <1>1, <4>1, <4>2 DEF Active
    <3> QED BY <1>4, <3>1, <3>2, <3>3
  <2> QED BY <2>1, <2>2 DEF StatusOK
<1>5. CASE PreemptTail \/ PreemptSelf
  <2>1. phase = "append" /\ cur \in SeqId /\ Scheduled = batch /\ batch' = batch /\ Scheduled' = batch
    BY <1>1, <1>5 DEF PreemptTail, PreemptSelf, stepVars, Scheduled, BatchCovered, EngineTypeOK
  <2>2. PICK v \in SeqId : v = IF running # << >> THEN Last(running) ELSE cur
    BY <1>1, <2>1, EndFacts
  <2>3. /\ status' = [status EXCEPT ![v] = "waiting"]
        /\ \/ running # << >> /\ running' = Front(running) /\ cur' = cur /\ v = Last(running)
           \/ running = << >> /\ running' = running /\ cur' = NoSeq /\ v = cur
    BY <1>5, <2>2 DEF PreemptTail, PreemptSelf, Preempt, stepVars
  <2>4. Active' \cap SeqId \subseteq Active \ {v}
    <3>1. CASE running # << >>
      <4>1. /\ Last(running) \in Range(running)
            /\ Range(Front(running)) = Range(running) \ {Last(running)}
        BY <1>1, <3>1, EndFacts DEF QueuesOK, OnePlaceEach
      <4>2. v # cur /\ v \notin Range(batch)
        BY <1>1, <2>1, <2>3, <3>1, <4>1 DEF QueuesOK, OnePlaceEach
      <4> QED BY <2>1, <2>3, <3>1, <4>1, <4>2 DEF Active
    <3>2. CASE running = << >>
      <4>1. v = cur /\ cur' = NoSeq /\ running' = running /\ cur \notin Range(batch)
        BY <1>1, <2>1, <2>3, <3>2 DEF QueuesOK, OnePlaceEach
      <4> QED BY <1>1, <2>1, <3>2, <4>1 DEF Active
    <3> QED BY <3>1, <3>2
  <2> QED BY <1>1, <2>3, <2>4 DEF StatusOK, EngineTypeOK
<1>6. CASE PrefillHead
  <2>1. PICK s \in SeqId : s = Head(waiting)
    BY <1>1, <1>6, EndFacts DEF PrefillHead, CanPrefillHead
  <2>2. /\ \/ status' = [status EXCEPT ![s] = "running"] /\ running' = Append(running, s)
           \/ status' = status /\ running' = running
        /\ cur' = cur /\ Scheduled' = << >> /\ Scheduled = << >>
    BY <1>6, <2>1 DEF PrefillHead, Scheduled
  <2>3. Range(Append(running, s)) = Range(running) \cup {s}
    BY <1>1, PushBack
  <2>4. CASE status' = [status EXCEPT ![s] = "running"] /\ running' = Append(running, s)
    <3>1. status'[s] = "running" /\ \A r \in SeqId \ {s} : status'[r] = status[r]
      BY <1>1, <2>4 DEF EngineTypeOK
    <3> QED BY <2>2, <2>3, <2>4, <3>1 DEF StatusOK, Active
  <2>5. CASE status' = status /\ running' = running
    BY <2>2, <2>5 DEF StatusOK, Active
  <2> QED BY <2>2, <2>4, <2>5
<1>7. CASE PostChunk \/ \E t \in Sampled : PostToken(t)
  <2>1. /\ phase \in {"postPrefill", "postDecode"} /\ NextPost
    BY <1>7 DEF PostChunk, PostToken
  <2>2. cur' = cur /\ Scheduled = << >> /\ Scheduled' = << >>
    BY <2>1, NextPostFacts
  <2>3. \/ status' = status /\ running' = running
        \/ \E s, x : status' = [status EXCEPT ![s] = x] /\ running' = Without(running, s)
    BY <1>7 DEF PostChunk, PostToken
  <2>4. CASE status' = status /\ running' = running
    BY <2>2, <2>4 DEF StatusOK, Active
  <2>5. ASSUME NEW s, NEW x, status' = [status EXCEPT ![s] = x], running' = Without(running, s)
        PROVE  StatusOK'
    <3>1. Range(running') = Range(running) \ {s}
      BY <1>1, <2>5, WithoutProperties
    <3>2. \A r \in SeqId \ {s} : status'[r] = status[r]
      BY <1>1, <2>5 DEF EngineTypeOK
    <3>3. cur \notin SeqId
      BY <1>1, <2>1, NextPostFacts
    <3> QED BY <1>1, <2>2, <3>1, <3>2, <3>3 DEF StatusOK, Active
  <2> QED BY <2>3, <2>4, <2>5
<1>8. ASSUME NEW s \in SeqId, Abort(s) PROVE StatusOK'
  <2>1. /\ Cancel(s) /\ UNCHANGED stepVars /\ phase = "idle"
    BY <1>8 DEF Abort
  <2>2. /\ running' = (IF s \in Range(waiting) THEN running ELSE Without(running, s))
        /\ status' = [status EXCEPT ![s] = "abort"] /\ cur' = cur
        /\ Scheduled' = << >> /\ Scheduled = << >>
    BY <2>1 DEF Cancel, stepVars, Scheduled
  <2>3. cur = NoSeq
    BY <1>1, <2>1 DEF BatchCovered
  <2>4. Range(running') \subseteq Range(running) \ {s}
    BY <1>1, <2>2, WithoutProperties DEF QueuesOK, OnePlaceEach
  <2>5. \A r \in SeqId \ {s} : status'[r] = status[r]
    BY <1>1, <2>2 DEF EngineTypeOK
  <2> QED BY <1>1, <2>2, <2>3, <2>4, <2>5 DEF StatusOK, Active
<1>9. ASSUME NEW s \in SeqId, NEW p \in Prompts, Add(s, p) PROVE StatusOK'
  <2>1. /\ status[s] = "new" /\ status' = [status EXCEPT ![s] = "waiting"]
        /\ running' = running /\ cur' = cur /\ Scheduled' = Scheduled
    BY <1>9 DEF Add, stepVars, Scheduled
  <2>2. s \notin Active
    BY <2>1 DEF StatusOK
  <2>3. \A r \in SeqId \ {s} : status'[r] = status[r]
    BY <1>1, <2>1 DEF EngineTypeOK
  <2> QED BY <2>1, <2>2, <2>3 DEF StatusOK, Active
<1> QED BY <1>3, <1>4, <1>5, <1>6, <1>7, <1>8, <1>9 DEF Next, EngineStep

(* What runs has the status "running", and so stays in the history.        *)
LEMMA RememberKeeps ==
    ASSUME StatusOK', NEW R, Remember(R)
    PROVE  NotForgotten /\ \A s \in R \cap SeqId : s \in Range(running') => s \in interrupted'
<1>1. \A s \in SeqId : s \in Range(running') \/ s = cur' => status'[s] = "running"
  BY DEF StatusOK, Active
<1> QED BY <1>1 DEF Remember, NotForgotten

(* Until a request whose run has raised is decoded, the batch has none.    *)
LEMMA NoneResumed ==
    ASSUME NEW R, Remember(R), ~ resumed'
    PROVE  ~ resumed /\ interrupted \cap Range(batch') = {}
  BY DEF Remember

(* Every step keeps Progress.                                              *)
LEMMA NextProgress ==
    ASSUME IInv, IInv', StatusOK', Progress, ~ resumed', [Next]_vars
    PROVE  Progress'
<1>1. CASE UNCHANGED vars
  BY <1>1 DEF vars, schedVars, bmVars, queueVars, stepVars, Progress, NumTokens,
              Tight, Caught, Settled, InStep
<1>2. CASE ExecuteRaises
  <2>1. RunRaises /\ Remember(Range(batch)) /\ running' = running
    BY <1>2 DEF ExecuteRaises, RunRaises, queueVars
  <2>2. NotForgotten /\ \A s \in Range(batch) \cap SeqId : s \in Range(running') => s \in interrupted'
    BY <2>1, RememberKeeps
  <2>3. Range(batch) \subseteq SeqId
    BY IInvParts
  <2> QED BY <2>1, <2>2, <2>3, FailureProgress
<1>3. ASSUME Next, ~ ExecuteRaises PROVE Progress'
  <2>1. Remember({})
    BY <1>3 DEF Next, EngineStep, Execute, CacheKept
  <2>2. NotForgotten /\ interrupted \cap Range(batch') = {}
    BY <2>1, RememberKeeps, NoneResumed
  <2>3. CASE StartStep \/ EndPrefill \/ DecodeHead \/ EndDecode \/ Execute
    BY <2>2, <2>3, QuietStepsProgress DEF Execute
  <2>4. CASE PrefillHead
    BY <2>2, <2>4, PrefillProgress
  <2>5. CASE PreemptTail \/ PreemptSelf
    BY <2>2, <2>5, PreemptProgress
  <2>6. CASE ScheduleDecode
    BY <2>2, <2>6, ScheduleDecodeProgress
  <2>7. CASE PostChunk
    BY <2>2, <2>7, PostChunkProgress
  <2>8. ASSUME NEW t \in Sampled, PostToken(t) PROVE Progress'
    BY <2>2, <2>8, PostTokenProgress
  <2>9. ASSUME NEW s \in SeqId, Abort(s) PROVE Progress'
    BY <2>2, <2>9, CancelProgress DEF Abort
  <2>10. ASSUME NEW s \in SeqId, NEW p \in Prompts, Add(s, p) PROVE Progress'
    BY <2>2, <2>10, AddProgress
  <2> QED BY <1>3, <2>3, <2>4, <2>5, <2>6, <2>7, <2>8, <2>9, <2>10 DEF Next, EngineStep
<1> QED BY <1>1, <1>2, <1>3

(* At the start nothing runs.                                              *)
LEMMA InitStatus == Init => StatusOK
<1> SUFFICES ASSUME Init PROVE StatusOK
  OBVIOUS
<1>1. running = << >> /\ Scheduled = << >> /\ cur = NoSeq /\ Range(<< >>) = {}
  BY DEF Init, InitScheduler, Scheduled, Range
<1> QED BY <1>1, SchedulerAssumption DEF StatusOK, Active

(* A request that got its decode slot is not preempted for a later one.    *)
THEOREM ScheduledNeverPreempted == Spec => []ScheduledNotPreempted
<1>1. Init => IInv /\ StatusOK
  BY InitIInv, InitStatus
<1>2. IInv /\ StatusOK /\ [Next]_vars => IInv' /\ StatusOK'
  BY NextIInv, NextStatus
<1>3. IInv /\ StatusOK => ScheduledNotPreempted
  <2> SUFFICES ASSUME IInv, StatusOK, phase \in {"decode", "append", "runDecode"},
                      NEW s \in Range(batch)
               PROVE  status[s] = "running" /\ table[s] # << >>
    BY DEF ScheduledNotPreempted
  <2>1. BatchCovered /\ s \in SeqId
    BY IInvParts
  <2>2. s \in Active
    BY <2>1 DEF BatchCovered, Active, Scheduled, PrefillPhases, RunPhases
  <2> QED BY <2>1, <2>2 DEF StatusOK, BatchCovered
<1> QED BY <1>1, <1>2, <1>3, PTL DEF Spec

-----------------------------------------------------------------------------
(* Steps that compute nothing.                                             *)

(* A request without blocks has nothing cached.                            *)
LEMMA CachedWithin ==
    ASSUME IInv, NEW s \in SeqId, Computed(s, ncached[s])
    PROVE  /\ ncached[s] \in Nat /\ ncached[s] <= NumTokens(s)
           /\ table[s] = << >> => ncached[s] = 0
<1>1. ncached[s] \in Nat /\ NumTokens(s) \in Nat /\ TablesCover
  BY IInvParts
<1>2. CASE table[s] = << >>
  <2>1. ncached[s] = 0
    <3> SUFFICES ASSUME ncached[s] # 0 PROVE FALSE
      OBVIOUS
    <3>1. 0 \in 0..ncached[s] - 1
      BY <1>1
    <3>2. 0 \div BlockSize < Len(table[s])
      BY <3>1 DEF Computed
    <3>3. 0 \div BlockSize \in Nat /\ Len(table[s]) = 0
      BY <1>2, PoolAssumption, DivFacts
    <3> QED BY <3>2, <3>3
  <2> QED BY <1>1, <2>1
<1>3. CASE table[s] # << >>
  BY <1>1, <1>3 DEF TablesCover
<1> QED BY <1>2, <1>3

(* Nothing is cached of a request: nothing to keep.                        *)
LEMMA NothingCached ==
    ASSUME NEW s, ncached'[s] = 0
    PROVE  Computed(s, ncached[s])' /\ Keyed(s)'
<1>1. 0..ncached'[s] - 1 = {}
  OBVIOUS
<1>2. 1..ncached'[s] \div BlockSize = {}
  <2>1. ncached'[s] \div BlockSize = 0
    <3>1. 0 \div BlockSize \in Nat /\ BlockSize * (0 \div BlockSize) + (0 % BlockSize) = 0
          /\ 0 % BlockSize \in Nat
      BY PoolAssumption, DivFacts
    <3>2. 0 \div BlockSize = 0
      <4> DEFINE q == 0 \div BlockSize
      <4>1. q \in Nat /\ BlockSize * q = 0
        <5>1. q \in Nat /\ BlockSize * q \in Nat /\ BlockSize * q + (0 % BlockSize) = 0
          BY <3>1, PoolAssumption
        <5> QED BY <3>1, <5>1
      <4> HIDE DEF q
      <4>2. q = 0
        BY <4>1, PoolAssumption
      <4> QED BY <4>2 DEF q
    <3> QED BY <3>2
  <2> QED BY <2>1
<1> QED BY <1>1, <1>2 DEF Computed, Keyed

(* What a step that computes nothing does to blocks and requests: it only  *)
(* takes hashes from blocks nobody uses, and a request keeps its cached    *)
(* tokens with its blocks or loses them all.                               *)
ComputesNothing(X) ==
    /\ CacheKept
    /\ \A b \in Block : bhash'[b] = bhash[b] \/ (bhash'[b] = NoHash /\ ref[b] = 0)
    /\ \A s \in SeqId \ X : ncached'[s] = 0 \/ (Stays(s) /\ ncached'[s] = ncached[s])
    /\ phase' \notin {"postPrefill", "postDecode"}

(* Such a step keeps what is cached, except perhaps of the requests in X.  *)
LEMMA NothingComputed ==
    ASSUME IInv, IInv', CacheInv, NEW X, ComputesNothing(X),
           \A s \in X \cap SeqId : Keyed(s)' /\ Computed(s, ncached[s])'
    PROVE  KeyedContent' /\ TableKeyed' /\ Contents'
<1>1. KeyedContent'
  BY KeyedContentStays DEF CacheInv, ComputesNothing
<1>2. HashesStay /\ CacheKept
  BY DEF ComputesNothing, HashesStay
<1>3. ASSUME NEW s \in SeqId
      PROVE  Keyed(s)' /\ Computed(s, ncached[s])'
  <2>1. CASE s \in X
    BY <2>1
  <2>2. CASE ncached'[s] = 0
    BY <2>2, NothingCached
  <2>3. CASE Stays(s) /\ ncached'[s] = ncached[s]
    <3>1. Keyed(s) /\ Computed(s, ncached[s])
      BY DEF CacheInv, TableKeyed, Contents
    <3>2. Keyed(s)'
      BY <1>2, <2>3, <3>1, KeyedStays
    <3>3. ncached[s] \in Nat /\ ncached[s] <= NumTokens(s)
      BY <3>1, CachedWithin
    <3>4. PICK n \in Nat : n = ncached[s]
      BY <3>3
    <3>5. Computed(s, n)'
      BY <1>2, <2>3, <3>1, <3>3, <3>4, ComputedKept
    <3>6. ncached'[s] = n
      BY <2>3, <3>4
    <3> QED BY <3>2, <3>5, <3>6 DEF Computed
  <2> QED BY <2>1, <2>2, <2>3 DEF ComputesNothing
<1> QED BY <1>1, <1>3 DEF TableKeyed, Contents, ComputesNothing

(* A request whose tokens and table a step leaves alone stays as it is.    *)
LEMMA SameStays ==
    ASSUME IInv, NEW s \in SeqId, tokens'[s] = tokens[s], table'[s] = table[s]
    PROVE  Stays(s)
  BY IInvParts DEF Stays, NumTokens

(* The steps that admit nothing and compute nothing keep the cache.        *)
LEMMA QuietStepsCache ==
    ASSUME IInv, IInv', CacheInv, CacheKept,
           \/ StartStep \/ EndPrefill \/ DecodeHead \/ EndDecode
           \/ PreemptTail \/ PreemptSelf \/ ScheduleDecode
           \/ \E s \in SeqId : Abort(s) \/ \E p \in Prompts : Add(s, p)
    PROVE  KeyedContent' /\ TableKeyed' /\ Contents'
<1>1. EngineTypeOK /\ PoolInv /\ TablesCover /\ BatchCovered
  BY IInvParts
<1>2. SUFFICES ComputesNothing({})
  BY NothingComputed
<1>3. CASE StartStep \/ EndPrefill \/ DecodeHead \/ EndDecode
  <2>1. UNCHANGED <<tokens, table, ncached, bhash>>
    BY <1>3 DEF StartStep, EndPrefill, DecodeHead, EndDecode, bmVars
  <2>2. phase' \notin {"postPrefill", "postDecode"}
    BY <1>3 DEF StartStep, EndPrefill, DecodeHead, EndDecode
  <2> QED BY <2>1, <2>2, SameStays DEF ComputesNothing
<1>4. CASE \/ PreemptTail \/ PreemptSelf
           \/ \E s \in SeqId : Abort(s)
  <2>1. /\ UNCHANGED <<tokens, bhash>> /\ phase' \notin {"postPrefill", "postDecode"}
        /\ \/ UNCHANGED <<table, ncached>>
           \/ \E v : Deallocate(v)
    BY <1>4 DEF PreemptTail, PreemptSelf, Preempt, Abort, Cancel, stepVars
  <2>2. \A r \in SeqId : ncached'[r] = 0 \/ (table'[r] = table[r] /\ ncached'[r] = ncached[r])
    BY <1>1, <2>1 DEF Deallocate, EngineTypeOK, PoolTypeOK
  <2>3. \A r \in SeqId : ncached'[r] = 0 \/ (Stays(r) /\ ncached'[r] = ncached[r])
    BY <2>1, <2>2, SameStays
  <2> QED BY <2>1, <2>3 DEF ComputesNothing
<1>5. CASE ScheduleDecode
  <2>1. /\ UNCHANGED <<tokens, ncached>> /\ phase' = "decode"
        /\ CanAppend(cur) /\ MayAppend(cur) /\ phase = "append"
    BY <1>5 DEF ScheduleDecode
  <2>2. PICK s \in SeqId : s = cur
    BY <1>1, <2>1, SchedulerAssumption DEF BatchCovered, EngineTypeOK
  <2>3. /\ \A r \in SeqId \ {s} : table'[r] = table[r]
        /\ Len(table'[s]) = Len(table[s]) + (IF OpensBlock(s) THEN 1 ELSE 0)
        /\ \A i \in 1..Len(table[s]) : table'[s][i] = table[s][i]
        /\ \A b \in Block : bhash'[b] = bhash[b] \/ (bhash'[b] = NoHash /\ ref[b] = 0)
    BY <1>1, <2>1, <2>2, MayAppendKeepsPool
  <2>4. Stays(s)
    <3>1. Len(table[s]) \in Nat /\ NumTokens(s) \in Nat
      BY IInvParts
    <3>2. Len(table[s]) <= Len(table'[s])
      <4> DEFINE k == Len(table[s])
      <4>1. CASE OpensBlock(s)
        <5>1. Len(table'[s]) = k + 1
          BY <2>3, <4>1
        <5> QED BY <3>1, <5>1
      <4>2. CASE ~ OpensBlock(s)
        <5>1. Len(table'[s]) = k + 0
          BY <2>3, <4>2
        <5> QED BY <3>1, <5>1
      <4> QED BY <4>1, <4>2
    <3>3. tokens'[s] = tokens[s] /\ NumTokens(s)' = NumTokens(s)
      BY <2>1 DEF NumTokens
    <3>4. NumTokens(s) <= NumTokens(s)' /\ \A j \in 1..NumTokens(s) : tokens'[s][j] = tokens[s][j]
      BY <3>1, <3>3
    <3> QED BY <2>3, <3>2, <3>4, Zenon DEF Stays
  <2>5. \A r \in SeqId : Stays(r)
    BY <2>1, <2>3, <2>4, SameStays
  <2> QED BY <2>1, <2>3, <2>5 DEF ComputesNothing
<1>6. ASSUME NEW s \in SeqId, NEW p \in Prompts, Add(s, p) PROVE ComputesNothing({})
  <2>1. /\ status[s] = "new" /\ phase = "idle" /\ tokens' = [tokens EXCEPT ![s] = p]
        /\ UNCHANGED <<table, ncached, bhash, phase>>
    BY <1>6 DEF Add, poolVars, stepVars
  <2>2. table[s] = << >>
    BY <1>1, <2>1 DEF TablesCover, Live
  <2>3. ncached'[s] = 0
    BY <2>1, <2>2, CachedWithin DEF CacheInv, Contents
  <2>4. \A r \in SeqId \ {s} : tokens'[r] = tokens[r]
    BY <1>1, <2>1 DEF EngineTypeOK, PoolTypeOK
  <2> QED BY <2>1, <2>3, <2>4, SameStays DEF ComputesNothing
<1> QED BY <1>3, <1>4, <1>5, <1>6

(* A prompt that is admitted shares blocks that hold its own prefix: their *)
(* hash says what they hold.                                               *)
LEMMA PrefillCache ==
    ASSUME IInv, IInv', CacheInv, CacheKept, PrefillHead
    PROVE  KeyedContent' /\ TableKeyed' /\ Contents'
<1>1. PICK s \in SeqId :
         /\ phase = "prefill" /\ phase' = "prefill" /\ tokens' = tokens
         /\ \A r \in SeqId \ {s} : Untouched(r)
         /\ IF Fresh(s)
            THEN /\ table[s] = << >> /\ NumTokens(s) > 0 /\ CanAllocate(s)
                 /\ Allocate(s, NumCachedBlocks(s))
            ELSE table[s] # << >> /\ UNCHANGED <<table, ncached, poolVars>>
  BY PrefillFacts
<1>2. /\ PoolInv /\ PoolTypeOK /\ IndexSound /\ NumTokens(s) \in Nat /\ tokens[s] \in Seq(Token)
  BY IInvParts DEF PoolInv
<1>3. \A r \in SeqId \ {s} : Stays(r) /\ ncached'[r] = ncached[r]
  BY <1>1, SameStays DEF Untouched
<1>4. CASE ~ Fresh(s)
  <2>1. UNCHANGED <<table, ncached, bhash>>
    BY <1>1, <1>4 DEF poolVars
  <2>2. ComputesNothing({})
    BY <1>1, <2>1, SameStays DEF ComputesNothing
  <2> QED BY <2>2, NothingComputed
<1>5. CASE Fresh(s)
  <2> DEFINE n == NumCachedBlocks(s)
  <2>1. /\ ncached'[s] = n * BlockSize /\ ncached'[s] < NumTokens(s)
        /\ \A i \in 1..n :
             /\ i <= Len(table'[s]) /\ table'[s][i] = CachedBlock(s, i)
             /\ bhash'[table'[s][i]] = PrefixHash(s, i)
        /\ \A b \in Block : bhash'[b] = bhash[b] \/ (bhash'[b] = NoHash /\ ref[b] = 0)
    BY <1>1, <1>2, <1>5, AllocateKeepsPool
  <2>2. n \in Nat /\ table'[s] \in Seq(Block)
    BY <1>1, <1>2, <1>5, CachedBlocksIndexed DEF IInv, PoolInv, PoolTypeOK
  <2> HIDE DEF n
  <2>3. n * BlockSize \in Nat /\ (n * BlockSize) \div BlockSize = n
    BY <2>2, PoolAssumption, DivBounds
  <2>4. \A i \in 1..n : PrefixHash(s, i)' = PrefixHash(s, i)
    BY <1>1 DEF PrefixHash
  <2>5. Keyed(s)'
    BY <2>1, <2>3, <2>4 DEF Keyed
  <2>6. KeyedContent'
    BY <2>1, KeyedContentStays DEF CacheInv
  <2>7. ASSUME NEW p \in 0..n * BlockSize - 1
        PROVE  p \div BlockSize < Len(table'[s]) /\ Holds(s, p)'
    <3> DEFINE i == p \div BlockSize + 1
               o == p % BlockSize
    <3>1. p \in Nat /\ i \in 1..n /\ o \in 0..BlockSize - 1 /\ p = (i - 1) * BlockSize + o
      <4>1. p \in Nat /\ p < n * BlockSize
        BY <2>3
      <4>2. p \div BlockSize \in Nat /\ p \div BlockSize < n
        BY <2>2, <4>1, PoolAssumption, DivBounds, DivFacts
      <4>3. o \in 0..BlockSize - 1 /\ p = BlockSize * (p \div BlockSize) + o
        BY <4>1, PoolAssumption, DivFacts
      <4> DEFINE q == p \div BlockSize
      <4>4. q \in Nat /\ q < n /\ p = BlockSize * q + o /\ i = q + 1
        BY <4>2, <4>3
      <4> HIDE DEF q, i, o
      <4>5. i \in 1..n /\ p = (i - 1) * BlockSize + o
        BY <2>2, <4>4, PoolAssumption
      <4> QED BY <4>1, <4>3, <4>5
    <3>2. i <= Len(table'[s]) /\ bhash'[table'[s][i]] = PrefixHash(s, i) /\ table'[s][i] \in Block
      BY <2>1, <2>2, <3>1
    <3>3. i * BlockSize <= NumTokens(s) /\ i * BlockSize \in Nat /\ p + 1 \in 0..i * BlockSize
      <4> HIDE DEF i, o
      <4>1. i * BlockSize <= n * BlockSize /\ i * BlockSize \in Nat
            /\ (i - 1) * BlockSize = i * BlockSize - BlockSize
        BY <2>2, <3>1, PoolAssumption
      <4>2. p + 1 <= i * BlockSize
        BY <3>1, <4>1, PoolAssumption
      <4> QED BY <1>2, <2>1, <2>3, <3>1, <4>1, <4>2
    <3> HIDE DEF i, o
    <3>4. PrefixHash(s, i) # NoHash /\ i \in Nat \ {0}
      BY <3>1, PrefixHashInjective
    <3>5. PICK m \in 1..Len(PrefixHash(s, i)) :
             /\ Len(PrefixHash(s, i)) = m * BlockSize
             /\ \A x \in 0..BlockSize - 1 :
                   kv'[table'[s][i]][x] = Plain(PrefixHash(s, i), (m - 1) * BlockSize + x + 1)
      BY <2>6, <3>2, <3>4 DEF KeyedContent
    <3>6. m = i
      <4>1. Len(PrefixHash(s, i)) = i * BlockSize
        BY <3>3 DEF PrefixHash
      <4>2. m \in Nat
        BY <3>3, <4>1
      <4>3. (m * BlockSize) \div BlockSize = m /\ (i * BlockSize) \div BlockSize = i
        BY <3>4, <4>2, PoolAssumption, DivBounds
      <4> QED BY <3>5, <4>1, <4>3
    <3>7. kv'[table'[s][i]][o] = Plain(PrefixHash(s, i), p + 1)
      BY <3>1, <3>5, <3>6
    <3>8. Plain(PrefixHash(s, i), p + 1) = SubSeq(tokens[s], 1, p + 1)
      BY <1>2, <3>3, <3>4, PlainPrefix
    <3>9. p \div BlockSize < Len(table'[s])
      <4>1. Len(table'[s]) \in Nat /\ i = p \div BlockSize + 1 /\ p \div BlockSize \in Nat
        BY <2>2, <3>1, PoolAssumption, DivFacts DEF i
      <4> QED BY <3>2, <4>1
    <3> QED BY <1>1, <3>7, <3>8, <3>9 DEF Holds, BlockAt, i, o
  <2>8. Computed(s, ncached[s])'
    BY <2>1, <2>7 DEF Computed
  <2>9. ComputesNothing({s})
    BY <1>1, <1>3, <2>1 DEF ComputesNothing
  <2> QED BY <2>5, <2>8, <2>9, NothingComputed
<1> QED BY <1>4, <1>5

-----------------------------------------------------------------------------
(* What a run stores.                                                      *)

(* The tokens a run computes for r, and what it stores for each.           *)
NewTokens(r)  == ncached[r]..ncached[r] + nsched[r] - 1
WriteOf(r, q) == [block  |-> BlockAt(r, q), offset |-> q % BlockSize,
                  prefix |-> SubSeq(tokens[r], 1, q + 1)]

(* Those tokens have a slot, in a block that is r's alone.                 *)
LEMMA NewTokenSlot ==
    ASSUME IInv, NEW r \in Range(batch), NEW q \in NewTokens(r)
    PROVE  /\ r \in SeqId /\ q \in Nat /\ q < NumTokens(r)
           /\ q \div BlockSize \in Nat /\ q \div BlockSize < Len(table[r])
           /\ q \div BlockSize + 1 \in 1..Len(table[r]) /\ BlockAt(r, q) \in Block
           /\ q % BlockSize \in 0..BlockSize - 1
           /\ ref[BlockAt(r, q)] = 1 /\ bhash[BlockAt(r, q)] = NoHash
<1>1. r \in SeqId /\ PoolInv /\ BatchCovered
  BY IInvParts
<1>2. /\ ncached[r] \in Nat /\ nsched[r] \in Nat /\ NumTokens(r) \in Nat /\ Len(table[r]) \in Nat
  BY <1>1, IInvParts
<1>3. /\ NumTokens(r) <= Len(table[r]) * BlockSize
      /\ ncached[r] + nsched[r] <= NumTokens(r)
  BY <1>1 DEF BatchCovered
<1>4. q \in Nat /\ ncached[r] <= q /\ q < NumTokens(r)
  BY <1>2, <1>3 DEF NewTokens
<1> DEFINE k == Len(table[r])
           a == ncached[r]
<1>5. q \div BlockSize < k /\ q \div BlockSize \in Nat /\ a \div BlockSize \in Nat
      /\ a \div BlockSize <= q \div BlockSize
  <2> HIDE DEF k, a
  <2>1. k \in Nat /\ a \in Nat /\ a <= q /\ q < NumTokens(r) /\ NumTokens(r) <= k * BlockSize
    BY <1>2, <1>3, <1>4 DEF k, a
  <2>2. k * BlockSize \in Nat
    BY <2>1, PoolAssumption
  <2>3. q < k * BlockSize
    BY <1>2, <1>4, <2>1, <2>2
  <2>4. q \div BlockSize < k /\ q \div BlockSize \in Nat /\ a \div BlockSize \in Nat
    BY <1>4, <2>1, <2>3, PoolAssumption, DivBounds, DivFacts
  <2>5. a \div BlockSize <= q \div BlockSize
    BY <1>4, <2>1, PoolAssumption
  <2> QED BY <2>4, <2>5
<1>6. /\ q \div BlockSize + 1 \in 1..k /\ BlockAt(r, q) \in Block
      /\ q % BlockSize \in 0..BlockSize - 1
  BY <1>1, <1>4, <1>5, TokenInBlock
<1>7. ref[BlockAt(r, q)] = 1 /\ bhash[BlockAt(r, q)] = NoHash
  <2>1. q \div BlockSize + 1 > a \div BlockSize
    BY <1>5
  <2> QED BY <1>1, <1>6, <2>1 DEF PoolInv, TailExclusive, BlockAt
<1> QED BY <1>1, <1>4, <1>5, <1>6, <1>7

(* No other token of any request has that slot.                            *)
LEMMA SlotsDistinct ==
    ASSUME IInv, NEW r \in Range(batch), NEW q \in NewTokens(r),
           NEW s \in SeqId, NEW p \in Nat, p \div BlockSize < Len(table[s]),
           BlockAt(s, p) = BlockAt(r, q), p % BlockSize = q % BlockSize
    PROVE  s = r /\ p = q
<1>1. /\ r \in SeqId /\ q \in Nat /\ q \div BlockSize + 1 \in 1..Len(table[r])
      /\ ref[BlockAt(r, q)] = 1
  BY NewTokenSlot
<1>2. p \div BlockSize + 1 \in 1..Len(table[s])
  BY TokenInBlock
<1>3. PoolTypeOK /\ RefCountsExact
  BY IInvParts DEF PoolInv
<1>4. s = r
  <2> SUFFICES ASSUME s # r PROVE FALSE
    OBVIOUS
  <2>1. BlockAt(r, q) \notin Range(table[s])
    BY <1>1, <1>3, TailNotShared DEF BlockAt
  <2>2. BlockAt(s, p) \in Range(table[s])
    BY <1>2 DEF BlockAt, Range
  <2> QED BY <2>1, <2>2
<1>5. p \div BlockSize + 1 = q \div BlockSize + 1
  BY <1>1, <1>2, <1>3, <1>4 DEF RefCountsExact, Injective, BlockAt
<1>6. p = q
  <2>1. /\ p = BlockSize * (p \div BlockSize) + (p % BlockSize)
        /\ q = BlockSize * (q \div BlockSize) + (q % BlockSize)
        /\ p \div BlockSize \in Nat /\ q \div BlockSize \in Nat
    BY <1>1, PoolAssumption, DivFacts
  <2>2. p \div BlockSize = q \div BlockSize
    BY <1>5, <2>1
  <2> QED BY <2>1, <2>2
<1> QED BY <1>4, <1>6

(* Decoding stores the last token where block_table has its place: in the  *)
(* last block, at the offset that prepare_decode computes.                 *)
LEMMA DecodedToken ==
    ASSUME IInv, CacheInv, phase = "runDecode", NEW r \in Range(batch)
    PROVE  /\ NewTokens(r) = {NumTokens(r) - 1}
           /\ Last(table[r]) = BlockAt(r, NumTokens(r) - 1)
           /\ DecodeOffset(r) = (NumTokens(r) - 1) % BlockSize
<1>1. /\ r \in SeqId /\ BatchCovered /\ ncached[r] = NumTokens(r) - 1 /\ nsched[r] = 1
      /\ (Len(table[r]) - 1) * BlockSize < NumTokens(r)
      /\ NumTokens(r) <= Len(table[r]) * BlockSize /\ table[r] # << >>
  <2>1. r \in SeqId /\ BatchCovered
    BY IInvParts
  <2>2. NumTokens(r) <= Len(table[r]) * BlockSize /\ table[r] # << >>
    BY <2>1 DEF BatchCovered
  <2> QED BY <2>1, <2>2 DEF CacheInv, Progress, PrefillPhases, Caught, Tight
<1> DEFINE n == NumTokens(r)
           k == Len(table[r])
           m == k - 1
<1>2. k \in Nat /\ m \in Nat /\ k = m + 1 /\ n \in Nat /\ n - 1 \in Nat
  <2>1. k \in Nat /\ n \in Nat /\ ncached[r] \in Nat /\ table[r] \in Seq(Block)
    BY <1>1, IInvParts
  <2>2. k # 0
    BY <1>1, <2>1
  <2> QED BY <1>1, <2>1, <2>2
<1>3. NewTokens(r) = {n - 1}
  <2>1. ncached[r] = n - 1 /\ ncached[r] + nsched[r] - 1 = n - 1
    BY <1>1, <1>2
  <2> HIDE DEF n
  <2> QED BY <1>2, <2>1 DEF NewTokens
<1>4. m * BlockSize < n /\ n <= (m + 1) * BlockSize
  BY <1>1, <1>2
<1> HIDE DEF n, k, m
<1>5. m * BlockSize \in Nat /\ (m + 1) * BlockSize \in Nat
      /\ (m + 1) * BlockSize = m * BlockSize + BlockSize
      /\ (m + 2) * BlockSize = (m + 1) * BlockSize + BlockSize
  BY <1>2, PoolAssumption
<1>6. (n - 1) \div BlockSize = m /\ (n - 1) % BlockSize = n - 1 - m * BlockSize
  <2>1. m * BlockSize <= n - 1 /\ n - 1 < (m + 1) * BlockSize
    BY <1>2, <1>4, <1>5
  <2> QED BY <1>2, <2>1, PoolAssumption, DivIs
<1>7. CeilDiv(n) = m + 1
  <2>1. n + BlockSize - 1 \in Nat /\ m + 1 \in Nat
    BY <1>2, PoolAssumption
  <2>2. (m + 1) * BlockSize <= n + BlockSize - 1 /\ n + BlockSize - 1 < (m + 1 + 1) * BlockSize
    <3>1. (m + 1 + 1) * BlockSize = (m + 2) * BlockSize
      BY <1>2
    <3> QED BY <1>2, <1>4, <1>5, <3>1, PoolAssumption
  <2>3. (n + BlockSize - 1) \div BlockSize = m + 1
    BY <2>1, <2>2, PoolAssumption, DivIs
  <2> QED BY <2>3 DEF CeilDiv
<1>8. DecodeOffset(r) = n - 1 - m * BlockSize
  <2>1. NumBlocksOf(r) - 1 = m
    BY <1>2, <1>7 DEF NumBlocksOf, n
  <2> HIDE DEF NumBlocksOf
  <2>2. DecodeOffset(r) = n - m * BlockSize - 1
    BY <2>1 DEF DecodeOffset, n
  <2> QED BY <1>2, <1>5, <2>2
<1>9. Last(table[r]) = BlockAt(r, n - 1)
  BY <1>2, <1>6 DEF Last, BlockAt, k
<1> QED BY <1>3, <1>6, <1>8, <1>9 DEF n

(* What the run of one request stores: its new tokens, each computed from  *)
(* the prefix before it, which is in the cache.                            *)
LEMMA RequestWrites ==
    ASSUME IInv, CacheInv, phase \in {"runPrefill", "runDecode"}, NEW r \in Range(batch)
    PROVE  (IF phase = "runPrefill" THEN PrefillWrites(r) ELSE DecodeWrites(r))
              = { WriteOf(r, q) : q \in NewTokens(r) }
<1>1. r \in SeqId
  BY IInvParts
<1>2. Computed(r, ncached[r])
  BY <1>1 DEF CacheInv, Contents
<1>3. CASE phase = "runPrefill"
  BY <1>2, <1>3 DEF PrefillWrites, PrefillStart, NewTokens, WriteOf
<1>4. CASE phase = "runDecode"
  <2>1. /\ NewTokens(r) = {NumTokens(r) - 1}
        /\ Last(table[r]) = BlockAt(r, NumTokens(r) - 1)
        /\ DecodeOffset(r) = (NumTokens(r) - 1) % BlockSize
    BY <1>4, DecodedToken
  <2>2. ncached[r] = NumTokens(r) - 1
    BY <1>4 DEF CacheInv, Progress, PrefillPhases, Caught
  <2>3. tokens[r] = SubSeq(tokens[r], 1, NumTokens(r) - 1 + 1)
    <3>1. tokens[r] \in Seq(Token) /\ NumTokens(r) \in Nat
      BY <1>1, IInvParts
    <3>2. NumTokens(r) - 1 + 1 = Len(tokens[r])
      BY <3>1 DEF NumTokens
    <3> QED BY <3>1, <3>2
  <2>4. DecodeWrites(r) = { WriteOf(r, NumTokens(r) - 1) }
    <3>1. Computed(r, NumTokens(r) - 1)
      BY <1>2, <2>2
    <3> HIDE DEF Computed
    <3> QED BY <2>1, <2>3, <3>1 DEF DecodeWrites, WriteOf
  <2> QED BY <1>4, <2>1, <2>4
<1> QED BY <1>3, <1>4

(* What a run stores.                                                      *)
LEMMA WritesAre ==
    ASSUME IInv, CacheInv, phase \in {"runPrefill", "runDecode"}, NEW w
    PROVE  w \in Writes <=> \E r \in Range(batch) : \E q \in NewTokens(r) : w = WriteOf(r, q)
<1> DEFINE W(r) == IF phase = "runPrefill" THEN PrefillWrites(r) ELSE DecodeWrites(r)
<1>1. \A r \in Range(batch) : W(r) = { WriteOf(r, q) : q \in NewTokens(r) }
  BY RequestWrites
<1>2. Writes = UNION { W(r) : r \in Range(batch) }
  BY DEF Writes
<1> HIDE DEF W
<1> QED BY <1>1, <1>2

(* A run leaves the blocks of the prefix index alone.                      *)
LEMMA HashedNotWritten ==
    ASSUME IInv, CacheInv, phase \in {"runPrefill", "runDecode"},
           NEW b, bhash[b] # NoHash, NEW o
    PROVE  WritesTo(b, o) = {}
<1> SUFFICES ASSUME NEW w \in Writes, w.block = b PROVE FALSE
  BY DEF WritesTo
<1>1. PICK r \in Range(batch) : \E q \in NewTokens(r) : w = WriteOf(r, q)
  BY WritesAre
<1>2. PICK q \in NewTokens(r) : w = WriteOf(r, q)
  BY <1>1
<1>3. bhash[BlockAt(r, q)] = NoHash
  BY <1>2, NewTokenSlot
<1> QED BY <1>2, <1>3 DEF WriteOf

(* A run leaves alone the slots of all tokens but the new ones.            *)
LEMMA OldSlotsNotWritten ==
    ASSUME IInv, CacheInv, phase \in {"runPrefill", "runDecode"},
           NEW s \in SeqId, NEW p \in Nat, p \div BlockSize < Len(table[s]),
           s \in Range(batch) => p \notin NewTokens(s)
    PROVE  WritesTo(BlockAt(s, p), p % BlockSize) = {}
<1> SUFFICES ASSUME NEW w \in Writes,
                    w.block = BlockAt(s, p), w.offset = p % BlockSize
             PROVE  FALSE
  BY DEF WritesTo
<1>1. PICK r \in Range(batch) : \E q \in NewTokens(r) : w = WriteOf(r, q)
  BY WritesAre
<1>2. PICK q \in NewTokens(r) : w = WriteOf(r, q)
  BY <1>1
<1>3. BlockAt(s, p) = BlockAt(r, q) /\ p % BlockSize = q % BlockSize
  BY <1>2 DEF WriteOf
<1>4. s = r /\ p = q
  BY <1>3, SlotsDistinct
<1> QED BY <1>2, <1>4

(* The slot of a new token gets that token, computed from its prefix.      *)
LEMMA NewSlotStored ==
    ASSUME IInv, CacheInv, phase \in {"runPrefill", "runDecode"},
           NEW r \in Range(batch), NEW q \in NewTokens(r)
    PROVE  /\ WritesTo(BlockAt(r, q), q % BlockSize) # {}
           /\ Stored(BlockAt(r, q), q % BlockSize) = SubSeq(tokens[r], 1, q + 1)
<1> DEFINE X == SubSeq(tokens[r], 1, q + 1)
           V == WritesTo(BlockAt(r, q), q % BlockSize)
<1>1. V = { WriteOf(r, q) }
  <2>1. WriteOf(r, q) \in V
    BY WritesAre DEF WriteOf, WritesTo
  <2>2. ASSUME NEW w \in V PROVE w = WriteOf(r, q)
    <3>1. w \in Writes /\ w.block = BlockAt(r, q) /\ w.offset = q % BlockSize
      BY DEF WritesTo
    <3>2. PICK s \in Range(batch) : \E p \in NewTokens(s) : w = WriteOf(s, p)
      BY <3>1, WritesAre
    <3>3. PICK p \in NewTokens(s) : w = WriteOf(s, p)
      BY <3>2
    <3>4. BlockAt(s, p) = BlockAt(r, q) /\ p % BlockSize = q % BlockSize
      BY <3>1, <3>3 DEF WriteOf
    <3>5. s \in SeqId /\ p \in Nat /\ p \div BlockSize < Len(table[s])
      BY NewTokenSlot
    <3>6. s = r /\ p = q
      BY <3>4, <3>5, SlotsDistinct
    <3> QED BY <3>3, <3>6
  <2> QED BY <2>1, <2>2
<1>2. { w.prefix : w \in V } = {X}
  <2> DEFINE y == WriteOf(r, q)
  <2>1. y.prefix = X
    BY DEF WriteOf
  <2> HIDE DEF y, X, V
  <2>2. V = {y}
    BY <1>1 DEF y
  <2> QED BY <2>1, <2>2
<1>3. Cardinality({X}) = 1
  BY FS_Singleton
<1>4. (CHOOSE x \in {X} : TRUE) = X
  OBVIOUS
<1> HIDE DEF X
<1> QED BY <1>1, <1>2, <1>3, <1>4 DEF Stored, X

(* What a run computes counts as cached only once it has been computed:    *)
(* every new token of the batch is then in its slot.                       *)
LEMMA ExecuteCache ==
    ASSUME IInv, IInv', CacheInv, Execute
    PROVE  KeyedContent' /\ TableKeyed' /\ Contents'
<1>1. /\ phase \in {"runPrefill", "runDecode"} /\ phase' \in {"postPrefill", "postDecode"}
      /\ UNCHANGED bmVars /\ UNCHANGED <<batch, nsched>>
      /\ \A b \in Block, o \in 0..BlockSize - 1 :
            kv'[b][o] = IF WritesTo(b, o) # {} THEN Stored(b, o) ELSE kv[b][o]
  BY DEF Execute, Run, queueVars
<1>2. UNCHANGED <<tokens, table, ncached, bhash>>
  BY <1>1 DEF bmVars
<1>3. KeyedContent'
  <2> SUFFICES ASSUME NEW b \in Block, bhash[b] # NoHash
               PROVE  \E n \in 1..Len(bhash[b]) :
                         /\ Len(bhash[b]) = n * BlockSize
                         /\ \A o \in 0..BlockSize - 1 :
                               kv'[b][o] = Plain(bhash[b], (n - 1) * BlockSize + o + 1)
    BY <1>2 DEF KeyedContent, Plain
  <2>1. \A o \in 0..BlockSize - 1 : kv'[b][o] = kv[b][o]
    BY <1>1, HashedNotWritten
  <2> QED BY <2>1 DEF CacheInv, KeyedContent
<1>4. TableKeyed'
  BY <1>2 DEF CacheInv, TableKeyed, Keyed, PrefixHash
<1>5. ASSUME NEW s \in SeqId, NEW p \in Nat,
             \/ p < ncached[s]
             \/ s \in Range(batch) /\ p \in NewTokens(s)
      PROVE  p \div BlockSize < Len(table[s]) /\ Holds(s, p)'
  <2>1. CASE s \in Range(batch) /\ p \in NewTokens(s)
    <3>1. /\ p \div BlockSize < Len(table[s]) /\ BlockAt(s, p) \in Block
          /\ p % BlockSize \in 0..BlockSize - 1
      BY <2>1, NewTokenSlot
    <3>2. /\ WritesTo(BlockAt(s, p), p % BlockSize) # {}
          /\ Stored(BlockAt(s, p), p % BlockSize) = SubSeq(tokens[s], 1, p + 1)
      BY <1>1, <2>1, NewSlotStored
    <3>3. kv'[BlockAt(s, p)][p % BlockSize] = SubSeq(tokens[s], 1, p + 1)
      BY <1>1, <3>1, <3>2
    <3> QED BY <1>2, <3>1, <3>3 DEF Holds, BlockAt
  <2>2. CASE p < ncached[s] /\ ~ (s \in Range(batch) /\ p \in NewTokens(s))
    <3>1. p \div BlockSize < Len(table[s]) /\ Holds(s, p)
      <4>1. ncached[s] \in Nat
        BY IInvParts
      <4>2. p \in 0..ncached[s] - 1
        BY <2>2, <4>1
      <4> QED BY <4>2 DEF CacheInv, Contents, Computed
    <3>2. BlockAt(s, p) \in Block /\ p % BlockSize \in 0..BlockSize - 1
      BY <3>1, TokenInBlock
    <3>3. WritesTo(BlockAt(s, p), p % BlockSize) = {}
      BY <1>1, <2>2, <3>1, OldSlotsNotWritten
    <3>4. kv'[BlockAt(s, p)][p % BlockSize] = kv[BlockAt(s, p)][p % BlockSize]
      BY <1>1, <3>2, <3>3
    <3> QED BY <1>2, <3>1, <3>4 DEF Holds, BlockAt
  <2> QED BY <1>5, <2>1, <2>2
<1>6. ASSUME NEW s \in SeqId PROVE Computed(s, ncached[s])'
  <2>1. ncached[s] \in Nat
    BY IInvParts
  <2>2. \A p \in 0..ncached[s] - 1 : p \div BlockSize < Len(table[s]) /\ Holds(s, p)'
    BY <1>5, <2>1
  <2> QED BY <1>2, <2>2 DEF Computed
<1>7. ASSUME NEW s \in Range(batch) PROVE Computed(s, ncached[s] + nsched[s])'
  <2>1. s \in SeqId /\ ncached[s] \in Nat /\ nsched[s] \in Nat
    BY IInvParts
  <2>2. PICK n \in Nat : n = ncached[s] + nsched[s]
    BY <2>1
  <2>3. ASSUME NEW p \in 0..n - 1
        PROVE  p \div BlockSize < Len(table[s]) /\ Holds(s, p)'
    <3>1. p \in Nat /\ (p < ncached[s] \/ p \in NewTokens(s))
      BY <2>1, <2>2 DEF NewTokens
    <3> QED BY <1>5, <2>1, <3>1
  <2>4. Computed(s, n)'
    BY <1>2, <2>3 DEF Computed
  <2>5. ncached'[s] + nsched'[s] = n
    BY <1>1, <1>2, <2>2
  <2> QED BY <2>4, <2>5 DEF Computed
<1> QED BY <1>1, <1>3, <1>4, <1>6, <1>7 DEF Contents

(* A run that raises may leave anything in the slots it was to store, but  *)
(* none of them counts as cached.                                          *)
LEMMA ExecuteRaisesCache ==
    ASSUME IInv, IInv', CacheInv, ExecuteRaises
    PROVE  KeyedContent' /\ TableKeyed' /\ Contents'
<1>1. /\ phase \in {"runPrefill", "runDecode"} /\ phase' = "idle"
      /\ UNCHANGED bmVars
      /\ \A b \in Block, o \in 0..BlockSize - 1 :
            WritesTo(b, o) = {} => kv'[b][o] = kv[b][o]
  BY DEF ExecuteRaises, RunRaises
<1>2. UNCHANGED <<tokens, table, ncached, bhash>>
  BY <1>1 DEF bmVars
<1>3. KeyedContent'
  <2> SUFFICES ASSUME NEW b \in Block, bhash[b] # NoHash
               PROVE  \E n \in 1..Len(bhash[b]) :
                         /\ Len(bhash[b]) = n * BlockSize
                         /\ \A o \in 0..BlockSize - 1 :
                               kv'[b][o] = Plain(bhash[b], (n - 1) * BlockSize + o + 1)
    BY <1>2 DEF KeyedContent, Plain
  <2>1. \A o \in 0..BlockSize - 1 : kv'[b][o] = kv[b][o]
    BY <1>1, HashedNotWritten
  <2> QED BY <2>1 DEF CacheInv, KeyedContent
<1>4. TableKeyed'
  BY <1>2 DEF CacheInv, TableKeyed, Keyed, PrefixHash
<1>5. ASSUME NEW s \in SeqId PROVE Computed(s, ncached[s])'
  <2>1. ncached[s] \in Nat
    BY IInvParts
  <2>2. ASSUME NEW p \in 0..ncached[s] - 1
        PROVE  p \div BlockSize < Len(table[s]) /\ Holds(s, p)'
    <3>1. p \in Nat /\ p < ncached[s] /\ p \notin NewTokens(s)
      BY <2>1 DEF NewTokens
    <3>2. p \div BlockSize < Len(table[s]) /\ Holds(s, p)
      BY DEF CacheInv, Contents, Computed
    <3>3. BlockAt(s, p) \in Block /\ p % BlockSize \in 0..BlockSize - 1
      BY <3>1, <3>2, TokenInBlock
    <3>4. WritesTo(BlockAt(s, p), p % BlockSize) = {}
      BY <1>1, <3>1, <3>2, OldSlotsNotWritten
    <3>5. kv'[BlockAt(s, p)][p % BlockSize] = kv[BlockAt(s, p)][p % BlockSize]
      BY <1>1, <3>3, <3>4
    <3> QED BY <1>2, <3>2, <3>5 DEF Holds, BlockAt
  <2> QED BY <1>2, <2>2 DEF Computed
<1> QED BY <1>1, <1>3, <1>4, <1>5 DEF TableKeyed, Contents

-----------------------------------------------------------------------------
(* What postprocess enters in the index.                                   *)

(* After a run the tokens it computed fill the blocks that hash_blocks     *)
(* gives a hash, and the hash is that of the request's prefix.             *)
LEMMA FilledBlocks ==
    ASSUME IInv, CacheInv, NEW s \in Range(batch), phase \in {"postPrefill", "postDecode"},
           HashBlocks(s, nsched[s])
    PROVE  /\ s \in SeqId /\ ncached[s] + nsched[s] \in Nat /\ FilledAfter(s, nsched[s]) \in Nat
           /\ FilledAfter(s, nsched[s]) * BlockSize <= ncached[s] + nsched[s]
           /\ ncached[s] + nsched[s] <= NumTokens(s)
           /\ Computed(s, ncached[s] + nsched[s])
           /\ HashesStay
           /\ \A i \in 1..FilledAfter(s, nsched[s]) :
                 i <= Len(table[s]) /\ bhash'[table[s][i]] = PrefixHash(s, i)
           /\ \A b \in Block : \/ bhash'[b] = bhash[b]
                               \/ \E i \in 1..FilledAfter(s, nsched[s]) : table[s][i] = b
<1> DEFINE start == ncached[s] \div BlockSize
           end   == FilledAfter(s, nsched[s])
           h0    == IF start > 0 THEN bhash[table[s][start]] ELSE NoHash
           q     == ncached[s] + nsched[s]
<1>1. /\ s \in SeqId /\ PoolInv /\ BatchCovered /\ ncached[s] \in Nat /\ nsched[s] \in Nat
      /\ NumTokens(s) \in Nat /\ Len(table[s]) \in Nat
  BY IInvParts
<1>2. q <= NumTokens(s) /\ NumTokens(s) <= Len(table[s]) * BlockSize
  BY <1>1 DEF BatchCovered
<1>3. q \in Nat /\ q <= Len(table[s]) * BlockSize /\ Len(table[s]) * BlockSize \in Nat
  <2>1. Len(table[s]) * BlockSize \in Nat
    BY <1>1, PoolAssumption
  <2> QED BY <1>1, <1>2, <2>1
<1>4. /\ \A b : bhash[b] # NoHash => (b \in Block => bhash'[b] = bhash[b])
      /\ \A i \in start + 1..end : bhash'[table[s][i]] = ChainFrom(h0, s, start, i)
  BY <1>1, <1>2, <1>3, HashBlocksKeepsIndex
<1>5. /\ start \in Nat /\ end \in Nat /\ end <= Len(table[s]) /\ end * BlockSize <= q
  <2>1. end = q \div BlockSize
    BY DEF FilledAfter
  <2> HIDE DEF q, end
  <2>2. start \in Nat
    BY <1>1, PoolAssumption, DivFacts
  <2>3. end \in Nat
    BY <1>3, <2>1, PoolAssumption, DivFacts
  <2>4. end <= Len(table[s])
    BY <1>1, <1>3, <2>1, PoolAssumption, DivBounds
  <2>5. end * BlockSize <= q
    BY <1>3, <2>1, <2>3, PoolAssumption, DivBounds
  <2> QED BY <2>2, <2>3, <2>4, <2>5
<1>6. \A i \in 1..start :
         /\ i <= Len(table[s]) /\ table[s][i] \in Block
         /\ bhash[table[s][i]] = PrefixHash(s, i) /\ PrefixHash(s, i) # NoHash
  <2> SUFFICES ASSUME NEW i \in 1..start
               PROVE  /\ i <= Len(table[s]) /\ table[s][i] \in Block
                      /\ bhash[table[s][i]] = PrefixHash(s, i) /\ PrefixHash(s, i) # NoHash
    OBVIOUS
  <2>1. i <= Len(table[s]) /\ bhash[table[s][i]] = PrefixHash(s, i)
    BY <1>1 DEF CacheInv, TableKeyed, Keyed
  <2>2. i \in Nat \ {0}
    BY <1>5
  <2>3. table[s][i] \in Block
    <3>1. i \in 1..Len(table[s]) /\ table[s] \in Seq(Block)
      BY <1>1, <2>1, <2>2, IInvParts
    <3> QED BY <3>1, ElementOfSeq
  <2> QED BY <2>1, <2>2, <2>3, PrefixHashInjective
<1>7. h0 = PrefixHash(s, start)
  <2>1. CASE start > 0
    BY <1>5, <1>6, <2>1
  <2>2. CASE start = 0
    <3>1. h0 = NoHash
      BY <2>2
    <3> DEFINE e == start * BlockSize
    <3>2. e = 0
      BY <2>2, PoolAssumption
    <3>3. PrefixHash(s, start) = [ j \in 1..e |-> CacheToken(tokens[s][j]) ]
      BY DEF PrefixHash
    <3> HIDE DEF e
    <3>4. PrefixHash(s, start) = << >>
      BY <3>2, <3>3
    <3> QED BY <3>1, <3>4 DEF NoHash
  <2> QED BY <1>5, <2>1, <2>2
<1> HIDE DEF h0, start, end
<1>8. \A i \in 1..end : i <= Len(table[s]) /\ bhash'[table[s][i]] = PrefixHash(s, i)
  <2> SUFFICES ASSUME NEW i \in 1..end PROVE bhash'[table[s][i]] = PrefixHash(s, i)
    BY <1>1, <1>5
  <2>1. CASE i <= start
    BY <1>4, <1>5, <1>6, <2>1
  <2>2. CASE ~ (i <= start)
    <3>1. i \in start + 1..end /\ i \in Nat /\ start <= i
      BY <1>5, <2>2
    <3>2. ChainFrom(PrefixHash(s, start), s, start, i) = PrefixHash(s, i)
      BY <1>5, <3>1, ChainIsPrefix
    <3> QED BY <1>4, <1>7, <3>1, <3>2
  <2> QED BY <2>1, <2>2
<1>9. \A b \in Block : bhash'[b] = bhash[b] \/ \E i \in 1..end : table[s][i] = b
  <2> SUFFICES ASSUME NEW b \in Block, bhash'[b] # bhash[b]
               PROVE  \E i \in 1..end : table[s][i] = b
    OBVIOUS
  <2>1. \E i \in start + 1..end : table[s][i] = b
    BY DEF HashBlocks, start, end
  <2> QED BY <1>5, <2>1
<1>10. Computed(s, q) /\ HashesStay
  BY <1>4 DEF CacheInv, Contents, HashesStay
<1> QED BY <1>1, <1>2, <1>3, <1>5, <1>8, <1>9, <1>10 DEF end

(* A block that enters the index holds what its hash stands for: the       *)
(* prefix of the request that computed it.                                 *)
LEMMA FilledContent ==
    ASSUME IInv, CacheInv, CacheKept, NEW s \in Range(batch),
           phase \in {"postPrefill", "postDecode"}, HashBlocks(s, nsched[s])
    PROVE  KeyedContent'
<1> SUFFICES ASSUME NEW b \in Block, bhash'[b] # NoHash
             PROVE  \E n \in 1..Len(bhash'[b]) :
                       /\ Len(bhash'[b]) = n * BlockSize
                       /\ \A o \in 0..BlockSize - 1 :
                             kv'[b][o] = Plain(bhash'[b], (n - 1) * BlockSize + o + 1)
  BY DEF KeyedContent
<1>1. kv'[b] = kv[b]
  BY DEF CacheKept
<1>2. CASE bhash'[b] = bhash[b]
  BY <1>1, <1>2 DEF CacheInv, KeyedContent
<1>3. CASE bhash'[b] # bhash[b]
  <2> DEFINE end == FilledAfter(s, nsched[s])
  <2>1. PICK q \in Nat : q = ncached[s] + nsched[s]
    BY FilledBlocks
  <2>2. /\ s \in SeqId /\ end \in Nat /\ end * BlockSize <= q /\ q <= NumTokens(s)
        /\ Computed(s, q)
        /\ \A i \in 1..end : i <= Len(table[s]) /\ bhash'[table[s][i]] = PrefixHash(s, i)
        /\ \E i \in 1..end : table[s][i] = b
    BY <1>3, <2>1, FilledBlocks
  <2> HIDE DEF end
  <2>3. PICK i \in 1..end : table[s][i] = b
    BY <2>2
  <2> DEFINE N == i * BlockSize
  <2>4. /\ i \in Nat \ {0} /\ i - 1 \in Nat /\ N \in Nat /\ N <= end * BlockSize
        /\ N = (i - 1) * BlockSize + BlockSize /\ (i - 1) * BlockSize \in Nat
        /\ N <= NumTokens(s) /\ N <= q /\ end * BlockSize \in Nat /\ NumTokens(s) \in Nat
    <3>1. i \in Nat \ {0} /\ i - 1 \in Nat /\ i <= end
      BY <2>2
    <3>2. N \in Nat /\ N <= end * BlockSize /\ (i - 1) * BlockSize \in Nat
          /\ N = (i - 1) * BlockSize + BlockSize /\ end * BlockSize \in Nat
      <4>1. i \in Nat /\ end \in Nat /\ i <= end /\ BlockSize \in Nat
        BY <2>2, <3>1, PoolAssumption
      <4>2. N \in Nat /\ end * BlockSize \in Nat /\ (i - 1) * BlockSize \in Nat
        BY <3>1, <4>1
      <4>3. N <= end * BlockSize
        BY <4>1
      <4>4. N = (i - 1) * BlockSize + BlockSize
        BY <4>1
      <4> QED BY <4>2, <4>3, <4>4
    <3>3. NumTokens(s) \in Nat
      BY <2>2, IInvParts
    <3> HIDE DEF N
    <3> QED BY <2>1, <2>2, <3>1, <3>2, <3>3
  <2>5. bhash'[b] = PrefixHash(s, i) /\ Len(PrefixHash(s, i)) = N
    BY <2>2, <2>3, <2>4 DEF PrefixHash
  <2>6. i <= N
    BY <2>4, PoolAssumption
  <2> HIDE DEF N
  <2>7. ASSUME NEW o \in 0..BlockSize - 1
        PROVE  kv[b][o] = Plain(PrefixHash(s, i), (i - 1) * BlockSize + o + 1)
    <3> DEFINE p == (i - 1) * BlockSize + o
    <3>1. p \in Nat /\ p < N /\ p + 1 \in 0..N /\ o \in Nat
      BY <2>4, PoolAssumption
    <3>2. p \div BlockSize = i - 1 /\ p % BlockSize = o
      <4>1. (i - 1 + 1) * BlockSize = N
        BY <2>4 DEF N
      <4> DEFINE m == i - 1
                 M == m * BlockSize
      <4>2. m \in Nat /\ M \in Nat /\ M <= p /\ p < N /\ (m + 1) * BlockSize = N /\ p - M = o
        BY <2>4, <3>1, <4>1
      <4> HIDE DEF p, m
      <4>3. p \div BlockSize = m /\ p % BlockSize = p - m * BlockSize
        BY <3>1, <4>2, PoolAssumption, DivIs
      <4> QED BY <4>2, <4>3 DEF m
    <3>3. p \in 0..q - 1
      BY <2>1, <2>4, <3>1
    <3> HIDE DEF p
    <3>4. Holds(s, p)
      BY <2>2, <3>3 DEF Computed
    <3>5. BlockAt(s, p) = b
      BY <2>3, <2>4, <3>2 DEF BlockAt
    <3>6. kv[b][o] = SubSeq(tokens[s], 1, p + 1)
      BY <3>2, <3>4, <3>5 DEF Holds
    <3>7. Plain(PrefixHash(s, i), p + 1) = SubSeq(tokens[s], 1, p + 1)
      <4>1. tokens[s] \in Seq(Token)
        BY <2>2, IInvParts
      <4> QED BY <2>4, <3>1, <4>1, PlainPrefix DEF N
    <3> QED BY <3>6, <3>7 DEF p
  <2> QED BY <1>1, <2>4, <2>5, <2>6, <2>7 DEF N
<1> QED BY <1>2, <1>3

(* What postprocess does to the request whose turn it is: it finishes and  *)
(* is released, or its new tokens count as cached from now on.             *)
LEMMA PostEffect ==
    ASSUME IInv, NEW s \in SeqId, s = Head(batch), s \in Range(batch),
           PostChunk \/ \E t \in Sampled : PostToken(t)
    PROVE  /\ \A r \in SeqId \ {s} : Untouched(r)
           /\ \/ table'[s] = << >> /\ ncached'[s] = 0
              \/ Stays(s) /\ table'[s] = table[s] /\ ncached'[s] = ncached[s] + nsched[s]
<1>1. /\ EngineTypeOK /\ PoolTypeOK /\ NumTokens(s) \in Nat /\ tokens[s] \in Seq(Token)
      /\ table[s] \in Seq(Block)
  BY IInvParts DEF EngineTypeOK
<1>2. CASE PostChunk
  <2>1. /\ tokens' = tokens /\ table' = table
        /\ ncached' = [ncached EXCEPT ![s] = @ + nsched[s]]
        /\ nsched'  = [nsched EXCEPT ![s] = 0]
    BY <1>2 DEF PostChunk
  <2>2. Stays(s) /\ ncached'[s] = ncached[s] + nsched[s]
    BY <1>1, <2>1, SameStays DEF PoolTypeOK
  <2>3. \A r \in SeqId \ {s} : Untouched(r)
    BY <1>1, <2>1 DEF Untouched, PoolTypeOK, EngineTypeOK
  <2> QED BY <2>1, <2>2, <2>3
<1>3. ASSUME NEW t \in Sampled, PostToken(t)
      PROVE  /\ \A r \in SeqId \ {s} : Untouched(r)
             /\ \/ table'[s] = << >> /\ ncached'[s] = 0
                \/ Stays(s) /\ table'[s] = table[s] /\ ncached'[s] = ncached[s] + nsched[s]
  <2> DEFINE new == [id |-> t, mm |-> NoVisual]
  <2>1. /\ tokens' = [tokens EXCEPT ![s] = Append(@, new)]
        /\ nsched' = [nsched EXCEPT ![s] = 0]
        /\ \/ ncached' = [ncached EXCEPT ![s] = @ + nsched[s]] /\ table' = table
           \/ table' = [table EXCEPT ![s] = << >>] /\ ncached' = [ncached EXCEPT ![s] = 0]
    BY <1>3 DEF PostToken, Deallocate
  <2> HIDE DEF new
  <2>2. \A r \in SeqId \ {s} : Untouched(r)
    BY <1>1, <2>1 DEF Untouched, EngineTypeOK, PoolTypeOK
  <2>3. ASSUME table' = table PROVE Stays(s)
    <3>1. tokens'[s] = Append(tokens[s], new)
      BY <1>1, <2>1 DEF PoolTypeOK
    <3>2. /\ Len(tokens'[s]) = Len(tokens[s]) + 1
          /\ \A j \in 1..Len(tokens[s]) : tokens'[s][j] = tokens[s][j]
      BY <1>1, <3>1
    <3>3. NumTokens(s) <= NumTokens(s)' /\ Len(table[s]) <= Len(table'[s])
      BY <1>1, <2>3, <3>2 DEF NumTokens
    <3> QED BY <2>3, <3>2, <3>3 DEF Stays, NumTokens
  <2>4. CASE ncached' = [ncached EXCEPT ![s] = @ + nsched[s]] /\ table' = table
    BY <1>1, <2>2, <2>3, <2>4 DEF PoolTypeOK
  <2>5. CASE table' = [table EXCEPT ![s] = << >>] /\ ncached' = [ncached EXCEPT ![s] = 0]
    BY <1>1, <2>2, <2>5 DEF PoolTypeOK
  <2> QED BY <2>1, <2>4, <2>5
<1> QED BY <1>2, <1>3

(* Postprocess keeps the cache: what it counts as cached has been computed *)
(* by the run, and what it enters in the index holds what its hash says.   *)
LEMMA PostCache ==
    ASSUME IInv, IInv', CacheInv, CacheKept, PostChunk \/ \E t \in Sampled : PostToken(t)
    PROVE  KeyedContent' /\ TableKeyed' /\ Contents'
<1>1. PICK s \in SeqId :
         /\ s = Head(batch) /\ s \in Range(batch) /\ Range(batch') = Range(batch) \ {s}
         /\ phase \in {"postPrefill", "postDecode"} /\ HashBlocks(s, nsched[s])
  BY PostFacts
<1>2. /\ \A r \in SeqId \ {s} : Untouched(r)
      /\ \/ ncached'[s] = 0
         \/ Stays(s) /\ table'[s] = table[s] /\ ncached'[s] = ncached[s] + nsched[s]
  BY <1>1, PostEffect
<1>3. KeyedContent' /\ HashesStay
  BY <1>1, FilledContent, FilledBlocks
<1>4. ASSUME NEW r \in SeqId \ {s}
      PROVE  Stays(r) /\ ncached'[r] = ncached[r] /\ nsched'[r] = nsched[r]
  BY <1>2, SameStays DEF Untouched
<1>5. ASSUME NEW r \in SeqId \ {s}
      PROVE  Keyed(r)' /\ Computed(r, ncached[r])'
  <2>1. Keyed(r) /\ Computed(r, ncached[r])
    BY DEF CacheInv, TableKeyed, Contents
  <2>2. Keyed(r)'
    BY <1>3, <1>4, <2>1, KeyedStays
  <2>3. PICK n \in Nat : n = ncached[r] /\ n <= NumTokens(r)
    BY <2>1, CachedWithin
  <2>4. Computed(r, n)'
    BY <1>4, <2>1, <2>3, ComputedKept
  <2>5. ncached'[r] = n
    BY <1>4, <2>3
  <2> QED BY <2>2, <2>4, <2>5 DEF Computed
<1>6. ASSUME NEW r \in Range(batch')
      PROVE  Computed(r, ncached[r] + nsched[r])'
  <2>1. r \in Range(batch) /\ r \in SeqId \ {s}
    BY <1>1, IInvParts
  <2>2. ncached[r] + nsched[r] <= NumTokens(r) /\ ncached[r] + nsched[r] \in Nat
    <3>1. ncached[r] \in Nat /\ nsched[r] \in Nat /\ BatchCovered
      BY <2>1, IInvParts
    <3> QED BY <2>1, <3>1 DEF BatchCovered
  <2>3. Computed(r, ncached[r] + nsched[r])
    BY <1>1, <2>1 DEF CacheInv, Contents
  <2>4. PICK n \in Nat : n = ncached[r] + nsched[r]
    BY <2>2
  <2>5. Stays(r) /\ n <= NumTokens(r) /\ Computed(r, n)
    BY <1>4, <2>1, <2>2, <2>3, <2>4
  <2>6. Computed(r, n)'
    BY <2>1, <2>5, ComputedKept
  <2>7. ncached'[r] + nsched'[r] = n
    BY <1>4, <2>1, <2>4
  <2> QED BY <2>6, <2>7 DEF Computed
<1>7. Keyed(s)' /\ Computed(s, ncached[s])'
  <2>1. CASE ncached'[s] = 0
    BY <2>1, NothingCached
  <2>2. CASE Stays(s) /\ table'[s] = table[s] /\ ncached'[s] = ncached[s] + nsched[s]
    <3>1. PICK n \in Nat : n = ncached[s] + nsched[s]
      BY <1>1, FilledBlocks
    <3>2. /\ n <= NumTokens(s) /\ Computed(s, n) /\ n \div BlockSize \in Nat
          /\ (n \div BlockSize) * BlockSize <= n
          /\ \A i \in 1..n \div BlockSize :
                i <= Len(table[s]) /\ bhash'[table[s][i]] = PrefixHash(s, i)
      <4>1. FilledAfter(s, nsched[s]) = n \div BlockSize
        BY <3>1 DEF FilledAfter
      <4> QED BY <1>1, <3>1, <4>1, FilledBlocks
    <3>3. Computed(s, n)'
      BY <2>2, <3>2, ComputedKept
    <3>4. ncached'[s] = n
      BY <2>2, <3>1
    <3>5. ASSUME NEW i \in 1..n \div BlockSize
          PROVE  i <= Len(table'[s]) /\ bhash'[table'[s][i]] = PrefixHash(s, i)'
      <4>1. i \in Nat /\ NumTokens(s) \in Nat
        BY <3>2, IInvParts
      <4>2. i * BlockSize <= n
        <5> DEFINE d == n \div BlockSize
        <5>1. i \in 1..d /\ d \in Nat /\ d * BlockSize <= n
          BY <3>2
        <5> HIDE DEF d
        <5>2. i * BlockSize <= d * BlockSize /\ i * BlockSize \in Nat /\ d * BlockSize \in Nat
          BY <4>1, <5>1, PoolAssumption
        <5> QED BY <5>1, <5>2
      <4>3. PrefixHash(s, i)' = PrefixHash(s, i)
        BY <2>2, <3>2, <4>1, <4>2, PrefixHashStays DEF Stays
      <4> QED BY <2>2, <3>2, <4>3
    <3> QED BY <3>3, <3>4, <3>5 DEF Keyed, Computed
  <2> QED BY <1>2, <2>1, <2>2
<1> QED BY <1>3, <1>5, <1>6, <1>7 DEF TableKeyed, Contents

-----------------------------------------------------------------------------
(* Every step keeps the cache invariant, until a request whose run has     *)
(* raised is decoded: it is in running without the tokens that were to be  *)
(* computed for it.                                                        *)
LEMMA NextCache ==
    ASSUME IInv, IInv', StatusOK', CacheInv, ~ resumed', [Next]_vars
    PROVE  CacheInv'
<1>1. Progress'
  BY NextProgress DEF CacheInv
<1>2. CASE UNCHANGED vars
  BY <1>2 DEF vars, schedVars, bmVars, queueVars, stepVars, CacheInv, KeyedContent,
     TableKeyed, Keyed, Contents, Computed, Holds, BlockAt, PrefixHash, Progress,
     Tight, Settled, Caught, InStep, NumTokens
<1>3. CASE Next
  <2>1. KeyedContent' /\ TableKeyed' /\ Contents'
    <3>1. CASE Execute
      BY <3>1, ExecuteCache
    <3>2. CASE ExecuteRaises
      BY <3>2, ExecuteRaisesCache
    <3>3. CASE PrefillHead /\ CacheKept
      BY <3>3, PrefillCache
    <3>4. CASE (PostChunk \/ \E t \in Sampled : PostToken(t)) /\ CacheKept
      BY <3>4, PostCache
    <3>5. CASE /\ CacheKept
               /\ \/ StartStep \/ EndPrefill \/ DecodeHead \/ EndDecode
                  \/ PreemptTail \/ PreemptSelf \/ ScheduleDecode
                  \/ \E s \in SeqId : Abort(s) \/ \E p \in Prompts : Add(s, p)
      BY <3>5, QuietStepsCache
    <3> QED BY <1>3, <3>1, <3>2, <3>3, <3>4, <3>5 DEF Next, EngineStep
  <2> QED BY <1>1, <2>1 DEF CacheInv
<1> QED BY <1>2, <1>3

(* At the start nothing is cached and no block has a hash.                 *)
LEMMA InitCache == Init => CacheInv
<1> SUFFICES ASSUME Init PROVE CacheInv
  OBVIOUS
<1>1. /\ \A s \in SeqId : table[s] = << >> /\ ncached[s] = 0
      /\ \A b \in Block : bhash[b] = NoHash
      /\ running = << >> /\ batch = << >> /\ cur = NoSeq /\ phase = "idle"
  BY DEF Init, InitScheduler, InitPool
<1>2. KeyedContent
  BY <1>1 DEF KeyedContent
<1>3. \A s \in SeqId : Computed(s, ncached[s])
  BY <1>1 DEF Computed
<1>4. TableKeyed
  <2>1. 0 \div BlockSize = 0
    BY PoolAssumption, DivIs
  <2> QED BY <1>1, <2>1 DEF TableKeyed, Keyed
<1>5. Progress
  <2>1. Range(<< >>) = {}
    BY DEF Range
  <2> QED BY <1>1, <2>1 DEF Progress
<1> QED BY <1>1, <1>2, <1>3, <1>4, <1>5 DEF CacheInv, Contents

(* The blocks of the index hold what their hash stands for, every full     *)
(* cached block of a table carries the hash of its request's prefix, and   *)
(* what counts as cached is - however often runs raise, as long as no      *)
(* request whose run raised is decoded without having been preempted.      *)
THEOREM CacheInvariant == Spec => [](IInv /\ (~ resumed => CacheInv))
<1> DEFINE Inv == IInv /\ StatusOK /\ (~ resumed => CacheInv)
<1>1. Init => Inv
  BY InitIInv, InitStatus, InitCache
<1>2. Inv /\ [Next]_vars => Inv'
  <2> SUFFICES ASSUME Inv, [Next]_vars PROVE Inv'
    OBVIOUS
  <2>1. IInv' /\ StatusOK'
    BY NextIInv, NextStatus
  <2>2. ASSUME ~ resumed' PROVE CacheInv'
    <3>1. ~ resumed
      <4>1. CASE UNCHANGED vars
        BY <2>2, <4>1 DEF vars
      <4> QED BY <2>2, <4>1, RemembersSome, NoneResumed
    <3> QED BY <2>1, <2>2, <3>1, NextCache
  <2> QED BY <2>1, <2>2
<1>3. Inv => IInv /\ (~ resumed => CacheInv)
  OBVIOUS
<1> HIDE DEF Inv
<1> QED BY <1>1, <1>2, <1>3, PTL DEF Spec

(* The cached-token counter of a request never runs ahead of the cache:    *)
(* every token it covers is in the slot block_table names, computed from   *)
(* this very prefix, until a request whose run raised is decoded.          *)
THEOREM CachedAlwaysComputed == Spec => []CachedTokensComputed
<1>1. IInv /\ (~ resumed => CacheInv) => CachedTokensComputed
  BY DEF CacheInv, Contents, CachedTokensComputed
<1> QED BY <1>1, CacheInvariant, PTL

-----------------------------------------------------------------------------
(* The engine implements the abstract pool of BlockPool.tla: a block is    *)
(* owned by the requests whose tables contain it, and its hash is its      *)
(* content.                                                                *)

(* The owners of a block after a step that changes the table of s only.    *)
LEMMA OwnersChange ==
    ASSUME NEW s \in SeqId, \A r \in SeqId \ {s} : table'[r] = table[r], NEW b
    PROVE  /\ s \in Owners(b)' <=> b \in Range(table'[s])
           /\ \A r \in SeqId \ {s} : r \in Owners(b)' <=> r \in Owners(b)
           /\ Owners(b) \in SUBSET SeqId /\ Owners(b)' \in SUBSET SeqId
  BY DEF Owners

(* A request without blocks acquires cached ones and free ones.            *)
LEMMA AcquireImplements ==
    ASSUME IInv, IInv', NEW s \in SeqId, table[s] = << >>, NumTokens(s) > 0,
           CanAllocate(s), Allocate(s, NumCachedBlocks(s)), UNCHANGED tokens
    PROVE  Pool!PoolNext
<1> DEFINE n == NumCachedBlocks(s)
           T == table'[s]
           full == { T[i] : i \in 1..n }
           new  == { T[i] : i \in n + 1..Len(T) }
<1>1. /\ PoolInv /\ TailExclusive' /\ RefCountsExact' /\ PoolTypeOK' /\ PoolTypeOK
      /\ RefCountsExact
  BY DEF IInv, PoolInv
<1>2. /\ \A r \in SeqId \ {s} : table'[r] = table[r]
      /\ ncached'[s] = n * BlockSize
      /\ \A i \in 1..n : i <= Len(T) /\ bhash'[T[i]] = PrefixHash(s, i)
      /\ \A b \in Block : \/ bhash'[b] = bhash[b]
                          \/ bhash'[b] = NoHash /\ b \in Range(T)
  BY <1>1, AllocateKeepsPool
<1>3. n \in Nat /\ T \in Seq(Block) /\ Len(T) \in Nat /\ Injective(T)
  BY <1>1, CachedBlocksIndexed, IInvParts DEF PoolTypeOK, RefCountsExact
<1>4. (n * BlockSize) \div BlockSize = n
  BY <1>3, PoolAssumption, DivBounds
<1> HIDE DEF n
<1>5. ASSUME NEW i \in n + 1..Len(T)
      PROVE  T[i] \in Block /\ bhash'[T[i]] = NoHash /\ Owners(T[i]) = {}
  <2>1. i \in 1..Len(T) /\ i > n
    BY <1>3
  <2>2. T[i] \in Block /\ T[i] \in Range(T)
    BY <1>3, <2>1, ElementOfSeq DEF Range
  <2>3. bhash'[T[i]] = NoHash /\ ref'[T[i]] = 1
    BY <1>1, <1>2, <1>4, <2>1 DEF TailExclusive
  <2>4. PICK b \in Block : b = T[i]
    BY <2>2
  <2>5. s \in Owners(b)' /\ s \notin Owners(b)
    <3>1. b \notin Range(table[s])
      BY DEF Range
    <3> QED BY <2>2, <2>4, <3>1 DEF Owners
  <2>6. Owners(b)' = {s}
    <3>1. IsFiniteSet(Owners(b)') /\ Cardinality(Owners(b)') = 1
      BY <1>1, <2>3, <2>4 DEF RefCountsExact
    <3>2. IsFiniteSet({s}) /\ Cardinality({s}) = 1 /\ {s} \subseteq Owners(b)'
      BY <2>5, FS_Singleton
    <3> QED BY <3>1, <3>2, FS_Subset
  <2>7. /\ \A r \in SeqId \ {s} : r \in Owners(b)' <=> r \in Owners(b)
        /\ Owners(b) \in SUBSET SeqId
    BY <1>2, OwnersChange
  <2> QED BY <2>2, <2>3, <2>4, <2>5, <2>6, <2>7
<1>6. ASSUME NEW i \in 1..n
      PROVE  T[i] \in Block /\ bhash'[T[i]] = bhash[T[i]] /\ bhash[T[i]] # NoHash
  <2>1. i \in 1..Len(T) /\ i \in Nat \ {0}
    BY <1>2, <1>3
  <2>2. T[i] \in Block
    BY <1>3, <2>1, ElementOfSeq
  <2>3. bhash'[T[i]] # NoHash
    BY <1>2, <2>1, PrefixHashInjective
  <2> QED BY <1>2, <2>2, <2>3
<1>7. Range(T) = full \cup new
  BY <1>2, <1>3 DEF Range
<1>8. full \cap new = {}
  BY <1>5, <1>6
<1>9. /\ full \in SUBSET { b \in Block : bhash[b] # NoHash }
      /\ new \in SUBSET { b \in Block : [ x \in Block |-> Owners(x) ][b] = {} }
  BY <1>5, <1>6
<1>10. \A b \in new : bhash'[b] = NoHash
  BY <1>5
<1>11. \A b \in full : bhash'[b] = bhash[b]
  BY <1>6
<1> HIDE DEF full, new, T
<1>12. [ b \in Block |-> Owners(b) ]'
          = [ b \in Block |-> IF b \in full \cup new
                              THEN [ x \in Block |-> Owners(x) ][b] \cup {s}
                              ELSE [ x \in Block |-> Owners(x) ][b] ]
  <2> SUFFICES ASSUME NEW b \in Block
               PROVE  Owners(b)' = IF b \in full \cup new THEN Owners(b) \cup {s} ELSE Owners(b)
    OBVIOUS
  <2>1. /\ s \in Owners(b)' <=> b \in full \cup new
        /\ \A r \in SeqId \ {s} : r \in Owners(b)' <=> r \in Owners(b)
        /\ Owners(b) \in SUBSET SeqId /\ Owners(b)' \in SUBSET SeqId
    BY <1>2, <1>7, OwnersChange DEF T
  <2>2. s \notin Owners(b)
    BY DEF Owners, Range
  <2> DEFINE O == Owners(b)'
             P == Owners(b)
  <2>3. /\ s \in O <=> b \in full \cup new
        /\ \A r \in SeqId \ {s} : r \in O <=> r \in P
        /\ P \in SUBSET SeqId /\ O \in SUBSET SeqId /\ s \notin P
    BY <2>1, <2>2
  <2> HIDE DEF O, P
  <2>4. CASE b \in full \cup new
    <3>1. O = P \cup {s}
      BY <2>3, <2>4, Zenon
    <3> QED BY <2>4, <3>1 DEF O, P
  <2>5. CASE b \notin full \cup new
    <3>1. \A r \in SeqId : r \in O <=> r \in P
      BY <2>3, <2>5
    <3>2. O = P
      BY <2>3, <3>1
    <3> QED BY <2>5, <3>2 DEF O, P
  <2> QED BY <2>4, <2>5
<1>13. bhash' = [ b \in Block |-> IF b \in new THEN NoHash ELSE bhash[b] ]
  <2>1. \A b \in Block : bhash'[b] = IF b \in new THEN NoHash ELSE bhash[b]
    BY <1>2, <1>7, <1>10, <1>11 DEF T
  <2>2. bhash' = [ b \in Block |-> bhash'[b] ]
    BY <1>1 DEF PoolTypeOK
  <2> QED BY <2>1, <2>2
<1>14. Pool!Acquire(s, full, new)
  BY <1>8, <1>12, <1>13 DEF Pool!Acquire
<1>15. Pool!Owned(s) = {}
  BY DEF Pool!Owned, Owners, Range
<1> QED BY <1>9, <1>14, <1>15, Zenon DEF Pool!PoolNext

(* A request whose decode slot opens a block takes a free one.             *)
LEMMA ExtendImplements ==
    ASSUME IInv, IInv', NEW s \in SeqId, s = cur, ScheduleDecode
    PROVE  [Pool!PoolNext]_(Pool!poolState)
<1>1. /\ PoolTypeOK /\ RefCountsExact /\ PoolTypeOK' /\ PoolInv /\ PoolPartition
      /\ table[s] \in Seq(Block) /\ table[s] # << >> /\ free \in Seq(Block)
  BY IInvParts, SchedulerAssumption DEF PoolInv, PoolTypeOK, TablesCover, IInv
<1>2. CanAppend(s) /\ MayAppend(s)
  BY DEF ScheduleDecode
<1>3. CASE ~ OpensBlock(s)
  <2>1. table' = table /\ bhash' = bhash
    BY <1>2, <1>3 DEF MayAppend
  <2> QED BY <2>1 DEF Pool!poolState, Owners
<1>4. CASE OpensBlock(s)
  <2>1. PICK b \in Block : b = Head(free) /\ b \in Range(free)
    <3>1. free # << >>
      BY <1>1, <1>2, <1>4 DEF CanAppend
    <3> QED BY <1>1, <3>1, EndFacts
  <2>2. table' = [table EXCEPT ![s] = Append(@, b)] /\ ResetBlocks({b})
    BY <1>2, <1>4, <2>1 DEF MayAppend
  <2>3. Owners(b) = {}
    <3>1. ref[b] = 0
      BY <1>1, <2>1 DEF PoolPartition, PoolTypeOK
    <3> QED BY <1>1, <3>1, CountedOwners
  <2>4. /\ \A r \in SeqId \ {s} : table'[r] = table[r]
        /\ Range(table'[s]) = Range(table[s]) \cup {b}
    <3>1. table'[s] = Append(table[s], b) /\ \A r \in SeqId \ {s} : table'[r] = table[r]
      BY <1>1, <2>2 DEF PoolTypeOK
    <3> QED BY <1>1, <3>1, PushBack
  <2>5. [ x \in Block |-> Owners(x) ]' = [ [ x \in Block |-> Owners(x) ] EXCEPT ![b] = {s} ]
    <3> SUFFICES ASSUME NEW x \in Block
                 PROVE  Owners(x)' = IF x = b THEN {s} ELSE Owners(x)
      OBVIOUS
    <3>1. /\ s \in Owners(x)' <=> x \in Range(table[s]) \cup {b}
          /\ \A r \in SeqId \ {s} : r \in Owners(x)' <=> r \in Owners(x)
          /\ Owners(x) \in SUBSET SeqId /\ Owners(x)' \in SUBSET SeqId
      BY <2>4, OwnersChange
    <3>2. s \in Owners(x) <=> x \in Range(table[s])
      BY DEF Owners
    <3> QED BY <2>3, <3>1, <3>2
  <2>6. bhash' = [bhash EXCEPT ![b] = NoHash]
    BY <1>1, <2>2 DEF ResetBlocks, PoolTypeOK
  <2>7. Pool!Owned(s) # {}
    <3>1. Head(table[s]) \in Block /\ Head(table[s]) \in Range(table[s])
      BY <1>1, EndFacts
    <3>2. s \in Owners(Head(table[s]))
      BY <3>1 DEF Owners
    <3> QED BY <3>1, <3>2 DEF Pool!Owned
  <2>8. Pool!Extend(s, b)
    BY <2>3, <2>5, <2>6, <2>7 DEF Pool!Extend
  <2> QED BY <2>8, Zenon DEF Pool!PoolNext
<1> QED BY <1>3, <1>4

(* A request that has filled blocks of its own, or gives its blocks back.  *)
LEMMA FillImplements ==
    ASSUME IInv, IInv', NEW s \in SeqId, \A r \in SeqId \ {s} : table'[r] = table[r],
           table'[s] = table[s] \/ table'[s] = << >>,
           \A b \in Block : bhash'[b] = bhash[b] \/ (bhash[b] = NoHash /\ Owners(b) = {s})
    PROVE  Pool!PoolNext
<1> DEFINE filled == { b \in Block : bhash'[b] # bhash[b] }
           giveBack == table'[s] = << >>
<1>1. DOMAIN bhash' = Block
  BY DEF IInv, PoolInv, PoolTypeOK
<1>2. filled \in SUBSET { b \in Block : [ x \in Block |-> Owners(x) ][b] = {s} }
  OBVIOUS
<1>3. giveBack \in BOOLEAN
  OBVIOUS
<1>4. [ b \in Block |-> Owners(b) ]' =
         IF giveBack THEN [ b \in Block |-> [ x \in Block |-> Owners(x) ][b] \ {s} ]
         ELSE [ b \in Block |-> Owners(b) ]
  <2>1. CASE giveBack
    <3>1. ASSUME NEW b \in Block PROVE Owners(b)' = Owners(b) \ {s}
      BY <2>1, OwnersChange DEF Range
    <3> QED BY <2>1, <3>1
  <2>2. CASE ~ giveBack
    <3>1. ASSUME NEW b \in Block PROVE Owners(b)' = Owners(b)
      BY <2>2 DEF Owners
    <3> QED BY <2>2, <3>1
  <2> QED BY <2>1, <2>2
<1>5. Pool!Fill(s, filled, giveBack)
  BY <1>1, <1>4 DEF Pool!Fill
<1> HIDE DEF filled, giveBack
<1> QED BY <1>2, <1>3, <1>5, Zenon DEF Pool!PoolNext

(* Every step of the engine is one of the abstract pool, or no step of it. *)
LEMMA StepImplementsPool ==
    ASSUME IInv, IInv', [Next]_vars
    PROVE  [Pool!PoolNext]_(Pool!poolState)
<1>1. /\ EngineTypeOK /\ PoolInv /\ PoolTypeOK /\ QueuesOK /\ BatchCovered
      /\ running \in Seq(SeqId) /\ waiting \in Seq(SeqId)
  BY IInvParts DEF PoolInv
<1>2. ASSUME UNCHANGED <<table, bhash>> PROVE UNCHANGED Pool!poolState
  BY <1>2 DEF Pool!poolState, Owners
<1>3. CASE \/ UNCHANGED vars \/ Execute \/ ExecuteRaises \/ StartStep \/ EndPrefill
           \/ DecodeHead \/ EndDecode
           \/ \E s \in SeqId, p \in Prompts : Add(s, p)
  <2>1. UNCHANGED <<table, bhash>>
    BY <1>3 DEF vars, schedVars, bmVars, Execute, ExecuteRaises, Run, RunRaises, StartStep,
       EndPrefill, DecodeHead, EndDecode, Add, poolVars
  <2> QED BY <1>2, <2>1
<1>4. CASE PrefillHead
  <2>1. PICK s \in SeqId :
           /\ tokens' = tokens
           /\ IF Fresh(s)
              THEN /\ table[s] = << >> /\ NumTokens(s) > 0 /\ CanAllocate(s)
                   /\ Allocate(s, NumCachedBlocks(s))
              ELSE UNCHANGED <<table, poolVars>>
    BY <1>4, PrefillFacts
  <2>2. CASE Fresh(s)
    BY <2>1, <2>2, AcquireImplements
  <2>3. CASE ~ Fresh(s)
    BY <1>2, <2>1, <2>3 DEF poolVars
  <2> QED BY <2>2, <2>3
<1>5. CASE ScheduleDecode
  <2>1. cur \in SeqId
    BY <1>1, <1>5 DEF ScheduleDecode, BatchCovered, EngineTypeOK
  <2>2. PICK s \in SeqId : s = cur
    BY <2>1
  <2> QED BY <1>5, <2>2, ExtendImplements
<1>6. ASSUME NEW s \in SeqId, Deallocate(s), bhash' = bhash PROVE Pool!PoolNext
  <2>1. /\ \A r \in SeqId \ {s} : table'[r] = table[r]
        /\ table'[s] = << >>
    BY <1>1, <1>6 DEF Deallocate, PoolTypeOK
  <2> QED BY <1>6, <2>1, FillImplements
<1>7. CASE PreemptTail \/ PreemptSelf
  <2>1. PICK s : Preempt(s) /\ s \in SeqId
    <3>1. CASE PreemptTail
      <4>1. Last(running) \in SeqId /\ Preempt(Last(running))
        BY <1>1, <3>1, EndFacts DEF PreemptTail
      <4> QED BY <4>1
    <3>2. CASE PreemptSelf
      BY <1>1, <3>2 DEF PreemptSelf, BatchCovered, EngineTypeOK
    <3> QED BY <1>7, <3>1, <3>2
  <2> QED BY <1>6, <2>1 DEF Preempt
<1>8. ASSUME NEW s \in SeqId, Abort(s)
      PROVE  [Pool!PoolNext]_(Pool!poolState)
  <2>1. bhash' = bhash /\ (Deallocate(s) \/ table' = table)
    BY <1>8 DEF Abort, Cancel
  <2> QED BY <1>2, <1>6, <2>1
<1>9. CASE PostChunk \/ \E t \in Sampled : PostToken(t)
  <2>1. PICK s \in SeqId : /\ s = Head(batch) /\ s \in Range(batch)
                           /\ HashBlocks(s, nsched[s])
    BY <1>9, PostFacts
  <2>2. /\ \A r \in SeqId \ {s} : table'[r] = table[r]
        /\ table'[s] = table[s] \/ table'[s] = << >>
    BY <1>9, <2>1, PostEffect DEF Untouched
  <2>3. ASSUME NEW b \in Block, bhash'[b] # bhash[b]
        PROVE  bhash[b] = NoHash /\ Owners(b) = {s}
    <3> DEFINE start == ncached[s] \div BlockSize
               end   == FilledAfter(s, nsched[s])
    <3>1. PICK i \in start + 1..end : table[s][i] = b
      BY <2>1, <2>3 DEF HashBlocks
    <3>2. /\ start \in Nat /\ end \in Nat /\ end <= Len(table[s]) /\ Len(table[s]) \in Nat
          /\ TailExclusive /\ RefCountsExact
      <4>1. /\ ncached[s] \in Nat /\ nsched[s] \in Nat /\ Len(table[s]) \in Nat
            /\ NumTokens(s) \in Nat
        BY IInvParts
      <4>2. ncached[s] + nsched[s] <= NumTokens(s) /\ NumTokens(s) <= Len(table[s]) * BlockSize
        BY <1>1, <2>1 DEF BatchCovered
      <4> DEFINE q == ncached[s] + nsched[s]
                 k == Len(table[s])
      <4>3. q \in Nat /\ k \in Nat /\ k * BlockSize \in Nat /\ q <= k * BlockSize
        <5>1. k * BlockSize \in Nat
          BY <4>1, PoolAssumption
        <5> QED BY <4>1, <4>2, <5>1
      <4>4. end = q \div BlockSize
        BY DEF FilledAfter
      <4> HIDE DEF q, k, end
      <4>5. end \in Nat /\ end <= k
        BY <4>3, <4>4, PoolAssumption, DivBounds, DivFacts
      <4>6. start \in Nat
        BY <4>1, PoolAssumption, DivFacts
      <4> QED BY <1>1, <4>1, <4>5, <4>6 DEF k, PoolInv
    <3> HIDE DEF start, end
    <3>3. i \in 1..Len(table[s]) /\ i > start
      BY <3>2
    <3>4. bhash[b] = NoHash /\ ref[b] = 1
      BY <3>1, <3>2, <3>3 DEF TailExclusive, start
    <3>5. s \in Owners(b)
      BY <3>1, <3>3 DEF Owners, Range
    <3> QED BY <3>2, <3>4, <3>5, CountedOwners
  <2>4. \A b \in Block : bhash'[b] = bhash[b] \/ (bhash[b] = NoHash /\ Owners(b) = {s})
    BY <2>3
  <2> QED BY <2>2, <2>4, FillImplements
<1> QED BY <1>3, <1>4, <1>5, <1>7, <1>8, <1>9 DEF Next, EngineStep

(* The engine implements the abstract pool of blocks: no block changes     *)
(* content under an owner, whatever is shared, evicted or given back.      *)
THEOREM EngineImplementsPool == Spec => ImplementsPool
<1>1. Init => Pool!PoolInit
  <2> SUFFICES ASSUME Init PROVE Pool!PoolInit
    OBVIOUS
  <2>1. /\ \A s \in SeqId : table[s] = << >>
        /\ bhash = [ b \in Block |-> NoHash ]
    BY DEF Init, InitScheduler, InitPool
  <2>2. \A b \in Block : Owners(b) = {}
    BY <2>1 DEF Owners, Range
  <2> QED BY <2>1, <2>2 DEF Pool!PoolInit
<1>2. IInv /\ IInv' /\ [Next]_vars => [Pool!PoolNext]_(Pool!poolState)
  BY StepImplementsPool
<1> QED BY <1>1, <1>2, InductiveInvariant, PTL DEF Spec, ImplementsPool, Pool!Spec
=============================================================================
