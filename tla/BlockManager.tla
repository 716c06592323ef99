---------------------------- MODULE BlockManager ----------------------------
(***************************************************************************)
(* The paged KV-cache block manager (nanovllm/engine/block_manager.py):    *)
(* a pool of physical blocks with reference counts, a FIFO list of free    *)
(* blocks, and an index from the rolling hash of a full block to the       *)
(* physical block that holds it, through which sequences share prefixes.   *)
(*                                                                         *)
(* The module has the state and one action per public operation; who       *)
(* calls them, and when, is Scheduler.tla's part.  The 64-bit xxhash of a  *)
(* chain of block keys is idealised as the chain itself, so two hashes are *)
(* equal exactly when the keyed prefixes are.                              *)
(*                                                                         *)
(* A definition named BugX is not part of the specification: it is X with  *)
(* a plausible mistake, kept so that the checks can be tried against it.   *)
(***************************************************************************)
EXTENDS Deques

CONSTANTS
    NumBlocks,    (* Config.num_kvcache_blocks                              *)
    BlockSize,    (* Config.kvcache_block_size                              *)
    SeqId,        (* the requests that may ever be submitted                *)
    TokenId,      (* vocabulary                                             *)
    Visual,       (* identities "<feature key>:<offset>" of visual tokens   *)
    NoVisual      (* the None of a text token                               *)

(* There is at least one block, and the block size is one that             *)
(* can_append's test len % block_size == 1 works for; config.py only       *)
(* admits multiples of 256.                                                *)
ASSUME PoolAssumption ==
    /\ NumBlocks \in Nat \ {0}
    /\ BlockSize \in Nat \ {0, 1}
    /\ NoVisual \notin Visual

Block == 0..NumBlocks - 1
Token == [id : TokenId, mm : Visual \cup {NoVisual}]

(* Block.hash = -1. *)
NoHash == << >>

VARIABLES
    tokens,     (* Sequence.token_ids with the visual identity of each one  *)
    table,      (* Sequence.block_table                                     *)
    ncached,    (* Sequence.num_cached_tokens                               *)
    free,       (* BlockManager.free_block_ids                              *)
    used,       (* BlockManager.used_block_ids                              *)
    ref,        (* Block.ref_count                                          *)
    bhash,      (* Block.hash                                               *)
    hmap        (* BlockManager.hash_to_block_id, only hashes that are keys *)

poolVars == <<free, used, ref, bhash, hmap>>
bmVars   == <<tokens, table, ncached, free, used, ref, bhash, hmap>>

InitPool ==
    /\ free  = [ i \in 1..NumBlocks |-> i - 1 ]
    /\ used  = {}
    /\ ref   = [ b \in Block |-> 0 ]
    /\ bhash = [ b \in Block |-> NoHash ]
    /\ hmap  = << >>

-----------------------------------------------------------------------------
(* What a request looks like to the manager.                               *)

NumTokens(s) == Len(tokens[s])
CeilDiv(n)   == (n + BlockSize - 1) \div BlockSize
NumBlocksOf(s) == CeilDiv(NumTokens(s))

(* PrefixCacheToken: the token id and the visual identity at its position. *)
BugCacheToken(t) == <<t.id>>
CacheToken(t)    == <<t.id, t.mm>>

(* The rolling hash after the first n full blocks, as can_allocate and     *)
(* allocate compute it from scratch.                                       *)
PrefixHash(s, n) == [ j \in 1..n * BlockSize |-> CacheToken(tokens[s][j]) ]

(* Extending the rolling hash h by the keys of logical blocks m..n-1.      *)
ChainFrom(h, s, m, n) ==
    h \o [ j \in 1..(n - m) * BlockSize |->
              CacheToken(tokens[s][m * BlockSize + j]) ]

-----------------------------------------------------------------------------
(* can_allocate.  The scan stops before the last logical block, which may  *)
(* not be full and must leave at least one token to compute.               *)

ReusableBlocks(s) == NumBlocksOf(s) - 1

(* How many leading blocks are in the index: the scan stops at a miss.     *)
NumCachedBlocks(s) ==
    Cardinality({ n \in 1..ReusableBlocks(s) :
                    \A i \in 1..n : PrefixHash(s, i) \in DOMAIN hmap })

CachedBlock(s, i) == hmap[PrefixHash(s, i)]

(* Only cached blocks somebody still uses come for free: a cached block in *)
(* the free list is taken out of it.                                       *)
CanAllocate(s) ==
    LET shared == { i \in 1..NumCachedBlocks(s) : CachedBlock(s, i) \in used }
    IN  Len(free) >= NumBlocksOf(s) - Cardinality(shared)

(* _allocate_block on every block of B: drop the index entry that still    *)
(* points at it, then Block.reset().                                       *)
BugIndexWithout(B) == DOMAIN hmap
IndexWithout(B) ==
    { h \in DOMAIN hmap : ~ (hmap[h] \in B /\ bhash[hmap[h]] = h) }
ResetBlocks(B) ==
    /\ hmap'  = Restrict(hmap, IndexWithout(B))
    /\ bhash' = [ b \in Block |-> IF b \in B THEN NoHash ELSE bhash[b] ]

(* Taking block b: a block found in use gains a reference, a block found   *)
(* free, cached or not, starts at one.                                     *)
BugRefAfterReuse(b) == 1
RefAfterReuse(b)    == IF b \in used THEN ref[b] + 1 ELSE 1

(* allocate(seq, n): share the n cached prefix blocks, wherever they are,  *)
(* then pop the rest from the head of the free list.                       *)
Allocate(s, n) ==
    LET hit  == [ i \in 1..n |-> CachedBlock(s, i) ]
        rest == Keep(free, Block \ Range(hit))
        m    == NumBlocksOf(s) - n
        new  == SubSeq(rest, 1, m)
    IN  /\ table'   = [table EXCEPT ![s] = hit \o new]
        /\ ncached' = [ncached EXCEPT ![s] = n * BlockSize]
        /\ free'    = SubSeq(rest, m + 1, Len(rest))
        /\ used'    = used \cup Range(hit) \cup Range(new)
        /\ ref'     = [ b \in Block |->
                          IF b \in Range(hit) \cup Range(new)
                          THEN RefAfterReuse(b) ELSE ref[b] ]
        /\ ResetBlocks(Range(new))

(* The blocks of s that nobody else references. *)
LastOwned(s) == { b \in Range(table[s]) : ref[b] = 1 }

(* deallocate(seq): one reference less on each block, last block first; a  *)
(* block that drops to zero joins the tail of the free list and keeps its  *)
(* hash, so a later request may still reuse what it holds.                 *)
BugFreed(s)     == Range(table[s])
Freed(s)        == LastOwned(s)
Deallocate(s) ==
    /\ free'    = free \o Keep(Reversed(table[s]), Freed(s))
    /\ used'    = used \ Freed(s)
    /\ ref'     = [ b \in Block |->
                      IF b \in Range(table[s]) THEN ref[b] - 1 ELSE ref[b] ]
    /\ table'   = [table EXCEPT ![s] = << >>]
    /\ ncached' = [ncached EXCEPT ![s] = 0]

-----------------------------------------------------------------------------
(* Decode: a new block is needed when the token about to be computed is    *)
(* the first of its block.                                                 *)

OpensBlock(s) == NumTokens(s) % BlockSize = 1

CanAppend(s) == OpensBlock(s) => Len(free) >= 1

MayAppend(s) ==
    IF OpensBlock(s)
    THEN LET b == Head(free)
         IN  /\ table' = [table EXCEPT ![s] = Append(@, b)]
             /\ free'  = Tail(free)
             /\ used'  = used \cup {b}
             /\ ref'   = [ref EXCEPT ![b] = 1]
             /\ ResetBlocks({b})
    ELSE UNCHANGED <<table, free, used, ref, bhash, hmap>>

(* hash_blocks(seq): give every block that the q tokens just computed have *)
(* filled its hash, chained to the hash stored in the block before them,   *)
(* and enter it in the index (in place of an older holder of that hash).   *)
FilledAfter(s, q) == (ncached[s] + q) \div BlockSize
HashBlocks(s, q) ==
    LET start == ncached[s] \div BlockSize
        end   == FilledAfter(s, q)
        h0    == IF start > 0 THEN bhash[table[s][start]] ELSE NoHash
        H(i)  == ChainFrom(h0, s, start, i)
        new   == { H(i) : i \in start + 1..end }
        IndexOf(h) == CHOOSE i \in start + 1..end : H(i) = h
    IN  /\ bhash' = [ b \in Block |->
                        IF \E i \in start + 1..end : table[s][i] = b
                        THEN H(CHOOSE i \in start + 1..end : table[s][i] = b)
                        ELSE bhash[b] ]
        /\ hmap'  = [ h \in DOMAIN hmap \cup new |->
                        IF h \in new THEN table[s][IndexOf(h)] ELSE hmap[h] ]

-----------------------------------------------------------------------------
(* What every operation preserves.                                         *)

CacheKey == Seq(TokenId \X (Visual \cup {NoVisual}))

(* Every field of the manager and of the requests has its type.            *)
PoolTypeOK ==
    /\ tokens  \in [SeqId -> Seq(Token)]
    /\ table   \in [SeqId -> Seq(Block)]
    /\ ncached \in [SeqId -> Nat]
    /\ free \in Seq(Block)
    /\ used \subseteq Block
    /\ ref   \in [Block -> Nat]
    /\ bhash \in [Block -> CacheKey]

(* A block's reference count is the number of requests whose block table   *)
(* contains it, and a table never contains a block twice: blocks are       *)
(* neither leaked nor given back while somebody still reads them.          *)
Owners(b) == { s \in SeqId : b \in Range(table[s]) }
RefCountsExact ==
    /\ \A b \in Block : IsFiniteSet(Owners(b)) /\ ref[b] = Cardinality(Owners(b))
    /\ \A s \in SeqId : Injective(table[s])

(* The free list and the used set split the blocks between them, the free  *)
(* list has no duplicates, and used blocks are exactly the referenced ones.*)
PoolPartition ==
    /\ used = { b \in Block : ref[b] > 0 }
    /\ Range(free) = Block \ used
    /\ Injective(free)

(* Whatever the prefix index points at is a block with that very hash.     *)
IndexSound ==
    \A h \in DOMAIN hmap : h # NoHash /\ hmap[h] \in Block /\ bhash[hmap[h]] = h

(* The blocks of a table beyond the cached tokens are not shared and not   *)
(* in the prefix index: what a run may write into.                         *)
TailExclusive ==
    \A s \in SeqId : \A i \in 1..Len(table[s]) :
        i > ncached[s] \div BlockSize =>
            bhash[table[s][i]] = NoHash /\ ref[table[s][i]] = 1

(* All of the above: what each public operation preserves.                 *)
PoolInv ==
    /\ PoolTypeOK
    /\ RefCountsExact
    /\ PoolPartition
    /\ IndexSound
    /\ TailExclusive
=============================================================================
