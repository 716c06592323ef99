------------------------------ MODULE PagedKV ------------------------------
(***************************************************************************)
(* The operations on the paged KV cache and their three implementations    *)
(* (nanovllm/layers/paged_kv, csrc/paged_kv): store writes the K/V of the  *)
(* rows of a batch to their slots, gather reads a sequence back through    *)
(* its block table.  A cache maps slots to what they hold; slot and block  *)
(* numbers count from 0, and -1 stands for none.                           *)
(*                                                                         *)
(* K and V of one layer always move together and are one value here.  That *)
(* shapes, strides, devices and types agree is left out: they are fixed    *)
(* when the model is built.                                                *)
(***************************************************************************)
EXTENDS Integers, Sequences

CONSTANTS NumBlocks, BlockSize

SlotNumbers == 0..NumBlocks * BlockSize - 1

(* resolve_paged_kv_backend_name: Config.paged_kv_backend, whether there   *)
(* is a GPU, and whether the extension is built.                           *)
Requested == {"auto", "pytorch", "triton", "cuda"}
Resolved(requested, gpu, extension) ==
    IF requested # "auto" THEN requested
    ELSE IF ~ gpu THEN "pytorch" ELSE IF extension THEN "cuda" ELSE "triton"

-----------------------------------------------------------------------------
(* validate_store_inputs.  The values of slots are looked at only when     *)
(* they are on the CPU or NANOVLLM_PAGED_KV_VALIDATE_INDICES asks for it.  *)
StoreAccepted(rows, slots, validate) ==
    /\ Len(slots) = Len(rows)
    /\ validate => \A i \in DOMAIN slots : slots[i] \in SlotNumbers \cup {-1}

(* The rows a backend does not store.                                      *)
Skipped(backend, slot) == IF backend = "triton" THEN slot = -1 ELSE slot < 0

(* No row is written outside the cache.                                    *)
StoreInside(backend, slots) ==
    \A i \in DOMAIN slots : Skipped(backend, slots[i]) \/ slots[i] \in SlotNumbers

(* Rows that share a slot leave it to chance which is kept: any of them.   *)
StoredIn(backend, cache, rows, slots) ==
    LET Rows(slot) == { i \in DOMAIN slots : slots[i] = slot /\ ~ Skipped(backend, slot) }
    IN  [ slot \in SlotNumbers |->
            IF Rows(slot) = {} THEN cache[slot]
            ELSE rows[CHOOSE i \in Rows(slot) : TRUE] ]

-----------------------------------------------------------------------------
(* validate_gather_inputs.                                                 *)
RequiredBlocks(length) == (length + BlockSize - 1) \div BlockSize
GatherAccepted(blockTable, length, validate) ==
    /\ length >= 0
    /\ Len(blockTable) >= RequiredBlocks(length)
    /\ validate => \A b \in 1..RequiredBlocks(length) : blockTable[b] \in 0..NumBlocks - 1

(* PyTorch selects whole blocks, joins them and cuts the last one ...      *)
SelectedBlocks(cache, blockTable, length) ==
    LET joined == [ i \in 1..RequiredBlocks(length) * BlockSize |->
                      cache[blockTable[(i - 1) \div BlockSize + 1] * BlockSize
                              + ((i - 1) % BlockSize)] ]
    IN  SubSeq(joined, 1, length)

(* ... the kernels compute the slot of each token.                         *)
SourceSlot(blockTable, token) ==
    blockTable[token \div BlockSize + 1] * BlockSize + (token % BlockSize)
GatheredTokens(cache, blockTable, length) ==
    [ i \in 1..length |-> cache[SourceSlot(blockTable, i - 1)] ]

Gathered(backend, cache, blockTable, length) ==
    IF backend = "pytorch" THEN SelectedBlocks(cache, blockTable, length)
    ELSE GatheredTokens(cache, blockTable, length)

-----------------------------------------------------------------------------
(* The copy of one slot by a thread block of the CUDA kernels: d elements, *)
(* in vectors of width elements if the pointers are aligned, the rest one  *)
(* by one; each thread takes every threads-th piece.                       *)

Strided(thread, threads, from, to) ==
    { i \in from..to - 1 : i >= from + thread /\ (i - from - thread) % threads = 0 }

Vectors(d, width, aligned) == IF aligned THEN d \div width ELSE 0
VectorElements(v, width)   == v * width..v * width + width - 1

CopiedBy(thread, threads, d, width, aligned) ==
    LET vectors == Vectors(d, width, aligned)
    IN  (UNION { VectorElements(v, width) : v \in Strided(thread, threads, 0, vectors) })
          \cup Strided(thread, threads, vectors * width, d)
=============================================================================
