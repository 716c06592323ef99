--------------------------- MODULE PagedAttention ---------------------------
(***************************************************************************)
(* What attention reads and writes when a batch is run                     *)
(* (nanovllm/layers/attention.py), from the context the model runner sets  *)
(* for it: the rows' K/V are stored in their slots, then every row attends *)
(* to keys that come from the batch itself or, through the block tables,   *)
(* from the cache.                                                         *)
(*                                                                         *)
(* The key of a token depends on all the tokens before it, so the key of a *)
(* row is the prefix of its request that the token ends, as in EngineCore. *)
(* That is so in every layer as long as every row of the layer before      *)
(* attended to the right keys.                                             *)
(***************************************************************************)
EXTENDS BatchInputs

INSTANCE PagedKV

(* Config.paged_kv_backend is honoured; without one attention.py stores    *)
(* with the Triton kernel and gathers with index_select.                   *)
Backends == { Resolved(r, TRUE, e) : r \in Requested, e \in BOOLEAN }

PrefixOf(s, p) == SubSeq(tokens[s], 1, p + 1)
Prefixes(s, n) == [ q \in 1..n |-> PrefixOf(s, q - 1) ]

-----------------------------------------------------------------------------
(* The context (utils/context.py).                                         *)

(* cu_seqlens_k: the keys of batch[i], the cached ones included.           *)
KeyStart(i) == Total([ s \in SeqId |-> End(s) ], batch, 1..i - 1)
KeyCount    == KeyStart(Len(batch) + 1)

(* prepare_block_tables: padded with -1 to the longest.                    *)
TableWidth == SE!Max({ Len(table[s]) : s \in Range(batch) })
PaddedTable(s) ==
    [ b \in 1..TableWidth |-> IF b <= Len(table[s]) THEN table[s][b] ELSE -1 ]

(* A prefill reads the cache only if some key is not computed by it.       *)
BugUsesCache == nsched[batch[1]] < End(batch[1])
UsesCache    == KeyCount > RowCount

(* The rows of the batch in order: <<request, token>>.                     *)
BatchRows ==
    IF phase = "runPrefill"
    THEN SE!FlattenSeq([ i \in 1..Len(batch) |->
           [ o \in 1..nsched[batch[i]] |-> <<batch[i], Start(batch[i]) + o - 1>> ] ])
    ELSE [ i \in 1..Len(batch) |-> <<batch[i], NumTokens(batch[i]) - 1>> ]
RowKeys == [ r \in DOMAIN BatchRows |-> PrefixOf(BatchRows[r][1], BatchRows[r][2]) ]
Slots   == IF phase = "runPrefill" THEN PrefillSlots
           ELSE [ i \in 1..Len(batch) |-> DecodeSlot(batch[i]) ]

-----------------------------------------------------------------------------
(* The cache, slot by slot, and what the store makes of it.                *)
FlatCache == [ slot \in SlotNumbers |-> kv[slot \div BlockSize][slot % BlockSize] ]
AfterStore(backend) ==
    LET rows == RowKeys
        slots == Slots
    IN  StoredIn(backend, FlatCache, rows, slots)

(* The keys of a prefilled request: those the cache has for it after the   *)
(* store, or else rows of the batch.  Keys the batch does not have are     *)
(* whatever is there.                                                      *)
PrefillKeys(i, cached) ==
    IF UsesCache THEN cached
    ELSE [ k \in 1..End(batch[i]) |->
             LET row == KeyStart(i) + k
             IN  IF row <= RowCount THEN RowKeys[row] ELSE NoKV ]

(* FlashAttention (external) reads the cache through the block table, and  *)
(* aligns the causal mask with the last query: row o of q sees all but the *)
(* last q - 1 - o of its k keys.                                           *)
FlashPrefill(stored, i) ==
    LET s    == batch[i]
        keys == PrefillKeys(i, GatheredTokens(stored, PaddedTable(s), End(s)))
        q    == nsched[s]
    IN  [ o \in 0..q - 1 |-> SubSeq(keys, 1, Len(keys) - q + o + 1) ]
FlashDecode(stored, s) == GatheredTokens(stored, PaddedTable(s), NumTokens(s))

(* SDPA gathers the keys, pads queries before and after and keys after to  *)
(* the length of the prompt with zeros, masks causally if that is more     *)
(* than one, and keeps the rows that were there.                           *)
SDPAPrefill(backend, stored, i) ==
    LET s       == batch[i]
        padding == [ k \in 1..nprompt[s] - End(s) |-> NoKV ]
        keys    == PrefillKeys(i, Gathered(backend, stored, PaddedTable(s), End(s))) \o padding
    IN  [ o \in 0..nsched[s] - 1 |->
            IF nprompt[s] > 1 THEN SubSeq(keys, 1, PadBefore(s) + o + 1) ELSE keys ]
SDPADecode(backend, stored, s) ==
    Gathered(backend, stored, PaddedTable(s), NumTokens(s))

-----------------------------------------------------------------------------
(* The backends do the same: whatever the chunk, the shared prefix and the *)
(* rest of the batch, the store puts the K/V of each row where block_table *)
(* puts its token and disturbs no token that is cached for anyone; after   *)
(* it each row attends to the keys of its own prefix, all of them, in      *)
(* order, and to no other - through FlashAttention, and through SDPA when  *)
(* it accepts the batch.  As CachedTokensComputed, until a request whose   *)
(* run raised is decoded all the same.                                     *)
StoreExact(stored) ==
    /\ StoreAccepted(RowKeys, Slots, TRUE)
    /\ \A r \in DOMAIN BatchRows :
          stored[SlotOf(BatchRows[r][1], BatchRows[r][2])] = RowKeys[r]
    /\ \A s \in SeqId : Live(s) =>
          \A p \in 0..ncached[s] - 1 : stored[SlotOf(s, p)] = PrefixOf(s, p)

AttendedBy(i) ==
    [ o \in 0..nsched[batch[i]] - 1 |-> Prefixes(batch[i], Start(batch[i]) + o + 1) ]
PrefillAttends(backend, stored) ==
    /\ \A i \in 1..Len(batch) : FlashPrefill(stored, i) = AttendedBy(i)
    /\ (\A s \in Range(batch) : PadAfter(s) >= 0) =>
         \A i \in 1..Len(batch) : SDPAPrefill(backend, stored, i) = AttendedBy(i)

DecodeAttends(backend, stored) ==
    \A s \in Range(batch) :
        /\ GatherAccepted(PaddedTable(s), NumTokens(s), TRUE)
        /\ FlashDecode(stored, s) = Prefixes(s, NumTokens(s))
        /\ SDPADecode(backend, stored, s) = Prefixes(s, NumTokens(s))

RowsAttendPrefix ==
    ~ resumed /\ phase \in {"runPrefill", "runDecode"} =>
        \A backend \in Backends : LET stored == AfterStore(backend) IN
            /\ StoreExact(stored)
            /\ IF phase = "runPrefill" THEN PrefillAttends(backend, stored)
                                       ELSE DecodeAttends(backend, stored)
=============================================================================
