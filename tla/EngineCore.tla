----------------------------- MODULE EngineCore -----------------------------
(***************************************************************************)
(* The engine core: the scheduler, the block manager, and what the model   *)
(* runner does to the paged KV cache when it computes a batch              *)
(* (nanovllm/engine/engine_core.py, model_runner.py).                      *)
(*                                                                         *)
(* The KV cache is the variable kv.  The key and value of a token depend   *)
(* on all the tokens up to it, so a slot is described by the prefix whose  *)
(* last token's K/V it holds.  Slots whose content nobody may rely on hold *)
(* NoKV: the ones never written since their block was handed out, and the  *)
(* ones written from a context that was itself wrong.                      *)
(***************************************************************************)
EXTENDS Scheduler

VARIABLES
    kv,
    interrupted,  (* history: the requests in running whose model run has   *)
                  (* raised, neither aborted nor preempted since            *)
    resumed       (* history: whether one of them was decoded nevertheless  *)

vars == <<schedVars, kv, interrupted, resumed>>

NoKV == << >>

Init ==
    /\ InitScheduler
    /\ kv = [ b \in Block |-> [ o \in 0..BlockSize - 1 |-> NoKV ] ]
    /\ interrupted = {} /\ resumed = FALSE

(* The physical place of token p (from 0) of sequence s, via block_table.  *)
BlockAt(s, p) == table[s][p \div BlockSize + 1]
Holds(s, p)   == kv[BlockAt(s, p)][p % BlockSize] = SubSeq(tokens[s], 1, p + 1)

(* The first n tokens of s are in the cache, where block_table says.       *)
Computed(s, n) ==
    \A p \in 0..n - 1 : p \div BlockSize < Len(table[s]) /\ Holds(s, p)

-----------------------------------------------------------------------------
(* prepare_prefill: compute tokens start..end-1, attend to 0..end-1.       *)
BugPrefillStart(s) == 0
PrefillStart(s)    == ncached[s]

PrefillWrites(s) ==
    { [block  |-> BlockAt(s, p), offset |-> p % BlockSize,
       prefix |-> IF Computed(s, PrefillStart(s))
                  THEN SubSeq(tokens[s], 1, p + 1) ELSE NoKV] :
      p \in PrefillStart(s)..PrefillStart(s) + nsched[s] - 1 }

(* prepare_decode: compute the last token into the last block, attend to   *)
(* every token of the sequence.                                            *)
DecodeOffset(s) == NumTokens(s) - (NumBlocksOf(s) - 1) * BlockSize - 1

DecodeWrites(s) ==
    { [block  |-> Last(table[s]), offset |-> DecodeOffset(s),
       prefix |-> IF Computed(s, NumTokens(s) - 1) THEN tokens[s] ELSE NoKV] }

Writes ==
    UNION { IF phase = "runPrefill" THEN PrefillWrites(s) ELSE DecodeWrites(s) :
            s \in Range(batch) }

WritesTo(b, o) == { w \in Writes : w.block = b /\ w.offset = o }

(* Two sequences that store into one slot leave it to chance: NoKV.        *)
Stored(b, o) ==
    LET prefixes == { w.prefix : w \in WritesTo(b, o) }
    IN  IF Cardinality(prefixes) = 1 THEN CHOOSE x \in prefixes : TRUE ELSE NoKV

(* History: requests R had a run that raised.  One that was in a prompt's  *)
(* chunk still waits, and one that is preempted or aborted has given up    *)
(* its blocks; the others would go on as if the run had succeeded.         *)
Remember(R) ==
    /\ interrupted' = { s \in interrupted \cup R : status'[s] = "running" }
    /\ resumed' = (resumed \/ interrupted \cap Range(batch') # {})

Execute ==
    /\ Run /\ Remember({})
    /\ kv' = [ b \in Block |-> [ o \in 0..BlockSize - 1 |->
                 IF WritesTo(b, o) # {} THEN Stored(b, o) ELSE kv[b][o] ] ]

(* A run that raises may have stored any of the layers of its slots.       *)
ExecuteRaises ==
    /\ RunRaises /\ Remember(Range(batch))
    /\ kv' = [ b \in Block |-> [ o \in 0..BlockSize - 1 |->
                 IF WritesTo(b, o) # {} THEN NoKV ELSE kv[b][o] ] ]

(* Every other step leaves the cache alone; what an unhashed block holds   *)
(* stops counting when the block is freed or handed out.                   *)
CacheKept ==
    /\ Remember({})
    /\ kv' = [ b \in Block |->
                 IF bhash'[b] = NoHash /\ (ref[b] = 0 \/ ref'[b] = 0)
                 THEN [ o \in 0..BlockSize - 1 |-> NoKV ] ELSE kv[b] ]

(* What the engine does on its own once a client calls step().             *)
EngineStep ==
    \/ StartStep      /\ CacheKept
    \/ PrefillHead    /\ CacheKept
    \/ EndPrefill     /\ CacheKept
    \/ DecodeHead     /\ CacheKept
    \/ PreemptTail    /\ CacheKept
    \/ PreemptSelf    /\ CacheKept
    \/ ScheduleDecode /\ CacheKept
    \/ EndDecode      /\ CacheKept
    \/ Execute
    \/ PostChunk      /\ CacheKept
    \/ \E t \in Sampled : PostToken(t) /\ CacheKept

Next ==
    \/ EngineStep
    \/ ExecuteRaises
    \/ \E s \in SeqId, p \in Prompts : Add(s, p) /\ CacheKept
    \/ \E s \in SeqId : Abort(s) /\ CacheKept

Spec == Init /\ [][Next]_vars

-----------------------------------------------------------------------------
(* The types of what the program itself keeps.                             *)
EngineTypeOK ==
    /\ PoolTypeOK
    /\ waiting \in Seq(SeqId)
    /\ running \in Seq(SeqId)
    /\ status \in [SeqId -> {"new", "waiting", "running"} \cup Finished]
    /\ nprompt \in [SeqId -> Nat]
    /\ nsched  \in [SeqId -> Nat]
    /\ phase \in Phases
    /\ batch \in Seq(SeqId)
    /\ nbatched \in 0..MaxBatchedTokens
    /\ cur \in SeqId \cup {NoSeq}

(* Every variable keeps its type, and a batch never exceeds the budget of  *)
(* tokens whatever mixture of whole prompts and chunks it holds.           *)
TypeOK == EngineTypeOK /\ interrupted \subseteq SeqId /\ resumed \in BOOLEAN

(* Every live request is in exactly one place of the scheduler, once.      *)
Scheduled == IF phase \in {"decode", "append"} THEN batch ELSE << >>
Slot      == IF cur # NoSeq THEN <<cur>> ELSE << >>
Places    == waiting \o running \o Scheduled \o Slot
NoRequestLost ==
    /\ Injective(Places)
    /\ Range(Places) = { s \in SeqId : Live(s) }

(* The cached-token counter of a request never runs ahead of the cache:    *)
(* each token it covers is in the slot block_table names, computed from    *)
(* this very prefix - also when the block was shared, evicted and reused,  *)
(* or released by preemption in between.  It takes a request whose run has *)
(* raised and that is decoded as if it had not to undo this: step() itself *)
(* leaves such requests in running, with their cached tokens still right.  *)
CachedTokensComputed ==
    ~ resumed => \A s \in SeqId : Live(s) => Computed(s, ncached[s])

(* A run never stores into a block that another request references or that *)
(* the prefix index may hand to one.                                       *)
WritesExclusive ==
    phase \in {"runPrefill", "runDecode"} =>
        \A w \in Writes : ref[w.block] = 1 /\ bhash[w.block] = NoHash

(* schedule(): "reaching decode, at least one sequence gets scheduled".    *)
DecodeSchedulesSome == phase # "asserted"

(* Sequences already in the decode batch keep their blocks while later     *)
(* ones preempt to find theirs.                                            *)
ScheduledNotPreempted ==
    phase \in {"decode", "append", "runDecode"} =>
        \A s \in Range(batch) : status[s] = "running" /\ table[s] # << >>

(* Every submitted request finishes.                                       *)
EveryRequestFinishes ==
    \A s \in SeqId : status[s] = "waiting" ~> status[s] \in Finished

-----------------------------------------------------------------------------
(* The inductive invariant behind the structural properties above.         *)

(* A block table covers the tokens of its request: all of them while it    *)
(* waits with half a prompt, all but possibly the last while it runs.      *)
TablesCover ==
    /\ \A s \in SeqId :
         /\ Live(s) => NumTokens(s) > 0
         /\ table[s] # << >> =>
              /\ Live(s)
              /\ ncached[s] < NumTokens(s)
              /\ NumTokens(s) - 1 <= Len(table[s]) * BlockSize
    /\ \A s \in Range(waiting) :
         table[s] # << >> => NumTokens(s) <= Len(table[s]) * BlockSize
    /\ \A s \in Range(running) : table[s] # << >>
    /\ cur # NoSeq => table[cur] # << >>

(* The batch: its requests are distinct, their tables cover what is        *)
(* scheduled, and one that still waits is a prompt that stays incomplete.  *)
PrefillPhases == {"prefill", "runPrefill", "postPrefill"}
RunPhases     == {"runPrefill", "runDecode", "postPrefill", "postDecode"}
BatchCovered ==
    /\ Injective(batch)
    /\ phase \in RunPhases => batch # << >>
    /\ phase \in {"idle", "asserted"} => batch = << >>
    /\ cur # NoSeq <=> phase = "append"
    /\ \A s \in Range(batch) :
         /\ table[s] # << >>
         /\ NumTokens(s) <= Len(table[s]) * BlockSize
         /\ ncached[s] + nsched[s] <= NumTokens(s)
    /\ phase \in PrefillPhases \cup RunPhases =>
         \A s \in Range(batch) :
            \/ s \in Range(running)
            \/ /\ s \in Range(waiting)
               /\ phase \in PrefillPhases
               /\ ncached[s] + nsched[s] < NumTokens(s)
    /\ phase = "prefill" /\ Range(batch) \cap Range(waiting) # {} => Remaining = 0

(* The inductive invariant.                                                *)
IInv ==
    /\ EngineTypeOK
    /\ PoolInv
    /\ NoRequestLost
    /\ TablesCover
    /\ BatchCovered

-----------------------------------------------------------------------------
(* The blocks, their owners and what they hold behave as the abstract pool *)
(* of BlockPool promises: no block changes content under an owner.         *)
Pool == INSTANCE BlockPool WITH
            Request <- SeqId,
            NoContent <- NoHash,
            owners  <- [ b \in Block |-> Owners(b) ],
            content <- bhash
(* Every step of the engine is a step of the abstract pool or leaves it.   *)
ImplementsPool == Pool!Spec
=============================================================================
