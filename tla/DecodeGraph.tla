----------------------------- MODULE DecodeGraph -----------------------------
(***************************************************************************)
(* Decoding with CUDA graphs (capture_cudagraph and run_model in           *)
(* nanovllm/engine/model_runner.py).  A graph is captured for some batch   *)
(* sizes over buffers that all of them share; a decode batch is written    *)
(* into the first rows and the smallest graph that holds it is replayed.   *)
(* Rows and columns that a batch does not reach keep what earlier batches  *)
(* have left there.                                                        *)
(***************************************************************************)
EXTENDS PagedAttention

CONSTANTS
    EnforceEager,    (* Config.enforce_eager                                *)
    SmallGraphs,     (* the batch sizes 1, 2, 4, 8 of capture_cudagraph     *)
    GraphStep,       (* 16, the distance of the larger ones                 *)
    MaxGraphBatch,   (* 512                                                 *)
    MaxModelLen      (* Config.max_model_len                                *)

ASSUME GraphAssumption ==
    /\ EnforceEager \in BOOLEAN
    /\ SmallGraphs \subseteq Nat \ {0}
    /\ GraphStep \in Nat \ {0} /\ MaxGraphBatch \in Nat \ {0} /\ MaxModelLen \in Nat \ {0}

VARIABLE graph    (* graph_vars: one record per row of the buffers          *)

graphVars == <<vars, graph>>

BufferRows    == Min2(MaxNumSeqs, MaxGraphBatch)
BufferColumns == (MaxModelLen + BlockSize - 1) \div BlockSize

(* graph_bs.  A graph may be larger than the buffers: slices end there.    *)
GraphSizes == SmallGraphs \cup { n \in GraphStep..BufferRows : n % GraphStep = 0 }
Fitting(n) == { g \in GraphSizes : g >= n }

Capture ==
    graph = [ r \in 1..BufferRows |->
                [id |-> 0, position |-> <<0, 0, 0>>, slot |-> 0, len |-> 0,
                 blocks |-> [ b \in 1..BufferColumns |-> 0 ]] ]

(* Batches that are not replayed.                                          *)
Eager == phase = "runPrefill" \/ EnforceEager \/ Len(batch) > MaxGraphBatch

(* next() finds no graph, or a table has more columns than the buffer:     *)
(* the run raises.                                                         *)
Replayable == Fitting(Len(batch)) # {} /\ TableWidth <= BufferColumns

(* What run_model makes of the buffers for the batch; rows it does not     *)
(* reach keep their ids, positions and blocks.                             *)
BugStaleRow(r) == graph[r]
StaleRow(r)    == [graph[r] EXCEPT !.slot = -1, !.len = 0]
LoadedRow(r) ==
    LET s == batch[r] IN
    [id |-> Last(tokens[s]).id, position |-> DecodePosition(s), slot |-> DecodeSlot(s),
     len |-> NumTokens(s),
     blocks |-> [ b \in 1..BufferColumns |->
                    IF b <= TableWidth THEN PaddedTable(s)[b] ELSE graph[r].blocks[b] ]]
Loaded ==
    [ r \in 1..BufferRows |-> IF r <= Len(batch) THEN LoadedRow(r) ELSE StaleRow(r) ]

-----------------------------------------------------------------------------
GraphInit == Init /\ Capture

Replay == phase = "runDecode" /\ ~ Eager /\ Replayable /\ Execute /\ graph' = Loaded

(* The other steps; a run that raises has loaded the batch or not.         *)
BuffersKept ==
    IF phase = "runDecode" /\ ~ Eager
    THEN phase' # "postDecode" /\ graph' \in {graph} \cup IF Replayable THEN {Loaded} ELSE {}
    ELSE UNCHANGED graph

GraphEngineStep == Replay \/ (EngineStep /\ BuffersKept)
GraphNext       == Replay \/ (Next /\ BuffersKept)

(* Whoever has submitted requests keeps calling step() until the scheduler *)
(* has none left; clients are free to come or not.                         *)
GraphSpec     == GraphInit /\ [][GraphNext]_graphVars
GraphFairSpec == GraphSpec /\ WF_graphVars(GraphEngineStep)

-----------------------------------------------------------------------------
(* What a replay of the graph does with the buffers, as far as its size.   *)
ReplayedRows == 1..Min2(SE!Min(Fitting(Len(batch))), BufferRows)
Key(row)     == IF row <= Len(batch) THEN PrefixOf(batch[row], NumTokens(batch[row]) - 1)
                ELSE NoKV
ReplayStore(backend, slots) ==
    StoredIn(backend, FlatCache, [ r \in ReplayedRows |-> Key(r) ], slots)

(* Replaying a graph is running the batch: one was captured that is large  *)
(* enough, its rows have the batch's tokens, positions and keys, and the   *)
(* rows that only pad it neither write to the cache nor read it, whatever  *)
(* earlier batches have left in the buffers - until a request whose run    *)
(* raised is decoded all the same.                                         *)
ReplayAsEager ==
    ~ resumed /\ phase = "runDecode" /\ ~ Eager =>
        /\ Replayable
        /\ LET rows  == Loaded
               slots == [ r \in ReplayedRows |-> rows[r].slot ]
           IN  /\ \A r \in 1..Len(batch) :
                    /\ rows[r].id = TokenOf(batch[r], NumTokens(batch[r]) - 1).id
                    /\ rows[r].position = Reference(batch[r])[NumTokens(batch[r]) - 1]
               /\ \A backend \in Backends : LET stored == ReplayStore(backend, slots) IN
                    /\ StoreInside(backend, slots)
                    /\ stored = AfterStore(backend)
                    /\ \A r \in ReplayedRows :
                         GatheredTokens(stored, rows[r].blocks, rows[r].len) =
                           IF r <= Len(batch) THEN Prefixes(batch[r], NumTokens(batch[r]))
                           ELSE << >>
=============================================================================
