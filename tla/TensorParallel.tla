--------------------------- MODULE TensorParallel ---------------------------
(***************************************************************************)
(* A model spread over the ranks: every rank loads its shards of the same  *)
(* checkpoint, and executes the calls rank 0 broadcasts; rank 0 has the    *)
(* logits.  Sums over ranks (all_reduce) are kept as the terms they add    *)
(* and how often, one decoder layer at a time: the layers' inputs are the  *)
(* same on every rank once the sums before them are.                       *)
(***************************************************************************)
EXTENDS RankBroadcast, WeightLoading

CONSTANTS
    Sources,        (* the loads to try: [model, tp, checkpoint]            *)
    Inputs          (* per call: the tokens of its sequences, and whether   *)
                    (* it is a prefill                                      *)

ASSUME RanksAssumption == IsFiniteSet(Rank) /\ Rank = 1..Cardinality(Rank)

(* The weights of a checkpoint have names the model or its loader knows;   *)
(* one that ties the head to the embedding in the qwen3 way does not give  *)
(* them different values.  A checkpoint's value is a tensor, never None.   *)
ASSUME SourcesAssumption ==
    \A s \in Sources :
        /\ s.model \in Models /\ s.tp \in Nat \ {0}
        /\ s.checkpoint \in Seq([name : LanguageNames \cup {"lm_head", "visual"}, value : STRING])
        /\ \A i \in DOMAIN s.checkpoint : s.checkpoint[i].value # NotLoaded
        /\ s.model = [family |-> "qwen3", tied |-> TRUE] =>
              \A i, j \in DOMAIN s.checkpoint :
                 {s.checkpoint[i].name, s.checkpoint[j].name} \subseteq {"embed_tokens", "lm_head"}
                   => s.checkpoint[i].value = s.checkpoint[j].value

(* Every call but exit has its sequences of known tokens, one token each   *)
(* when it decodes; only a run uses them.                                  *)
ASSUME InputsAssumption ==
    /\ Len(Inputs) >= MaxCalls - 1
    /\ Inputs \in Seq([isPrefill : BOOLEAN, sequences : Seq(Seq(0..Vocab - 1) \ {<< >>})])
    /\ \A n \in DOMAIN Inputs : ~ Inputs[n].isPrefill =>
          \A i \in DOMAIN Inputs[n].sequences : Len(Inputs[n].sequences[i]) = 1

VARIABLES
    source,         (* what is being loaded                                 *)
    weights,        (* what load_model made of it on each rank              *)
    output          (* what rank 0 got from its last run                    *)

TP    == Cardinality(Rank) + 1
Ranks == 0..TP - 1

Param(r, p) == weights[r].data[Storage(source.model, p)]

-----------------------------------------------------------------------------
(* The layers on one rank, for one token.                                  *)

(* VocabParallelEmbedding.forward.                                         *)
Embedded(r, token) ==
    LET start == r * (Vocab \div TP)
        mask  == token \in start..start + Vocab \div TP - 1
    IN  IF mask THEN { Param(r, "embed_tokens")[token - start + 1] } ELSE {}

(* Qwen3Attention: qkv.split, and the head of keys and values each head of *)
(* queries attends with (the attention kernel's, external); o_proj.        *)
Split(r) ==
    LET qSize  == (Heads \div TP) * HeadDim
        kvSize == (KVHeads \div TP) * HeadDim
        qkv    == Param(r, "qkv_proj")
    IN  [q |-> Narrow(qkv, 0, qSize), k |-> Narrow(qkv, qSize, kvSize),
         v |-> Narrow(qkv, qSize + kvSize, kvSize)]

HeadOf(t, h) == Narrow(t, h * HeadDim, HeadDim)

Attended(r) ==
    LET s == Split(r)
        column == Param(r, "o_proj")
    IN  { LET g == h \div ((Heads \div TP) \div (KVHeads \div TP))
          IN  <<column[h * HeadDim + d], HeadOf(s.q, h), HeadOf(s.k, g), HeadOf(s.v, g)[d]>>
          : h \in 0..Heads \div TP - 1, d \in 1..HeadDim }

(* Qwen3MLP: SiluAndMul's chunk(2); down_proj.                             *)
Activated(r) ==
    LET gateUp == Param(r, "gate_up_proj")
        gate   == Chunk(gateUp, 2, 0)
        up     == Chunk(gateUp, 2, 1)
    IN  { <<Param(r, "down_proj")[i], gate[i], up[i]>> : i \in DOMAIN gate }

(* all_reduce of the parts of all ranks, and gather with cat.              *)
Reduced(part) ==
    LET terms == UNION { part[r] : r \in Ranks }
    IN  [ t \in terms |-> Cardinality({ r \in Ranks : t \in part[r] }) ]
Once(terms) == [ t \in terms |-> 1 ]

Gathered == SE!FlattenSeq([ k \in 1..TP |-> Param(k - 1, "lm_head") ])

(* ParallelLMHead.forward: in a prefill, the last row of each sequence.    *)
Rows(n)      == SE!FlattenSeq(Inputs[n].sequences)
CuSeqlens(n) ==
    LET ss      == Inputs[n].sequences
        lengths == [ s \in Range(ss) |-> Len(s) ]
    IN  [ i \in 1..Len(ss) + 1 |-> Total(lengths, ss, 1..i - 1) ]
Sampled(n) ==
    IF Inputs[n].isPrefill THEN [ i \in DOMAIN Inputs[n].sequences |-> CuSeqlens(n)[i + 1] ]
    ELSE [ i \in DOMAIN Rows(n) |-> i ]

(* A run at rank 0, the other ranks running the calls they have read.      *)
IsRun(n)    == calls[n] \in Collective
NoToken     == -1
Token(r, i) ==
    LET n == IF r = 0 THEN Current ELSE got[r]
    IN  IF n \in DOMAIN Inputs /\ i \in DOMAIN Sampled(n) THEN Rows(n)[Sampled(n)[i]] ELSE NoToken
RunOutput ==
    [ i \in DOMAIN Sampled(Current) |->
        [embedded  |-> Reduced([ r \in Ranks |-> Embedded(r, Token(r, i)) ]),
         attended  |-> Reduced([ r \in Ranks |-> Attended(r) ]),
         activated |-> Reduced([ r \in Ranks |-> Activated(r) ]),
         logits    |-> Gathered] ]

-----------------------------------------------------------------------------
tpVars == <<vars, source, weights, output>>

TPInit ==
    /\ Init
    /\ source \in Sources
    /\ weights = [ r \in 0..source.tp - 1 |->
                    LoadOn(source.model, source.tp, r, source.checkpoint) ]
    /\ output = << >>

(* Only ranks that have loaded their weights reach the barrier.            *)
Accepted ==
    /\ Constructible(source.model, source.tp) /\ Audited(source.model, source.checkpoint)
    /\ \A r \in DOMAIN weights : Complete(source.model, weights[r])
Started  == source.tp = TP /\ Accepted

TPNext ==
    /\ Next
    /\ Started
    /\ output' = IF ExecuteLocal /\ IsRun(Current) THEN RunOutput ELSE output
    /\ UNCHANGED <<source, weights>>

(* Every process runs on, but rank 0 need not make calls.                  *)
TPSpec == TPInit /\ [][TPNext]_tpVars /\ WF_vars(Driver) /\ \A r \in Rank : WF_vars(Loop(r))

-----------------------------------------------------------------------------
(* Properties.                                                             *)

Named(name) == { i \in DOMAIN source.checkpoint : source.checkpoint[i].name = name }
Value(name) == source.checkpoint[CHOOSE i \in Named(name) : TRUE].value
Slices(name) == { <<Value(name), i>> : i \in 1..FullSize(name) }

(* A checkpoint is accepted only if it fills every parameter of every rank *)
(* with its own slices, and so that no slice of a weight is left out: none *)
(* forgotten, none given twice with two values, whatever the files' order. *)
LoadsWhole ==
    Accepted =>
        /\ \A r \in DOMAIN weights : \A p \in DOMAIN weights[r].data :
             \A i \in DOMAIN weights[r].data[p] : weights[r].data[p][i] # Uninitialized
        /\ \A name \in LanguageNames \cup {"lm_head"} :
             Named(name) # {} /\ Included(source.model, name) =>
                 /\ \A i \in Named(name) : source.checkpoint[i].value = Value(name)
                 /\ Slices(name) \subseteq
                      UNION { Range(weights[r].data[p]) :
                                r \in DOMAIN weights, p \in DOMAIN weights[0].data }

(* What rank 0 samples from is what one process with the whole weights     *)
(* computes for the last token of each sequence of this very call: the     *)
(* ranks' embeddings, heads and neurons add up to all of them, each once,  *)
(* every head of queries meets its own keys and values, and the logits are *)
(* in the order of the vocabulary.  It is about every run before a call is *)
(* lost, the ranks being early or late with the releases between the runs. *)
LastTokens(n) == [ i \in DOMAIN Inputs[n].sequences |-> Last(Inputs[n].sequences[i]) ]
Whole(name)   == [ i \in 1..FullSize(name) |-> <<Value(name), i>> ]
AllHeads      == { LET g == h \div (Heads \div KVHeads)
                   IN  <<Whole("o_proj")[h * HeadDim + d], HeadOf(Whole("q_proj"), h),
                         HeadOf(Whole("k_proj"), g), HeadOf(Whole("v_proj"), g)[d]>>
                   : h \in 0..Heads - 1, d \in 1..HeadDim }
AllNeurons    == { <<Whole("down_proj")[i], Whole("gate_proj")[i], Whole("up_proj")[i]>>
                   : i \in 1..Inner }
Unsharded(token) ==
    [embedded |-> Once({ <<Value("embed_tokens"), token + 1>> }), attended |-> Once(AllHeads),
     activated |-> Once(AllNeurons), logits |-> Whole("lm_head")]

RunsAsUnsharded ==
    overrun = 0 /\ pc = "idle" /\ calls # << >> /\ IsRun(Current) =>
        output = [ i \in DOMAIN LastTokens(Current) |-> Unsharded(LastTokens(Current)[i]) ]
=============================================================================
